---------------------------- MODULE SigningJobs ----------------------------
(***************************************************************************)
(* The life of a signing job: the submit handlers that insert its row and  *)
(* enqueue its envelope (internal/api/handlers/handlers.go), the workers   *)
(* that take the envelope, sign and record the outcome                     *)
(* (internal/worker/worker.go, internal/storage/store.go), and the process *)
(* instances that crash, start, and recover the processing list.           *)
(*                                                                         *)
(* One action per database or Redis call: between any two of them other    *)
(* workers, handlers and instances run, and the process may die.  A        *)
(* shutdown cancels the context every later call uses, so it is a crash.   *)
(*                                                                         *)
(* A job stands for its row; with an idempotency key the row can be        *)
(* submitted again, up to MaxSubmits times.  What is signed and sent is    *)
(* abstracted to how often (signatures) and which events (events).         *)
(*                                                                         *)
(* A call that fails may have been executed all the same, its answer lost. *)
(* Where the caller ignores the error that is the same as success;         *)
(* elsewhere it is a case of its own.                                      *)
(***************************************************************************)
EXTENDS QueueContract

CONSTANTS
    MaxRetries,      \* projects.max_retries
    DefaultRetries,  \* handleJobFailure's value when the project cannot be read
    MaxSubmits,      \* bound: submissions per job
    MaxCrashes,      \* bound: crashes of an instance or of a submit handler
    StoreErrors,     \* whether Postgres calls may fail
    RedisErrors,     \* whether Redis calls may fail
    LostReplies,     \* whether an RPC node's answer to a broadcast may be lost
    WebhookJobs      \* jobs of projects with a webhook URL

ASSUME RetriesAssumption == MaxRetries \in Nat /\ DefaultRetries \in Nat
ASSUME BoundsAssumption == MaxSubmits \in Nat /\ MaxCrashes \in Nat
ASSUME ErrorsAssumption ==
    StoreErrors \in BOOLEAN /\ RedisErrors \in BOOLEAN /\ LostReplies \in BOOLEAN

VARIABLES
    status, attempts, webhookStatus,  \* columns of signing_jobs
    submits, inflight,                \* handlers: calls so far, rows written and not yet enqueued
    stage,                            \* per instance: down, recovering, up
    pc, held, seen, outcome,          \* per worker: next call, qJob, dbJob's status and attempts, how it went
    signatures, events,               \* per job: signatures made, webhook events received
    crashes,                          \* crashes so far
    dropped,                          \* jobs whose Requeue died or failed after its LREM
    unqueued                          \* jobs whose handler died between the row and its envelope

rowVars == <<status, attempts, webhookStatus>>
workerVars == <<pc, held, seen, outcome>>
submitVars == <<submits, inflight>>
effectVars == <<signatures, events>>
faultVars == <<crashes, dropped, unqueued>>
vars == <<queueVars, rowVars, workerVars, submitVars, effectVars, faultVars, stage>>

Statuses == {"none", "pending", "processing", "completed", "failed", "dead"}
Final == {"completed", "dead"}
Events == {"completed", "failed", "dead"}
Outcomes == {"none", "signed", "signError", "lookupError", "delivered", "undelivered"}
Steps == {"idle", "fetch", "markProcessing", "sign", "markCompleted", "fail",
          "dlq", "ack", "requeue", "push", "notify", "markWebhook"}

RowTypeOK ==
    /\ status \in [Jobs -> Statuses]
    /\ attempts \in [Jobs -> Nat]
    /\ webhookStatus \in [Jobs -> {"pending", "delivered", "failed"}]

WorkerTypeOK ==
    /\ pc \in [Workers -> Steps]
    /\ held \in [Workers -> Jobs \cup {NoJob}]
    /\ seen \in [Workers -> [status : Statuses, attempts : Nat]]
    /\ outcome \in [Workers -> Outcomes]

TypeOK ==
    /\ QueueTypeOK
    /\ RowTypeOK
    /\ WorkerTypeOK
    /\ submits \in [Jobs -> Nat]
    /\ inflight \in [Jobs -> Nat]
    /\ stage \in [Instances -> {"down", "recovering", "up"}]
    /\ signatures \in [Jobs -> Nat]
    /\ events \in [Jobs -> SUBSET Events]
    /\ crashes \in Nat
    /\ dropped \in SUBSET Jobs
    /\ unqueued \in SUBSET Jobs

NothingSeen == [status |-> "none", attempts |-> 0]

Init ==
    /\ QueueInit
    /\ status = [j \in Jobs |-> "none"]
    /\ attempts = [j \in Jobs |-> 0]
    /\ webhookStatus = [j \in Jobs |-> "pending"]
    /\ submits = [j \in Jobs |-> 0]
    /\ inflight = [j \in Jobs |-> 0]
    /\ stage = [i \in Instances |-> "down"]
    /\ pc = [w \in Workers |-> "idle"]
    /\ held = [w \in Workers |-> NoJob]
    /\ seen = [w \in Workers |-> NothingSeen]
    /\ outcome = [w \in Workers |-> "none"]
    /\ signatures = [j \in Jobs |-> 0]
    /\ events = [j \in Jobs |-> {}]
    /\ crashes = 0
    /\ dropped = {}
    /\ unqueued = {}

InstanceOf(w) == w[1]
-----------------------------------------------------------------------------
\* submitJob: insert the row, then push its envelope.

\* Faulty variant of Submit: a default status the workers do not know.
SubmitAsQueued(j) ==
    /\ submits[j] < MaxSubmits
    /\ submits' = [submits EXCEPT ![j] = @ + 1]
    /\ status' = [status EXCEPT ![j] = "queued"]
    /\ inflight' = [inflight EXCEPT ![j] = @ + 1]
    /\ UNCHANGED <<attempts, webhookStatus, queueVars, workerVars, effectVars, faultVars, stage>>

\* CreateSigningJob: INSERT ... ON CONFLICT returns the row that is there.
\* A completed or processing row is answered without an envelope.
Submit(j) ==
    /\ submits[j] < MaxSubmits
    /\ submits' = [submits EXCEPT ![j] = @ + 1]
    /\ status' = [status EXCEPT ![j] = IF @ = "none" THEN "pending" ELSE @]
    /\ inflight' = [inflight EXCEPT ![j] =
                       IF status[j] \in {"completed", "processing"} THEN @ ELSE @ + 1]
    /\ UNCHANGED <<attempts, webhookStatus, queueVars, workerVars, effectVars, faultVars, stage>>

EnqueueSubmitted(j) ==
    /\ inflight[j] > 0
    /\ inflight' = [inflight EXCEPT ![j] = @ - 1]
    /\ Enqueue(j)
    /\ UNCHANGED <<submits, rowVars, workerVars, effectVars, faultVars, stage>>

\* The handler answers 500 (a Redis error, or a row it was not told of) or dies
\* with its process: the row stays, without an envelope.
SubmitDies(j) ==
    /\ inflight[j] > 0
    /\ \/ (RedisErrors \/ StoreErrors) /\ UNCHANGED crashes
       \/ crashes < MaxCrashes /\ crashes' = crashes + 1
    /\ inflight' = [inflight EXCEPT ![j] = @ - 1]
    /\ unqueued' = unqueued \cup {j}
    /\ UNCHANGED <<submits, dropped, queueVars, rowVars, workerVars, effectVars, stage>>
-----------------------------------------------------------------------------
\* Instances: worker.Start recovers the processing list, then runs the loops.

Start(i) ==
    /\ stage[i] = "down"
    /\ stage' = [stage EXCEPT ![i] = "recovering"]
    /\ RecoverScan(i)
    /\ UNCHANGED <<rowVars, workerVars, submitVars, effectVars, faultVars>>

\* LRANGE fails: the error is logged and the loops run all the same.
StartUnrecovered(i) ==
    /\ RedisErrors
    /\ stage[i] = "down"
    /\ stage' = [stage EXCEPT ![i] = "up"]
    /\ UNCHANGED <<queueVars, rowVars, workerVars, submitVars, effectVars, faultVars>>

Recover(i) ==
    /\ stage[i] = "recovering"
    /\ \/ \E j \in Jobs : RecoverItem(i, j)
       \/ RequeuePush(i)
    /\ UNCHANGED <<rowVars, workerVars, submitVars, effectVars, faultVars, stage>>

\* Requeue returns an error: the loop goes on with the next item.  A failed
\* RPUSH, and an LREM that only seemed to fail, have removed the envelope.
RecoverFails(i) ==
    /\ RedisErrors
    /\ stage[i] = "recovering"
    /\ \/ \E j \in Jobs :
            /\ moving[i] = NoJob
            /\ scan[i][j] > 0
            /\ scan' = [scan EXCEPT ![i][j] = @ - 1]
            /\ \/ UNCHANGED <<processing, dropped>>
               \/ RemoveProcessing(j) /\ dropped' = dropped \cup {j}
            /\ UNCHANGED moving
       \/ /\ moving[i] # NoJob
          /\ dropped' = dropped \cup {moving[i]}
          /\ moving' = [moving EXCEPT ![i] = NoJob]
          /\ UNCHANGED <<processing, scan>>
    /\ UNCHANGED <<queued, dlq, rowVars, workerVars, submitVars, effectVars, crashes, unqueued, stage>>

Recovered(i) ==
    /\ stage[i] = "recovering"
    /\ RecoverDone(i)
    /\ stage' = [stage EXCEPT ![i] = "up"]
    /\ UNCHANGED <<queueVars, rowVars, workerVars, submitVars, effectVars, faultVars>>

\* The process dies with everything its goroutines hold in memory.
Crash(i) ==
    LET dies(c) == c = i \/ (c \in Workers /\ InstanceOf(c) = i)
        Keep(f, v) == [w \in Workers |-> IF dies(w) THEN v ELSE f[w]]
    IN  /\ stage[i] # "down"
        /\ crashes < MaxCrashes
        /\ crashes' = crashes + 1
        /\ stage' = [stage EXCEPT ![i] = "down"]
        /\ dropped' = dropped \cup {j \in Jobs : \E c \in Callers : dies(c) /\ moving[c] = j}
        /\ moving' = [c \in Callers |-> IF dies(c) THEN NoJob ELSE moving[c]]
        /\ scan' = [scan EXCEPT ![i] = NoEnvelopes]
        /\ pc' = Keep(pc, "idle")
        /\ held' = Keep(held, NoJob)
        /\ seen' = Keep(seen, NothingSeen)
        /\ outcome' = Keep(outcome, "none")
        /\ UNCHANGED <<queued, processing, dlq, rowVars, submitVars, effectVars, unqueued>>
-----------------------------------------------------------------------------
\* Workers: loop and processJob.

Running(w, step) == stage[InstanceOf(w)] = "up" /\ pc[w] = step

Goto(w, step) == pc' = [pc EXCEPT ![w] = step]

\* processJob returns: the loop forgets the job.
Return(w) ==
    /\ Goto(w, "idle")
    /\ held' = [held EXCEPT ![w] = NoJob]
    /\ seen' = [seen EXCEPT ![w] = NothingSeen]
    /\ outcome' = [outcome EXCEPT ![w] = "none"]

\* After the queue call: dispatchWebhook if sign was reached, else return.
AfterQueue(w) ==
    \/ /\ outcome[w] \in {"signed", "signError"}
       /\ Goto(w, "notify")
       /\ UNCHANGED <<held, seen, outcome>>
    \/ /\ outcome[w] \notin {"signed", "signError"}
       /\ Return(w)

\* A database write whose error the caller ignores.
Write(column, new, j, v) ==
    \/ new = [column EXCEPT ![j] = v]
    \/ StoreErrors /\ new = column

Take(w, j) ==
    /\ Running(w, "idle")
    /\ Dequeue(j)
    /\ Goto(w, "fetch")
    /\ held' = [held EXCEPT ![w] = j]
    /\ UNCHANGED <<seen, outcome, rowVars, submitVars, effectVars, faultVars, stage>>

\* BRPOPLPUSH is executed and its answer lost: nobody has the envelope.
TakeLost(w, j) ==
    /\ RedisErrors
    /\ Running(w, "idle")
    /\ Dequeue(j)
    /\ UNCHANGED <<workerVars, rowVars, submitVars, effectVars, faultVars, stage>>

\* GetSigningJob fails: processJob returns, the envelope stays in processing.
FetchFails(w) ==
    /\ StoreErrors
    /\ Running(w, "fetch")
    /\ Return(w)
    /\ UNCHANGED <<queueVars, rowVars, submitVars, effectVars, faultVars, stage>>

\* Faulty variant of Done: only a dead row counts as done.
DoneOnlyWhenDead(j) == status[j] = "dead"

\* No row, or a row already completed or dead.
Done(j) == status[j] \in {"none", "completed", "dead"}

\* A row that is done: acknowledge and return.
FetchFinal(w) ==
    /\ Running(w, "fetch")
    /\ Done(held[w])
    /\ Goto(w, "ack")
    /\ UNCHANGED <<held, seen, outcome, queueVars, rowVars, submitVars, effectVars, faultVars, stage>>

\* dbJob is read here and used, stale, until processJob returns; then the
\* wallet and the project are looked up.
Fetch(w) ==
    /\ Running(w, "fetch")
    /\ ~Done(held[w])
    /\ seen' = [seen EXCEPT ![w] =
                   [status |-> status[held[w]], attempts |-> attempts[held[w]]]]
    /\ \/ Goto(w, "markProcessing") /\ UNCHANGED outcome
       \/ StoreErrors /\ Goto(w, "fail") /\ outcome' = [outcome EXCEPT ![w] = "lookupError"]
    /\ UNCHANGED <<held, queueVars, rowVars, submitVars, effectVars, faultVars, stage>>

\* Faulty variant of MarkJobProcessing: its error is ignored like the others.
MarkJobProcessingIgnored(w) ==
    /\ Running(w, "markProcessing")
    /\ Goto(w, "sign")
    /\ \/ /\ status' = [status EXCEPT ![held[w]] = "processing"]
          /\ attempts' = [attempts EXCEPT ![held[w]] = @ + 1]
       \/ StoreErrors /\ UNCHANGED <<status, attempts>>
    /\ UNCHANGED <<held, seen, outcome, webhookStatus, queueVars, submitVars, effectVars, faultVars, stage>>

\* An error of MarkJobProcessing returns without an acknowledgement.
MarkJobProcessing(w) ==
    /\ Running(w, "markProcessing")
    /\ \/ /\ status' = [status EXCEPT ![held[w]] = "processing"]
          /\ attempts' = [attempts EXCEPT ![held[w]] = @ + 1]
          /\ \/ Goto(w, "sign") /\ UNCHANGED <<held, seen, outcome>>
             \/ StoreErrors /\ Return(w)
       \/ /\ StoreErrors
          /\ Return(w)
          /\ UNCHANGED <<status, attempts>>
    /\ UNCHANGED <<webhookStatus, queueVars, submitVars, effectVars, faultVars, stage>>

\* Faulty variant of Sign: an error after the transaction went out (as when
\* MarkWalletSwept, after the broadcast, were allowed to fail the job).
SignThenError(w) ==
    /\ Running(w, "sign")
    /\ signatures' = [signatures EXCEPT ![held[w]] = @ + 1]
    /\ \/ outcome' = [outcome EXCEPT ![w] = "signed"] /\ Goto(w, "markCompleted")
       \/ outcome' = [outcome EXCEPT ![w] = "signError"] /\ Goto(w, "fail")
    /\ UNCHANGED <<held, seen, events, queueVars, rowVars, submitVars, faultVars, stage>>

\* sign: a signature exists (or a transaction is broadcast), or an error.  A
\* broadcast whose answer is lost is an error although the transaction is out.
Sign(w) ==
    /\ Running(w, "sign")
    /\ \/ /\ signatures' = [signatures EXCEPT ![held[w]] = @ + 1]
          /\ \/ outcome' = [outcome EXCEPT ![w] = "signed"] /\ Goto(w, "markCompleted")
             \/ LostReplies /\ outcome' = [outcome EXCEPT ![w] = "signError"] /\ Goto(w, "fail")
       \/ /\ outcome' = [outcome EXCEPT ![w] = "signError"]
          /\ Goto(w, "fail")
          /\ UNCHANGED signatures
    /\ UNCHANGED <<held, seen, events, queueVars, rowVars, submitVars, faultVars, stage>>

\* An error of MarkJobCompleted is logged; the acknowledgement follows anyway.
MarkJobCompleted(w) ==
    /\ Running(w, "markCompleted")
    /\ Write(status, status', held[w], "completed")
    /\ Goto(w, "ack")
    /\ UNCHANGED <<held, seen, outcome, attempts, webhookStatus, queueVars, submitVars,
                    effectVars, faultVars, stage>>

AcknowledgeJob(w) ==
    /\ Running(w, "ack")
    /\ \/ Acknowledge(held[w])
       \/ RedisErrors /\ UNCHANGED queueVars
    /\ AfterQueue(w)
    /\ UNCHANGED <<rowVars, submitVars, effectVars, faultVars, stage>>
-----------------------------------------------------------------------------
\* handleJobFailure.

\* The project is read again; its max_retries is compared with the attempts
\* read before MarkJobProcessing counted this one.
RetryLimits == {MaxRetries} \cup (IF StoreErrors THEN {DefaultRetries} ELSE {})

\* Faulty variant of Retriable: one retry more.
RetriableOnceMore(w, limit) == seen[w].attempts <= limit

Retriable(w, limit) == seen[w].attempts < limit

\* Faulty variant of MarkJobDead: the dead letter queue is skipped.
MarkJobDeadOnly(w) ==
    /\ Running(w, "fail")
    /\ \E limit \in RetryLimits : ~Retriable(w, limit)
    /\ Write(status, status', held[w], "dead")
    /\ Goto(w, "ack")
    /\ UNCHANGED <<held, seen, outcome, attempts, webhookStatus, queueVars, submitVars,
                    effectVars, faultVars, stage>>

MarkJobDead(w) ==
    /\ Running(w, "fail")
    /\ \E limit \in RetryLimits : ~Retriable(w, limit)
    /\ Write(status, status', held[w], "dead")
    /\ Goto(w, "dlq")
    /\ UNCHANGED <<held, seen, outcome, attempts, webhookStatus, queueVars, submitVars,
                    effectVars, faultVars, stage>>

MoveJobToDLQ(w) ==
    /\ Running(w, "dlq")
    /\ \/ MoveToDLQ(held[w])
       \/ RedisErrors /\ UNCHANGED queueVars
    /\ Goto(w, "ack")
    /\ UNCHANGED <<held, seen, outcome, rowVars, submitVars, effectVars, faultVars, stage>>

\* Faulty variant of MarkJobFailed: acknowledged instead of requeued.
MarkJobFailedOnly(w) ==
    /\ Running(w, "fail")
    /\ \E limit \in RetryLimits : Retriable(w, limit)
    /\ Write(status, status', held[w], "failed")
    /\ Goto(w, "ack")
    /\ UNCHANGED <<held, seen, outcome, attempts, webhookStatus, queueVars, submitVars,
                    effectVars, faultVars, stage>>

MarkJobFailed(w) ==
    /\ Running(w, "fail")
    /\ \E limit \in RetryLimits : Retriable(w, limit)
    /\ Write(status, status', held[w], "failed")
    /\ Goto(w, "requeue")
    /\ UNCHANGED <<held, seen, outcome, attempts, webhookStatus, queueVars, submitVars,
                    effectVars, faultVars, stage>>

\* A failed LREM skips the RPUSH: the envelope stays where it is, or is gone.
RequeueJob(w) ==
    /\ Running(w, "requeue")
    /\ \/ /\ RequeueRemove(w, held[w])
          /\ Goto(w, "push")
          /\ UNCHANGED <<held, seen, outcome, dropped>>
       \/ /\ RedisErrors
          /\ AfterQueue(w)
          /\ \/ UNCHANGED <<processing, dropped>>
             \/ RemoveProcessing(held[w]) /\ dropped' = dropped \cup {held[w]}
          /\ UNCHANGED <<queued, dlq, moving, scan>>
    /\ UNCHANGED <<rowVars, submitVars, effectVars, crashes, unqueued, stage>>

\* A failed RPUSH leaves the job without an envelope.
PushJob(w) ==
    /\ Running(w, "push")
    /\ \/ RequeuePush(w) /\ UNCHANGED dropped
       \/ /\ RedisErrors
          /\ moving' = [moving EXCEPT ![w] = NoJob]
          /\ dropped' = dropped \cup {held[w]}
          /\ UNCHANGED <<queued, processing, dlq, scan>>
    /\ AfterQueue(w)
    /\ UNCHANGED <<rowVars, submitVars, effectVars, crashes, unqueued, stage>>
-----------------------------------------------------------------------------
\* deliverWebhook.

\* Faulty variant of EventStatus: an error is not looked at.
EventStatusAlwaysCompleted(w) == "completed"

\* The event's status comes from the row as it was read, never as it is now.
EventStatus(w) ==
    CASE outcome[w] = "signed" -> "completed"
      [] outcome[w] = "signError" /\ seen[w].status = "dead" -> "dead"
      [] OTHER -> "failed"

\* Deliver succeeds; or every attempt fails (though the merchant may have
\* received one whose answer was lost), or the project has no URL.
Notify(w) ==
    /\ Running(w, "notify")
    /\ \/ /\ held[w] \in WebhookJobs
          /\ events' = [events EXCEPT ![held[w]] = @ \cup {EventStatus(w)}]
          /\ \E result \in {"delivered", "undelivered"} :
                outcome' = [outcome EXCEPT ![w] = result]
       \/ /\ outcome' = [outcome EXCEPT ![w] = "undelivered"]
          /\ UNCHANGED events
    /\ Goto(w, "markWebhook")
    /\ UNCHANGED <<held, seen, signatures, queueVars, rowVars, submitVars, faultVars, stage>>

MarkWebhook(w) ==
    /\ Running(w, "markWebhook")
    /\ Write(webhookStatus, webhookStatus', held[w],
             IF outcome[w] = "delivered" THEN "delivered" ELSE "failed")
    /\ Return(w)
    /\ UNCHANGED <<status, attempts, queueVars, submitVars, effectVars, faultVars, stage>>
-----------------------------------------------------------------------------
WorkerStep(w) ==
    \/ \E j \in Jobs : Take(w, j) \/ TakeLost(w, j)
    \/ FetchFails(w) \/ FetchFinal(w) \/ Fetch(w)
    \/ MarkJobProcessing(w) \/ Sign(w) \/ MarkJobCompleted(w) \/ AcknowledgeJob(w)
    \/ MarkJobDead(w) \/ MoveJobToDLQ(w)
    \/ MarkJobFailed(w) \/ RequeueJob(w) \/ PushJob(w)
    \/ Notify(w) \/ MarkWebhook(w)

InstanceStep(i) ==
    Start(i) \/ StartUnrecovered(i) \/ Recover(i) \/ RecoverFails(i) \/ Recovered(i)

Next ==
    \/ \E j \in Jobs : Submit(j) \/ EnqueueSubmitted(j) \/ SubmitDies(j)
    \/ \E i \in Instances : InstanceStep(i) \/ Crash(i)
    \/ \E w \in Workers : WorkerStep(w)

Spec == Init /\ [][Next]_vars

\* A handler that has its row runs on to Enqueue, an instance that is down is
\* started again by its supervisor, and goroutines are scheduled.  Nothing is
\* assumed of clients, of signing (it may fail every time) or of crashes.
FairSpec ==
    /\ Spec
    /\ \A j \in Jobs : WF_vars(EnqueueSubmitted(j))
    /\ \A i \in Instances : WF_vars(InstanceStep(i))
    /\ \A w \in Workers : WF_vars(WorkerStep(w))
-----------------------------------------------------------------------------
\* Properties.

\* w has taken an envelope of j and has not acknowledged or requeued it.
Holds(w, j) ==
    /\ held[w] = j
    /\ pc[w] \in {"fetch", "markProcessing", "sign", "markCompleted", "fail", "dlq", "ack", "requeue"}

\* w will still write a final status for j or put an envelope of j back.
Owes(w, j) ==
    /\ held[w] = j
    /\ pc[w] \in {"fetch", "markProcessing", "sign", "markCompleted", "fail", "requeue", "push"}

Unfinished(j) == status[j] \notin Final \cup {"none"}

\* Something will, or after a restart can, bring j further.
Tracked(j) ==
    \/ inflight[j] > 0
    \/ queued[j] > 0
    \/ processing[j] > 0
    \/ \E c \in Callers : moving[c] = j
    \/ \E w \in Workers : Owes(w, j)

\* With one instance and no resubmission no two workers ever hold the same job,
\* whatever crashes and whichever calls fail: Dequeue, Acknowledge, Requeue and
\* RecoverStalled together keep one envelope per job.
SingleHolder ==
    \A v, w \in Workers : \A j \in Jobs : Holds(v, j) /\ Holds(w, j) => v = w

\* The inductive invariant of one instance without resubmission, in its parts.

NoEnvelope(j) == inflight[j] = 0 /\ queued[j] = 0 /\ processing[j] = 0

\* A job has at most one envelope: about to be enqueued, queued, in the
\* processing list, or in the hands of one Requeue.
OneEnvelope ==
    \A j \in Jobs :
        /\ inflight[j] \in {0, 1} /\ queued[j] \in {0, 1} /\ processing[j] \in {0, 1}
        /\ inflight[j] = 1 => queued[j] = 0 /\ processing[j] = 0
        /\ queued[j] = 1 => processing[j] = 0
        /\ submits[j] = 0 => NoEnvelope(j)
        /\ \A c \in Callers : moving[c] = j =>
              /\ submits[j] > 0
              /\ NoEnvelope(j)
              /\ \A d \in Callers : moving[d] = j => d = c

\* Only workers between the two commands of Requeue have something moving.
Windows ==
    \A w \in Workers : (pc[w] = "push" /\ moving[w] = held[w]) \/ (pc[w] # "push" /\ moving[w] = NoJob)

\* A job in a worker's hands is in the processing list.
HeldIsProcessing == \A w \in Workers : \A j \in Jobs : Holds(w, j) => processing[j] = 1

\* No goroutine runs before recovery has ended, and what is left to recover
\* is in the processing list.
QuietRecovery ==
    \A i \in Instances :
        /\ stage[i] # "up" => \A w \in Workers : pc[w] = "idle"
        /\ stage[i] # "recovering" => RecoverDone(i)
        /\ \A j \in Jobs : scan[i][j] <= processing[j]

\* A worker about to write a status works on a row that is not done.
WritesUnfinished ==
    \A w \in Workers :
        pc[w] \in {"markProcessing", "sign", "markCompleted", "fail"} => Unfinished(held[w])

\* All of it: with one instance and no resubmission, after any crashes and
\* failed calls, the lists, the goroutines and the rows fit together.
SingleInv ==
    OneEnvelope /\ SingleHolder /\ Windows /\ HeldIsProcessing /\ QuietRecovery /\ WritesUnfinished
-----------------------------------------------------------------------------
\* "No job is lost" (ARCHITECTURE.md:128), where it is true: a job whose row
\* is not completed or dead has an envelope or a worker that answers for it,
\* except when a Requeue died or failed between its LREM and its RPUSH, or a
\* handler between CreateSigningJob and Enqueue.
NoJobForgotten == \A j \in Jobs : Unfinished(j) => Tracked(j) \/ j \in dropped \cup unqueued

\* With one instance, no resubmission and no failed call, every signature of a
\* job after its first is paid for by a crash between sign and MarkJobCompleted.
SignaturesBounded == \A j \in Jobs : signatures[j] <= 1 + crashes

\* "Guarantees each job processed exactly once" (ARCHITECTURE.md:126).
ExactlyOnce == \A j \in Jobs : signatures[j] <= 1

\* With one instance and no resubmission a row that was completed or dead stays
\* so: no worker with an older copy of the row overwrites it.
FinalIsFinal ==
    [][\A j \in Jobs : status[j] \in Final => status'[j] = status[j]]_vars

\* However calls fail and replies are lost, a job is signed at most as often as
\* its row counts attempts.
SignaturesCounted == \A j \in Jobs : signatures[j] <= attempts[j]

\* A job is tried max_retries + 1 times, and once more for every crash that
\* cut an attempt short: the stale attempts that handleJobFailure compares
\* never let a job go round again, and a retried broadcast sends no more
\* transactions than there were attempts.
AttemptsBounded ==
    /\ \A j \in Jobs : \E limit \in RetryLimits : attempts[j] <= limit + 1 + crashes
    /\ SignaturesCounted

\* The dead letter queue holds a job at most once and only when its row says
\* dead; and every dead job gets there unless a crash came in between.
DeadLetters ==
    \A j \in Jobs :
        /\ dlq[j] <= 1
        /\ dlq[j] = 1 => status[j] = "dead"
        /\ status[j] = "dead" /\ crashes = 0 =>
              dlq[j] = 1 \/ \E w \in Workers : held[w] = j /\ pc[w] = "dlq"

\* A "completed" webhook is only ever received for a job whose row is, and
\* stays, completed; and none ever says "dead", for deliverWebhook looks at the
\* row as it was before the attempt that killed the job.
WebhookTruthful ==
    \A j \in Jobs :
        /\ "completed" \in events[j] => status[j] = "completed" /\ signatures[j] > 0
        /\ "dead" \notin events[j]

\* Every job whose handler got as far as the row is completed or dead in the
\* end, however many envelopes it has and however often signing fails.
EveryJobEnds == \A j \in Jobs : inflight[j] > 0 ~> status[j] \in Final

\* "If worker crashes, job remains in processing queue for recovery"
\* (ARCHITECTURE.md:127): an envelope left in the processing list by a worker
\* that no longer holds it goes back to the main list (or was dropped there).
Stalled(j) == processing[j] > 0 /\ \A w \in Workers : ~Holds(w, j)
StalledRecovered == \A j \in Jobs : Stalled(j) ~> (queued[j] > 0 \/ j \in dropped)
=============================================================================
