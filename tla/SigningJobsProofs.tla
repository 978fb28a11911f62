------------------------- MODULE SigningJobsProofs -------------------------
(***************************************************************************)
(* Theorems about SigningJobs, for every set of jobs and instances, every  *)
(* concurrency, retry limit and bound.                                     *)
(***************************************************************************)
EXTENDS SigningJobs, FiniteSetTheorems, TLAPS

\* A worker outside its blocking Dequeue has an envelope in hand.
HeldInv == \A w \in Workers : pc[w] # "idle" => held[w] \in Jobs

LEMMA InitTyped == Init => TypeOK /\ HeldInv
  BY ConcurrencyAssumption
     DEF Init, QueueInit, TypeOK, QueueTypeOK, RowTypeOK, WorkerTypeOK, HeldInv, NothingSeen, NoEnvelopes,
         Statuses, Steps, Outcomes, Events

LEMMA SubmitTyped ==
  ASSUME NEW j \in Jobs, TypeOK, HeldInv,
         Submit(j) \/ EnqueueSubmitted(j) \/ SubmitDies(j)
  PROVE  TypeOK' /\ HeldInv'
<1> USE DEF TypeOK, QueueTypeOK, RowTypeOK, WorkerTypeOK, HeldInv, queueVars, rowVars, workerVars, submitVars,
            effectVars, faultVars
<1>1. CASE Submit(j)
  BY <1>1 DEF Submit, Statuses
<1>2. CASE EnqueueSubmitted(j)
  BY <1>2 DEF EnqueueSubmitted, Enqueue, PushMain
<1>3. CASE SubmitDies(j)
  BY <1>3 DEF SubmitDies
<1> QED BY <1>1, <1>2, <1>3

LEMMA InstanceTyped ==
  ASSUME NEW i \in Instances, TypeOK, HeldInv, InstanceStep(i) \/ Crash(i)
  PROVE  TypeOK' /\ HeldInv'
<1> USE DEF TypeOK, QueueTypeOK, RowTypeOK, WorkerTypeOK, HeldInv, queueVars, rowVars, workerVars, submitVars,
            effectVars, faultVars
<1>1. CASE Start(i)
  BY <1>1 DEF Start, RecoverScan
<1>2. CASE StartUnrecovered(i)
  BY <1>2 DEF StartUnrecovered
<1>3. CASE Recover(i)
  <2>1. CASE RequeuePush(i)
    BY <1>3, <2>1 DEF Recover, RequeuePush, PushMain, Callers
  <2>2. ASSUME NEW j \in Jobs, RecoverItem(i, j) PROVE TypeOK' /\ HeldInv'
    BY <1>3, <2>2 DEF Recover, RecoverItem, RemoveProcessing, Callers
  <2> QED BY <1>3, <2>1, <2>2 DEF Recover
<1>4. CASE RecoverFails(i)
  <2>1. CASE moving[i] # NoJob /\ dropped' = dropped \cup {moving[i]}
              /\ moving' = [moving EXCEPT ![i] = NoJob] /\ UNCHANGED <<processing, scan>>
    BY <1>4, <2>1 DEF RecoverFails, Callers
  <2>2. ASSUME NEW j \in Jobs, scan[i][j] > 0, scan' = [scan EXCEPT ![i][j] = @ - 1],
               \/ UNCHANGED <<processing, dropped>>
               \/ RemoveProcessing(j) /\ dropped' = dropped \cup {j},
               UNCHANGED moving
        PROVE  TypeOK' /\ HeldInv'
    <3>1. processing' \in [Jobs -> Nat] /\ dropped' \in SUBSET Jobs
      BY <2>2 DEF RemoveProcessing
    <3>2. scan' \in [Instances -> [Jobs -> Nat]]
      BY <2>2
    <3> QED BY <1>4, <2>2, <3>1, <3>2 DEF RecoverFails, Callers
  <2> QED BY <1>4, <2>1, <2>2 DEF RecoverFails
<1>5. CASE Recovered(i)
  BY <1>5 DEF Recovered
<1>6. CASE Crash(i)
  BY <1>6 DEF Crash, Callers, NoEnvelopes, NothingSeen, Steps, Outcomes, Statuses
<1> QED BY <1>1, <1>2, <1>3, <1>4, <1>5, <1>6 DEF InstanceStep

LEMMA ReturnTyped ==
  ASSUME NEW w \in Workers, WorkerTypeOK, HeldInv, Return(w)
  PROVE  WorkerTypeOK' /\ HeldInv'
  BY DEF WorkerTypeOK, HeldInv, Return, Goto, NothingSeen, Steps, Statuses, Outcomes

LEMMA GotoTyped ==
  ASSUME NEW w \in Workers, WorkerTypeOK, HeldInv, NEW s \in Steps, Goto(w, s),
         pc[w] # "idle", UNCHANGED <<held, seen>>, outcome' \in [Workers -> Outcomes]
  PROVE  WorkerTypeOK' /\ HeldInv'
  BY DEF WorkerTypeOK, HeldInv, Goto

LEMMA AfterQueueTyped ==
  ASSUME NEW w \in Workers, WorkerTypeOK, HeldInv, pc[w] # "idle", AfterQueue(w)
  PROVE  WorkerTypeOK' /\ HeldInv'
<1>1. CASE Return(w)
  BY <1>1, ReturnTyped
<1>2. CASE Goto(w, "notify") /\ UNCHANGED <<held, seen, outcome>>
  BY <1>2, GotoTyped DEF WorkerTypeOK, Steps
<1> QED BY <1>1, <1>2 DEF AfterQueue

\* TypeOK without the goroutines' own variables.
RestTypeOK ==
    /\ QueueTypeOK
    /\ RowTypeOK
    /\ submits \in [Jobs -> Nat]
    /\ inflight \in [Jobs -> Nat]
    /\ stage \in [Instances -> {"down", "recovering", "up"}]
    /\ signatures \in [Jobs -> Nat]
    /\ events \in [Jobs -> SUBSET Events]
    /\ crashes \in Nat
    /\ dropped \in SUBSET Jobs
    /\ unqueued \in SUBSET Jobs

LEMMA WorkerTyped ==
  ASSUME NEW w \in Workers, TypeOK, HeldInv, WorkerStep(w)
  PROVE  TypeOK' /\ HeldInv'
<1> RestTypeOK
  BY DEF TypeOK, RestTypeOK
<1> USE DEF RestTypeOK, QueueTypeOK, RowTypeOK, queueVars, rowVars, workerVars, submitVars,
            effectVars, faultVars, Running, Callers
<1>1. ASSUME NEW j \in Jobs, Take(w, j) PROVE TypeOK' /\ HeldInv'
  <2>1. WorkerTypeOK' /\ HeldInv'
    BY <1>1 DEF Take, WorkerTypeOK, HeldInv, Goto, Steps, TypeOK
  <2>2. RestTypeOK'
    BY <1>1 DEF Take, Dequeue
  <2> QED BY <2>1, <2>2 DEF TypeOK, RestTypeOK
<1>1a. ASSUME NEW j \in Jobs, TakeLost(w, j) PROVE TypeOK' /\ HeldInv'
  <2>1. WorkerTypeOK' /\ HeldInv'
    BY <1>1a DEF TakeLost, WorkerTypeOK, HeldInv, TypeOK
  <2>2. RestTypeOK'
    BY <1>1a DEF TakeLost, Dequeue
  <2> QED BY <2>1, <2>2 DEF TypeOK, RestTypeOK
<1>2. CASE FetchFails(w)
  <2>1. WorkerTypeOK' /\ HeldInv'
    BY <1>2, ReturnTyped DEF FetchFails, TypeOK
  <2>2. RestTypeOK'
    BY <1>2 DEF FetchFails
  <2> QED BY <2>1, <2>2 DEF TypeOK, RestTypeOK
<1>3. CASE FetchFinal(w)
  <2>1. WorkerTypeOK' /\ HeldInv'
    BY <1>3, GotoTyped DEF FetchFinal, Steps, Outcomes, WorkerTypeOK, TypeOK
  <2>2. RestTypeOK'
    BY <1>3 DEF FetchFinal
  <2> QED BY <2>1, <2>2 DEF TypeOK, RestTypeOK
<1>4. CASE Fetch(w)
  <2>1. WorkerTypeOK' /\ HeldInv'
    BY <1>4 DEF Fetch, WorkerTypeOK, HeldInv, Goto, Steps, Outcomes, TypeOK, RowTypeOK
  <2>2. RestTypeOK'
    BY <1>4 DEF Fetch
  <2> QED BY <2>1, <2>2 DEF TypeOK, RestTypeOK
<1>5. CASE MarkJobProcessing(w)
  <2>1. WorkerTypeOK' /\ HeldInv'
    <3>1. CASE Return(w)
      BY <3>1, ReturnTyped DEF TypeOK
    <3>2. CASE Goto(w, "sign") /\ UNCHANGED <<held, seen, outcome>>
      BY <1>5, <3>2, GotoTyped DEF MarkJobProcessing, Steps, WorkerTypeOK, TypeOK
    <3> QED BY <1>5, <3>1, <3>2 DEF MarkJobProcessing
  <2>2. RestTypeOK'
    <3>1. \/ UNCHANGED <<status, attempts>>
          \/ /\ status' = [status EXCEPT ![held[w]] = "processing"]
             /\ attempts' = [attempts EXCEPT ![held[w]] = @ + 1]
      BY <1>5 DEF MarkJobProcessing
    <3>2. status' \in [Jobs -> Statuses]
      BY <3>1 DEF Statuses
    <3>3. attempts' \in [Jobs -> Nat]
      BY <3>1
    <3> QED BY <1>5, <3>2, <3>3 DEF MarkJobProcessing
  <2> QED BY <2>1, <2>2 DEF TypeOK, RestTypeOK
<1>6. CASE Sign(w)
  <2>1. WorkerTypeOK' /\ HeldInv'
    <3>1. CASE outcome' = [outcome EXCEPT ![w] = "signed"] /\ Goto(w, "markCompleted")
      BY <1>6, <3>1, GotoTyped DEF Sign, Steps, Outcomes, WorkerTypeOK, TypeOK
    <3>2. CASE outcome' = [outcome EXCEPT ![w] = "signError"] /\ Goto(w, "fail")
      BY <1>6, <3>2, GotoTyped DEF Sign, Steps, Outcomes, WorkerTypeOK, TypeOK
    <3> QED BY <1>6, <3>1, <3>2 DEF Sign
  <2>2. RestTypeOK'
    <3>1. signatures' \in [Jobs -> Nat]
      <4>1. signatures' = signatures \/ signatures' = [signatures EXCEPT ![held[w]] = @ + 1]
        BY <1>6 DEF Sign
      <4> QED BY <4>1
    <3> QED BY <1>6, <3>1 DEF Sign
  <2> QED BY <2>1, <2>2 DEF TypeOK, RestTypeOK
<1>7. CASE MarkJobCompleted(w)
  <2>1. WorkerTypeOK' /\ HeldInv'
    BY <1>7, GotoTyped DEF MarkJobCompleted, Steps, Outcomes, WorkerTypeOK, TypeOK
  <2>2. RestTypeOK'
    BY <1>7 DEF MarkJobCompleted, Write, Statuses
  <2> QED BY <2>1, <2>2 DEF TypeOK, RestTypeOK
<1>8. CASE AcknowledgeJob(w)
  <2>1. WorkerTypeOK' /\ HeldInv'
    BY <1>8, AfterQueueTyped DEF AcknowledgeJob, TypeOK
  <2>2. RestTypeOK'
    BY <1>8 DEF AcknowledgeJob, Acknowledge, RemoveProcessing
  <2> QED BY <2>1, <2>2 DEF TypeOK, RestTypeOK
<1>9. CASE MarkJobDead(w)
  <2>1. WorkerTypeOK' /\ HeldInv'
    BY <1>9, GotoTyped DEF MarkJobDead, Steps, Outcomes, WorkerTypeOK, TypeOK
  <2>2. RestTypeOK'
    BY <1>9 DEF MarkJobDead, Write, Statuses
  <2> QED BY <2>1, <2>2 DEF TypeOK, RestTypeOK
<1>10. CASE MoveJobToDLQ(w)
  <2>1. WorkerTypeOK' /\ HeldInv'
    BY <1>10, GotoTyped DEF MoveJobToDLQ, Steps, Outcomes, WorkerTypeOK, TypeOK
  <2>2. RestTypeOK'
    BY <1>10 DEF MoveJobToDLQ, MoveToDLQ
  <2> QED BY <2>1, <2>2 DEF TypeOK, RestTypeOK
<1>11. CASE MarkJobFailed(w)
  <2>1. WorkerTypeOK' /\ HeldInv'
    BY <1>11, GotoTyped DEF MarkJobFailed, Steps, Outcomes, WorkerTypeOK, TypeOK
  <2>2. RestTypeOK'
    BY <1>11 DEF MarkJobFailed, Write, Statuses
  <2> QED BY <2>1, <2>2 DEF TypeOK, RestTypeOK
<1>12. CASE RequeueJob(w)
  <2>1. WorkerTypeOK' /\ HeldInv'
    <3>1. CASE AfterQueue(w)
      BY <1>12, <3>1, AfterQueueTyped DEF RequeueJob, TypeOK
    <3>2. CASE Goto(w, "push") /\ UNCHANGED <<held, seen, outcome>>
      BY <1>12, <3>2, GotoTyped DEF RequeueJob, Steps, WorkerTypeOK, TypeOK
    <3> QED BY <1>12, <3>1, <3>2 DEF RequeueJob
  <2>2. RestTypeOK'
    <3>1. CASE RequeueRemove(w, held[w]) /\ UNCHANGED dropped
      <4>1. held[w] \in Jobs
        BY <1>12 DEF RequeueJob, HeldInv
      <4>2. moving' \in [Callers -> Jobs \cup {NoJob}]
        BY <3>1, <4>1 DEF RequeueRemove
      <4>3. processing' \in [Jobs -> Nat]
        BY <3>1, <4>1 DEF RequeueRemove, RemoveProcessing
      <4>4. UNCHANGED <<rowVars, submitVars, effectVars, crashes, unqueued, stage>>
        BY <1>12 DEF RequeueJob
      <4> QED BY <3>1, <4>2, <4>3, <4>4 DEF RequeueRemove
    <3>2. CASE /\ \/ UNCHANGED <<processing, dropped>>
                  \/ RemoveProcessing(held[w]) /\ dropped' = dropped \cup {held[w]}
               /\ UNCHANGED <<queued, dlq, moving, scan>>
      <4>1. held[w] \in Jobs
        BY <1>12 DEF RequeueJob, HeldInv
      <4>2. processing' \in [Jobs -> Nat] /\ dropped' \in SUBSET Jobs
        BY <3>2, <4>1 DEF RemoveProcessing
      <4>3. UNCHANGED <<rowVars, submitVars, effectVars, crashes, unqueued, stage>>
        BY <1>12 DEF RequeueJob
      <4> QED BY <3>2, <4>2, <4>3
    <3> QED BY <1>12, <3>1, <3>2 DEF RequeueJob
  <2> QED BY <2>1, <2>2 DEF TypeOK, RestTypeOK
<1>13. CASE PushJob(w)
  <2>1. WorkerTypeOK' /\ HeldInv'
    BY <1>13, AfterQueueTyped DEF PushJob, TypeOK
  <2>2. RestTypeOK'
    <3>1. CASE RequeuePush(w) /\ UNCHANGED dropped
      BY <1>13, <3>1 DEF PushJob, RequeuePush, PushMain
    <3>2. CASE /\ moving' = [moving EXCEPT ![w] = NoJob]
               /\ dropped' = dropped \cup {held[w]}
               /\ UNCHANGED <<queued, processing, dlq, scan>>
      BY <1>13, <3>2 DEF PushJob, HeldInv
    <3> QED BY <1>13, <3>1, <3>2 DEF PushJob
  <2> QED BY <2>1, <2>2 DEF TypeOK, RestTypeOK
<1>14. CASE Notify(w)
  <2>1. outcome' \in [Workers -> Outcomes]
    <3>1. PICK o \in Outcomes : outcome' = [outcome EXCEPT ![w] = o]
      BY <1>14 DEF Notify, Outcomes
    <3> QED BY <3>1 DEF WorkerTypeOK, TypeOK
  <2>2. WorkerTypeOK' /\ HeldInv'
    BY <1>14, <2>1, GotoTyped DEF Notify, Steps, TypeOK
  <2>3. EventStatus(w) \in Events
    BY DEF EventStatus, Events
  <2>4. RestTypeOK'
    BY <1>14, <2>3 DEF Notify, HeldInv
  <2> QED BY <2>2, <2>4 DEF TypeOK, RestTypeOK
<1>15. CASE MarkWebhook(w)
  <2>1. WorkerTypeOK' /\ HeldInv'
    BY <1>15, ReturnTyped DEF MarkWebhook, TypeOK
  <2>2. RestTypeOK'
    BY <1>15 DEF MarkWebhook, Write
  <2> QED BY <2>1, <2>2 DEF TypeOK, RestTypeOK
<1> QED
  BY <1>1, <1>1a, <1>2, <1>3, <1>4, <1>5, <1>6, <1>7, <1>8, <1>9, <1>10, <1>11, <1>12, <1>13,
     <1>14, <1>15 DEF WorkerStep

LEMMA NextTyped == TypeOK /\ HeldInv /\ [Next]_vars => TypeOK' /\ HeldInv'
<1> SUFFICES ASSUME TypeOK, HeldInv, [Next]_vars PROVE TypeOK' /\ HeldInv'
  OBVIOUS
<1>1. CASE UNCHANGED vars
  BY <1>1 DEF TypeOK, QueueTypeOK, RowTypeOK, WorkerTypeOK, HeldInv, vars, queueVars, rowVars, workerVars, submitVars,
              effectVars, faultVars
<1> QED
  BY <1>1, SubmitTyped, InstanceTyped, WorkerTyped DEF Next

\* Every reachable state is well typed, and a worker that has left its Dequeue
\* works on a job: no step of a handler, worker or instance puts a value the
\* code does not know into a row, a list or a goroutine.
THEOREM TypeCorrect == Spec => [](TypeOK /\ HeldInv)
  BY InitTyped, NextTyped, PTL DEF Spec
-----------------------------------------------------------------------------
(***************************************************************************)
(* No job is forgotten while nothing fails, however many instances start   *)
(* beside each other and however often a job is resubmitted.  The          *)
(* processing list plays no part in the argument, since with several       *)
(* instances an acknowledgement may remove another worker's envelope: what *)
(* carries a job is an envelope on its way to or in the main list, or a    *)
(* worker that still owes it a status.                                     *)
(***************************************************************************)
FaultFree == ~StoreErrors /\ ~RedisErrors /\ MaxCrashes = 0

Carried(j) ==
    \/ inflight[j] > 0
    \/ queued[j] > 0
    \/ \E c \in Callers : moving[c] = j
    \/ \E w \in Workers : Owes(w, j)

CarriedInv == \A j \in Jobs : Unfinished(j) => Carried(j)

LEMMA CarriedSubmit ==
  ASSUME FaultFree, TypeOK, HeldInv, Windows, CarriedInv, NEW j \in Jobs,
         Submit(j) \/ EnqueueSubmitted(j) \/ SubmitDies(j)
  PROVE  Windows' /\ CarriedInv'
<1> USE DEF TypeOK, QueueTypeOK, RowTypeOK, Windows, CarriedInv, Carried, Unfinished, Owes,
            queueVars, rowVars, workerVars, effectVars, faultVars
<1>1. CASE Submit(j)
  BY <1>1 DEF Submit, Final
<1>2. CASE EnqueueSubmitted(j)
  BY <1>2 DEF EnqueueSubmitted, Enqueue, PushMain
<1>3. CASE SubmitDies(j)
  BY <1>3 DEF SubmitDies, FaultFree
<1> QED BY <1>1, <1>2, <1>3

LEMMA CarriedInstance ==
  ASSUME FaultFree, TypeOK, HeldInv, Windows, CarriedInv, NEW i \in Instances,
         InstanceStep(i) \/ Crash(i)
  PROVE  Windows' /\ CarriedInv'
<1> USE InstancesAssumption
    DEF TypeOK, QueueTypeOK, RowTypeOK, Windows, CarriedInv, Carried, Unfinished, Owes,
        queueVars, rowVars, workerVars, submitVars, effectVars, faultVars, Callers
<1>0. \A w \in Workers : w # i
  BY DEF Workers
<1>1. CASE Start(i)
  BY <1>1 DEF Start, RecoverScan
<1>2. CASE StartUnrecovered(i)
  BY <1>2 DEF StartUnrecovered, FaultFree
<1>3. CASE Recover(i)
  <2>1. CASE RequeuePush(i)
    BY <1>0, <1>3, <2>1 DEF Recover, RequeuePush, PushMain
  <2>2. ASSUME NEW j \in Jobs, RecoverItem(i, j) PROVE Windows' /\ CarriedInv'
    BY <1>0, <1>3, <2>2, NoJobAssumption DEF Recover, RecoverItem
  <2> QED BY <1>3, <2>1, <2>2 DEF Recover
<1>4. CASE RecoverFails(i)
  BY <1>4 DEF RecoverFails, FaultFree
<1>5. CASE Recovered(i)
  BY <1>5 DEF Recovered
<1>6. CASE Crash(i)
  BY <1>6 DEF Crash, FaultFree
<1> QED BY <1>1, <1>2, <1>3, <1>4, <1>5, <1>6 DEF InstanceStep

\* What a step of worker w leaves alone: other workers' program counters and
\* jobs, other callers' windows, the handlers and the instances.
Frame(w) ==
    /\ \A v \in Workers \ {w} : pc'[v] = pc[v] /\ held'[v] = held[v]
    /\ \A c \in Callers \ {w} : moving'[c] = moving[c]
    /\ UNCHANGED <<scan, submits, inflight, stage, crashes, unqueued>>

LEMMA WorkerFrame ==
  ASSUME TypeOK, NEW w \in Workers, WorkerStep(w)
  PROVE  Frame(w)
<1> USE DEF TypeOK, QueueTypeOK, WorkerTypeOK, Frame, queueVars, rowVars, workerVars,
            submitVars, effectVars, faultVars, Goto, Callers
<1>1. ASSUME NEW j \in Jobs, Take(w, j) PROVE Frame(w)
  BY <1>1 DEF Take, Dequeue
<1>1a. ASSUME NEW j \in Jobs, TakeLost(w, j) PROVE Frame(w)
  BY <1>1a DEF TakeLost, Dequeue
<1>2. CASE FetchFails(w)
  BY <1>2 DEF FetchFails, Return
<1>3. CASE FetchFinal(w)
  BY <1>3 DEF FetchFinal
<1>4. CASE Fetch(w)
  BY <1>4 DEF Fetch
<1>5. CASE MarkJobProcessing(w)
  BY <1>5 DEF MarkJobProcessing, Return
<1>6. CASE Sign(w)
  BY <1>6 DEF Sign
<1>7. CASE MarkJobCompleted(w)
  BY <1>7 DEF MarkJobCompleted
<1>8. CASE AcknowledgeJob(w)
  BY <1>8 DEF AcknowledgeJob, Acknowledge, AfterQueue, Return
<1>9. CASE MarkJobDead(w)
  BY <1>9 DEF MarkJobDead
<1>10. CASE MoveJobToDLQ(w)
  BY <1>10 DEF MoveJobToDLQ, MoveToDLQ
<1>11. CASE MarkJobFailed(w)
  BY <1>11 DEF MarkJobFailed
<1>12. CASE RequeueJob(w)
  BY <1>12 DEF RequeueJob, RequeueRemove, AfterQueue, Return
<1>13. CASE PushJob(w)
  BY <1>13 DEF PushJob, RequeuePush, AfterQueue, Return
<1>14. CASE Notify(w)
  BY <1>14 DEF Notify
<1>15. CASE MarkWebhook(w)
  BY <1>15 DEF MarkWebhook, Return
<1> QED
  BY <1>1, <1>1a, <1>2, <1>3, <1>4, <1>5, <1>6, <1>7, <1>8, <1>9, <1>10, <1>11, <1>12, <1>13, <1>14,
     <1>15 DEF WorkerStep

\* Of what w does to the job j it works on, only this matters to CarriedInv.
LEMMA CarriedStep ==
  ASSUME TypeOK, Windows, CarriedInv, NEW w \in Workers, Frame(w), NEW j \in Jobs,
         held[w] = j \/ pc[w] = "idle",
         \A k \in Jobs \ {j} : status'[k] = status[k] /\ queued'[k] = queued[k],
         Unfinished(j)' => queued'[j] > 0 \/ Owes(w, j)',
         \/ pc'[w] = "push" /\ moving'[w] = held'[w]
         \/ pc'[w] # "push" /\ moving'[w] = NoJob
  PROVE  Windows' /\ CarriedInv'
<1>1. Windows'
  BY DEF Windows, Frame, Callers
<1>2. ASSUME NEW k \in Jobs, Unfinished(k)' PROVE Carried(k)'
  <2>1. CASE k = j
    BY <1>2, <2>1 DEF Carried
  <2>2. CASE k # j
    <3>1. Carried(k)
      BY <1>2, <2>2 DEF CarriedInv, Unfinished
    <3>2. CASE inflight[k] > 0 \/ queued[k] > 0
      BY <2>2, <3>2 DEF Carried, Frame
    <3>3. ASSUME NEW c \in Callers, moving[c] = k PROVE Carried(k)'
      <4>1. c # w
        BY <2>2, <3>3, NoJobAssumption DEF Windows
      <4> QED BY <3>3, <4>1 DEF Frame, Carried
    <3>4. ASSUME NEW v \in Workers, Owes(v, k) PROVE Carried(k)'
      <4>1. v # w
        BY <2>2, <3>4 DEF Owes
      <4> QED BY <3>4, <4>1 DEF Owes, Frame, Carried
    <3> QED BY <3>1, <3>2, <3>3, <3>4 DEF Carried
  <2> QED BY <2>1, <2>2
<1> QED BY <1>1, <1>2 DEF CarriedInv

\* A worker past its last word on its job leaves the others to carry it.
LEMMA CarriedAside ==
  ASSUME TypeOK, Windows, CarriedInv, NEW w \in Workers, Frame(w),
         pc[w] \in {"dlq", "ack", "notify", "markWebhook"},
         UNCHANGED <<status, queued, moving>>, pc'[w] # "push"
  PROVE  Windows' /\ CarriedInv'
<1>1. Windows'
  BY DEF Windows, Frame, Callers
<1>2. ASSUME NEW k \in Jobs, Unfinished(k)' PROVE Carried(k)'
  <2>1. Carried(k)
    BY <1>2 DEF CarriedInv, Unfinished
  <2>2. \A v \in Workers : Owes(v, k) => Owes(v, k)'
    BY DEF Owes, Frame
  <2> QED BY <2>1, <2>2 DEF Carried, Frame
<1> QED BY <1>1, <1>2 DEF CarriedInv

LEMMA CarriedWorker ==
  ASSUME FaultFree, TypeOK, HeldInv, Windows, CarriedInv, NEW w \in Workers, WorkerStep(w)
  PROVE  Windows' /\ CarriedInv'
<1>f. Frame(w)
  BY WorkerFrame
<1>t. /\ pc[w] # "idle" => held[w] \in Jobs
      /\ (pc[w] = "push" /\ moving[w] = held[w]) \/ (pc[w] # "push" /\ moving[w] = NoJob)
  BY DEF HeldInv, Windows
<1> DEFINE j == held[w]
<1> USE DEF FaultFree, TypeOK, QueueTypeOK, RowTypeOK, WorkerTypeOK, Unfinished, Owes, queueVars,
            rowVars, workerVars, submitVars, effectVars, faultVars, Callers, Running, Goto, Final
<1>1. ASSUME NEW k \in Jobs, Take(w, k) PROVE Windows' /\ CarriedInv'
  BY <1>f, <1>t, <1>1, CarriedStep DEF Take, Dequeue
<1>1a. ASSUME NEW k \in Jobs, TakeLost(w, k) PROVE Windows' /\ CarriedInv'
  BY <1>1a DEF TakeLost
<1>2. CASE FetchFails(w)
  BY <1>f, <1>t, <1>2, CarriedStep DEF FetchFails
<1>3. CASE FetchFinal(w)
  BY <1>f, <1>t, <1>3, CarriedStep DEF FetchFinal, Done
<1>4. CASE Fetch(w)
  BY <1>f, <1>t, <1>4, CarriedStep DEF Fetch
<1>5. CASE MarkJobProcessing(w)
  <2>1. /\ status' = [status EXCEPT ![j] = "processing"] /\ Goto(w, "sign")
        /\ UNCHANGED <<held, queued, moving>> /\ j \in Jobs
    BY <1>t, <1>5 DEF MarkJobProcessing
  <2> QED BY <1>f, <1>t, <1>5, <2>1, CarriedStep DEF MarkJobProcessing
<1>6. CASE Sign(w)
  BY <1>f, <1>t, <1>6, CarriedStep DEF Sign
<1>7. CASE MarkJobCompleted(w)
  BY <1>f, <1>t, <1>7, CarriedStep DEF MarkJobCompleted, Write
<1>8. CASE AcknowledgeJob(w)
  BY <1>f, <1>t, <1>8, CarriedAside DEF AcknowledgeJob, Acknowledge, AfterQueue, Return
<1>9. CASE MarkJobDead(w)
  BY <1>f, <1>t, <1>9, CarriedStep DEF MarkJobDead, Write
<1>10. CASE MoveJobToDLQ(w)
  BY <1>f, <1>t, <1>10, CarriedAside DEF MoveJobToDLQ, MoveToDLQ
<1>11. CASE MarkJobFailed(w)
  BY <1>f, <1>t, <1>11, CarriedStep DEF MarkJobFailed, Write
<1>12. CASE RequeueJob(w)
  BY <1>f, <1>t, <1>12, CarriedStep DEF RequeueJob, RequeueRemove
<1>13. CASE PushJob(w)
  <2>1. /\ queued' = [queued EXCEPT ![j] = @ + 1] /\ j \in Jobs
        /\ moving' = [moving EXCEPT ![w] = NoJob] /\ UNCHANGED status
    BY <1>t, <1>13 DEF PushJob, RequeuePush, PushMain
  <2>2. pc'[w] # "push"
    BY <1>13 DEF PushJob, AfterQueue, Return
  <2> QED BY <1>f, <1>t, <1>13, <2>1, <2>2, CarriedStep DEF PushJob
<1>14. CASE Notify(w)
  BY <1>f, <1>t, <1>14, CarriedAside DEF Notify
<1>15. CASE MarkWebhook(w)
  BY <1>f, <1>t, <1>15, CarriedAside DEF MarkWebhook, Return
<1> QED
  BY <1>1, <1>1a, <1>2, <1>3, <1>4, <1>5, <1>6, <1>7, <1>8, <1>9, <1>10, <1>11, <1>12, <1>13, <1>14,
     <1>15 DEF WorkerStep

\* Without crashes and failed calls, a job whose row is not completed or dead
\* is never forgotten by submitJob, processJob, handleJobFailure, Requeue and
\* RecoverStalled, for any number of instances, workers and resubmissions.
THEOREM FaultFreeNoJobForgotten ==
  ASSUME FaultFree PROVE Spec => []NoJobForgotten
<1>1. Init => Windows /\ CarriedInv
  BY DEF Init, QueueInit, Windows, CarriedInv, Unfinished, Callers
<1>2. TypeOK /\ HeldInv /\ Windows /\ CarriedInv /\ [Next]_vars => Windows' /\ CarriedInv'
  <2> SUFFICES ASSUME TypeOK, HeldInv, Windows, CarriedInv, [Next]_vars
               PROVE  Windows' /\ CarriedInv'
    OBVIOUS
  <2>1. CASE UNCHANGED vars
    BY <2>1 DEF vars, queueVars, rowVars, workerVars, submitVars, Windows, CarriedInv, Carried,
                Unfinished, Owes
  <2> QED BY <2>1, FaultFree, CarriedSubmit, CarriedInstance, CarriedWorker DEF Next
<1>3. CarriedInv => NoJobForgotten
  BY DEF CarriedInv, NoJobForgotten, Carried, Tracked
<1> QED BY <1>1, <1>2, <1>3, TypeCorrect, PTL DEF Spec
-----------------------------------------------------------------------------
(***************************************************************************)
(* Every signature is counted, with any number of instances, resubmissions, *)
(* crashes and failed calls.  The count alone is not inductive: an attempt *)
(* is paid for by MarkJobProcessing and spent by sign, so the workers in   *)
(* between are counted with the signatures.                                *)
(***************************************************************************)
Signing(j) == {w \in Workers : held[w] = j /\ pc[w] = "sign"}

PaidInv ==
    \A j \in Jobs :
        IsFiniteSet(Signing(j)) /\ signatures[j] + Cardinality(Signing(j)) <= attempts[j]

LEMMA PaidInit == Init => PaidInv
<1> SUFFICES ASSUME Init, NEW j \in Jobs
             PROVE  IsFiniteSet(Signing(j)) /\ signatures[j] + Cardinality(Signing(j)) <= attempts[j]
  BY DEF PaidInv
<1>1. Signing(j) = {} /\ signatures[j] = 0 /\ attempts[j] = 0
  BY DEF Init, Signing
<1>2. IsFiniteSet(Signing(j)) /\ Cardinality(Signing(j)) = 0
  BY <1>1, FS_EmptySet
<1> QED BY <1>1, <1>2

\* Fewer workers are about to sign, and no counter of the row goes down.
LEMMA PaidFewer ==
  ASSUME TypeOK, TypeOK', PaidInv, NEW j \in Jobs, Signing(j)' \subseteq Signing(j),
         signatures'[j] = signatures[j], attempts'[j] >= attempts[j]
  PROVE  IsFiniteSet(Signing(j)') /\ signatures'[j] + Cardinality(Signing(j)') <= attempts'[j]
<1>1. IsFiniteSet(Signing(j)) /\ signatures[j] + Cardinality(Signing(j)) <= attempts[j]
  BY DEF PaidInv
<1>2. /\ IsFiniteSet(Signing(j)') /\ Cardinality(Signing(j)') <= Cardinality(Signing(j))
      /\ Cardinality(Signing(j)) \in Nat /\ Cardinality(Signing(j)') \in Nat
  BY <1>1, FS_Subset, FS_CardinalityType
<1>3. /\ signatures[j] \in Nat /\ attempts[j] \in Nat
      /\ signatures'[j] \in Nat /\ attempts'[j] \in Nat
  BY DEF TypeOK, RowTypeOK
<1> QED BY <1>1, <1>2, <1>3

LEMMA PaidWorker ==
  ASSUME TypeOK, TypeOK', HeldInv, PaidInv, NEW w \in Workers, WorkerStep(w)
  PROVE  PaidInv'
<1> USE DEF Running, Goto, workerVars, rowVars, effectVars
<1>f. Frame(w)
  BY WorkerFrame
<1>t. /\ pc \in [Workers -> Steps] /\ held \in [Workers -> Jobs \cup {NoJob}]
      /\ attempts \in [Jobs -> Nat] /\ signatures \in [Jobs -> Nat]
  BY DEF TypeOK, WorkerTypeOK, RowTypeOK
<1> SUFFICES ASSUME NEW j \in Jobs
             PROVE  /\ IsFiniteSet(Signing(j)')
                    /\ signatures'[j] + Cardinality(Signing(j)') <= attempts'[j]
  BY DEF PaidInv
<1> DEFINE S == Signing(j)
<1>p. /\ IsFiniteSet(S) /\ Cardinality(S) \in Nat
      /\ signatures[j] + Cardinality(S) <= attempts[j]
      /\ signatures[j] \in Nat /\ attempts[j] \in Nat
  BY <1>t, FS_CardinalityType DEF PaidInv
<1>1. ASSUME pc[w] # "sign", pc'[w] # "sign", UNCHANGED signatures, attempts'[j] >= attempts[j]
      PROVE  /\ IsFiniteSet(Signing(j)')
             /\ signatures'[j] + Cardinality(Signing(j)') <= attempts'[j]
  <2>1. Signing(j)' \subseteq Signing(j)
    BY <1>1, <1>f DEF Signing, Frame
  <2> QED BY <1>1, <2>1, PaidFewer
<1>2. CASE MarkJobProcessing(w)
  <2>1. held[w] \in Jobs /\ pc[w] = "markProcessing" /\ UNCHANGED signatures
    BY <1>2 DEF MarkJobProcessing, HeldInv
  <2>2. \/ UNCHANGED attempts
        \/ attempts' = [attempts EXCEPT ![held[w]] = @ + 1]
    BY <1>2 DEF MarkJobProcessing
  <2>3. attempts'[j] >= attempts[j]
    BY <1>t, <2>1, <2>2
  <2>4. CASE pc'[w] # "sign"
    BY <1>1, <2>1, <2>3, <2>4
  <2>5. CASE pc'[w] = "sign"
    <3>1. held' = held /\ attempts' = [attempts EXCEPT ![held[w]] = @ + 1]
      BY <1>2, <1>t, <2>5 DEF MarkJobProcessing, Return
    <3>2. CASE held[w] = j
      <4>1. Signing(j)' = S \cup {w} /\ w \notin S
        BY <1>f, <2>1, <2>5, <3>1, <3>2 DEF Signing, Frame
      <4>2. attempts'[j] = attempts[j] + 1 /\ signatures'[j] = signatures[j]
        BY <1>t, <2>1, <3>1, <3>2
      <4>3. IsFiniteSet(Signing(j)') /\ Cardinality(Signing(j)') = Cardinality(S) + 1
        BY <1>p, <4>1, FS_AddElement
      <4> HIDE DEF S
      <4> QED BY <1>p, <4>2, <4>3
    <3>3. CASE held[w] # j
      <4>1. Signing(j)' \subseteq Signing(j)
        BY <1>f, <3>1, <3>3 DEF Signing, Frame
      <4> QED BY <2>1, <2>3, <4>1, PaidFewer
    <3> QED BY <3>2, <3>3
  <2> QED BY <2>4, <2>5
<1>3. CASE Sign(w)
  <2>1. /\ held[w] \in Jobs /\ pc[w] = "sign" /\ pc'[w] # "sign" /\ UNCHANGED <<attempts, held>>
        /\ signatures' \in {signatures, [signatures EXCEPT ![held[w]] = @ + 1]}
    BY <1>3, <1>t DEF Sign, HeldInv
  <2>2. CASE held[w] = j
    <3>1. Signing(j)' = S \ {w} /\ w \in S
      BY <1>f, <2>1, <2>2 DEF Signing, Frame
    <3>2. signatures'[j] \in {signatures[j], signatures[j] + 1} /\ attempts'[j] = attempts[j]
      BY <1>t, <2>1, <2>2
    <3>3. IsFiniteSet(Signing(j)') /\ Cardinality(Signing(j)') = Cardinality(S) - 1
      BY <1>p, <3>1, FS_RemoveElement
    <3> HIDE DEF S
    <3> QED BY <1>p, <3>2, <3>3
  <2>3. CASE held[w] # j
    <3>1. Signing(j)' \subseteq Signing(j)
      BY <1>f, <2>1, <2>3 DEF Signing, Frame
    <3>2. signatures'[j] = signatures[j] /\ attempts'[j] >= attempts[j]
      BY <1>p, <1>t, <2>1, <2>3
    <3> QED BY <3>1, <3>2, PaidFewer
  <2> QED BY <2>2, <2>3
<1>4. ASSUME UNCHANGED <<signatures, attempts>>, pc[w] # "sign", pc'[w] # "sign"
      PROVE  /\ IsFiniteSet(Signing(j)')
             /\ signatures'[j] + Cardinality(Signing(j)') <= attempts'[j]
  BY <1>1, <1>4, <1>p
<1>5. ASSUME NEW k \in Jobs, Take(w, k) \/ TakeLost(w, k)
      PROVE  UNCHANGED <<signatures, attempts>> /\ pc[w] # "sign" /\ pc'[w] # "sign"
  BY <1>t, <1>5 DEF Take, TakeLost
<1>6. CASE FetchFails(w) \/ FetchFinal(w) \/ Fetch(w) \/ MarkJobCompleted(w) \/ MarkWebhook(w)
  BY <1>4, <1>6, <1>t DEF FetchFails, FetchFinal, Fetch, MarkJobCompleted, MarkWebhook, Return
<1>7. CASE MarkJobDead(w) \/ MoveJobToDLQ(w) \/ MarkJobFailed(w) \/ Notify(w)
  BY <1>4, <1>7, <1>t DEF MarkJobDead, MoveJobToDLQ, MarkJobFailed, Notify
<1>8. CASE AcknowledgeJob(w) \/ RequeueJob(w) \/ PushJob(w)
  BY <1>4, <1>8, <1>t DEF AcknowledgeJob, RequeueJob, PushJob, AfterQueue, Return
<1> QED BY <1>2, <1>3, <1>4, <1>5, <1>6, <1>7, <1>8 DEF WorkerStep

LEMMA PaidNext == TypeOK /\ TypeOK' /\ HeldInv /\ PaidInv /\ [Next]_vars => PaidInv'
<1> SUFFICES ASSUME TypeOK, TypeOK', HeldInv, PaidInv, [Next]_vars PROVE PaidInv'
  OBVIOUS
<1>t. attempts \in [Jobs -> Nat]
  BY DEF TypeOK, RowTypeOK
<1>1. ASSUME UNCHANGED <<signatures, attempts>>, \A j \in Jobs : Signing(j)' \subseteq Signing(j)
      PROVE  PaidInv'
  <2>1. \A j \in Jobs : signatures'[j] = signatures[j] /\ attempts'[j] >= attempts[j]
    BY <1>1, <1>t
  <2> QED BY <1>1, <2>1, PaidFewer DEF PaidInv
<1>2. ASSUME NEW i \in Instances, Crash(i) PROVE PaidInv'
  <2>1. /\ \A w \in Workers : pc'[w] = "sign" => pc[w] = "sign" /\ held'[w] = held[w]
        /\ UNCHANGED <<signatures, attempts>>
    BY <1>2 DEF Crash, rowVars, effectVars
  <2>2. \A j \in Jobs : Signing(j)' \subseteq Signing(j)
    BY <2>1 DEF Signing
  <2> QED BY <1>1, <2>1, <2>2
<1>3. ASSUME UNCHANGED <<signatures, attempts, pc, held>> PROVE PaidInv'
  BY <1>1, <1>3 DEF Signing
<1>4. ASSUME NEW i \in Instances, InstanceStep(i) PROVE UNCHANGED <<signatures, attempts, pc, held>>
  BY <1>4 DEF InstanceStep, Start, StartUnrecovered, Recover, RecoverFails, Recovered, rowVars,
              workerVars, effectVars
<1>5. ASSUME NEW j \in Jobs, Submit(j) \/ EnqueueSubmitted(j) \/ SubmitDies(j)
      PROVE  UNCHANGED <<signatures, attempts, pc, held>>
  BY <1>5 DEF Submit, EnqueueSubmitted, SubmitDies, rowVars, workerVars, effectVars
<1>6. CASE UNCHANGED vars
  BY <1>3, <1>6 DEF vars, rowVars, workerVars, effectVars
<1> QED BY <1>2, <1>3, <1>4, <1>5, <1>6, PaidWorker DEF Next

\* A job is never signed more often than its row counts attempts, whatever
\* fails, crashes or is resubmitted and however many instances share the queue:
\* an error of MarkJobProcessing ends processJob before sign.
THEOREM EverySignatureCounted == Spec => []SignaturesCounted
<1>1. TypeOK /\ PaidInv => SignaturesCounted
  <2> SUFFICES ASSUME TypeOK, PaidInv, NEW j \in Jobs PROVE signatures[j] <= attempts[j]
    BY DEF SignaturesCounted
  <2>1. /\ signatures[j] + Cardinality(Signing(j)) <= attempts[j]
        /\ Cardinality(Signing(j)) \in Nat
    BY FS_CardinalityType DEF PaidInv
  <2>2. signatures[j] \in Nat /\ attempts[j] \in Nat
    BY DEF TypeOK, RowTypeOK
  <2> QED BY <2>1, <2>2
<1> QED BY <1>1, PaidInit, PaidNext, TypeCorrect, PTL DEF Spec
-----------------------------------------------------------------------------
(***************************************************************************)
(* One instance whose jobs are not resubmitted, with any number of         *)
(* goroutines and any crashes and failed calls.  Everything rests on       *)
(* SingleInv: the envelope of a job is a token that the handler, the lists,*)
(* Requeue and RecoverStalled pass on without ever duplicating it, so only *)
(* the worker that holds it writes the row.                                *)
(***************************************************************************)

Single == (\E i : Instances = {i}) /\ MaxSubmits = 1

LEMMA WorkersOfInstance ==
  ASSUME NEW i, Instances = {i}, NEW w \in Workers
  PROVE  InstanceOf(w) = i /\ w # i /\ w \in Callers /\ i \in Callers
  BY InstancesAssumption DEF Workers, InstanceOf, Callers

LEMMA SingleInit == Init => SingleInv
<1> SUFFICES ASSUME Init PROVE SingleInv
  OBVIOUS
<1> USE DEF Init, QueueInit, NoEnvelopes, Callers
<1>0. /\ \A j \in Jobs : inflight[j] = 0 /\ queued[j] = 0 /\ processing[j] = 0
      /\ \A c \in Callers : moving[c] = NoJob
  OBVIOUS
<1>1. OneEnvelope
  <2> HIDE DEF Init, QueueInit, NoEnvelopes, Callers
  <2> QED BY <1>0, NoJobAssumption DEF OneEnvelope, NoEnvelope
<1>2. SingleHolder /\ HeldIsProcessing
  BY DEF SingleHolder, HeldIsProcessing, Holds
<1>3. Windows /\ WritesUnfinished
  BY DEF Windows, WritesUnfinished
<1>4. QuietRecovery
  BY DEF QuietRecovery, RecoverDone
<1> QED BY <1>1, <1>2, <1>3, <1>4 DEF SingleInv
-----------------------------------------------------------------------------
LEMMA SingleSubmit ==
  ASSUME Single, TypeOK, HeldInv, SingleInv, NEW j \in Jobs,
         Submit(j) \/ EnqueueSubmitted(j) \/ SubmitDies(j)
  PROVE  SingleInv'
<1> USE DEF TypeOK, QueueTypeOK, RowTypeOK, SingleInv, queueVars, rowVars, workerVars,
            effectVars, faultVars
<1>0. UNCHANGED <<processing, moving, scan, stage, pc, held>>
  BY DEF Submit, EnqueueSubmitted, Enqueue, SubmitDies
<1>1. OneEnvelope'
  <2>1. CASE Submit(j)
    <3>1. submits[j] = 0
      BY <2>1 DEF Submit, Single
    <3>2. NoEnvelope(j) /\ \A c \in Callers : moving[c] # j
      BY <3>1 DEF OneEnvelope
    <3>3. inflight[j] = 0
      BY <3>2 DEF NoEnvelope
    <3>4. /\ \A k \in Jobs \ {j} : inflight'[k] = inflight[k] /\ submits'[k] = submits[k]
          /\ submits'[j] = 1 /\ inflight'[j] \in {0, 1} /\ queued' = queued
      BY <2>1, <3>1, <3>3 DEF Submit
    <3> QED BY <1>0, <3>2, <3>4 DEF OneEnvelope, NoEnvelope
  <2>2. CASE EnqueueSubmitted(j)
    BY <1>0, <2>2 DEF EnqueueSubmitted, Enqueue, PushMain, OneEnvelope, NoEnvelope
  <2>3. CASE SubmitDies(j)
    BY <1>0, <2>3 DEF SubmitDies, OneEnvelope, NoEnvelope
  <2> QED BY <2>1, <2>2, <2>3
<1>2. Windows' /\ SingleHolder' /\ HeldIsProcessing' /\ QuietRecovery'
  BY <1>0 DEF Windows, SingleHolder, HeldIsProcessing, Holds, QuietRecovery, RecoverDone
<1>3. WritesUnfinished'
  <2>1. \A k \in Jobs : Unfinished(k) => Unfinished(k)'
    BY DEF Unfinished, Final, Submit, EnqueueSubmitted, SubmitDies
  <2> QED BY <1>0, <2>1 DEF WritesUnfinished, HeldInv, Unfinished
<1> QED BY <1>1, <1>2, <1>3
-----------------------------------------------------------------------------
LEMMA SingleInstanceStep ==
  ASSUME Single, TypeOK, SingleInv, NEW i \in Instances, InstanceStep(i)
  PROVE  SingleInv'
<1>0. Instances = {i}
  BY DEF Single
<1>a. \A w \in Workers : w # i /\ w \in Callers /\ InstanceOf(w) = i
  BY <1>0, WorkersOfInstance
<1>b. i \in Callers
  BY DEF Callers
<1>c. UNCHANGED <<status, pc, held, submits, inflight>>
  BY DEF InstanceStep, Start, StartUnrecovered, Recover, RecoverFails, Recovered, rowVars,
         workerVars, submitVars
<1>d. ASSUME stage[i] # "up"
      PROVE  /\ \A w \in Workers : pc[w] = "idle" /\ moving[w] = NoJob
             /\ \A j \in Jobs : scan[i][j] <= processing[j]
  BY <1>d DEF SingleInv, QuietRecovery, Windows
<1>e. stage[i] # "up"
  BY DEF InstanceStep, Start, StartUnrecovered, Recover, RecoverFails, Recovered
<1>f. SingleHolder' /\ HeldIsProcessing' /\ WritesUnfinished'
  BY <1>c, <1>d, <1>e DEF SingleHolder, HeldIsProcessing, WritesUnfinished, Holds
<1> USE DEF TypeOK, QueueTypeOK
<1>1. CASE Start(i) \/ StartUnrecovered(i) \/ Recovered(i)
  <2>1. UNCHANGED <<queued, processing, moving>>
    BY <1>1 DEF Start, RecoverScan, StartUnrecovered, Recovered, queueVars
  <2>2. OneEnvelope' /\ Windows'
    BY <1>c, <2>1 DEF SingleInv, OneEnvelope, NoEnvelope, Windows
  <2>3. QuietRecovery'
    BY <1>0, <1>1, <1>c, <1>d, <1>e, <2>1
       DEF SingleInv, QuietRecovery, RecoverDone, Start, RecoverScan, StartUnrecovered, Recovered,
           queueVars, NoEnvelopes
  <2> QED BY <1>f, <2>2, <2>3 DEF SingleInv
<1>2. ASSUME NEW j \in Jobs, RecoverItem(i, j), UNCHANGED stage PROVE SingleInv'
  <2>a. scan[i][j] \in Nat /\ scan[i][j] > 0 /\ scan[i][j] <= processing[j]
    BY <1>2, <1>d, <1>e DEF RecoverItem
  <2>b. scan[i][j] = 1 /\ processing[j] = 1 /\ inflight[j] = 0 /\ queued[j] = 0
    BY <2>a DEF SingleInv, OneEnvelope
  <2>1. processing[j] = 1 /\ submits[j] > 0 /\ \A c \in Callers : moving[c] # j
    BY <2>b DEF SingleInv, OneEnvelope, NoEnvelope
  <2>2. /\ processing' = [processing EXCEPT ![j] = 0] /\ queued' = queued
        /\ moving' = [moving EXCEPT ![i] = j] /\ moving[i] = NoJob
        /\ scan' = [scan EXCEPT ![i][j] = @ - 1]
    BY <1>2, <2>1 DEF RecoverItem, RemoveProcessing
  <2>3. OneEnvelope'
    BY <1>b, <1>c, <2>b, <2>1, <2>2, NoJobAssumption DEF SingleInv, OneEnvelope, NoEnvelope
  <2>4. Windows'
    BY <1>a, <1>c, <2>2 DEF SingleInv, Windows
  <2>5. QuietRecovery'
    <3>1. \A k \in Jobs : scan'[i][k] <= processing'[k]
      BY <1>d, <1>e, <2>b, <2>2
    <3>2. stage[i] = "recovering"
      BY <1>e, <2>a DEF SingleInv, QuietRecovery, RecoverDone, NoEnvelopes
    <3> QED BY <1>0, <1>2, <1>c, <1>d, <1>e, <3>1, <3>2 DEF QuietRecovery
  <2> QED BY <1>f, <2>3, <2>4, <2>5 DEF SingleInv
<1>3. ASSUME RequeuePush(i), UNCHANGED stage PROVE SingleInv'
  <2>1. PICK j \in Jobs : moving[i] = j
    BY <1>3, <1>b DEF RequeuePush
  <2>2. /\ NoEnvelope(j) /\ submits[j] > 0
        /\ \A c \in Callers \ {i} : moving[c] # j
    BY <2>1, <1>b DEF SingleInv, OneEnvelope
  <2>3. /\ queued' = [queued EXCEPT ![j] = @ + 1] /\ UNCHANGED <<processing, scan>>
        /\ moving' = [moving EXCEPT ![i] = NoJob]
    BY <1>3, <2>1 DEF RequeuePush, PushMain
  <2>4. OneEnvelope'
    BY <1>b, <1>c, <2>2, <2>3, NoJobAssumption DEF SingleInv, OneEnvelope, NoEnvelope
  <2>5. Windows'
    BY <1>a, <1>c, <2>3 DEF SingleInv, Windows
  <2>6. QuietRecovery'
    BY <1>0, <1>3, <1>b, <1>c, <1>d, <1>e, <2>3 DEF SingleInv, QuietRecovery, RecoverDone
  <2> QED BY <1>f, <2>4, <2>5, <2>6 DEF SingleInv
<1>4. CASE RecoverFails(i)
  <2>1. /\ UNCHANGED <<queued, stage>> /\ stage[i] = "recovering"
        /\ \A w \in Workers : moving'[w] = moving[w]
        /\ \A c \in Callers : moving'[c] \in {moving[c], NoJob}
    BY <1>4, <1>a, <1>b DEF RecoverFails
  <2>2. /\ \A j \in Jobs : processing'[j] \in {processing[j], 0}
        /\ \A j \in Jobs : scan'[i][j] <= processing'[j]
        /\ scan' \in [Instances -> [Jobs -> Nat]]
    <3>1. CASE UNCHANGED <<processing, scan>>
      BY <1>d, <1>e, <3>1
    <3>2. ASSUME NEW j \in Jobs, scan[i][j] > 0, scan' = [scan EXCEPT ![i][j] = @ - 1],
                 processing' = processing \/ RemoveProcessing(j)
          PROVE  <2>2!1 /\ <2>2!2 /\ <2>2!3
      <4>1. scan[i][j] = 1 /\ processing[j] = 1
        <5>1. scan[i][j] \in Nat /\ scan[i][j] <= processing[j] /\ processing[j] \in {0, 1}
          BY <1>d, <1>e DEF SingleInv, OneEnvelope
        <5> QED BY <3>2, <5>1
      <4>2. /\ scan' \in [Instances -> [Jobs -> Nat]] /\ scan'[i][j] = 0
            /\ \A k \in Jobs \ {j} : scan'[i][k] = scan[i][k]
        BY <3>2, <4>1
      <4>3. /\ processing'[j] \in {0, 1}
            /\ \A k \in Jobs \ {j} : processing'[k] = processing[k]
        BY <3>2, <4>1 DEF RemoveProcessing
      <4> QED BY <1>d, <1>e, <4>1, <4>2, <4>3
    <3> QED BY <1>4, <3>1, <3>2 DEF RecoverFails
  <2>3. OneEnvelope'
    BY <1>c, <2>1, <2>2, NoJobAssumption DEF SingleInv, OneEnvelope, NoEnvelope
  <2>4. Windows'
    BY <1>c, <2>1 DEF SingleInv, Windows
  <2>5. QuietRecovery'
    BY <1>0, <1>c, <1>d, <1>e, <2>1, <2>2 DEF SingleInv, QuietRecovery
  <2> QED BY <1>f, <2>3, <2>4, <2>5 DEF SingleInv
<1> QED BY <1>1, <1>2, <1>3, <1>4 DEF InstanceStep, Recover

LEMMA SingleCrash ==
  ASSUME Single, TypeOK, SingleInv, NEW i \in Instances, Crash(i)
  PROVE  SingleInv'
<1>0. Instances = {i}
  BY DEF Single
<1>1. /\ \A w \in Workers : pc'[w] = "idle"
      /\ \A c \in Callers : moving'[c] = NoJob
      /\ scan'[i] = NoEnvelopes
      /\ UNCHANGED <<queued, processing, inflight, submits>>
  BY <1>0, WorkersOfInstance DEF Crash, Callers, submitVars, TypeOK, QueueTypeOK
<1>2. OneEnvelope'
  BY <1>1, NoJobAssumption DEF SingleInv, OneEnvelope, NoEnvelope
<1>3. SingleHolder' /\ HeldIsProcessing' /\ WritesUnfinished' /\ Windows'
  BY <1>1 DEF SingleHolder, HeldIsProcessing, WritesUnfinished, Holds, Windows, Callers
<1>4. QuietRecovery'
  BY <1>0, <1>1, WorkersOfInstance
     DEF QuietRecovery, RecoverDone, NoEnvelopes, TypeOK, QueueTypeOK, Callers
<1> QED BY <1>2, <1>3, <1>4 DEF SingleInv
-----------------------------------------------------------------------------
(***************************************************************************)
(* A worker's step.  Recovery is over, so only w touches envelopes; what w *)
(* does to the envelope of the job it holds decides every conjunct.        *)
(***************************************************************************)
LEMMA QuietWorker ==
  ASSUME Single, TypeOK, TypeOK', SingleInv, NEW w \in Workers, Frame(w),
         stage[InstanceOf(w)] = "up"
  PROVE  QuietRecovery'
<1>1. PICK i : Instances = {i}
  BY DEF Single
<1>2. InstanceOf(w) = i /\ w # i /\ i \in Callers
  BY <1>1, WorkersOfInstance
<1>3. stage'[i] = "up" /\ scan'[i] = NoEnvelopes /\ moving'[i] = NoJob
  BY <1>1, <1>2 DEF SingleInv, QuietRecovery, RecoverDone, Frame
<1>4. \A j \in Jobs : processing'[j] \in Nat /\ scan'[i][j] = 0
  BY <1>3 DEF TypeOK, QueueTypeOK, NoEnvelopes
<1> QED BY <1>1, <1>3, <1>4 DEF QuietRecovery, RecoverDone

\* Only the row of the job w holds may change.
LEMMA WritesWorker ==
  ASSUME HeldInv, SingleInv, NEW w \in Workers, Frame(w),
         \/ UNCHANGED status
         \/ /\ Holds(w, held[w])
            /\ \A k \in Jobs \ {held[w]} : status'[k] = status[k],
         pc'[w] \in {"markProcessing", "sign", "markCompleted", "fail"} => Unfinished(held[w])'
  PROVE  WritesUnfinished'
<1> SUFFICES ASSUME NEW v \in Workers,
                    pc'[v] \in {"markProcessing", "sign", "markCompleted", "fail"}
             PROVE  Unfinished(held[v])'
  BY DEF WritesUnfinished
<1>1. CASE v = w
  BY <1>1
<1>2. CASE v # w
  <2>1. /\ pc'[v] = pc[v] /\ held'[v] = held[v] /\ held[v] \in Jobs
        /\ Holds(v, held[v]) /\ Unfinished(held[v])
    BY <1>2 DEF Frame, HeldInv, SingleInv, WritesUnfinished, Holds
  <2>2. status'[held[v]] = status[held[v]]
    BY <1>2, <2>1 DEF SingleInv, SingleHolder
  <2> QED BY <2>1, <2>2 DEF Unfinished
<1> QED BY <1>1, <1>2

\* Steps that leave the lists alone.
LEMMA SingleLocal ==
  ASSUME TypeOK, SingleInv, NEW w \in Workers, Frame(w),
         UNCHANGED <<queued, processing, moving>>, pc[w] # "push", pc'[w] # "push",
         \A j \in Jobs : Holds(w, j)' => Holds(w, j)
  PROVE  OneEnvelope' /\ SingleHolder' /\ Windows' /\ HeldIsProcessing'
<1>1. OneEnvelope'
  BY DEF SingleInv, OneEnvelope, NoEnvelope, Frame
<1>2. \A v \in Workers : \A j \in Jobs : Holds(v, j)' => Holds(v, j)
  BY DEF Holds, Frame
<1>3. SingleHolder' /\ HeldIsProcessing'
  BY <1>2 DEF SingleInv, SingleHolder, HeldIsProcessing
<1>4. Windows'
  BY DEF SingleInv, Windows, Frame
<1> QED BY <1>1, <1>3, <1>4

\* Steps that give up the envelope: it leaves the processing list, and is at
\* most in w's own Requeue.
LEMMA SingleRelease ==
  ASSUME TypeOK, SingleInv, NEW w \in Workers, Frame(w), NEW j \in Jobs, Holds(w, j),
         queued' = queued, processing' = [processing EXCEPT ![j] = 0],
         \A k \in Jobs : ~Holds(w, k)',
         \/ pc'[w] = "push" /\ moving'[w] = j /\ held'[w] = j
         \/ pc'[w] # "push" /\ moving'[w] = NoJob
  PROVE  OneEnvelope' /\ SingleHolder' /\ Windows' /\ HeldIsProcessing'
<1>0. w \in Callers /\ processing[j] = 1
  BY DEF Callers, SingleInv, HeldIsProcessing
<1>1. /\ inflight[j] = 0 /\ queued[j] = 0 /\ submits[j] > 0
      /\ \A c \in Callers : moving[c] # j
  BY <1>0 DEF SingleInv, OneEnvelope, NoEnvelope, TypeOK, QueueTypeOK
<1>2. OneEnvelope'
  <2>1. /\ \A k \in Jobs : processing'[k] = IF k = j THEN 0 ELSE processing[k]
        /\ UNCHANGED <<queued, inflight, submits>>
        /\ \A c \in Callers : c # w => moving'[c] = moving[c]
        /\ moving'[w] \in {j, NoJob}
    BY DEF Frame, TypeOK, QueueTypeOK
  <2> QED BY <1>0, <1>1, <2>1, NoJobAssumption DEF SingleInv, OneEnvelope, NoEnvelope
<1>3. \A v \in Workers : \A k \in Jobs : Holds(v, k)' => Holds(v, k) /\ v # w /\ k # j
  BY DEF Holds, Frame, SingleInv, SingleHolder
<1>4. SingleHolder' /\ HeldIsProcessing'
  BY <1>3 DEF SingleInv, SingleHolder, HeldIsProcessing, TypeOK, QueueTypeOK
<1>5. Windows'
  BY DEF SingleInv, Windows, Frame, Callers
<1> QED BY <1>2, <1>4, <1>5

\* An envelope moves from the main to the processing list, into w's hands or
\* (its answer lost) into nobody's.
LEMMA SingleTake ==
  ASSUME TypeOK, SingleInv, NEW w \in Workers, Frame(w), NEW j \in Jobs, Dequeue(j),
         pc[w] = "idle", pc'[w] \in {"idle", "fetch"}, pc'[w] = "fetch" => held'[w] = j
  PROVE  OneEnvelope' /\ SingleHolder' /\ Windows' /\ HeldIsProcessing'
<1>1. /\ queued' = [queued EXCEPT ![j] = @ - 1] /\ processing' = [processing EXCEPT ![j] = @ + 1]
      /\ moving' = moving /\ queued[j] > 0
  BY DEF Dequeue
<1>2. queued[j] = 1 /\ processing[j] = 0 /\ inflight[j] = 0 /\ submits[j] # 0
      /\ \A c \in Callers : moving[c] # j
  BY <1>1 DEF SingleInv, OneEnvelope, NoEnvelope, TypeOK, QueueTypeOK
<1>3. /\ \A k \in Jobs : processing'[k] = IF k = j THEN 1 ELSE processing[k]
      /\ \A k \in Jobs : queued'[k] = IF k = j THEN 0 ELSE queued[k]
      /\ UNCHANGED <<inflight, submits>>
  BY <1>1, <1>2 DEF Frame, TypeOK, QueueTypeOK
<1>4. OneEnvelope'
  BY <1>1, <1>2, <1>3 DEF SingleInv, OneEnvelope, NoEnvelope
<1>5. \A v \in Workers : ~Holds(v, j)
  BY <1>2 DEF SingleInv, HeldIsProcessing
<1>6. \A v \in Workers : \A k \in Jobs : Holds(v, k)' => (v = w /\ k = j) \/ (Holds(v, k) /\ k # j)
  BY <1>1, <1>5 DEF Holds, Frame
<1>7. SingleHolder' /\ HeldIsProcessing'
  BY <1>3, <1>6 DEF SingleInv, SingleHolder, HeldIsProcessing
<1>8. Windows'
  BY <1>1 DEF SingleInv, Windows, Frame
<1> QED BY <1>4, <1>7, <1>8

LEMMA SinglePush ==
  ASSUME TypeOK, HeldInv, SingleInv, NEW w \in Workers, Frame(w), PushJob(w)
  PROVE  OneEnvelope' /\ SingleHolder' /\ Windows' /\ HeldIsProcessing'
<1>1. /\ pc[w] = "push" /\ moving[w] = held[w] /\ held[w] \in Jobs /\ w \in Callers
      /\ processing' = processing /\ moving'[w] = NoJob /\ pc'[w] \in {"notify", "idle"}
      /\ queued' = [queued EXCEPT ![held[w]] = @ + 1] \/ queued' = queued
  <2>1. pc[w] = "push" /\ moving[w] = held[w] /\ held[w] \in Jobs /\ w \in Callers
    BY DEF PushJob, Running, SingleInv, Windows, HeldInv, Callers
  <2>2. pc'[w] \in {"notify", "idle"}
    BY DEF PushJob, AfterQueue, Return, Goto, TypeOK, WorkerTypeOK
  <2> QED BY <2>1, <2>2 DEF PushJob, RequeuePush, PushMain, TypeOK, QueueTypeOK
<1> DEFINE j == held[w]
<1>2. NoEnvelope(j) /\ submits[j] > 0 /\ \A c \in Callers \ {w} : moving[c] # j
  BY <1>1 DEF SingleInv, OneEnvelope
<1>3. /\ queued'[j] \in {0, 1} /\ \A k \in Jobs \ {j} : queued'[k] = queued[k]
      /\ UNCHANGED <<inflight, submits>>
      /\ \A c \in Callers : c # w => moving'[c] = moving[c]
  BY <1>1, <1>2 DEF NoEnvelope, Frame, TypeOK, QueueTypeOK
<1>4. OneEnvelope'
  BY <1>1, <1>2, <1>3, NoJobAssumption DEF SingleInv, OneEnvelope, NoEnvelope
<1>5. \A v \in Workers : \A k \in Jobs : Holds(v, k)' => Holds(v, k)
  BY <1>1 DEF Holds, Frame
<1>6. SingleHolder' /\ HeldIsProcessing'
  BY <1>1, <1>5 DEF SingleInv, SingleHolder, HeldIsProcessing
<1>7. Windows'
  BY <1>1 DEF SingleInv, Windows, Frame, Callers
<1> QED BY <1>4, <1>6, <1>7

\* w's own obligation under WritesUnfinished, after any of its steps.
LEMMA OwnWrites ==
  ASSUME TypeOK, HeldInv, SingleInv, NEW w \in Workers, WorkerStep(w),
         pc'[w] \in {"markProcessing", "sign", "markCompleted", "fail"}
  PROVE  Unfinished(held[w])'
<1> USE DEF TypeOK, RowTypeOK, WorkerTypeOK, HeldInv, Running, Goto, rowVars, workerVars
<1>1. CASE Fetch(w)
  <2>1. held'[w] = held[w] /\ status' = status /\ held[w] \in Jobs /\ ~Done(held[w])
    BY <1>1 DEF Fetch
  <2> QED BY <2>1 DEF Done, Unfinished, Final
<1>2. CASE MarkJobProcessing(w)
  <2>1. /\ held'[w] = held[w] /\ held[w] \in Jobs
        /\ status' = [status EXCEPT ![held[w]] = "processing"]
    BY <1>2 DEF MarkJobProcessing, Return
  <2> QED BY <2>1 DEF Unfinished, Final
<1>3. CASE Sign(w)
  <2>1. held'[w] = held[w] /\ status' = status /\ pc[w] = "sign"
    BY <1>3 DEF Sign
  <2> QED BY <2>1 DEF SingleInv, WritesUnfinished, Unfinished
<1>4. ASSUME NEW j \in Jobs, Take(w, j) \/ TakeLost(w, j) PROVE FALSE
  BY <1>4 DEF Take, TakeLost
<1>5. CASE FetchFails(w) \/ MarkWebhook(w)
  BY <1>5 DEF FetchFails, MarkWebhook, Return
<1>6. CASE AcknowledgeJob(w) \/ PushJob(w)
  BY <1>6 DEF AcknowledgeJob, PushJob, AfterQueue, Return
<1>7. CASE RequeueJob(w)
  BY <1>7 DEF RequeueJob, AfterQueue, Return
<1>8. CASE \/ FetchFinal(w) \/ MarkJobCompleted(w) \/ MarkJobDead(w) \/ MoveJobToDLQ(w)
           \/ MarkJobFailed(w) \/ Notify(w)
  BY <1>8 DEF FetchFinal, MarkJobCompleted, MarkJobDead, MoveJobToDLQ, MarkJobFailed, Notify
<1> QED
  BY <1>1, <1>2, <1>3, <1>4, <1>5, <1>6, <1>7, <1>8 DEF WorkerStep

\* Only a worker that holds a job writes its row.
LEMMA OwnRow ==
  ASSUME TypeOK, NEW w \in Workers, WorkerStep(w)
  PROVE  \/ UNCHANGED status
         \/ /\ pc[w] \in {"markProcessing", "markCompleted", "fail"}
            /\ Holds(w, held[w])
            /\ \A k \in Jobs \ {held[w]} : status'[k] = status[k]
<1> USE DEF rowVars
<1>1. CASE \/ MarkJobProcessing(w) \/ MarkJobCompleted(w) \/ MarkJobDead(w) \/ MarkJobFailed(w)
  <2>1. Holds(w, held[w]) /\ pc[w] \in {"markProcessing", "markCompleted", "fail"}
    BY <1>1 DEF MarkJobProcessing, MarkJobCompleted, MarkJobDead, MarkJobFailed, Running, Holds
  <2> QED
    BY <1>1, <2>1 DEF MarkJobProcessing, MarkJobCompleted, MarkJobDead, MarkJobFailed, Write,
                      TypeOK, RowTypeOK
<1>2. CASE ~(MarkJobProcessing(w) \/ MarkJobCompleted(w) \/ MarkJobDead(w) \/ MarkJobFailed(w))
  BY <1>2 DEF WorkerStep, Take, TakeLost, FetchFails, FetchFinal, Fetch, Sign, AcknowledgeJob,
              MoveJobToDLQ, RequeueJob, PushJob, Notify, MarkWebhook
<1> QED BY <1>1, <1>2

LEMMA SingleWorker ==
  ASSUME Single, TypeOK, HeldInv, TypeOK', SingleInv, NEW w \in Workers, WorkerStep(w)
  PROVE  SingleInv'
<1>f. Frame(w)
  BY WorkerFrame
<1>u. stage[InstanceOf(w)] = "up"
  BY DEF WorkerStep, Take, TakeLost, FetchFails, FetchFinal, Fetch, MarkJobProcessing, Sign, MarkJobCompleted,
         AcknowledgeJob, MarkJobDead, MoveJobToDLQ, MarkJobFailed, RequeueJob, PushJob, Notify,
         MarkWebhook, Running
<1>h. pc[w] # "idle" => held[w] \in Jobs
  BY DEF HeldInv
<1>q. QuietRecovery'
  BY <1>f, <1>u, QuietWorker
<1>w. WritesUnfinished'
  BY <1>f, OwnWrites, OwnRow, WritesWorker
<1> DEFINE Rest == OneEnvelope /\ SingleHolder /\ Windows /\ HeldIsProcessing
<1>s. SUFFICES Rest'
  BY <1>q, <1>w DEF SingleInv
<1> USE DEF TypeOK, WorkerTypeOK, Running, Goto, workerVars, queueVars
<1>1. ASSUME NEW j \in Jobs, Take(w, j) \/ TakeLost(w, j) PROVE Rest'
  <2>1. /\ Dequeue(j) /\ pc[w] = "idle" /\ pc'[w] \in {"idle", "fetch"}
        /\ pc'[w] = "fetch" => held'[w] = j
    BY <1>1 DEF Take, TakeLost
  <2> QED BY <1>f, <2>1, SingleTake
<1>2. CASE FetchFails(w) \/ MarkWebhook(w)
  <2>1. /\ UNCHANGED <<queued, processing, moving>>
        /\ pc[w] # "push" /\ pc'[w] = "idle"
    BY <1>2 DEF FetchFails, MarkWebhook, Return
  <2>2. \A j \in Jobs : Holds(w, j)' => Holds(w, j)
    BY <2>1 DEF Holds
  <2> QED BY <1>f, <2>1, <2>2, SingleLocal
<1>3. CASE \/ FetchFinal(w) \/ Fetch(w) \/ Sign(w) \/ MarkJobCompleted(w) \/ MarkJobDead(w)
           \/ MarkJobFailed(w) \/ Notify(w) \/ MoveJobToDLQ(w)
  <2>1. /\ UNCHANGED <<queued, processing, moving, held>>
        /\ pc[w] \in {"fetch", "sign", "markCompleted", "fail", "dlq", "notify"}
        /\ pc'[w] \in Steps \ {"push"}
        /\ pc[w] = "notify" => pc'[w] = "markWebhook"
    BY <1>3 DEF FetchFinal, Fetch, Sign, MarkJobCompleted, MarkJobDead, MarkJobFailed, Notify,
                MoveJobToDLQ, MoveToDLQ, Steps
  <2>2. \A j \in Jobs : Holds(w, j)' => Holds(w, j)
    BY <2>1 DEF Holds
  <2> QED BY <1>f, <2>1, <2>2, SingleLocal
<1>4. CASE MarkJobProcessing(w)
  <2>1. /\ UNCHANGED <<queued, processing, moving>> /\ pc[w] = "markProcessing"
        /\ pc'[w] \in {"sign", "idle"}
        /\ pc'[w] = "sign" => held' = held
    BY <1>4 DEF MarkJobProcessing, Return
  <2>2. \A j \in Jobs : Holds(w, j)' => Holds(w, j)
    BY <2>1 DEF Holds
  <2> QED BY <1>f, <2>1, <2>2, SingleLocal
<1>a. ASSUME AfterQueue(w) PROVE pc'[w] \in {"notify", "idle"} /\ \A k \in Jobs : ~Holds(w, k)'
  BY <1>a DEF AfterQueue, Return, Holds
<1>5. CASE AcknowledgeJob(w)
  <2>1. pc[w] = "ack" /\ held[w] \in Jobs /\ AfterQueue(w) /\ moving[w] = NoJob
    BY <1>5, <1>h DEF AcknowledgeJob, SingleInv, Windows
  <2>2. Holds(w, held[w]) /\ processing[held[w]] = 1
    BY <2>1 DEF Holds, SingleInv, HeldIsProcessing
  <2>3. CASE Acknowledge(held[w])
    <3>1. /\ queued' = queued /\ processing' = [processing EXCEPT ![held[w]] = 0]
          /\ moving'[w] = NoJob
      BY <2>1, <2>2, <2>3 DEF Acknowledge, RemoveProcessing
    <3> QED BY <1>f, <1>a, <2>1, <2>2, <3>1, SingleRelease
  <2>4. CASE UNCHANGED queueVars
    BY <1>f, <1>a, <2>1, <2>4, SingleLocal
  <2> QED BY <1>5, <2>3, <2>4 DEF AcknowledgeJob
<1>6. CASE RequeueJob(w)
  <2>1. pc[w] = "requeue" /\ held[w] \in Jobs
    BY <1>6, <1>h DEF RequeueJob
  <2>2. Holds(w, held[w]) /\ processing[held[w]] = 1
    BY <2>1 DEF Holds, SingleInv, HeldIsProcessing
  <2>3. CASE RequeueRemove(w, held[w]) /\ Goto(w, "push") /\ UNCHANGED <<held, seen, outcome>>
    <3>1. /\ queued' = queued /\ processing' = [processing EXCEPT ![held[w]] = 0]
          /\ moving'[w] = held[w] /\ pc'[w] = "push" /\ held'[w] = held[w]
      BY <2>1, <2>2, <2>3 DEF RequeueRemove, RemoveProcessing, QueueTypeOK, Callers
    <3>2. \A k \in Jobs : ~Holds(w, k)'
      BY <3>1 DEF Holds
    <3> QED BY <1>f, <2>1, <2>2, <3>1, <3>2, SingleRelease
  <2>4. CASE AfterQueue(w) /\ UNCHANGED <<queued, processing, moving>>
    BY <1>f, <1>a, <2>1, <2>4, SingleLocal
  <2>5. CASE AfterQueue(w) /\ RemoveProcessing(held[w]) /\ UNCHANGED <<queued, moving>>
    <3>1. processing' = [processing EXCEPT ![held[w]] = 0]
      BY <2>2, <2>5 DEF RemoveProcessing
    <3>2. moving'[w] = NoJob
      BY <2>1, <2>5 DEF SingleInv, Windows
    <3> QED BY <1>f, <1>a, <2>1, <2>2, <2>5, <3>1, <3>2, SingleRelease
  <2> QED BY <1>6, <2>3, <2>4, <2>5 DEF RequeueJob
<1>7. CASE PushJob(w)
  BY <1>7, <1>f, SinglePush
<1> QED BY <1>1, <1>2, <1>3, <1>4, <1>5, <1>6, <1>7 DEF WorkerStep

LEMMA SingleNext ==
  ASSUME Single, TypeOK, HeldInv, TypeOK', SingleInv, [Next]_vars
  PROVE  SingleInv'
<1>1. CASE UNCHANGED vars
  BY <1>1 DEF vars, queueVars, rowVars, workerVars, submitVars, SingleInv, OneEnvelope, NoEnvelope,
              SingleHolder, Windows, HeldIsProcessing, Holds, QuietRecovery, RecoverDone,
              WritesUnfinished, Unfinished
<1> QED BY <1>1, SingleSubmit, SingleInstanceStep, SingleCrash, SingleWorker DEF Next

\* One instance, no resubmission: SingleInv holds through every crash, failed
\* call and restart.  In particular no two goroutines of worker.Start ever
\* work on one job (SingleHolder), although LREM removes by value and
\* RecoverStalled requeues what it read without looking again.
THEOREM SingleInstance == ASSUME Single PROVE Spec => []SingleInv
<1>1. TypeOK /\ HeldInv /\ TypeOK' /\ SingleInv /\ [Next]_vars => SingleInv'
  BY SingleNext
<1> QED BY <1>1, SingleInit, TypeCorrect, PTL DEF Spec

\* The part of SingleInv that says "exclusive": two workers never hold a job.
THEOREM SingleInstanceExclusive == ASSUME Single PROVE Spec => []SingleHolder
<1>1. SingleInv => SingleHolder
  BY DEF SingleInv
<1> QED BY <1>1, SingleInstance, PTL

LEMMA FinalStep ==
  ASSUME Single, TypeOK, HeldInv, SingleInv, [Next]_vars,
         NEW j \in Jobs, status[j] \in Final
  PROVE  status'[j] = status[j]
<1>1. ASSUME NEW w \in Workers, WorkerStep(w) PROVE status'[j] = status[j]
  <2>1. pc[w] \in {"markProcessing", "markCompleted", "fail"} => held[w] # j
    BY DEF SingleInv, WritesUnfinished, Unfinished
  <2> QED BY <1>1, <2>1, OwnRow
<1>2. ASSUME NEW i \in Instances, InstanceStep(i) \/ Crash(i) PROVE status'[j] = status[j]
  BY <1>2 DEF InstanceStep, Start, StartUnrecovered, Recover, RecoverFails, Recovered, Crash, rowVars
<1>3. ASSUME NEW k \in Jobs, Submit(k) \/ EnqueueSubmitted(k) \/ SubmitDies(k)
      PROVE  status'[j] = status[j]
  BY <1>3 DEF Submit, EnqueueSubmitted, SubmitDies, rowVars, Final, TypeOK, RowTypeOK
<1>4. CASE UNCHANGED vars
  BY <1>4 DEF vars, rowVars
<1> QED BY <1>1, <1>2, <1>3, <1>4 DEF Next

\* One instance, no resubmission: a completed or dead row is never written
\* again by MarkJobProcessing, MarkJobFailed or MarkJobDead, though every one
\* of them is decided on a row read several calls before.
THEOREM SingleInstanceFinal == ASSUME Single PROVE Spec => FinalIsFinal
<1>1. TypeOK /\ HeldInv /\ SingleInv /\ [Next]_vars
        => [\A j \in Jobs : status[j] \in Final => status'[j] = status[j]]_vars
  BY FinalStep
<1> QED BY <1>1, SingleInstance, TypeCorrect, PTL DEF Spec, FinalIsFinal
-----------------------------------------------------------------------------
\* Facts about a worker's step that the theorems below share.

\* What a goroutine remembers of its job is its own.
LEMMA OwnMemory ==
  ASSUME TypeOK, NEW w \in Workers, WorkerStep(w)
  PROVE  \A v \in Workers \ {w} : seen'[v] = seen[v] /\ outcome'[v] = outcome[v]
<1> USE DEF TypeOK, WorkerTypeOK, Return, workerVars
<1>1. ASSUME NEW j \in Jobs, Take(w, j) \/ TakeLost(w, j) PROVE UNCHANGED <<seen, outcome>>
  BY <1>1 DEF Take, TakeLost
<1>2. CASE FetchFails(w) \/ FetchFinal(w) \/ Fetch(w) \/ MarkJobProcessing(w) \/ Sign(w)
  BY <1>2 DEF FetchFails, FetchFinal, Fetch, MarkJobProcessing, Sign
<1>3. CASE MarkJobCompleted(w) \/ MarkJobDead(w) \/ MoveJobToDLQ(w) \/ MarkJobFailed(w)
  BY <1>3 DEF MarkJobCompleted, MarkJobDead, MoveJobToDLQ, MarkJobFailed
<1>4. CASE AcknowledgeJob(w) \/ RequeueJob(w) \/ PushJob(w) \/ Notify(w) \/ MarkWebhook(w)
  BY <1>4 DEF AcknowledgeJob, RequeueJob, PushJob, AfterQueue, Notify, MarkWebhook
<1> QED BY <1>1, <1>2, <1>3, <1>4 DEF WorkerStep

LEMMA WorkerRuns ==
  ASSUME NEW w \in Workers, WorkerStep(w)
  PROVE  stage[InstanceOf(w)] = "up"
  BY DEF WorkerStep, Take, TakeLost, FetchFails, FetchFinal, Fetch, MarkJobProcessing, Sign, MarkJobCompleted,
         AcknowledgeJob, MarkJobDead, MoveJobToDLQ, MarkJobFailed, RequeueJob, PushJob, Notify,
         MarkWebhook, Running

\* A job in a worker's hands has no other envelope and no other worker.
LEMMA HeldAlone ==
  ASSUME TypeOK, SingleInv, NEW w \in Workers, NEW j \in Jobs, Holds(w, j)
  PROVE  /\ inflight[j] = 0 /\ queued[j] = 0 /\ submits[j] # 0
         /\ \A c \in Callers : moving[c] # j
         /\ \A v \in Workers \ {w} : ~Holds(v, j)
<1>1. processing[j] = 1 /\ \A v \in Workers \ {w} : ~Holds(v, j)
  BY DEF SingleInv, HeldIsProcessing, SingleHolder
<1> QED BY <1>1 DEF SingleInv, OneEnvelope, NoEnvelope, TypeOK, QueueTypeOK
-----------------------------------------------------------------------------
(***************************************************************************)
(* How often a job is tried.  handleJobFailure compares the limit with the *)
(* attempts as they were before MarkJobProcessing counted this one, and an *)
(* envelope that nobody acknowledged costs another attempt, but only after *)
(* a restart.  So a job that can still be taken is one attempt short of    *)
(* the bound: the retries that sent it round again, or the crash, paid.    *)
(***************************************************************************)
Limit == IF StoreErrors /\ MaxRetries < DefaultRetries THEN DefaultRetries ELSE MaxRetries

\* j may be tried once more before the next crash.
Waiting(j) ==
    \/ inflight[j] > 0
    \/ queued[j] > 0
    \/ \E c \in Callers : moving[c] = j
    \/ \E w \in Workers : held[w] = j /\ pc[w] \in {"fetch", "markProcessing", "requeue"}
    \/ \E i \in Instances : stage[i] # "up"

RowAttempts ==
    \A j \in Jobs :
        /\ attempts[j] <= Limit + 1 + crashes
        /\ Waiting(j) => attempts[j] <= Limit + crashes
        /\ submits[j] = 0 => attempts[j] = 0

\* The stale copy is behind the row by the attempt under way at most.
SeenAttempts ==
    \A w \in Workers :
        /\ pc[w] = "markProcessing" => attempts[held[w]] <= seen[w].attempts
        /\ pc[w] \in {"sign", "fail"} => attempts[held[w]] <= seen[w].attempts + 1

AttemptInv == RowAttempts /\ SeenAttempts

LEMMA LimitType ==
  Limit \in Nat /\ Limit \in RetryLimits /\ \A l \in RetryLimits : l \in Nat /\ l <= Limit
  BY RetriesAssumption, ErrorsAssumption DEF Limit, RetryLimits

LEMMA AttemptInit == Init => AttemptInv
<1> SUFFICES ASSUME Init PROVE AttemptInv
  OBVIOUS
<1>1. crashes = 0 /\ (\A j \in Jobs : attempts[j] = 0) /\ \A w \in Workers : pc[w] = "idle"
  BY DEF Init
<1>2. 0 <= Limit + 1 + 0 /\ 0 <= Limit + 0
  BY LimitType
<1> QED BY <1>1, <1>2 DEF AttemptInv, RowAttempts, SeenAttempts

\* A worker's step that leaves the attempts of every row alone.
LEMMA AttemptKept ==
  ASSUME TypeOK, HeldInv, AttemptInv, NEW w \in Workers, WorkerStep(w), UNCHANGED attempts,
         \A j \in Jobs : Waiting(j)' => Waiting(j) \/ attempts[j] <= Limit + crashes,
         pc'[w] = "markProcessing" => attempts[held'[w]] <= seen'[w].attempts,
         pc'[w] \in {"sign", "fail"} => attempts[held'[w]] <= seen'[w].attempts + 1
  PROVE  AttemptInv'
<1>1. Frame(w) /\ \A v \in Workers \ {w} : seen'[v] = seen[v]
  BY WorkerFrame, OwnMemory
<1>2. RowAttempts'
  BY <1>1 DEF AttemptInv, RowAttempts, Frame
<1>3. SeenAttempts'
  BY <1>1 DEF AttemptInv, SeenAttempts, Frame
<1> QED BY <1>2, <1>3 DEF AttemptInv

\* MarkJobProcessing: the row is counted, and its only envelope is in w's hands.
LEMMA AttemptCounted ==
  ASSUME Single, TypeOK, HeldInv, SingleInv, AttemptInv, NEW w \in Workers, WorkerStep(w),
         pc[w] = "markProcessing", attempts' = [attempts EXCEPT ![held[w]] = @ + 1],
         UNCHANGED <<queued, moving>>,
         \/ pc'[w] = "sign" /\ held' = held /\ seen' = seen
         \/ pc'[w] = "idle"
  PROVE  AttemptInv'
<1>0. PICK j \in Jobs : held[w] = j
  BY DEF HeldInv
<1>t. /\ attempts \in [Jobs -> Nat] /\ crashes \in Nat /\ seen[w].attempts \in Nat
      /\ seen \in [Workers -> [status : Statuses, attempts : Nat]]
  BY DEF TypeOK, RowTypeOK, WorkerTypeOK
<1>1. Frame(w) /\ \A v \in Workers \ {w} : seen'[v] = seen[v]
  BY WorkerFrame, OwnMemory
<1>2. Holds(w, j)
  BY <1>0 DEF Holds
<1>3. /\ inflight[j] = 0 /\ queued[j] = 0 /\ submits[j] # 0
      /\ \A c \in Callers : moving[c] # j
      /\ \A v \in Workers \ {w} : ~Holds(v, j)
  BY <1>2, HeldAlone
<1>4. Waiting(j)
  BY <1>0 DEF Waiting
<1>5. attempts[j] <= Limit + crashes
  BY <1>2, <1>4 DEF AttemptInv, RowAttempts
<1>6. ~Waiting(j)'
  <2>1. \A i \in Instances : stage'[i] = "up"
    <3>1. PICK i : Instances = {i}
      BY DEF Single
    <3> QED BY <1>1, <3>1, WorkerRuns, WorkersOfInstance DEF Frame
  <2>2. \A v \in Workers : ~(held'[v] = j /\ pc'[v] \in {"fetch", "markProcessing", "requeue"})
    BY <1>0, <1>1, <1>3 DEF Frame, Holds
  <2>3. inflight'[j] = 0 /\ queued'[j] = 0 /\ moving' = moving
    BY <1>1, <1>3 DEF Frame
  <2> QED BY <1>3, <2>1, <2>2, <2>3 DEF Waiting
<1>7. RowAttempts'
  <2> SUFFICES ASSUME NEW k \in Jobs
               PROVE  /\ attempts'[k] <= Limit + 1 + crashes'
                      /\ Waiting(k)' => attempts'[k] <= Limit + crashes'
                      /\ submits'[k] = 0 => attempts'[k] = 0
    BY DEF RowAttempts
  <2>0. crashes' = crashes /\ submits' = submits
    BY <1>1 DEF Frame
  <2>1. CASE k = j
    <3>1. attempts'[k] = attempts[j] + 1
      BY <1>0, <1>t, <2>1
    <3>2. attempts'[k] <= Limit + 1 + crashes'
      BY <1>2, <1>5, <1>t, <2>0, <3>1, LimitType
    <3> QED BY <1>3, <1>6, <2>0, <2>1, <3>2
  <2>2. CASE k # j
    <3>1. attempts'[k] = attempts[k]
      BY <1>0, <1>t, <2>2
    <3>2. Waiting(k)' => Waiting(k)
      BY <1>0, <1>1, <2>2 DEF Waiting, Frame
    <3> QED BY <2>0, <3>1, <3>2 DEF AttemptInv, RowAttempts
  <2> QED BY <2>1, <2>2
<1>8. SeenAttempts'
  <2> SUFFICES ASSUME NEW v \in Workers
               PROVE  /\ pc'[v] = "markProcessing" => attempts'[held'[v]] <= seen'[v].attempts
                      /\ pc'[v] \in {"sign", "fail"} => attempts'[held'[v]] <= seen'[v].attempts + 1
    BY DEF SeenAttempts
  <2>1. CASE v = w
    <3>1. attempts[j] <= seen[w].attempts /\ attempts'[j] = attempts[j] + 1
      BY <1>0, <1>t DEF AttemptInv, SeenAttempts
    <3>2. attempts'[j] <= seen[w].attempts + 1
      BY <1>2, <1>t, <3>1
    <3> QED BY <1>0, <2>1, <3>2
  <2>2. CASE v # w
    <3>1. pc'[v] = pc[v] /\ held'[v] = held[v] /\ seen'[v] = seen[v]
      BY <1>1, <2>2 DEF Frame
    <3>2. pc[v] \in {"markProcessing", "sign", "fail"} => held[v] \in Jobs /\ held[v] # j
      BY <1>3, <2>2 DEF HeldInv, Holds
    <3>3. pc[v] \in {"markProcessing", "sign", "fail"} => attempts'[held[v]] = attempts[held[v]]
      BY <1>0, <1>t, <3>2
    <3> QED BY <3>1, <3>3 DEF AttemptInv, SeenAttempts
  <2> QED BY <2>1, <2>2
<1> QED BY <1>7, <1>8 DEF AttemptInv

\* Of what w does, only where it leaves an envelope or its own job matters.
LEMMA StillWaiting ==
  ASSUME NEW w \in Workers, Frame(w),
         \A k \in Jobs :
            \/ queued'[k] > 0
            \/ moving'[w] = k
            \/ held'[w] = k /\ pc'[w] \in {"fetch", "markProcessing", "requeue"}
            => Waiting(k) \/ attempts[k] <= Limit + crashes
  PROVE  \A j \in Jobs : Waiting(j)' => Waiting(j) \/ attempts[j] <= Limit + crashes
  BY DEF Waiting, Frame

LEMMA AttemptWorker ==
  ASSUME Single, TypeOK, HeldInv, SingleInv, AttemptInv, NEW w \in Workers, WorkerStep(w)
  PROVE  AttemptInv'
<1> USE DEF Running, Goto, workerVars, rowVars, queueVars
<1>f. Frame(w) /\ w \in Callers
  BY WorkerFrame DEF Callers
<1>t. /\ pc \in [Workers -> Steps] /\ held \in [Workers -> Jobs \cup {NoJob}]
      /\ seen \in [Workers -> [status : Statuses, attempts : Nat]]
      /\ queued \in [Jobs -> Nat] /\ moving \in [Callers -> Jobs \cup {NoJob}]
      /\ attempts \in [Jobs -> Nat] /\ crashes \in Nat
  BY DEF TypeOK, WorkerTypeOK, RowTypeOK, QueueTypeOK
<1>h. pc[w] # "idle" => held[w] \in Jobs
  BY DEF HeldInv
<1>m. (pc[w] = "push" /\ moving[w] = held[w]) \/ (pc[w] # "push" /\ moving[w] = NoJob)
  BY DEF SingleInv, Windows
<1>q. \A k \in Jobs : queued[k] > 0 \/ moving[w] = k => Waiting(k)
  BY <1>f DEF Waiting
<1>0. ASSUME UNCHANGED <<queued, moving, attempts>>,
             pc'[w] \notin {"fetch", "markProcessing", "sign", "fail", "requeue"}
      PROVE  AttemptInv'
  BY <1>0, <1>f, <1>q, StillWaiting, AttemptKept
<1>1. ASSUME NEW k \in Jobs, Take(w, k) \/ TakeLost(w, k) PROVE AttemptInv'
  <2>1. /\ queued' = [queued EXCEPT ![k] = @ - 1] /\ queued[k] > 0 /\ UNCHANGED <<attempts, moving>>
        /\ pc'[w] \in {"idle", "fetch"} /\ (pc'[w] = "fetch" => held'[w] = k)
    BY <1>1, <1>t DEF Take, TakeLost, Dequeue
  <2>2. \A l \in Jobs : queued'[l] > 0 => queued[l] > 0
    BY <1>t, <2>1
  <2> QED BY <1>f, <1>q, <2>1, <2>2, StillWaiting, AttemptKept
<1>2. CASE FetchFails(w) \/ FetchFinal(w) \/ MarkJobCompleted(w) \/ MarkWebhook(w) \/ MarkJobDead(w)
  BY <1>0, <1>2, <1>t DEF FetchFails, FetchFinal, MarkJobCompleted, MarkWebhook, MarkJobDead, Return
<1>3. CASE MoveJobToDLQ(w) \/ Notify(w)
  BY <1>0, <1>3, <1>t DEF MoveJobToDLQ, MoveToDLQ, Notify
<1>4. CASE AcknowledgeJob(w)
  BY <1>0, <1>4, <1>t DEF AcknowledgeJob, Acknowledge, AfterQueue, Return
<1>5. CASE Fetch(w)
  <2>1. /\ UNCHANGED <<queued, moving, attempts, held>> /\ pc[w] = "fetch"
        /\ pc'[w] \in {"markProcessing", "fail"} /\ seen'[w].attempts = attempts[held[w]]
    BY <1>5, <1>t DEF Fetch
  <2>2. Waiting(held[w]) /\ held[w] \in Jobs
    BY <1>h, <2>1 DEF Waiting
  <2>3. attempts[held[w]] <= seen'[w].attempts /\ attempts[held[w]] <= seen'[w].attempts + 1
    BY <1>t, <2>1, <2>2
  <2> QED BY <1>f, <1>q, <2>1, <2>2, <2>3, StillWaiting, AttemptKept
<1>6. CASE MarkJobProcessing(w)
  <2>1. pc[w] = "markProcessing" /\ UNCHANGED <<queued, moving>>
    BY <1>6 DEF MarkJobProcessing
  <2>2. CASE UNCHANGED attempts /\ Return(w)
    BY <1>0, <1>t, <2>1, <2>2 DEF Return
  <2>3. CASE /\ attempts' = [attempts EXCEPT ![held[w]] = @ + 1]
             /\ Return(w) \/ (Goto(w, "sign") /\ UNCHANGED <<held, seen, outcome>>)
    BY <1>t, <2>1, <2>3, AttemptCounted DEF Return
  <2> QED BY <1>6, <2>2, <2>3 DEF MarkJobProcessing
<1>7. CASE Sign(w)
  <2>1. /\ UNCHANGED <<queued, moving, attempts, held, seen>> /\ pc[w] = "sign"
        /\ pc'[w] \in {"markCompleted", "fail"}
    BY <1>7, <1>t DEF Sign
  <2>2. attempts[held[w]] <= seen[w].attempts + 1
    BY <2>1 DEF AttemptInv, SeenAttempts
  <2> QED BY <1>f, <1>q, <2>1, <2>2, StillWaiting, AttemptKept
<1>8. CASE MarkJobFailed(w)
  <2>1. PICK l \in RetryLimits : seen[w].attempts < l
    BY <1>8 DEF MarkJobFailed, Retriable
  <2>2. /\ UNCHANGED <<queued, moving, attempts, held, seen>> /\ pc[w] = "fail"
        /\ pc'[w] = "requeue"
    BY <1>8, <1>t DEF MarkJobFailed
  <2>3. PICK j \in Jobs : held[w] = j
    BY <1>h, <2>2
  <2>4. attempts[j] <= seen[w].attempts + 1
    BY <2>2, <2>3 DEF AttemptInv, SeenAttempts
  <2>5. attempts[j] <= Limit + crashes
    <3>1. seen[w].attempts \in Nat /\ attempts[j] \in Nat /\ l \in Nat /\ l <= Limit
      BY <1>t, <2>1, LimitType
    <3> QED BY <1>t, <2>1, <2>4, <3>1, LimitType
  <2> QED BY <1>f, <1>q, <2>2, <2>3, <2>5, StillWaiting, AttemptKept
<1>9. CASE RequeueJob(w)
  <2>1. /\ pc[w] = "requeue" /\ UNCHANGED <<queued, attempts>>
        /\ pc'[w] \in {"push", "notify", "idle"} /\ moving'[w] \in {moving[w], held[w]}
    BY <1>9, <1>t, <1>f DEF RequeueJob, RequeueRemove, AfterQueue, Return
  <2>2. Waiting(held[w]) /\ held[w] \in Jobs
    BY <1>h, <2>1 DEF Waiting
  <2> QED BY <1>f, <1>q, <2>1, <2>2, StillWaiting, AttemptKept
<1>10. CASE PushJob(w)
  <2>1. /\ pc[w] = "push" /\ UNCHANGED attempts /\ pc'[w] \in {"notify", "idle"}
        /\ moving'[w] = NoJob
    BY <1>10, <1>t, <1>f DEF PushJob, RequeuePush, AfterQueue, Return
  <2>2. held[w] \in Jobs /\ moving[w] = held[w]
    BY <1>h, <1>m, <2>1
  <2>3. queued' \in {queued, [queued EXCEPT ![held[w]] = @ + 1]}
    BY <1>10, <2>2 DEF PushJob, RequeuePush, PushMain
  <2>4. \A k \in Jobs : queued'[k] > 0 => queued[k] > 0 \/ moving[w] = k
    BY <1>t, <2>2, <2>3
  <2> QED BY <1>f, <1>q, <2>1, <2>4, NoJobAssumption, StillWaiting, AttemptKept
<1> QED
  BY <1>1, <1>2, <1>3, <1>4, <1>5, <1>6, <1>7, <1>8, <1>9, <1>10 DEF WorkerStep

LEMMA AttemptSubmit ==
  ASSUME Single, TypeOK, AttemptInv, NEW j \in Jobs,
         Submit(j) \/ EnqueueSubmitted(j) \/ SubmitDies(j)
  PROVE  AttemptInv'
<1> USE DEF rowVars, workerVars, queueVars, faultVars
<1>t. /\ attempts \in [Jobs -> Nat] /\ crashes \in Nat /\ submits \in [Jobs -> Nat]
      /\ inflight \in [Jobs -> Nat] /\ queued \in [Jobs -> Nat]
  BY DEF TypeOK, RowTypeOK, QueueTypeOK
<1>1. UNCHANGED <<attempts, moving, stage, pc, held, seen>>
  BY DEF Submit, EnqueueSubmitted, Enqueue, SubmitDies
<1>2. crashes' \in {crashes, crashes + 1}
  BY DEF Submit, EnqueueSubmitted, SubmitDies
<1>3. SeenAttempts'
  BY <1>1 DEF AttemptInv, SeenAttempts
<1>4. ASSUME NEW k \in Jobs
      PROVE  /\ Waiting(k)' => Waiting(k) \/ attempts[k] = 0
             /\ submits'[k] = 0 => submits[k] = 0
  <2>1. CASE Submit(j)
    <3>1. submits[j] = 0
      BY <1>t, <2>1 DEF Submit, Single
    <3>2. attempts[j] = 0
      BY <3>1 DEF AttemptInv, RowAttempts
    <3> QED BY <1>1, <1>t, <2>1, <3>2 DEF Submit, Waiting
  <2>2. CASE EnqueueSubmitted(j)
    BY <1>1, <1>t, <2>2 DEF EnqueueSubmitted, Enqueue, PushMain, Waiting
  <2>3. CASE SubmitDies(j)
    BY <1>1, <1>t, <2>3 DEF SubmitDies, Waiting
  <2> QED BY <2>1, <2>2, <2>3
<1>5. RowAttempts'
  <2> SUFFICES ASSUME NEW k \in Jobs
               PROVE  /\ attempts'[k] <= Limit + 1 + crashes'
                      /\ Waiting(k)' => attempts'[k] <= Limit + crashes'
                      /\ submits'[k] = 0 => attempts'[k] = 0
    BY DEF RowAttempts
  <2>1. /\ attempts[k] <= Limit + 1 + crashes
        /\ Waiting(k) => attempts[k] <= Limit + crashes
        /\ submits[k] = 0 => attempts[k] = 0
    BY DEF AttemptInv, RowAttempts
  <2>2. attempts'[k] <= Limit + 1 + crashes'
    BY <1>1, <1>2, <1>t, <2>1, LimitType
  <2>3. Waiting(k)' => attempts'[k] <= Limit + crashes'
    BY <1>1, <1>2, <1>4, <1>t, <2>1, LimitType
  <2> QED BY <1>1, <1>4, <2>1, <2>2, <2>3
<1> QED BY <1>3, <1>5 DEF AttemptInv

LEMMA AttemptInstance ==
  ASSUME Single, TypeOK, AttemptInv, NEW i \in Instances, InstanceStep(i) \/ Crash(i)
  PROVE  AttemptInv'
<1> USE DEF rowVars, workerVars, submitVars, faultVars
<1>t. attempts \in [Jobs -> Nat] /\ crashes \in Nat
  BY DEF TypeOK, RowTypeOK
<1>1. CASE InstanceStep(i)
  <2>1. stage[i] # "up" /\ UNCHANGED <<attempts, submits, crashes, pc, held, seen>>
    BY <1>1 DEF InstanceStep, Start, StartUnrecovered, Recover, RecoverFails, Recovered
  <2>2. \A j \in Jobs : Waiting(j)
    BY <2>1 DEF Waiting
  <2> QED BY <2>1, <2>2 DEF AttemptInv, RowAttempts, SeenAttempts
<1>2. CASE Crash(i)
  <2>1. UNCHANGED <<attempts, submits>> /\ crashes' = crashes + 1
    BY <1>2 DEF Crash
  <2>2. \A w \in Workers : pc'[w] = "idle"
    BY <1>2, WorkersOfInstance DEF Crash, Single
  <2>3. \A j \in Jobs : attempts'[j] <= Limit + crashes' /\ attempts'[j] <= Limit + 1 + crashes'
    BY <1>t, <2>1, LimitType DEF AttemptInv, RowAttempts
  <2> QED BY <2>1, <2>2, <2>3 DEF AttemptInv, RowAttempts, SeenAttempts
<1> QED BY <1>1, <1>2

LEMMA AttemptNext ==
  ASSUME Single, TypeOK, HeldInv, SingleInv, AttemptInv, [Next]_vars
  PROVE  AttemptInv'
<1>1. CASE UNCHANGED vars
  BY <1>1 DEF vars, queueVars, rowVars, workerVars, submitVars, faultVars, AttemptInv, RowAttempts,
              SeenAttempts, Waiting
<1> QED BY <1>1, AttemptSubmit, AttemptInstance, AttemptWorker DEF Next

\* One instance, no resubmission: a job is tried at most max_retries + 1 times
\* (the default where the project could not be read) and once more for each
\* crash, whichever calls fail: the stale attempts that handleJobFailure
\* compares never send a job round once too often, and no attempt signs twice.
THEOREM SingleInstanceAttempts == ASSUME Single PROVE Spec => []AttemptsBounded
<1>1. TypeOK /\ HeldInv /\ SingleInv /\ AttemptInv /\ [Next]_vars => AttemptInv'
  BY AttemptNext
<1>2. AttemptInv /\ SignaturesCounted => AttemptsBounded
  BY LimitType DEF AttemptInv, RowAttempts, AttemptsBounded
<1> QED BY <1>1, <1>2, AttemptInit, SingleInstance, TypeCorrect, EverySignatureCounted, PTL DEF Spec
-----------------------------------------------------------------------------
(***************************************************************************)
(* How often a job is signed, when no database write and no answer of an   *)
(* RPC node is lost.  A row that is not final has used up no more than the *)
(* crashes so far, unless a worker is about to record the signature.       *)
(***************************************************************************)
Recording(j) == \E w \in Workers : held[w] = j /\ pc[w] = "markCompleted"

SignatureInv ==
    \A j \in Jobs :
        /\ signatures[j] <= 1 + crashes
        /\ status[j] \notin Final /\ ~Recording(j) => signatures[j] <= crashes

LEMMA SignatureInit == Init => SignatureInv
<1> SUFFICES ASSUME Init, NEW j \in Jobs
             PROVE  /\ signatures[j] <= 1 + crashes
                    /\ status[j] \notin Final /\ ~Recording(j) => signatures[j] <= crashes
  BY DEF SignatureInv
<1>1. crashes = 0 /\ signatures[j] = 0
  BY DEF Init
<1> QED BY <1>1

LEMMA SignatureKept ==
  ASSUME TypeOK, SignatureInv, UNCHANGED signatures, crashes' \in Nat, crashes' >= crashes,
         \A k \in Jobs : Recording(k) => Recording(k)',
         \A k \in Jobs : status[k] \in Final => status'[k] = status[k]
  PROVE  SignatureInv'
<1>t. signatures \in [Jobs -> Nat] /\ crashes \in Nat
  BY DEF TypeOK
<1> SUFFICES ASSUME NEW j \in Jobs
             PROVE  /\ signatures'[j] <= 1 + crashes'
                    /\ status'[j] \notin Final /\ ~Recording(j)' => signatures'[j] <= crashes'
  BY DEF SignatureInv
<1>1. /\ signatures[j] <= 1 + crashes
      /\ status[j] \notin Final /\ ~Recording(j) => signatures[j] <= crashes
  BY DEF SignatureInv
<1>2. signatures'[j] <= 1 + crashes'
  BY <1>1, <1>t
<1>3. ASSUME status'[j] \notin Final, ~Recording(j)' PROVE signatures'[j] <= crashes'
  <2>1. signatures[j] <= crashes
    BY <1>1, <1>3
  <2> QED BY <1>t, <2>1
<1> QED BY <1>2, <1>3

LEMMA SignatureWorker ==
  ASSUME Single, ~StoreErrors, ~LostReplies, TypeOK, HeldInv, SingleInv, SignatureInv,
         NEW w \in Workers, WorkerStep(w),
         \A k \in Jobs : status[k] \in Final => status'[k] = status[k]
  PROVE  SignatureInv'
<1> USE DEF Running, Goto, workerVars, rowVars, effectVars
<1>f. Frame(w)
  BY WorkerFrame
<1>t. /\ pc \in [Workers -> Steps] /\ status \in [Jobs -> Statuses]
      /\ signatures \in [Jobs -> Nat] /\ crashes \in Nat /\ crashes' = crashes
  BY <1>f DEF TypeOK, WorkerTypeOK, RowTypeOK, Frame
<1>h. pc[w] # "idle" => held[w] \in Jobs
  BY DEF HeldInv
<1>1. CASE Sign(w)
  <2>0. pc[w] = "sign" /\ UNCHANGED <<held, status>>
    BY <1>1 DEF Sign
  <2>1. PICK j \in Jobs : held[w] = j
    BY <1>h, <2>0
  <2>2. status[j] \notin Final /\ ~Recording(j)
    <3>1. Holds(w, j) /\ Unfinished(j)
      BY <2>0, <2>1 DEF Holds, SingleInv, WritesUnfinished
    <3> QED BY <2>0, <3>1 DEF SingleInv, SingleHolder, Holds, Recording, Unfinished
  <2>3. signatures[j] <= crashes
    BY <2>2 DEF SignatureInv
  <2>4. \A k \in Jobs \ {j} : signatures'[k] = signatures[k] /\ (Recording(k) => Recording(k)')
    <3>1. \A k \in Jobs \ {j} : Recording(k) => Recording(k)'
      BY <1>f, <2>0, <2>1 DEF Recording, Frame
    <3> QED BY <1>1, <1>t, <2>1, <3>1 DEF Sign
  <2>5. \/ signatures'[j] = signatures[j]
        \/ signatures'[j] = signatures[j] + 1 /\ Recording(j)'
    BY <1>1, <1>t, <2>0, <2>1 DEF Sign, Recording
  <2>6. /\ signatures'[j] <= 1 + crashes
        /\ ~Recording(j)' => signatures'[j] <= crashes
    BY <1>t, <2>3, <2>5
  <2> QED BY <1>t, <2>0, <2>4, <2>6 DEF SignatureInv
<1>2. CASE MarkJobCompleted(w)
  <2>0. pc[w] = "markCompleted" /\ UNCHANGED <<held, signatures>>
    BY <1>2 DEF MarkJobCompleted
  <2>1. PICK j \in Jobs : held[w] = j
    BY <1>h, <2>0
  <2>2. /\ status'[j] \in Final
        /\ \A k \in Jobs \ {j} : status'[k] = status[k] /\ (Recording(k) => Recording(k)')
    <3>1. status'[j] = "completed" /\ \A k \in Jobs \ {j} : status'[k] = status[k]
      BY <1>2, <1>t, <2>1 DEF MarkJobCompleted, Write
    <3>2. \A k \in Jobs \ {j} : Recording(k) => Recording(k)'
      BY <1>f, <2>0, <2>1 DEF Recording, Frame
    <3> QED BY <3>1, <3>2 DEF Final
  <2> QED BY <1>t, <2>0, <2>2 DEF SignatureInv
<1>3. ASSUME UNCHANGED signatures, pc[w] # "markCompleted" PROVE SignatureInv'
  <2>1. \A k \in Jobs : Recording(k) => Recording(k)'
    BY <1>3, <1>f DEF Recording, Frame
  <2> QED BY <1>3, <1>t, <2>1, SignatureKept
<1>4. ASSUME ~Sign(w), ~MarkJobCompleted(w) PROVE UNCHANGED signatures /\ pc[w] # "markCompleted"
  BY <1>4 DEF WorkerStep, Take, TakeLost, FetchFails, FetchFinal, Fetch, MarkJobProcessing,
              AcknowledgeJob, MarkJobDead, MoveJobToDLQ, MarkJobFailed, RequeueJob, PushJob, Notify,
              MarkWebhook
<1> QED BY <1>1, <1>2, <1>3, <1>4

LEMMA SignatureNext ==
  ASSUME Single, ~StoreErrors, ~LostReplies, TypeOK, HeldInv, SingleInv, SignatureInv, [Next]_vars
  PROVE  SignatureInv'
<1>0. \A k \in Jobs : status[k] \in Final => status'[k] = status[k]
  BY FinalStep
<1>t. crashes \in Nat /\ signatures \in [Jobs -> Nat]
  BY DEF TypeOK
<1>1. ASSUME UNCHANGED <<signatures, pc, held>>, crashes' \in {crashes, crashes + 1}
      PROVE  SignatureInv'
  <2>1. crashes' \in Nat /\ crashes' >= crashes
    BY <1>1, <1>t
  <2>2. \A k \in Jobs : Recording(k) => Recording(k)'
    BY <1>1 DEF Recording
  <2> QED BY <1>0, <1>1, <2>1, <2>2, SignatureKept
<1>2. ASSUME NEW i \in Instances, InstanceStep(i) PROVE SignatureInv'
  BY <1>1, <1>2 DEF InstanceStep, Start, StartUnrecovered, Recover, RecoverFails, Recovered,
                    workerVars, effectVars, faultVars
<1>3. ASSUME NEW j \in Jobs, Submit(j) \/ EnqueueSubmitted(j) \/ SubmitDies(j) PROVE SignatureInv'
  BY <1>1, <1>3 DEF Submit, EnqueueSubmitted, SubmitDies, workerVars, effectVars, faultVars
<1>4. ASSUME NEW i \in Instances, Crash(i) PROVE SignatureInv'
  <2>1. UNCHANGED signatures /\ crashes' = crashes + 1
    BY <1>4 DEF Crash, effectVars
  <2>2. \A j \in Jobs : signatures'[j] <= crashes' /\ signatures'[j] <= 1 + crashes'
    BY <1>t, <2>1 DEF SignatureInv
  <2> QED BY <2>2 DEF SignatureInv
<1>5. CASE UNCHANGED vars
  BY <1>1, <1>5 DEF vars, workerVars, effectVars, faultVars
<1> QED BY <1>0, <1>2, <1>3, <1>4, <1>5, SignatureWorker DEF Next

\* One instance, no resubmission, and every database write and broadcast
\* answered (Redis may fail): each signature of a job but one is paid for by a
\* crash, the one case that processJob cannot tell from an unsigned job.
THEOREM SingleInstanceSignatures ==
  ASSUME Single, ~StoreErrors, ~LostReplies PROVE Spec => []SignaturesBounded
<1>1. TypeOK /\ HeldInv /\ SingleInv /\ SignatureInv /\ [Next]_vars => SignatureInv'
  BY SignatureNext
<1>2. SignatureInv => SignaturesBounded
  BY DEF SignatureInv, SignaturesBounded
<1> QED BY <1>1, <1>2, SignatureInit, SingleInstance, TypeCorrect, PTL DEF Spec
-----------------------------------------------------------------------------
(***************************************************************************)
(* Webhooks tell the truth, when no database write is lost.  Between sign  *)
(* and the webhook lie the row's update, the acknowledgement and whatever  *)
(* the others do: the worker's memory of having signed must stay matched   *)
(* by the row, and its copy of the row never says dead.                    *)
(***************************************************************************)
Honest(w) ==
    /\ seen[w].status # "dead"
    /\ outcome[w] = "signed" =>
          /\ pc[w] \in {"markCompleted", "ack", "notify"}
          /\ signatures[held[w]] > 0
          /\ pc[w] # "markCompleted" => status[held[w]] = "completed"

WebhookInv == WebhookTruthful /\ \A w \in Workers : Honest(w)

\* Signatures are never taken back.
LEMMA SignaturesGrow ==
  ASSUME TypeOK, HeldInv, [Next]_vars
  PROVE  \A j \in Jobs : signatures[j] > 0 => signatures'[j] > 0
<1> USE DEF effectVars
<1>1. ASSUME NEW w \in Workers, Sign(w)
      PROVE  \A j \in Jobs : signatures[j] > 0 => signatures'[j] > 0
  BY <1>1 DEF Sign, TypeOK
<1>2. ASSUME NEW w \in Workers, WorkerStep(w), ~Sign(w) PROVE UNCHANGED signatures
  BY <1>2 DEF WorkerStep, Take, TakeLost, FetchFails, FetchFinal, Fetch, MarkJobProcessing,
              MarkJobCompleted, AcknowledgeJob, MarkJobDead, MoveJobToDLQ, MarkJobFailed, RequeueJob,
              PushJob, Notify, MarkWebhook
<1>3. ASSUME NEW i \in Instances, InstanceStep(i) \/ Crash(i) PROVE UNCHANGED signatures
  BY <1>3 DEF InstanceStep, Start, StartUnrecovered, Recover, RecoverFails, Recovered, Crash
<1>4. ASSUME NEW j \in Jobs, Submit(j) \/ EnqueueSubmitted(j) \/ SubmitDies(j) PROVE UNCHANGED signatures
  BY <1>4 DEF Submit, EnqueueSubmitted, SubmitDies
<1>5. CASE UNCHANGED vars
  BY <1>5 DEF vars
<1> QED BY <1>1, <1>2, <1>3, <1>4, <1>5 DEF Next

\* What has been told or remembered stays true: a completed row stays completed.
LEMMA TruthStays ==
  ASSUME Single, TypeOK, HeldInv, SingleInv, WebhookInv, [Next]_vars
  PROVE  /\ UNCHANGED events => WebhookTruthful'
         /\ \A v \in Workers :
               pc'[v] = pc[v] /\ held'[v] = held[v] /\ seen'[v] = seen[v] /\ outcome'[v] = outcome[v]
               => Honest(v)'
<1>1. \A j \in Jobs : status[j] = "completed" => status'[j] = "completed"
  BY FinalStep DEF Final
<1>2. \A j \in Jobs : signatures[j] > 0 => signatures'[j] > 0
  BY SignaturesGrow
<1>3. UNCHANGED events => WebhookTruthful'
  BY <1>1, <1>2 DEF WebhookInv, WebhookTruthful
<1>4. ASSUME NEW v \in Workers, pc'[v] = pc[v], held'[v] = held[v], seen'[v] = seen[v],
             outcome'[v] = outcome[v]
      PROVE  Honest(v)'
  <2>1. Honest(v)
    BY DEF WebhookInv
  <2>2. outcome[v] = "signed" => held[v] \in Jobs
    BY <2>1 DEF Honest, HeldInv
  <2> QED BY <1>1, <1>2, <1>4, <2>1, <2>2 DEF Honest
<1> QED BY <1>3, <1>4

LEMMA WebhookWorker ==
  ASSUME Single, ~StoreErrors, TypeOK, HeldInv, SingleInv, WebhookInv, [Next]_vars,
         NEW w \in Workers, WorkerStep(w)
  PROVE  WebhookInv'
<1> USE DEF Running, Goto, workerVars, rowVars, effectVars
<1>f. /\ Frame(w)
      /\ \A v \in Workers \ {w} : seen'[v] = seen[v] /\ outcome'[v] = outcome[v]
  BY WorkerFrame, OwnMemory
<1>t. /\ pc \in [Workers -> Steps] /\ outcome \in [Workers -> Outcomes]
      /\ seen \in [Workers -> [status : Statuses, attempts : Nat]]
      /\ held \in [Workers -> Jobs \cup {NoJob}] /\ status \in [Jobs -> Statuses]
      /\ signatures \in [Jobs -> Nat] /\ events \in [Jobs -> SUBSET Events]
  BY DEF TypeOK, WorkerTypeOK, RowTypeOK
<1>h. pc[w] # "idle" => held[w] \in Jobs
  BY DEF HeldInv
<1>w. Honest(w)
  BY DEF WebhookInv
<1>o. \A v \in Workers \ {w} : Honest(v)'
  BY <1>f, TruthStays DEF Frame
<1>k. UNCHANGED events => WebhookTruthful'
  BY TruthStays
<1>r. ASSUME Return(w) PROVE Honest(w)'
  BY <1>r, <1>t DEF Return, Honest, NothingSeen
<1>n. ASSUME outcome'[w] # "signed", seen'[w] = seen[w] PROVE Honest(w)'
  BY <1>n, <1>w DEF Honest
<1>s. SUFFICES Honest(w)' /\ (UNCHANGED events \/ WebhookTruthful')
  BY <1>o, <1>k DEF WebhookInv
<1>1. ASSUME NEW j \in Jobs, Take(w, j) \/ TakeLost(w, j) PROVE Honest(w)' /\ UNCHANGED events
  <2>1. pc[w] = "idle" /\ UNCHANGED <<seen, outcome, events>>
    BY <1>1 DEF Take, TakeLost
  <2> QED BY <1>n, <1>w, <2>1 DEF Honest
<1>2. CASE FetchFails(w) \/ MarkWebhook(w)
  BY <1>2, <1>r DEF FetchFails, MarkWebhook
<1>3. CASE FetchFinal(w) \/ MarkJobDead(w) \/ MarkJobFailed(w) \/ MoveJobToDLQ(w)
  <2>1. pc[w] \in {"fetch", "fail", "dlq"} /\ UNCHANGED <<seen, outcome, events>>
    BY <1>3 DEF FetchFinal, MarkJobDead, MarkJobFailed, MoveJobToDLQ
  <2> QED BY <1>n, <1>w, <2>1 DEF Honest
<1>4. CASE Fetch(w)
  <2>1. /\ pc[w] = "fetch" /\ UNCHANGED events /\ seen'[w].status = status[held[w]]
        /\ outcome'[w] \in {outcome[w], "lookupError"} /\ ~Done(held[w])
    BY <1>4, <1>t DEF Fetch
  <2> QED BY <1>w, <2>1 DEF Honest, Done
<1>5. CASE MarkJobProcessing(w)
  <2>1. /\ pc[w] = "markProcessing" /\ UNCHANGED events
        /\ Return(w) \/ UNCHANGED <<seen, outcome>>
    BY <1>5 DEF MarkJobProcessing
  <2> QED BY <1>n, <1>r, <1>w, <2>1 DEF Honest
<1>6. CASE Sign(w)
  <2>1. /\ UNCHANGED <<events, seen, held>> /\ pc[w] = "sign" /\ held[w] \in Jobs
        /\ \/ outcome'[w] = "signError"
           \/ /\ outcome'[w] = "signed" /\ pc'[w] = "markCompleted"
              /\ signatures'[held[w]] = signatures[held[w]] + 1
    BY <1>6, <1>h, <1>t DEF Sign
  <2>2. outcome'[w] = "signed" => signatures'[held[w]] > 0
    BY <1>t, <2>1
  <2> QED BY <1>w, <2>1, <2>2 DEF Honest
<1>7. CASE MarkJobCompleted(w)
  <2>1. /\ UNCHANGED <<events, seen, held, outcome, signatures>> /\ pc'[w] = "ack"
        /\ held[w] \in Jobs /\ status'[held[w]] = "completed"
    BY <1>7, <1>h, <1>t DEF MarkJobCompleted, Write
  <2> QED BY <1>w, <2>1 DEF Honest
<1>8. CASE AcknowledgeJob(w)
  <2>1. pc[w] = "ack" /\ UNCHANGED <<events, status, signatures>> /\ AfterQueue(w)
    BY <1>8 DEF AcknowledgeJob
  <2>2. CASE Goto(w, "notify") /\ UNCHANGED <<held, seen, outcome>>
    BY <1>t, <1>w, <2>1, <2>2 DEF Honest
  <2> QED BY <1>r, <2>1, <2>2 DEF AfterQueue
<1>9. CASE RequeueJob(w) \/ PushJob(w)
  <2>1. /\ pc[w] \in {"requeue", "push"} /\ UNCHANGED events
        /\ Return(w) \/ UNCHANGED <<seen, outcome>>
    BY <1>9 DEF RequeueJob, PushJob, AfterQueue
  <2> QED BY <1>n, <1>r, <1>w, <2>1 DEF Honest
<1>10. CASE Notify(w)
  <2>1. /\ pc[w] = "notify" /\ UNCHANGED <<seen, status, signatures>>
        /\ outcome'[w] \in {"delivered", "undelivered"}
    BY <1>10, <1>t DEF Notify
  <2>2. Honest(w)'
    BY <1>n, <2>1
  <2>3. PICK j \in Jobs : held[w] = j
    BY <1>h, <2>1
  <2>4. CASE events' = [events EXCEPT ![j] = @ \cup {EventStatus(w)}]
    <3>1. /\ EventStatus(w) # "dead"
          /\ EventStatus(w) = "completed" => outcome[w] = "signed"
      BY <1>w DEF EventStatus, Honest
    <3>2. EventStatus(w) = "completed" => status[j] = "completed" /\ signatures[j] > 0
      BY <1>w, <2>1, <2>3, <3>1 DEF Honest
    <3>3. /\ \A k \in Jobs \ {j} : events'[k] = events[k]
          /\ events'[j] = events[j] \cup {EventStatus(w)}
      BY <1>t, <2>4
    <3>4. WebhookTruthful'
      BY <2>1, <3>1, <3>2, <3>3 DEF WebhookTruthful, WebhookInv
    <3> QED BY <2>2, <3>4
  <2> QED BY <1>10, <2>2, <2>3, <2>4 DEF Notify
<1> QED
  BY <1>1, <1>2, <1>3, <1>4, <1>5, <1>6, <1>7, <1>8, <1>9, <1>10 DEF WorkerStep

LEMMA WebhookNext ==
  ASSUME Single, ~StoreErrors, TypeOK, HeldInv, SingleInv, WebhookInv, [Next]_vars
  PROVE  WebhookInv'
<1>1. ASSUME UNCHANGED <<events, workerVars>> PROVE WebhookInv'
  BY <1>1, TruthStays DEF workerVars, WebhookInv
<1>2. ASSUME NEW i \in Instances, InstanceStep(i) PROVE WebhookInv'
  BY <1>1, <1>2 DEF InstanceStep, Start, StartUnrecovered, Recover, RecoverFails, Recovered, effectVars
<1>3. ASSUME NEW j \in Jobs, Submit(j) \/ EnqueueSubmitted(j) \/ SubmitDies(j) PROVE WebhookInv'
  BY <1>1, <1>3 DEF Submit, EnqueueSubmitted, SubmitDies, effectVars
<1>4. ASSUME NEW i \in Instances, Crash(i) PROVE WebhookInv'
  <2>1. /\ UNCHANGED events
        /\ \A w \in Workers : seen'[w] = NothingSeen /\ outcome'[w] = "none"
    BY <1>4, WorkersOfInstance DEF Crash, Single, effectVars
  <2>2. \A w \in Workers : Honest(w)'
    BY <2>1 DEF Honest, NothingSeen
  <2> QED BY <2>1, <2>2, TruthStays DEF WebhookInv
<1>5. CASE UNCHANGED vars
  BY <1>1, <1>5 DEF vars, effectVars
<1> QED BY <1>2, <1>3, <1>4, <1>5, WebhookWorker DEF Next

\* One instance, no resubmission, no lost database write: a merchant who was
\* told "completed" finds the row completed and signed from then on, whatever
\* crashes and whichever Redis calls fail; and nobody is ever told "dead".
THEOREM SingleInstanceWebhooks ==
  ASSUME Single, ~StoreErrors PROVE Spec => []WebhookTruthful
<1>1. Init => WebhookInv
  BY DEF Init, WebhookInv, WebhookTruthful, Honest, NothingSeen
<1>2. TypeOK /\ HeldInv /\ SingleInv /\ WebhookInv /\ [Next]_vars => WebhookInv'
  BY WebhookNext
<1>3. WebhookInv => WebhookTruthful
  BY DEF WebhookInv
<1> QED BY <1>1, <1>2, <1>3, SingleInstance, TypeCorrect, PTL DEF Spec
-----------------------------------------------------------------------------
(***************************************************************************)
(* The dead letter queue, when nothing but the process fails.  MarkJobDead *)
(* and MoveToDLQ are two calls: the worker between them is the only one to *)
(* have the job, whose row is dead and which is not in the list yet.       *)
(***************************************************************************)
DeadInv ==
    /\ DeadLetters
    /\ \A w \in Workers : pc[w] = "dlq" => dlq[held[w]] = 0 /\ status[held[w]] = "dead"

\* Rows that are written are not dead, before or after.
LEMMA DeadKept ==
  ASSUME DeadInv, UNCHANGED dlq, crashes' \in {crashes, crashes + 1}, crashes \in Nat,
         \A k \in Jobs : status'[k] = status[k] \/ (status[k] # "dead" /\ status'[k] # "dead"),
         \A v \in Workers : pc'[v] = "dlq" <=> pc[v] = "dlq",
         \A v \in Workers : pc[v] = "dlq" => held'[v] = held[v] /\ held[v] \in Jobs,
         TypeOK
  PROVE  DeadInv'
<1>1. \A v \in Workers : pc'[v] = "dlq" => dlq'[held'[v]] = 0 /\ status'[held'[v]] = "dead"
  BY DEF DeadInv
<1>2. ASSUME NEW j \in Jobs
      PROVE  /\ dlq'[j] <= 1
             /\ dlq'[j] = 1 => status'[j] = "dead"
             /\ status'[j] = "dead" /\ crashes' = 0 =>
                   dlq'[j] = 1 \/ \E v \in Workers : held'[v] = j /\ pc'[v] = "dlq"
  <2>1. /\ dlq[j] <= 1
        /\ dlq[j] = 1 => status[j] = "dead"
        /\ status[j] = "dead" /\ crashes = 0 =>
              dlq[j] = 1 \/ \E v \in Workers : held[v] = j /\ pc[v] = "dlq"
    BY DEF DeadInv, DeadLetters
  <2>2. crashes' = 0 => crashes = 0
    OBVIOUS
  <2> QED BY <2>1, <2>2
<1> QED BY <1>1, <1>2 DEF DeadInv, DeadLetters

LEMMA DeadWorker ==
  ASSUME Single, ~StoreErrors, ~RedisErrors, TypeOK, HeldInv, SingleInv, DeadInv,
         NEW w \in Workers, WorkerStep(w)
  PROVE  DeadInv'
<1> USE DEF Running, Goto, workerVars, rowVars, queueVars
<1>f. Frame(w) /\ crashes' = crashes
  BY WorkerFrame DEF Frame
<1>t. /\ pc \in [Workers -> Steps] /\ held \in [Workers -> Jobs \cup {NoJob}]
      /\ status \in [Jobs -> Statuses] /\ dlq \in [Jobs -> Nat] /\ crashes \in Nat
  BY DEF TypeOK, WorkerTypeOK, RowTypeOK, QueueTypeOK
<1>h. pc[w] # "idle" => held[w] \in Jobs
  BY DEF HeldInv
<1>0. ASSUME UNCHANGED dlq, pc[w] # "dlq", pc'[w] # "dlq",
             \A k \in Jobs : status'[k] = status[k] \/ (status[k] # "dead" /\ status'[k] # "dead")
      PROVE  DeadInv'
  BY <1>0, <1>f, <1>t, DeadKept DEF Frame, HeldInv
<1>1. CASE MarkJobDead(w)
  <2>0. pc[w] = "fail" /\ pc'[w] = "dlq" /\ UNCHANGED <<held, dlq>>
    BY <1>1, <1>t DEF MarkJobDead
  <2>1. PICK j \in Jobs : held[w] = j
    BY <1>h, <2>0
  <2>2. status' = [status EXCEPT ![j] = "dead"]
    BY <1>1, <2>1 DEF MarkJobDead, Write
  <2>3. status[j] # "dead"
    BY <2>0, <2>1 DEF SingleInv, WritesUnfinished, Unfinished, Final
  <2>4. dlq[j] = 0
    BY <1>t, <2>3 DEF DeadInv, DeadLetters
  <2>5. \A v \in Workers : pc'[v] = "dlq" => dlq'[held'[v]] = 0 /\ status'[held'[v]] = "dead"
    BY <1>f, <1>t, <2>0, <2>1, <2>2, <2>4 DEF DeadInv, Frame, HeldInv
  <2>6. DeadLetters'
    <3> SUFFICES ASSUME NEW k \in Jobs
                 PROVE  /\ dlq'[k] <= 1
                        /\ dlq'[k] = 1 => status'[k] = "dead"
                        /\ status'[k] = "dead" /\ crashes' = 0 =>
                              dlq'[k] = 1 \/ \E v \in Workers : held'[v] = k /\ pc'[v] = "dlq"
      BY DEF DeadLetters
    <3>1. CASE k = j
      BY <2>0, <2>1, <2>4, <3>1
    <3>2. CASE k # j
      <4>1. status'[k] = status[k]
        BY <1>t, <2>2, <3>2
      <4>2. \A v \in Workers : held[v] = k /\ pc[v] = "dlq" => held'[v] = k /\ pc'[v] = "dlq"
        BY <1>f, <2>0 DEF Frame
      <4> QED BY <1>f, <2>0, <4>1, <4>2 DEF DeadInv, DeadLetters
    <3> QED BY <3>1, <3>2
  <2> QED BY <2>5, <2>6 DEF DeadInv
<1>2. CASE MoveJobToDLQ(w)
  <2>0. pc[w] = "dlq" /\ pc'[w] = "ack" /\ UNCHANGED <<held, status>>
    BY <1>2, <1>t DEF MoveJobToDLQ
  <2>1. PICK j \in Jobs : held[w] = j
    BY <1>h, <2>0
  <2>2. dlq' = [dlq EXCEPT ![j] = @ + 1]
    BY <1>2, <2>1 DEF MoveJobToDLQ, MoveToDLQ
  <2>3. dlq[j] = 0 /\ status[j] = "dead"
    BY <2>0, <2>1 DEF DeadInv
  <2>4. dlq'[j] = 1 /\ \A k \in Jobs \ {j} : dlq'[k] = dlq[k]
    BY <1>t, <2>2, <2>3
  <2>5. \A v \in Workers \ {w} : pc[v] = "dlq" => held[v] \in Jobs /\ held[v] # j
    BY <2>0, <2>1 DEF SingleInv, SingleHolder, Holds, HeldInv
  <2>6. \A v \in Workers : pc'[v] = "dlq" => dlq'[held'[v]] = 0 /\ status'[held'[v]] = "dead"
    <3> SUFFICES ASSUME NEW v \in Workers, pc'[v] = "dlq"
                 PROVE  dlq'[held'[v]] = 0 /\ status'[held'[v]] = "dead"
      OBVIOUS
    <3>1. v # w /\ pc[v] = "dlq" /\ held'[v] = held[v]
      BY <1>f, <2>0 DEF Frame
    <3>2. dlq'[held[v]] = dlq[held[v]]
      BY <2>4, <2>5, <3>1
    <3> QED BY <2>0, <3>1, <3>2 DEF DeadInv
  <2>7. DeadLetters'
    <3> SUFFICES ASSUME NEW k \in Jobs
                 PROVE  /\ dlq'[k] <= 1
                        /\ dlq'[k] = 1 => status'[k] = "dead"
                        /\ status'[k] = "dead" /\ crashes' = 0 =>
                              dlq'[k] = 1 \/ \E v \in Workers : held'[v] = k /\ pc'[v] = "dlq"
      BY DEF DeadLetters
    <3>1. CASE k = j
      BY <2>0, <2>3, <2>4, <3>1
    <3>2. CASE k # j
      <4>1. \A v \in Workers : held[v] = k /\ pc[v] = "dlq" => held'[v] = k /\ pc'[v] = "dlq"
        BY <1>f, <2>0, <2>1, <3>2 DEF Frame
      <4> QED BY <1>f, <2>0, <2>4, <3>2, <4>1 DEF DeadInv, DeadLetters
    <3> QED BY <3>1, <3>2
  <2> QED BY <2>6, <2>7 DEF DeadInv
<1>3. CASE MarkJobProcessing(w) \/ MarkJobCompleted(w) \/ MarkJobFailed(w)
  <2>0. pc[w] \in {"markProcessing", "markCompleted", "fail"} /\ pc'[w] # "dlq" /\ UNCHANGED dlq
    BY <1>3, <1>t DEF MarkJobProcessing, MarkJobCompleted, MarkJobFailed, Return
  <2>1. PICK j \in Jobs : held[w] = j
    BY <1>h, <2>0
  <2>2. status[j] # "dead"
    BY <2>0, <2>1 DEF SingleInv, WritesUnfinished, Unfinished, Final
  <2>3. \E s \in {"processing", "completed", "failed"} : status' = [status EXCEPT ![j] = s]
    BY <1>3, <2>1 DEF MarkJobProcessing, MarkJobCompleted, MarkJobFailed, Write
  <2>4. \A k \in Jobs : status'[k] = status[k] \/ (status[k] # "dead" /\ status'[k] # "dead")
    BY <1>t, <2>2, <2>3
  <2> QED BY <1>0, <2>0, <2>4
<1>4. ASSUME NEW j \in Jobs, Take(w, j) \/ TakeLost(w, j) PROVE DeadInv'
  BY <1>0, <1>4, <1>t DEF Take, TakeLost, Dequeue
<1>5. CASE FetchFails(w) \/ FetchFinal(w) \/ Fetch(w) \/ Sign(w) \/ Notify(w) \/ MarkWebhook(w)
  BY <1>0, <1>5, <1>t DEF FetchFails, FetchFinal, Fetch, Sign, Notify, MarkWebhook, Return
<1>6. CASE AcknowledgeJob(w)
  BY <1>0, <1>6, <1>t DEF AcknowledgeJob, Acknowledge, AfterQueue, Return
<1>7. CASE RequeueJob(w) \/ PushJob(w)
  BY <1>0, <1>7, <1>t DEF RequeueJob, RequeueRemove, PushJob, RequeuePush, AfterQueue, Return
<1> QED BY <1>1, <1>2, <1>3, <1>4, <1>5, <1>6, <1>7 DEF WorkerStep

LEMMA DeadNext ==
  ASSUME Single, ~StoreErrors, ~RedisErrors, TypeOK, HeldInv, SingleInv, DeadInv, [Next]_vars
  PROVE  DeadInv'
<1> USE DEF rowVars, workerVars, queueVars, faultVars
<1>t. status \in [Jobs -> Statuses] /\ crashes \in Nat
  BY DEF TypeOK, RowTypeOK
<1>1. ASSUME UNCHANGED <<dlq, pc, held>>, crashes' \in {crashes, crashes + 1},
             \A k \in Jobs : status'[k] = status[k] \/ (status[k] # "dead" /\ status'[k] # "dead")
      PROVE  DeadInv'
  BY <1>1, <1>t, DeadKept DEF HeldInv
<1>2. ASSUME NEW i \in Instances, InstanceStep(i) PROVE DeadInv'
  BY <1>1, <1>2 DEF InstanceStep, Start, RecoverScan, StartUnrecovered, Recover, RecoverItem,
                    RequeuePush, RecoverFails, Recovered
<1>3. ASSUME NEW j \in Jobs, Submit(j) \/ EnqueueSubmitted(j) \/ SubmitDies(j) PROVE DeadInv'
  <2>1. UNCHANGED <<dlq, pc, held>> /\ crashes' \in {crashes, crashes + 1}
    BY <1>3 DEF Submit, EnqueueSubmitted, Enqueue, SubmitDies
  <2>2. \A k \in Jobs : status'[k] = status[k] \/ (status[k] # "dead" /\ status'[k] # "dead")
    BY <1>3, <1>t DEF Submit, EnqueueSubmitted, SubmitDies
  <2> QED BY <1>1, <2>1, <2>2
<1>4. ASSUME NEW i \in Instances, Crash(i) PROVE DeadInv'
  <2>1. UNCHANGED <<dlq, status>> /\ crashes' = crashes + 1 /\ crashes' # 0
    BY <1>4, <1>t DEF Crash
  <2>2. \A w \in Workers : pc'[w] = "idle"
    BY <1>4, WorkersOfInstance DEF Crash, Single
  <2> QED BY <2>1, <2>2 DEF DeadInv, DeadLetters
<1>5. CASE UNCHANGED vars
  BY <1>1, <1>5 DEF vars
<1> QED BY <1>2, <1>3, <1>4, <1>5, DeadWorker DEF Next

\* One instance, no resubmission, no failed call: a job is in the dead letter
\* queue at most once and only when its row says dead, after any crashes; and
\* until the first crash every dead row is there or on its way.
THEOREM SingleInstanceDeadLetters ==
  ASSUME Single, ~StoreErrors, ~RedisErrors PROVE Spec => []DeadLetters
<1>1. Init => DeadInv
  <2> SUFFICES ASSUME Init PROVE DeadInv
    OBVIOUS
  <2>1. \A j \in Jobs : dlq[j] = 0 /\ status[j] = "none"
    BY DEF Init, QueueInit, NoEnvelopes
  <2>2. \A w \in Workers : pc[w] = "idle"
    BY DEF Init
  <2> QED BY <2>1, <2>2 DEF DeadInv, DeadLetters
<1>2. TypeOK /\ HeldInv /\ SingleInv /\ DeadInv /\ [Next]_vars => DeadInv'
  BY DeadNext
<1>3. DeadInv => DeadLetters
  BY DEF DeadInv
<1> QED BY <1>1, <1>2, <1>3, SingleInstance, TypeCorrect, PTL DEF Spec
-----------------------------------------------------------------------------
(***************************************************************************)
(* No job is lost, when no database write is.  The envelope is the token:  *)
(* as long as a row is not final, its envelope is somewhere, or the step   *)
(* that let go of it is on record.  Acknowledge alone removes an envelope  *)
(* without a trace, and by then the row is final.                          *)
(***************************************************************************)
Envelope(j) ==
    inflight[j] > 0 \/ queued[j] > 0 \/ processing[j] > 0 \/ \E c \in Callers : moving[c] = j

Accounted(j) == Envelope(j) \/ j \in dropped \cup unqueued

AccountInv ==
    /\ \A j \in Jobs : Unfinished(j) => Accounted(j)
    /\ \A j \in Jobs : submits[j] # 0 => status[j] # "none"
    /\ \A w \in Workers : pc[w] \in {"dlq", "ack"} => status[held[w]] \in Final

\* An envelope that moves is still one.
LEMMA AccountWorker ==
  ASSUME Single, ~StoreErrors, TypeOK, HeldInv, SingleInv, AccountInv,
         NEW w \in Workers, WorkerStep(w),
         \A k \in Jobs : status[k] \in Final => status'[k] = status[k]
  PROVE  AccountInv'
<1> USE DEF Running, Goto, workerVars, rowVars, queueVars, submitVars, faultVars
<1>f. Frame(w) /\ w \in Callers
  BY WorkerFrame DEF Callers
<1>t. /\ pc \in [Workers -> Steps] /\ held \in [Workers -> Jobs \cup {NoJob}]
      /\ queued \in [Jobs -> Nat] /\ processing \in [Jobs -> Nat]
      /\ moving \in [Callers -> Jobs \cup {NoJob}] /\ status \in [Jobs -> Statuses]
  BY DEF TypeOK, WorkerTypeOK, RowTypeOK, QueueTypeOK
<1>h. pc[w] # "idle" => held[w] \in Jobs
  BY DEF HeldInv
<1>m. (pc[w] = "push" /\ moving[w] = held[w]) \/ (pc[w] # "push" /\ moving[w] = NoJob)
  BY DEF SingleInv, Windows
<1>s. \A j \in Jobs : submits'[j] # 0 => status'[j] # "none"
  <2>1. \A j \in Jobs : status'[j] = "none" => status[j] = "none"
    <3>1. CASE MarkJobProcessing(w) \/ MarkJobCompleted(w) \/ MarkJobDead(w) \/ MarkJobFailed(w)
      BY <1>t, <3>1 DEF MarkJobProcessing, MarkJobCompleted, MarkJobDead, MarkJobFailed, Write
    <3>2. CASE ~(MarkJobProcessing(w) \/ MarkJobCompleted(w) \/ MarkJobDead(w) \/ MarkJobFailed(w))
      BY <3>2 DEF WorkerStep, Take, TakeLost, FetchFails, FetchFinal, Fetch, Sign, AcknowledgeJob,
                  MoveJobToDLQ, RequeueJob, PushJob, Notify, MarkWebhook
    <3> QED BY <3>1, <3>2
  <2> QED BY <1>f, <2>1 DEF AccountInv, Frame
<1>u. \A j \in Jobs : Unfinished(j)' => Unfinished(j)
  BY <1>f, <1>s, OwnRow DEF Unfinished, SingleInv, WritesUnfinished, Final, AccountInv, Frame
<1>a. \A v \in Workers : pc'[v] \in {"dlq", "ack"} => status'[held'[v]] \in Final
  <2>1. \A v \in Workers \ {w} : pc'[v] \in {"dlq", "ack"} => status'[held'[v]] \in Final
    BY <1>f DEF AccountInv, Frame, HeldInv
  <2>2. CASE FetchFinal(w)
    <3>1. PICK j \in Jobs : held[w] = j
      BY <1>h, <2>2 DEF FetchFinal
    <3>2. Holds(w, j) /\ Done(j) /\ UNCHANGED <<status, held>>
      BY <2>2, <3>1 DEF FetchFinal, Holds
    <3>3. status[j] # "none"
      BY <3>2, HeldAlone DEF AccountInv
    <3> QED BY <2>1, <3>1, <3>2, <3>3 DEF Done, Final
  <2>3. CASE MarkJobCompleted(w) \/ MarkJobDead(w)
    <3>1. held[w] \in Jobs /\ held' = held /\ status'[held[w]] \in Final
      BY <1>h, <1>t, <2>3 DEF MarkJobCompleted, MarkJobDead, Write, Final
    <3> QED BY <2>1, <3>1
  <2>4. CASE MoveJobToDLQ(w)
    <3>1. pc[w] = "dlq" /\ UNCHANGED <<held, status>>
      BY <2>4 DEF MoveJobToDLQ
    <3> QED BY <2>1, <3>1 DEF AccountInv
  <2>5. ASSUME NEW j \in Jobs, Take(w, j) \/ TakeLost(w, j) PROVE pc'[w] \notin {"dlq", "ack"}
    BY <1>t, <2>5 DEF Take, TakeLost
  <2>6. CASE FetchFails(w) \/ Fetch(w) \/ MarkJobProcessing(w) \/ Sign(w) \/ MarkJobFailed(w)
    BY <1>t, <2>1, <2>6 DEF FetchFails, Fetch, MarkJobProcessing, Sign, MarkJobFailed, Return
  <2>7. CASE AcknowledgeJob(w) \/ RequeueJob(w) \/ PushJob(w) \/ Notify(w) \/ MarkWebhook(w)
    BY <1>t, <2>1, <2>7 DEF AcknowledgeJob, RequeueJob, PushJob, Notify, MarkWebhook, AfterQueue, Return
  <2> QED BY <2>1, <2>2, <2>3, <2>4, <2>5, <2>6, <2>7 DEF WorkerStep
<1>e. SUFFICES ASSUME NEW k \in Jobs, Unfinished(k)', Unfinished(k), Accounted(k) PROVE Accounted(k)'
  BY <1>s, <1>u, <1>a DEF AccountInv
<1>0. ASSUME UNCHANGED <<queued, processing, moving, dropped>> PROVE Accounted(k)'
  BY <1>0, <1>f, <1>e DEF Accounted, Envelope, Frame
<1>1. ASSUME NEW j \in Jobs, Take(w, j) \/ TakeLost(w, j) PROVE Accounted(k)'
  <2>1. /\ UNCHANGED <<moving, dropped>>
        /\ queued' = [queued EXCEPT ![j] = @ - 1] /\ processing' = [processing EXCEPT ![j] = @ + 1]
    BY <1>1 DEF Take, TakeLost, Dequeue
  <2>2. CASE k = j
    BY <1>t, <2>1, <2>2 DEF Accounted, Envelope
  <2>3. CASE k # j
    BY <1>e, <1>f, <1>t, <2>1, <2>3 DEF Accounted, Envelope, Frame
  <2> QED BY <2>2, <2>3
<1>2. CASE AcknowledgeJob(w)
  <2>1. PICK j \in Jobs : held[w] = j
    BY <1>2, <1>h DEF AcknowledgeJob
  <2>2. k # j
    BY <1>2, <1>e, <2>1 DEF AcknowledgeJob, AccountInv, Unfinished
  <2>3. processing'[k] = processing[k] /\ UNCHANGED <<queued, moving, dropped>>
    BY <1>2, <1>t, <2>1, <2>2 DEF AcknowledgeJob, Acknowledge, RemoveProcessing
  <2> QED BY <1>e, <1>f, <2>3 DEF Accounted, Envelope, Frame
<1>3. CASE RequeueJob(w)
  <2>1. PICK j \in Jobs : held[w] = j
    BY <1>3, <1>h DEF RequeueJob
  <2>2. /\ UNCHANGED queued /\ dropped \subseteq dropped' /\ moving[w] = NoJob
        /\ \/ UNCHANGED <<processing, moving>>
           \/ RemoveProcessing(j) /\ (moving'[w] = j \/ (j \in dropped' /\ UNCHANGED moving))
    BY <1>3, <1>f, <1>m, <1>t, <2>1 DEF RequeueJob, RequeueRemove
  <2>3. k # j => processing'[k] = processing[k]
    BY <1>t, <2>2 DEF RemoveProcessing
  <2>4. k = j => Accounted(k)' \/ UNCHANGED <<processing, moving>>
    BY <1>f, <2>2 DEF Accounted, Envelope
  <2>5. \A c \in Callers : moving[c] = k => moving'[c] = k
    BY <1>f, <2>2, NoJobAssumption DEF Frame
  <2> QED BY <1>e, <1>f, <2>2, <2>3, <2>4, <2>5 DEF Accounted, Envelope, Frame
<1>4. CASE PushJob(w)
  <2>1. PICK j \in Jobs : held[w] = j /\ moving[w] = j
    BY <1>4, <1>h, <1>m DEF PushJob
  <2>2. /\ UNCHANGED processing /\ dropped \subseteq dropped'
        /\ \/ queued' = [queued EXCEPT ![j] = @ + 1]
           \/ UNCHANGED queued /\ j \in dropped'
    BY <1>4, <2>1 DEF PushJob, RequeuePush, PushMain
  <2>3. CASE k = j
    BY <1>t, <2>2, <2>3 DEF Accounted, Envelope
  <2>4. CASE k # j
    <3>1. queued'[k] = queued[k]
      BY <1>t, <2>2, <2>4
    <3>2. \A c \in Callers : moving[c] = k => moving'[c] = k
      BY <1>f, <2>1, <2>4 DEF Frame
    <3> QED BY <1>e, <1>f, <2>2, <3>1, <3>2 DEF Accounted, Envelope, Frame
  <2> QED BY <2>3, <2>4
<1>5. CASE FetchFails(w) \/ FetchFinal(w) \/ Fetch(w) \/ MarkJobProcessing(w) \/ Sign(w)
  BY <1>0, <1>5 DEF FetchFails, FetchFinal, Fetch, MarkJobProcessing, Sign
<1>6. CASE \/ MarkJobCompleted(w) \/ MarkJobDead(w) \/ MoveJobToDLQ(w) \/ MarkJobFailed(w)
           \/ Notify(w) \/ MarkWebhook(w)
  BY <1>0, <1>6 DEF MarkJobCompleted, MarkJobDead, MoveJobToDLQ, MoveToDLQ, MarkJobFailed, Notify,
                    MarkWebhook
<1> QED BY <1>1, <1>2, <1>3, <1>4, <1>5, <1>6 DEF WorkerStep

LEMMA AccountSubmit ==
  ASSUME Single, TypeOK, HeldInv, SingleInv, AccountInv, NEW j \in Jobs,
         Submit(j) \/ EnqueueSubmitted(j) \/ SubmitDies(j),
         \A k \in Jobs : status[k] \in Final => status'[k] = status[k]
  PROVE  AccountInv'
<1> USE DEF rowVars, workerVars, queueVars, faultVars
<1>t. /\ status \in [Jobs -> Statuses] /\ submits \in [Jobs -> Nat]
      /\ inflight \in [Jobs -> Nat] /\ queued \in [Jobs -> Nat]
  BY DEF TypeOK, RowTypeOK, QueueTypeOK
<1>1. UNCHANGED <<pc, held, processing, moving, dropped>>
  BY DEF Submit, EnqueueSubmitted, Enqueue, SubmitDies
<1>2. \A w \in Workers : pc'[w] \in {"dlq", "ack"} => status'[held'[w]] \in Final
  BY <1>1 DEF AccountInv, HeldInv
<1>3. \A k \in Jobs : submits'[k] # 0 => status'[k] # "none"
  BY <1>t DEF AccountInv, Submit, EnqueueSubmitted, SubmitDies
<1>4. ASSUME NEW k \in Jobs, Unfinished(k)' PROVE Accounted(k)'
  <2>1. CASE Submit(j)
    <3>1. CASE k = j
      <4>1. CASE status[j] \in {"completed", "processing"}
        <5>1. status[j] = "processing" => Accounted(j)
          BY DEF AccountInv, Unfinished, Final
        <5>2. status[j] = "processing"
          BY <1>4, <2>1, <3>1, <4>1, <1>t DEF Submit, Unfinished, Final
        <5> QED BY <1>1, <1>t, <2>1, <3>1, <4>1, <5>1, <5>2 DEF Submit, Accounted, Envelope
      <4>2. CASE status[j] \notin {"completed", "processing"}
        <5>1. inflight'[j] > 0
          BY <1>t, <2>1, <4>2 DEF Submit
        <5> QED BY <3>1, <5>1 DEF Accounted, Envelope
      <4> QED BY <4>1, <4>2
    <3>2. CASE k # j
      BY <1>1, <1>4, <1>t, <2>1, <3>2 DEF Submit, AccountInv, Unfinished, Accounted, Envelope
    <3> QED BY <3>1, <3>2
  <2>2. CASE EnqueueSubmitted(j)
    BY <1>1, <1>4, <1>t, <2>2
       DEF EnqueueSubmitted, Enqueue, PushMain, AccountInv, Unfinished, Accounted, Envelope
  <2>3. CASE SubmitDies(j)
    BY <1>1, <1>4, <1>t, <2>3 DEF SubmitDies, AccountInv, Unfinished, Accounted, Envelope
  <2> QED BY <2>1, <2>2, <2>3
<1> QED BY <1>2, <1>3, <1>4 DEF AccountInv

LEMMA AccountInstance ==
  ASSUME Single, TypeOK, HeldInv, SingleInv, AccountInv, NEW i \in Instances,
         InstanceStep(i) \/ Crash(i)
  PROVE  AccountInv'
<1> USE DEF rowVars, workerVars, queueVars, submitVars, faultVars
<1>t. /\ scan \in [Instances -> [Jobs -> Nat]] /\ processing \in [Jobs -> Nat]
      /\ queued \in [Jobs -> Nat] /\ moving \in [Callers -> Jobs \cup {NoJob}] /\ i \in Callers
  BY DEF TypeOK, QueueTypeOK, Callers
<1>1. UNCHANGED <<status, submits, inflight, unqueued>> /\ dropped \subseteq dropped'
  BY DEF InstanceStep, Start, StartUnrecovered, Recover, RecoverFails, Recovered, Crash
<1>2. \A w \in Workers : pc'[w] \in {"dlq", "ack"} => status'[held'[w]] \in Final
  <2>1. CASE InstanceStep(i)
    BY <1>1, <2>1 DEF AccountInv, InstanceStep, Start, StartUnrecovered, Recover, RecoverFails, Recovered
  <2>2. CASE Crash(i)
    BY <2>2, WorkersOfInstance DEF Crash, Single
  <2> QED BY <2>1, <2>2
<1> SUFFICES ASSUME NEW k \in Jobs, Accounted(k) PROVE Accounted(k)'
  BY <1>1, <1>2 DEF AccountInv, Unfinished
<1>3. CASE Start(i) \/ StartUnrecovered(i) \/ Recovered(i)
  BY <1>1, <1>3 DEF Start, RecoverScan, StartUnrecovered, Recovered, Accounted, Envelope
<1>4. ASSUME NEW j \in Jobs, RecoverItem(i, j) PROVE Accounted(k)'
  <2>1. /\ UNCHANGED queued /\ RemoveProcessing(j) /\ moving'[i] = j /\ moving[i] = NoJob
        /\ \A c \in Callers \ {i} : moving'[c] = moving[c]
    BY <1>4, <1>t DEF RecoverItem
  <2>2. k = j \/ processing'[k] = processing[k]
    BY <1>t, <2>1 DEF RemoveProcessing
  <2> QED BY <1>1, <1>t, <2>1, <2>2, NoJobAssumption DEF Accounted, Envelope
<1>5. ASSUME RequeuePush(i) PROVE Accounted(k)'
  <2>1. PICK j \in Jobs : moving[i] = j
    BY <1>5, <1>t DEF RequeuePush
  <2>2. /\ queued' = [queued EXCEPT ![j] = @ + 1] /\ UNCHANGED processing
        /\ \A c \in Callers \ {i} : moving'[c] = moving[c]
    BY <1>5, <1>t, <2>1 DEF RequeuePush, PushMain
  <2>3. k = j => queued'[k] > 0
    BY <1>t, <2>2
  <2>4. k # j => queued'[k] = queued[k]
    BY <1>t, <2>2
  <2> QED BY <1>1, <2>1, <2>2, <2>3, <2>4 DEF Accounted, Envelope
<1>6. CASE RecoverFails(i)
  <2>1. /\ UNCHANGED queued
        /\ \/ UNCHANGED processing
           \/ \E j \in Jobs : RemoveProcessing(j) /\ j \in dropped'
        /\ \A c \in Callers : moving'[c] = moving[c] \/ moving[c] \in dropped'
    BY <1>6, <1>t DEF RecoverFails
  <2>2. processing'[k] = processing[k] \/ k \in dropped'
    BY <1>t, <2>1 DEF RemoveProcessing
  <2> QED BY <1>1, <2>1, <2>2 DEF Accounted, Envelope
<1>7. CASE Crash(i)
  <2>1. /\ UNCHANGED <<queued, processing>>
        /\ \A c \in Callers : moving[c] = k => moving'[c] = k \/ k \in dropped'
    BY <1>7 DEF Crash
  <2> QED BY <1>1, <2>1 DEF Accounted, Envelope
<1> QED BY <1>3, <1>4, <1>5, <1>6, <1>7 DEF InstanceStep, Recover

LEMMA AccountNext ==
  ASSUME Single, ~StoreErrors, TypeOK, HeldInv, SingleInv, AccountInv, [Next]_vars
  PROVE  AccountInv'
<1>1. \A k \in Jobs : status[k] \in Final => status'[k] = status[k]
  BY FinalStep
<1>2. CASE UNCHANGED vars
  BY <1>2 DEF vars, queueVars, rowVars, workerVars, submitVars, faultVars, AccountInv, Accounted,
              Envelope, Unfinished
<1> QED BY <1>1, <1>2, AccountSubmit, AccountInstance, AccountWorker DEF Next

\* One instance, no resubmission, no lost database write: through all crashes
\* and failed Redis calls a job whose row is not final has its envelope or a
\* worker that answers for it, but for the two gaps on record: Requeue cut off
\* between LREM and RPUSH, and a handler between CreateSigningJob and Enqueue.
THEOREM SingleInstanceNoJobForgotten ==
  ASSUME Single, ~StoreErrors PROVE Spec => []NoJobForgotten
<1>1. Init => AccountInv
  BY DEF Init, AccountInv, Unfinished
<1>2. TypeOK /\ HeldInv /\ SingleInv /\ AccountInv /\ [Next]_vars => AccountInv'
  BY AccountNext
<1>3. AccountInv => NoJobForgotten
  BY DEF AccountInv, NoJobForgotten, Accounted, Envelope, Tracked
<1> QED BY <1>1, <1>2, <1>3, SingleInstance, TypeCorrect, PTL DEF Spec
=============================================================================
