--------------------------- MODULE QueueContract ---------------------------
(***************************************************************************)
(* What the Redis job queue (internal/queue/queue.go) promises its callers. *)
(*                                                                         *)
(* The queue is three Redis lists of envelopes.  An envelope is the JSON of *)
(* {id, project, wallet, operation}.  A submission repeated under its      *)
(* idempotency key is taken to name the same wallet and operation, so two  *)
(* envelopes of one job are the same string and LREM cannot tell them      *)
(* apart: an envelope is modelled by its job, and a list, whose order this *)
(* contract leaves open, by how many envelopes of each job it holds.       *)
(* JobQueue.tla models the lists in their order and implements this module.*)
(*                                                                         *)
(* Each action is one Redis command, the unit of atomicity.  Requeue and   *)
(* RecoverStalled are several commands: what a caller has taken out with   *)
(* LREM and not yet put back with RPUSH is in moving, what RecoverStalled  *)
(* has read with LRANGE and not yet handled is in scan.                    *)
(***************************************************************************)
EXTENDS Naturals

CONSTANTS
    Jobs,         \* rows of signing_jobs, hence the possible envelopes
    Instances,    \* processes running worker.Start
    Concurrency,  \* goroutines per instance (WORKER_CONCURRENCY)
    NoJob         \* "this caller is moving nothing"

ASSUME ConcurrencyAssumption == Concurrency \in Nat \ {0}
ASSUME NoJobAssumption == NoJob \notin Jobs
\* An instance is not one of its goroutines.
ASSUME InstancesAssumption == Instances \cap (Instances \X (1..Concurrency)) = {}

Workers == Instances \X (1..Concurrency)
Callers == Instances \cup Workers

VARIABLES
    queued,      \* vaultkey:jobs
    processing,  \* vaultkey:jobs:processing
    dlq,         \* vaultkey:dlq
    moving,      \* per caller: the envelope between Requeue's LREM and its RPUSH
    scan         \* per instance: LRANGE items RecoverStalled has still to requeue

queueVars == <<queued, processing, dlq, moving, scan>>

NoEnvelopes == [j \in Jobs |-> 0]

QueueTypeOK ==
    /\ queued \in [Jobs -> Nat]
    /\ processing \in [Jobs -> Nat]
    /\ dlq \in [Jobs -> Nat]
    /\ moving \in [Callers -> Jobs \cup {NoJob}]
    /\ scan \in [Instances -> [Jobs -> Nat]]

QueueInit ==
    /\ queued = NoEnvelopes
    /\ processing = NoEnvelopes
    /\ dlq = NoEnvelopes
    /\ moving = [c \in Callers |-> NoJob]
    /\ scan = [i \in Instances |-> NoEnvelopes]
-----------------------------------------------------------------------------
\* The list commands.

\* RPUSH vaultkey:jobs
PushMain(j) == queued' = [queued EXCEPT ![j] = @ + 1]

\* LREM vaultkey:jobs:processing 1: removes one equal envelope, if there is one.
RemoveProcessing(j) ==
    processing' = [processing EXCEPT ![j] = IF @ > 0 THEN @ - 1 ELSE @]
-----------------------------------------------------------------------------
\* The operations.

Enqueue(j) ==
    /\ PushMain(j)
    /\ UNCHANGED <<processing, dlq, moving, scan>>

\* Faulty variant of Dequeue: BRPOP, no copy in the processing list.
DequeueWithoutCopy(j) ==
    /\ queued[j] > 0
    /\ queued' = [queued EXCEPT ![j] = @ - 1]
    /\ UNCHANGED <<processing, dlq, moving, scan>>

\* BRPOPLPUSH moves some queued envelope to the processing list.
Dequeue(j) ==
    /\ queued[j] > 0
    /\ queued' = [queued EXCEPT ![j] = @ - 1]
    /\ processing' = [processing EXCEPT ![j] = @ + 1]
    /\ UNCHANGED <<dlq, moving, scan>>

Acknowledge(j) ==
    /\ RemoveProcessing(j)
    /\ UNCHANGED <<queued, dlq, moving, scan>>

\* LPUSH vaultkey:dlq; the envelope stays in the processing list.
MoveToDLQ(j) ==
    /\ dlq' = [dlq EXCEPT ![j] = @ + 1]
    /\ UNCHANGED <<queued, processing, moving, scan>>

\* Faulty variant of RequeueRemove: the envelope stays in the processing list.
RequeueKeeping(c, j) ==
    /\ moving[c] = NoJob
    /\ moving' = [moving EXCEPT ![c] = j]
    /\ UNCHANGED <<queued, processing, dlq, scan>>

\* Requeue, first command: LREM, whose count is not looked at.
RequeueRemove(c, j) ==
    /\ moving[c] = NoJob
    /\ RemoveProcessing(j)
    /\ moving' = [moving EXCEPT ![c] = j]
    /\ UNCHANGED <<queued, dlq, scan>>

\* Requeue, second command: RPUSH.
RequeuePush(c) ==
    /\ moving[c] # NoJob
    /\ PushMain(moving[c])
    /\ moving' = [moving EXCEPT ![c] = NoJob]
    /\ UNCHANGED <<processing, dlq, scan>>

\* Faulty variant of RecoverScan: the wrong list is read.
RecoverScanDLQ(i) ==
    /\ moving[i] = NoJob
    /\ scan[i] = NoEnvelopes
    /\ scan' = [scan EXCEPT ![i] = dlq]
    /\ UNCHANGED <<queued, processing, dlq, moving>>

\* RecoverStalled: LRANGE of the whole processing list (maxAge is not used) ...
RecoverScan(i) ==
    /\ moving[i] = NoJob
    /\ scan[i] = NoEnvelopes
    /\ scan' = [scan EXCEPT ![i] = processing]
    /\ UNCHANGED <<queued, processing, dlq, moving>>

\* ... then Requeue of every item that was read, present or not.
RecoverItem(i, j) ==
    /\ scan[i][j] > 0
    /\ moving[i] = NoJob
    /\ RemoveProcessing(j)
    /\ moving' = [moving EXCEPT ![i] = j]
    /\ scan' = [scan EXCEPT ![i][j] = @ - 1]
    /\ UNCHANGED <<queued, dlq>>

\* The loop has handled every item.
RecoverDone(i) == scan[i] = NoEnvelopes /\ moving[i] = NoJob
-----------------------------------------------------------------------------
QueueNext ==
    \/ \E j \in Jobs : Enqueue(j) \/ Dequeue(j) \/ Acknowledge(j) \/ MoveToDLQ(j)
    \/ \E w \in Workers, j \in Jobs : RequeueRemove(w, j)
    \/ \E c \in Callers : RequeuePush(c)
    \/ \E i \in Instances : RecoverScan(i) \/ \E j \in Jobs : RecoverItem(i, j)

QueueSpec == QueueInit /\ [][QueueNext]_queueVars
=============================================================================
