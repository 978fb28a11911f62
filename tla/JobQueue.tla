------------------------------ MODULE JobQueue ------------------------------
(***************************************************************************)
(* The Redis job queue of internal/queue/queue.go, with its lists in the   *)
(* order Redis keeps them: RPUSH appends on the right, BRPOPLPUSH pops from *)
(* the right and pushes on the left of the processing list, LREM 1 removes *)
(* the leftmost equal item.  Any caller may issue any operation at any     *)
(* time.  MaxEnvelopes and MaxDead cap the lists for model checking, and    *)
(* MaxPushes the numbers that record the order of arrival.                  *)
(***************************************************************************)
EXTENDS Naturals, Sequences, FiniteSets, SequencesExt

CONSTANTS Jobs, Instances, Concurrency, NoJob, MaxEnvelopes, MaxDead, MaxPushes

Workers == Instances \X (1..Concurrency)
Callers == Instances \cup Workers

VARIABLES
    main,        \* vaultkey:jobs, left to right
    processing,  \* vaultkey:jobs:processing, left to right
    dlq,         \* vaultkey:dlq, left to right
    moving,      \* per caller: the envelope between Requeue's LREM and its RPUSH
    items,       \* per instance: LRANGE items RecoverStalled has still to requeue
    pushes,      \* history: how many envelopes have been pushed onto main
    arrival      \* history: for each envelope of main, the number of its push

history == <<pushes, arrival>>
vars == <<main, processing, dlq, moving, items, history>>

Init ==
    /\ main = <<>>
    /\ processing = <<>>
    /\ dlq = <<>>
    /\ moving = [c \in Callers |-> NoJob]
    /\ items = [i \in Instances |-> <<>>]
    /\ pushes = 0 /\ arrival = <<>>

\* How many envelopes there are outside the dead letter queue.
Envelopes == Len(main) + Len(processing) + Cardinality({c \in Callers : moving[c] # NoJob})
-----------------------------------------------------------------------------
\* Faulty variant of RPush: at the left end.
LPush(j) ==
    /\ pushes < MaxPushes
    /\ pushes' = pushes + 1
    /\ main' = <<j>> \o main
    /\ arrival' = <<pushes>> \o arrival

\* RPUSH onto the main list.
RPush(j) ==
    /\ pushes < MaxPushes
    /\ pushes' = pushes + 1
    /\ main' = Append(main, j)
    /\ arrival' = Append(arrival, pushes)

\* Enqueue: RPUSH.
Enqueue(j) ==
    /\ Envelopes < MaxEnvelopes
    /\ RPush(j)
    /\ UNCHANGED <<processing, dlq, moving, items>>

\* Dequeue: BRPOPLPUSH.  A timeout (empty list) changes nothing.
Dequeue ==
    /\ main # <<>>
    /\ processing' = <<Last(main)>> \o processing
    /\ main' = Front(main) /\ arrival' = Front(arrival)
    /\ UNCHANGED <<dlq, moving, items, pushes>>

\* Faulty variant of Acknowledge: LREM 0, every equal envelope is removed.
AcknowledgeAll(j) ==
    /\ processing' = SelectSeq(processing, LAMBDA e : e # j)
    /\ UNCHANGED <<main, dlq, moving, items, history>>

\* Acknowledge: LREM 1; nothing happens when the envelope is not there.
Acknowledge(j) ==
    /\ processing' = RemoveFirst(processing, j)
    /\ UNCHANGED <<main, dlq, moving, items, history>>

\* MoveToDLQ: LPUSH.
MoveToDLQ(j) ==
    /\ Len(dlq) < MaxDead
    /\ dlq' = <<j>> \o dlq
    /\ UNCHANGED <<main, processing, moving, items, history>>

\* Requeue: LREM 1 without looking at the count, ...
RequeueRemove(c, j) ==
    /\ moving[c] = NoJob
    /\ Envelopes < MaxEnvelopes
    /\ processing' = RemoveFirst(processing, j)
    /\ moving' = [moving EXCEPT ![c] = j]
    /\ UNCHANGED <<main, dlq, items, history>>

\* ... then RPUSH.
RequeuePush(c) ==
    /\ moving[c] # NoJob
    /\ RPush(moving[c])
    /\ moving' = [moving EXCEPT ![c] = NoJob]
    /\ UNCHANGED <<processing, dlq, items>>

\* RecoverStalled: LRANGE 0 -1, ...
RecoverScan(i) ==
    /\ moving[i] = NoJob
    /\ items[i] = <<>>
    /\ items' = [items EXCEPT ![i] = processing]
    /\ UNCHANGED <<main, processing, dlq, moving, history>>

\* ... then the LREM of Requeue for the next item of the loop.
RecoverItem(i) ==
    /\ items[i] # <<>>
    /\ moving[i] = NoJob
    /\ Envelopes < MaxEnvelopes
    /\ processing' = RemoveFirst(processing, Head(items[i]))
    /\ moving' = [moving EXCEPT ![i] = Head(items[i])]
    /\ items' = [items EXCEPT ![i] = Tail(@)]
    /\ UNCHANGED <<main, dlq, history>>

Next ==
    \/ \E j \in Jobs : Enqueue(j) \/ Acknowledge(j) \/ MoveToDLQ(j)
    \/ Dequeue
    \/ \E w \in Workers, j \in Jobs : RequeueRemove(w, j)
    \/ \E c \in Callers : RequeuePush(c)
    \/ \E i \in Instances : RecoverScan(i) \/ RecoverItem(i)

Spec == Init /\ [][Next]_vars
-----------------------------------------------------------------------------
\* The envelopes of each job in a list.
Bag(s) == [j \in Jobs |-> Cardinality({k \in DOMAIN s : s[k] = j})]

Contract == INSTANCE QueueContract WITH
    queued <- Bag(main), processing <- Bag(processing), dlq <- Bag(dlq),
    scan <- [i \in Instances |-> Bag(items[i])]

\* The ordered lists behave, for a caller that does not look at the order, as
\* QueueContract says: what each command of queue.go adds, removes or finds.
ImplementsContract == Contract!QueueSpec

\* "RPUSH + BRPOPLPUSH gives FIFO processing order" (queue.go:55) has it the wrong
\* way round: an envelope that leaves the main list was pushed after every one
\* that stays, by whatever Enqueue, Requeue or RecoverStalled.  The oldest job
\* waits until no newer one is left.
NewestFirst ==
    [][\A n \in Range(arrival) \ Range(arrival'), o \in Range(arrival) \cap Range(arrival') : n > o]_vars
=============================================================================
