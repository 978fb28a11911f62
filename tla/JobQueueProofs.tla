--------------------------- MODULE JobQueueProofs ---------------------------
(***************************************************************************)
(* JobQueue implements QueueContract, for every set of jobs and instances  *)
(* and lists of any length: counting the envelopes of each job forgets the *)
(* order and nothing else.                                                 *)
(***************************************************************************)
EXTENDS JobQueue, FiniteSetTheorems, SequenceTheorems, TLAPS

Typed ==
    /\ main \in Seq(Jobs) /\ processing \in Seq(Jobs) /\ dlq \in Seq(Jobs)
    /\ moving \in [Callers -> Jobs \cup {NoJob}]
    /\ items \in [Instances -> Seq(Jobs)]

\* U is T with x put in at place n.
Inserted(T, x, n, U) ==
    /\ Len(U) = Len(T) + 1 /\ n \in 1..(Len(T) + 1) /\ U[n] = x
    /\ \A i \in 1..Len(T) : T[i] = U[IF i < n THEN i ELSE i + 1]

\* The places of j in a list.
Places(s, j) == {k \in DOMAIN s : s[k] = j}

LEMMA PlacesFinite ==
  ASSUME NEW s \in Seq(Jobs), NEW j
  PROVE  IsFiniteSet(Places(s, j)) /\ Cardinality(Places(s, j)) \in Nat
<1>1. Len(s) \in Nat /\ DOMAIN s = 1..Len(s)
  OBVIOUS
<1>2. IsFiniteSet(1..Len(s)) /\ Places(s, j) \subseteq 1..Len(s)
  BY <1>1, FS_Interval DEF Places
<1>3. IsFiniteSet(Places(s, j))
  BY <1>2, FS_Subset
<1> QED BY <1>3, FS_CardinalityType

LEMMA PlacesInserted ==
  ASSUME NEW T \in Seq(Jobs), NEW U \in Seq(Jobs), NEW x, NEW n, Inserted(T, x, n, U), NEW j
  PROVE  Cardinality(Places(U, j)) = IF j = x THEN Cardinality(Places(T, j)) + 1 ELSE Cardinality(Places(T, j))
<1> DEFINE Shift(i) == IF i < n THEN i ELSE i + 1
           A == Places(T, j)
           B == Places(U, j)
           f == [i \in A |-> Shift(i)]
<1>1. PICK l \in Nat : l = Len(T) /\ DOMAIN T = 1..l /\ DOMAIN U = 1..(l + 1) /\ n \in 1..(l + 1)
  BY DEF Inserted
<1>2. \A i \in 1..l : Shift(i) \in 1..(l + 1) /\ Shift(i) # n
  BY <1>1
<1>3. \A i, k \in 1..l : Shift(i) = Shift(k) => i = k
  BY <1>1
<1>4. \A k \in 1..(l + 1) : k # n => \E i \in 1..l : Shift(i) = k
  <2> SUFFICES ASSUME NEW k \in 1..(l + 1), k # n PROVE \E i \in 1..l : Shift(i) = k
    OBVIOUS
  <2>1. CASE k < n
    BY <1>1, <2>1
  <2>2. CASE k > n
    <3>1. k - 1 \in 1..l /\ ~(k - 1 < n) /\ (k - 1) + 1 = k
      BY <1>1, <2>2
    <3> QED BY <3>1
  <2> QED BY <1>1, <2>1, <2>2
<1>5. \A i \in 1..l : T[i] = U[Shift(i)]
  BY <1>1 DEF Inserted
<1>6. A = {i \in 1..l : T[i] = j} /\ B = {k \in 1..(l + 1) : U[k] = j}
  BY <1>1 DEF Places
<1> HIDE DEF Shift, A, B
<1>7. f \in [A -> B \ {n}]
  BY <1>2, <1>5, <1>6
<1>8. \A i, k \in A : f[i] = f[k] => i = k
  BY <1>3, <1>6
<1>9. \A k \in B \ {n} : \E i \in A : f[i] = k
  BY <1>4, <1>5, <1>6
<1>10. f \in Bijection(A, B \ {n})
  <2> HIDE DEF f
  <2>1. f \in Injection(A, B \ {n})
    BY <1>7, <1>8 DEF Injection, IsInjective
  <2>2. f \in Surjection(A, B \ {n})
    BY <1>7, <1>9 DEF Surjection
  <2> QED BY <2>1, <2>2 DEF Bijection
<1>11. IsFiniteSet(A) /\ IsFiniteSet(B) /\ Cardinality(A) \in Nat /\ Cardinality(B) \in Nat
  BY PlacesFinite DEF A, B
<1>12. Cardinality(B \ {n}) = Cardinality(A)
  BY <1>10, <1>11, FS_Bijection DEF ExistsBijection
<1>13. Cardinality(B \ {n}) = IF n \in B THEN Cardinality(B) - 1 ELSE Cardinality(B)
  BY <1>11, FS_RemoveElement
<1>14. n \in B <=> j = x
  BY <1>1, <1>6 DEF Inserted
<1> QED BY <1>11, <1>12, <1>13, <1>14 DEF A, B

\* One envelope more.
LEMMA BagInserted ==
  ASSUME NEW T \in Seq(Jobs), NEW U \in Seq(Jobs), NEW x \in Jobs, NEW n, Inserted(T, x, n, U)
  PROVE  Bag(U) = [Bag(T) EXCEPT ![x] = @ + 1] /\ Bag(T) = [Bag(U) EXCEPT ![x] = @ - 1] /\ Bag(U)[x] > 0
<1>1. \A s : Bag(s) = [j \in Jobs |-> Cardinality(Places(s, j))]
  BY DEF Bag, Places
<1>2. \A j \in Jobs : Cardinality(Places(T, j)) \in Nat /\ Cardinality(Places(U, j)) \in Nat
  BY PlacesFinite
<1>3. \A j \in Jobs : Cardinality(Places(U, j)) =
          IF j = x THEN Cardinality(Places(T, j)) + 1 ELSE Cardinality(Places(T, j))
  BY PlacesInserted
<1> QED BY <1>1, <1>2, <1>3

LEMMA BagAppend ==
  ASSUME NEW s \in Seq(Jobs), NEW x \in Jobs
  PROVE  Append(s, x) \in Seq(Jobs) /\ Bag(Append(s, x)) = [Bag(s) EXCEPT ![x] = @ + 1]
<1>1. Append(s, x) \in Seq(Jobs) /\ Inserted(s, x, Len(s) + 1, Append(s, x))
  BY DEF Inserted
<1> QED BY <1>1, BagInserted

LEMMA BagPrepend ==
  ASSUME NEW s \in Seq(Jobs), NEW x \in Jobs
  PROVE  <<x>> \o s \in Seq(Jobs) /\ Bag(<<x>> \o s) = [Bag(s) EXCEPT ![x] = @ + 1]
<1>1. <<x>> \in Seq(Jobs) /\ Len(<<x>>) = 1 /\ <<x>>[1] = x /\ Len(s) \in Nat
  OBVIOUS
<1>2. /\ <<x>> \o s \in Seq(Jobs) /\ Len(<<x>> \o s) = 1 + Len(s)
      /\ \A i \in 1..(1 + Len(s)) : (<<x>> \o s)[i] = IF i <= 1 THEN <<x>>[i] ELSE s[i - 1]
  BY <1>1, ConcatProperties
<1>3. Inserted(s, x, 1, <<x>> \o s)
  BY <1>1, <1>2 DEF Inserted
<1> QED BY <1>2, <1>3, BagInserted

LEMMA BagPop ==
  ASSUME NEW s \in Seq(Jobs), s # <<>>
  PROVE  /\ Last(s) \in Jobs /\ Front(s) \in Seq(Jobs) /\ Bag(s)[Last(s)] > 0
         /\ Bag(Front(s)) = [Bag(s) EXCEPT ![Last(s)] = @ - 1]
<1>1. PICK n \in Nat : n = Len(s) /\ n > 0 /\ DOMAIN s = 1..n /\ \A i \in 1..n : s[i] \in Jobs
  BY EmptySeq
<1>2. Last(s) = s[n] /\ Last(s) \in Jobs
  BY <1>1 DEF Last
<1>3. n - 1 \in Int /\ 1 \in Int /\ \A i \in 1..(n - 1) : s[i] \in Jobs /\ 1 + i - 1 = i
  BY <1>1
<1>4. /\ Front(s) \in Seq(Jobs) /\ Len(Front(s)) = n - 1
      /\ \A i \in 1..(n - 1) : Front(s)[i] = s[i]
  BY <1>1, <1>3, SubSeqProperties DEF Front
<1>5. Inserted(Front(s), Last(s), n, s)
  BY <1>1, <1>2, <1>4 DEF Inserted
<1> QED BY <1>2, <1>4, <1>5, BagInserted

LEMMA BagTail ==
  ASSUME NEW s \in Seq(Jobs), s # <<>>
  PROVE  /\ Head(s) \in Jobs /\ Tail(s) \in Seq(Jobs) /\ Bag(s)[Head(s)] > 0
         /\ Bag(Tail(s)) = [Bag(s) EXCEPT ![Head(s)] = @ - 1]
<1>1. PICK n \in Nat : n = Len(s) /\ n > 0
  BY EmptySeq
<1>2. /\ Head(s) \in Jobs /\ Tail(s) \in Seq(Jobs) /\ Len(Tail(s)) = n - 1 /\ Head(s) = s[1]
      /\ \A i \in 1..(n - 1) : Tail(s)[i] = s[i + 1]
  BY <1>1, HeadTailProperties
<1>3. Inserted(Tail(s), Head(s), 1, s)
  BY <1>1, <1>2 DEF Inserted
<1>4. PICK T \in Seq(Jobs), x \in Jobs : T = Tail(s) /\ x = Head(s)
  BY <1>2
<1>5. Inserted(T, x, 1, s)
  BY <1>3, <1>4
<1>6. Bag(T) = [Bag(s) EXCEPT ![x] = @ - 1] /\ Bag(s)[x] > 0
  BY <1>5, BagInserted
<1> QED BY <1>2, <1>4, <1>6

LEMMA Least ==
  ASSUME NEW T, T \subseteq Nat, T # {}
  PROVE  Min(T) \in T
<1> DEFINE R == OpToRel(<, Nat)
<1>1. IsWellFoundedOn(R, Nat)
  BY NatLessThanWellFounded
<1>2. \A x, y \in Nat : y < x => <<y, x>> \in R
  BY DEF OpToRel
<1> HIDE DEF R
<1>3. PICK x \in T : \A y \in T : ~(<<y, x>> \in R)
  BY <1>1, WFMin
<1>4. ASSUME NEW y \in T PROVE x =< y
  <2>1. x \in Nat /\ y \in Nat /\ ~(y < x)
    BY <1>2, <1>3
  <2> QED BY <2>1
<1> QED BY <1>3, <1>4 DEF Min

\* LREM 1: one envelope less, if there is one.
LEMMA BagRemoved ==
  ASSUME NEW s \in Seq(Jobs), NEW x \in Jobs
  PROVE  /\ RemoveFirst(s, x) \in Seq(Jobs)
         /\ Bag(RemoveFirst(s, x)) = [Bag(s) EXCEPT ![x] = IF @ > 0 THEN @ - 1 ELSE @]
<1>1. PICK l \in Nat : l = Len(s) /\ DOMAIN s = 1..l /\ \A i \in 1..l : s[i] \in Jobs
  OBVIOUS
<1> DEFINE I == {i \in 1..l : s[i] = x}
<1>2. CASE I = {}
  <2>1. RemoveFirst(s, x) = s
    BY <1>1, <1>2 DEF RemoveFirst
  <2>2. Places(s, x) = {}
    BY <1>1, <1>2 DEF Places
  <2>3. Bag(s)[x] = 0
    BY <2>2, FS_EmptySet DEF Bag, Places
  <2>4. Bag(s) = [Bag(s) EXCEPT ![x] = IF @ > 0 THEN @ - 1 ELSE @]
    BY <2>3 DEF Bag
  <2> QED BY <2>1, <2>4
<1>3. CASE I # {}
  <2>1. PICK n : n = SelectInSeq(s, LAMBDA v : v = x)
    OBVIOUS
  <2>2. n = Min(I)
    BY <1>1, <1>3, <2>1 DEF SelectInSeq
  <2>3. n \in I
    BY <1>1, <1>3, <2>2, Least
  <2>4. RemoveFirst(s, x) = SubSeq(s, 1, n - 1) \o SubSeq(s, n + 1, l)
    BY <1>1, <1>3, <2>1 DEF RemoveFirst, RemoveAt
  <2>5. n \in 1..l /\ s[n] = x
    BY <2>3
  <2> HIDE DEF I
  <2> DEFINE p == SubSeq(s, 1, n - 1)
             q == SubSeq(s, n + 1, l)
  <2>6. p \in Seq(Jobs) /\ Len(p) = n - 1 /\ \A i \in 1..(n - 1) : p[i] = s[i]
    <3>1. 1 \in Int /\ n - 1 \in Int /\ \A i \in 1..(n - 1) : s[i] \in Jobs /\ 1 + i - 1 = i
      BY <1>1, <2>5
    <3>2. /\ p \in Seq(Jobs) /\ Len(p) = IF 1 <= n - 1 THEN n - 1 - 1 + 1 ELSE 0
          /\ \A i \in 1..(n - 1 - 1 + 1) : p[i] = s[1 + i - 1]
      BY <3>1, SubSeqProperties
    <3> QED BY <2>5, <3>1, <3>2
  <2>7. q \in Seq(Jobs) /\ Len(q) = l - n /\ \A i \in 1..(l - n) : q[i] = s[n + i]
    <3>1. n + 1 \in Int /\ l \in Int /\ \A i \in (n + 1)..l : s[i] \in Jobs
      BY <1>1, <2>5
    <3>2. /\ q \in Seq(Jobs) /\ Len(q) = IF n + 1 <= l THEN l - (n + 1) + 1 ELSE 0
          /\ \A i \in 1..(l - (n + 1) + 1) : q[i] = s[n + 1 + i - 1]
      BY <3>1, SubSeqProperties
    <3>3. l - (n + 1) + 1 = l - n /\ \A i \in 1..(l - n) : n + 1 + i - 1 = n + i
      BY <1>1, <2>5
    <3> QED BY <1>1, <2>5, <3>2, <3>3
  <2> HIDE DEF p, q
  <2>8. /\ p \o q \in Seq(Jobs) /\ Len(p \o q) = Len(p) + Len(q)
        /\ \A i \in 1..(Len(p) + Len(q)) : (p \o q)[i] = IF i <= Len(p) THEN p[i] ELSE q[i - Len(p)]
    BY <2>6, <2>7, ConcatProperties
  <2>9. Len(p \o q) + 1 = l /\ n \in 1..(Len(p \o q) + 1)
    BY <1>1, <2>5, <2>6, <2>7, <2>8
  <2>10. ASSUME NEW i \in 1..Len(p \o q) PROVE (p \o q)[i] = s[IF i < n THEN i ELSE i + 1]
    <3>1. i \in 1..(l - 1)
      BY <1>1, <2>9
    <3>2. CASE i < n
      <4>1. i \in 1..(n - 1) /\ i <= Len(p)
        BY <2>5, <2>6, <3>1, <3>2
      <4> QED BY <2>6, <2>8, <2>10, <3>2, <4>1
    <3>3. CASE ~(i < n)
      <4>1. i - (n - 1) \in 1..(l - n) /\ n + (i - (n - 1)) = i + 1 /\ ~(i <= Len(p))
        BY <1>1, <2>5, <2>6, <3>1, <3>3
      <4>2. (p \o q)[i] = q[i - (n - 1)]
        BY <2>6, <2>8, <2>10, <4>1
      <4> QED BY <2>7, <3>3, <4>1, <4>2
    <3> QED BY <3>2, <3>3
  <2>11. Inserted(p \o q, x, n, s)
    BY <1>1, <2>5, <2>9, <2>10 DEF Inserted
  <2>12. Bag(p \o q) = [Bag(s) EXCEPT ![x] = @ - 1] /\ Bag(s)[x] > 0
    <3>1. PICK T \in Seq(Jobs) : T = p \o q
      BY <2>8
    <3>2. Inserted(T, x, n, s)
      BY <2>11, <3>1
    <3>3. Bag(T) = [Bag(s) EXCEPT ![x] = @ - 1] /\ Bag(s)[x] > 0
      BY <3>2, BagInserted
    <3> QED BY <3>1, <3>3
  <2>13. RemoveFirst(s, x) = p \o q
    BY <2>4 DEF p, q
  <2>14. [Bag(s) EXCEPT ![x] = @ - 1] = [Bag(s) EXCEPT ![x] = IF @ > 0 THEN @ - 1 ELSE @]
    BY <2>12
  <2> QED BY <2>8, <2>12, <2>13, <2>14
<1> QED BY <1>2, <1>3
-----------------------------------------------------------------------------
LEMMA InitTyped == Init => Typed
  BY DEF Init, Typed

LEMMA StepTyped == Typed /\ [Next]_vars => Typed'
<1> SUFFICES ASSUME Typed, [Next]_vars PROVE Typed'
  OBVIOUS
<1> USE DEF Typed
<1>0. \A c \in Callers : moving[c] # NoJob => moving[c] \in Jobs
  OBVIOUS
<1>1. ASSUME NEW j \in Jobs, Enqueue(j) \/ Acknowledge(j) \/ MoveToDLQ(j) PROVE Typed'
  <2>1. CASE Enqueue(j)
    BY <2>1, BagAppend DEF Enqueue, RPush
  <2>2. CASE Acknowledge(j)
    BY <2>2, BagRemoved DEF Acknowledge
  <2>3. CASE MoveToDLQ(j)
    BY <2>3, BagPrepend DEF MoveToDLQ
  <2> QED BY <1>1, <2>1, <2>2, <2>3
<1>2. CASE Dequeue
  BY <1>2, BagPop, BagPrepend DEF Dequeue
<1>3. ASSUME NEW w \in Workers, NEW j \in Jobs, RequeueRemove(w, j) PROVE Typed'
  BY <1>3, BagRemoved DEF RequeueRemove, Callers
<1>4. ASSUME NEW c \in Callers, RequeuePush(c) PROVE Typed'
  BY <1>0, <1>4, BagAppend DEF RequeuePush, RPush
<1>5. ASSUME NEW i \in Instances, RecoverScan(i) PROVE Typed'
  BY <1>5 DEF RecoverScan
<1>6. ASSUME NEW i \in Instances, RecoverItem(i) PROVE Typed'
  <2>1. PICK j \in Jobs, T \in Seq(Jobs) : j = Head(items[i]) /\ T = Tail(items[i])
    BY <1>6, BagTail DEF RecoverItem
  <2>2. RemoveFirst(processing, j) \in Seq(Jobs)
    BY BagRemoved
  <2>3. /\ processing' = RemoveFirst(processing, j) /\ moving' = [moving EXCEPT ![i] = j]
        /\ items' = [items EXCEPT ![i] = T] /\ UNCHANGED <<main, dlq>>
    BY <1>6, <2>1 DEF RecoverItem
  <2> QED BY <2>2, <2>3 DEF Callers
<1>7. CASE UNCHANGED vars
  BY <1>7 DEF vars
<1> QED BY <1>1, <1>2, <1>3, <1>4, <1>5, <1>6, <1>7 DEF Next

LEMMA BagEmpty == Bag(<<>>) = [j \in Jobs |-> 0]
<1>1. \A j \in Jobs : {k \in DOMAIN <<>> : <<>>[k] = j} = {}
  OBVIOUS
<1> QED BY <1>1, FS_EmptySet DEF Bag

LEMMA InitSimulates == Init => Contract!QueueInit
  BY BagEmpty DEF Init, Contract!QueueInit, Contract!NoEnvelopes, Contract!Callers, Contract!Workers, Callers, Workers

\* The contract's scan.
Scan == [i \in Instances |-> Bag(items[i])]

\* What the mapping says of the state after a step.
LEMMA MappedNext ==
    /\ Bag(main)' = Bag(main') /\ Bag(processing)' = Bag(processing') /\ Bag(dlq)' = Bag(dlq')
    /\ Scan' = [i \in Instances |-> Bag(items'[i])]
  BY DEF Bag, Scan

LEMMA StepSimulates == Typed /\ [Next]_vars => [Contract!QueueNext]_Contract!queueVars
<1> SUFFICES ASSUME Typed, [Next]_vars PROVE [Contract!QueueNext]_Contract!queueVars
  OBVIOUS
<1> USE DEF Contract!PushMain, Contract!RemoveProcessing, Contract!Workers, Contract!Callers, Workers, Callers
<1>0. /\ main \in Seq(Jobs) /\ processing \in Seq(Jobs) /\ dlq \in Seq(Jobs)
      /\ moving \in [Callers -> Jobs \cup {NoJob}] /\ items \in [Instances -> Seq(Jobs)]
  BY DEF Typed
<1>1. ASSUME NEW j \in Jobs, Enqueue(j) PROVE Contract!Enqueue(j)
  BY <1>0, <1>1, BagAppend, MappedNext DEF Enqueue, RPush, Contract!Enqueue, Scan
<1>2. ASSUME NEW j \in Jobs, Acknowledge(j) PROVE Contract!Acknowledge(j)
  BY <1>0, <1>2, BagRemoved, MappedNext DEF Acknowledge, Contract!Acknowledge, Scan
<1>3. ASSUME NEW j \in Jobs, MoveToDLQ(j) PROVE Contract!MoveToDLQ(j)
  BY <1>0, <1>3, BagPrepend, MappedNext DEF MoveToDLQ, Contract!MoveToDLQ, Scan
<1>4. ASSUME Dequeue PROVE \E j \in Jobs : Contract!Dequeue(j)
  <2>1. PICK j \in Jobs : j = Last(main)
    BY <1>0, <1>4, BagPop DEF Dequeue
  <2>2. Bag(main)[j] > 0 /\ Bag(main') = [Bag(main) EXCEPT ![j] = @ - 1]
    BY <1>0, <1>4, <2>1, BagPop DEF Dequeue
  <2>3. Bag(processing') = [Bag(processing) EXCEPT ![j] = @ + 1]
    BY <1>0, <1>4, <2>1, BagPrepend DEF Dequeue
  <2>4. UNCHANGED <<dlq, moving, items>>
    BY <1>4 DEF Dequeue
  <2>5. Contract!Dequeue(j)
    BY <2>2, <2>3, <2>4, MappedNext DEF Contract!Dequeue, Scan
  <2> QED BY <2>5
<1>5. ASSUME NEW w \in Workers, NEW j \in Jobs, RequeueRemove(w, j) PROVE Contract!RequeueRemove(w, j)
  BY <1>0, <1>5, BagRemoved, MappedNext DEF RequeueRemove, Contract!RequeueRemove, Scan
<1>6. ASSUME NEW c \in Callers, RequeuePush(c) PROVE Contract!RequeuePush(c)
  <2>1. PICK j \in Jobs : j = moving[c]
    BY <1>0, <1>6 DEF RequeuePush
  <2>2. Bag(main') = [Bag(main) EXCEPT ![j] = @ + 1]
    BY <1>0, <1>6, <2>1, BagAppend DEF RequeuePush, RPush
  <2> QED BY <1>6, <2>1, <2>2, MappedNext DEF RequeuePush, Contract!RequeuePush, Scan
<1>7. ASSUME NEW i \in Instances, RecoverScan(i) PROVE Contract!RecoverScan(i)
  <2>1. Scan[i] = Contract!NoEnvelopes
    BY <1>7, BagEmpty DEF RecoverScan, Scan, Contract!NoEnvelopes
  <2>2. Scan' = [Scan EXCEPT ![i] = Bag(processing)]
    BY <1>0, <1>7, MappedNext DEF RecoverScan, Scan
  <2> QED BY <1>7, <2>1, <2>2, MappedNext DEF RecoverScan, Contract!RecoverScan, Scan
<1>8. ASSUME NEW i \in Instances, RecoverItem(i) PROVE \E j \in Jobs : Contract!RecoverItem(i, j)
  <2>1. PICK j \in Jobs, T \in Seq(Jobs) : j = Head(items[i]) /\ T = Tail(items[i])
    BY <1>0, <1>8, BagTail DEF RecoverItem
  <2>2. Bag(items[i])[j] > 0 /\ Bag(T) = [Bag(items[i]) EXCEPT ![j] = @ - 1]
    BY <1>0, <1>8, <2>1, BagTail DEF RecoverItem
  <2>3. /\ moving[i] = NoJob /\ processing' = RemoveFirst(processing, j) /\ moving' = [moving EXCEPT ![i] = j]
        /\ items' = [items EXCEPT ![i] = T] /\ UNCHANGED <<main, dlq>>
    BY <1>8, <2>1 DEF RecoverItem
  <2>4. Bag(processing') = [Bag(processing) EXCEPT ![j] = IF @ > 0 THEN @ - 1 ELSE @]
    BY <1>0, <2>3, BagRemoved
  <2>5. Scan' = [Scan EXCEPT ![i][j] = @ - 1]
    BY <1>0, <2>2, <2>3, MappedNext DEF Scan
  <2>6. Contract!RecoverItem(i, j)
    BY <2>2, <2>3, <2>4, <2>5, MappedNext DEF Contract!RecoverItem, Scan
  <2> QED BY <2>6
<1>9. CASE UNCHANGED vars
  BY <1>9, MappedNext DEF vars, Contract!queueVars, Scan
<1> QED BY <1>1, <1>2, <1>3, <1>4, <1>5, <1>6, <1>7, <1>8, <1>9 DEF Next, Contract!QueueNext

\* The three Redis lists, in their order, with callers that requeue and recover
\* at the same time, are the bags of envelopes SigningJobs is built on.
THEOREM QueueImplementsContract == Spec => ImplementsContract
  BY InitTyped, StepTyped, InitSimulates, StepSimulates, PTL
     DEF Spec, ImplementsContract, Contract!QueueSpec

-----------------------------------------------------------------------------
\* From left to right the main list is in the order of arrival.
Ordered ==
    /\ pushes \in Nat /\ arrival \in Seq(Nat) /\ Len(arrival) = Len(main)
    /\ \A i \in 1..Len(arrival) : arrival[i] < pushes
    /\ \A i, k \in 1..Len(arrival) : i < k => arrival[i] < arrival[k]

LEMMA OrderedPush ==
  ASSUME Typed, Ordered, NEW j \in Jobs, RPush(j)
  PROVE  Ordered' /\ Range(arrival) \subseteq Range(arrival')
<1>1. PICK n \in Nat : n = Len(arrival) /\ n = Len(main)
  BY DEF Ordered
<1>2. /\ arrival' \in Seq(Nat) /\ Len(arrival') = n + 1 /\ Len(main') = n + 1
      /\ arrival'[n + 1] = pushes /\ \A i \in 1..n : arrival'[i] = arrival[i]
  BY <1>1 DEF Typed, Ordered, RPush
<1>3. pushes' = pushes + 1 /\ pushes \in Nat
  BY DEF Ordered, RPush
<1>4. Ordered'
  <2>1. \A i \in 1..n : arrival[i] \in Nat /\ arrival[i] < pushes
    BY <1>1 DEF Ordered
  <2>2. \A i \in 1..(n + 1) : arrival'[i] < pushes'
    BY <1>1, <1>2, <1>3, <2>1
  <2>3. \A i, k \in 1..(n + 1) : i < k => arrival'[i] < arrival'[k]
    <3> SUFFICES ASSUME NEW i \in 1..(n + 1), NEW k \in 1..(n + 1), i < k PROVE arrival'[i] < arrival'[k]
      OBVIOUS
    <3>1. i \in 1..n
      BY <1>1
    <3>2. CASE k = n + 1
      BY <1>2, <2>1, <3>1, <3>2
    <3>3. CASE k \in 1..n
      BY <1>1, <1>2, <3>1, <3>3 DEF Ordered
    <3> QED BY <1>1, <3>2, <3>3
  <2> QED BY <1>1, <1>2, <1>3, <2>2, <2>3 DEF Ordered
<1>5. Range(arrival) \subseteq Range(arrival')
  <2>1. DOMAIN arrival = 1..n /\ DOMAIN arrival' = 1..(n + 1)
    BY <1>1, <1>2 DEF Ordered
  <2> QED BY <1>1, <1>2, <2>1 DEF Range
<1> QED BY <1>4, <1>5

LEMMA OrderedPop ==
  ASSUME Typed, Ordered, Dequeue
  PROVE  /\ Ordered'
         /\ \A x \in Range(arrival) \ Range(arrival'), o \in Range(arrival) \cap Range(arrival') : x > o
<1>1. PICK n \in Nat : n = Len(arrival) /\ n = Len(main) /\ n > 0
  BY EmptySeq DEF Ordered, Typed, Dequeue
<1>2. /\ arrival' \in Seq(Nat) /\ Len(arrival') = n - 1 /\ Len(main') = n - 1
      /\ \A i \in 1..(n - 1) : arrival'[i] = arrival[i]
  <2>1. arrival' = SubSeq(arrival, 1, n - 1) /\ main' = SubSeq(main, 1, n - 1)
    BY <1>1 DEF Dequeue, Front
  <2>2. 1 \in Int /\ n - 1 \in Int /\ arrival \in Seq(Nat) /\ main \in Seq(Jobs)
    BY <1>1 DEF Ordered, Typed
  <2>3. \A i \in 1..(n - 1) : arrival[i] \in Nat /\ main[i] \in Jobs
    <3>1. \A i \in 1..n : arrival[i] \in Nat
      BY <1>1, <2>2, ElementOfSeq
    <3>2. \A i \in 1..n : main[i] \in Jobs
      BY <1>1, <2>2
    <3> QED BY <1>1, <3>1, <3>2
  <2>4. /\ SubSeq(arrival, 1, n - 1) \in Seq(Nat) /\ Len(SubSeq(arrival, 1, n - 1)) = n - 1
        /\ \A i \in 1..(n - 1) : SubSeq(arrival, 1, n - 1)[i] = arrival[i]
    BY <1>1, <2>2, <2>3, SubSeqProperties
  <2>5. Len(SubSeq(main, 1, n - 1)) = n - 1
    BY <1>1, <2>2, <2>3, SubSeqProperties
  <2> QED BY <2>1, <2>4, <2>5
<1>3. pushes' = pushes /\ pushes \in Nat
  BY DEF Ordered, Dequeue
<1>4. Ordered'
  <2>1. \A i \in 1..(n - 1) : i \in 1..n
    BY <1>1
  <2>2. \A i \in 1..(n - 1) : arrival'[i] < pushes'
    BY <1>1, <1>2, <1>3, <2>1 DEF Ordered
  <2>3. \A i, k \in 1..(n - 1) : i < k => arrival'[i] < arrival'[k]
    BY <1>1, <1>2, <2>1 DEF Ordered
  <2> QED BY <1>1, <1>2, <1>3, <2>2, <2>3 DEF Ordered
<1>5. DOMAIN arrival = 1..n /\ DOMAIN arrival' = 1..(n - 1)
  BY <1>1, <1>2 DEF Ordered
<1>6. \A x \in Range(arrival) \ Range(arrival') : x = arrival[n]
  <2>1. \A i \in 1..n : i = n \/ i \in 1..(n - 1)
    BY <1>1
  <2> QED BY <1>2, <1>5, <2>1 DEF Range
<1>7. \A o \in Range(arrival') : o < arrival[n] /\ o \in Nat
  <2>1. \A i \in 1..(n - 1) : i \in 1..n /\ n \in 1..n /\ i < n
    BY <1>1
  <2>2. \A i \in 1..(n - 1) : arrival[i] < arrival[n] /\ arrival[i] \in Nat
    BY <1>1, <2>1 DEF Ordered
  <2> QED BY <1>2, <1>5, <2>2 DEF Range
<1>8. arrival[n] \in Nat
  BY <1>1, <1>5 DEF Ordered
<1> QED BY <1>4, <1>6, <1>7, <1>8

\* Pushes and pops together make the main list a stack.  What leaves it was
\* pushed after all that stays, whether by Enqueue, by the Requeue of a failed
\* job or by RecoverStalled, however their commands interleave: under load the
\* oldest job waits, where queue.go:55 promises the opposite.
THEOREM QueueNewestFirst == Spec => NewestFirst
<1>1. Init => Ordered
  BY DEF Init, Ordered
<1> DEFINE Newest == \A n \in Range(arrival) \ Range(arrival'),
                        o \in Range(arrival) \cap Range(arrival') : n > o
<1>2. Typed /\ Ordered /\ [Next]_vars => Ordered' /\ [Newest]_vars
  <2> SUFFICES ASSUME Typed, Ordered, [Next]_vars PROVE Ordered' /\ Newest
    OBVIOUS
  <2>1. CASE UNCHANGED <<main, history>>
    BY <2>1 DEF Ordered, history
  <2>2. ASSUME NEW j \in Jobs, RPush(j) PROVE Ordered' /\ Newest
    BY <2>2, OrderedPush
  <2>3. CASE Dequeue
    BY <2>3, OrderedPop
  <2>4. ASSUME NEW j \in Jobs, Enqueue(j) PROVE RPush(j)
    BY <2>4 DEF Enqueue
  <2>5. ASSUME NEW c \in Callers, RequeuePush(c) PROVE moving[c] \in Jobs /\ RPush(moving[c])
    BY <2>5 DEF RequeuePush, Typed
  <2>6. CASE UNCHANGED vars
    BY <2>1, <2>6 DEF vars
  <2> HIDE DEF Newest
  <2> QED BY <2>1, <2>2, <2>3, <2>4, <2>5, <2>6 DEF Next, Acknowledge, MoveToDLQ, RequeueRemove,
               RecoverScan, RecoverItem
<1> QED BY <1>1, <1>2, InitTyped, StepTyped, PTL DEF Spec, NewestFirst
=============================================================================
