--------------------------- MODULE EVMNonceProofs ---------------------------
(***************************************************************************)
(* Theorems about EVMNonce, for every set of tasks, every chain nonce and  *)
(* any number of losses of the counter.                                    *)
(***************************************************************************)
EXTENDS EVMNonce, WellFoundedInduction, TLAPS

\* Transactions and the nonces drawn for them stay below the bound, so the node
\* always lacks one.
BoundedInv ==
    /\ \A t \in Tasks : nonce[t] <= MaxNonce
    /\ pool \subseteq 0..MaxNonce
    /\ signed \subseteq 0..MaxNonce

LEMMA PendingTyped ==
  ASSUME pool \subseteq 0..MaxNonce
  PROVE  Pending \in Nat
<1> DEFINE Lacks(n) == n \notin pool /\ \A m \in ChainStart..n : m = n \/ m \in pool
           Free == {n \in Nat : n >= ChainStart /\ n \notin pool}
<1>1. MaxNonce + 1 \in Free
  BY ChainAssumption
<1>2. PICK n \in Free : \A m \in Free : n <= m
  <2> DEFINE Less == OpToRel(<, Nat)
  <2>1. \A m, k \in Nat : m < k => <<m, k>> \in Less
    BY DEF OpToRel
  <2>2. IsWellFoundedOn(Less, Nat)
    BY NatLessThanWellFounded
  <2>3. Free \subseteq Nat /\ Free # {}
    BY <1>1
  <2> HIDE DEF Less, Free
  <2>4. PICK n \in Free : \A m \in Free : ~(<<m, n>> \in Less)
    BY <2>2, <2>3, WFMin
  <2>5. ASSUME NEW m \in Free PROVE n <= m
    <3>1. m \in Nat /\ n \in Nat /\ ~(m < n)
      BY <2>1, <2>3, <2>4
    <3> QED BY <3>1
  <2> QED BY <2>5
<1>3. n \in ChainStart..(MaxNonce + 1) /\ Lacks(n)
  BY <1>1, <1>2, ChainAssumption
<1>4. Pending \in ChainStart..(MaxNonce + 1)
  BY <1>3 DEF Pending
<1> QED BY <1>4, ChainAssumption

LEMMA PendingIsFirst == ASSUME ChainStart \notin pool PROVE Pending = ChainStart
<1> DEFINE P(n) == n \notin pool /\ \A m \in ChainStart..n : m = n \/ m \in pool
<1>1. ChainStart \in ChainStart..(MaxNonce + 1) /\ P(ChainStart)
  BY ChainAssumption
<1>2. \A n \in ChainStart..(MaxNonce + 1) : P(n) => n = ChainStart
  BY ChainAssumption
<1>3. Pending \in ChainStart..(MaxNonce + 1) /\ P(Pending)
  BY <1>1 DEF Pending
<1> QED BY <1>2, <1>3
-----------------------------------------------------------------------------
\* What the tasks have to do with the nonce the chain waits for.
GapInv ==
    /\ ChainStart \notin pool
    /\ ChainStart \notin signed
    /\ counter = 0 \/ counter > ChainStart
    /\ \A t \in Tasks :
          /\ pc[t] \in {"setInit", "setResync"} => read[t] = ChainStart
          /\ pc[t] = "next" => counter # 0
          /\ pc[t] \in {"sign", "broadcast"} => nonce[t] > ChainStart

\* A task that drew since the counter was last set got less than it is now.
DrawnInv == UniqueUntilResync /\ \A t \in drawn : nonce[t] < counter

LEMMA InitInv == Init => TypeOK /\ BoundedInv /\ GapInv /\ DrawnInv
  BY ChainAssumption DEF Init, TypeOK, Steps, BoundedInv, GapInv, DrawnInv, UniqueUntilResync

LEMMA TypeStep ==
  ASSUME TypeOK, BoundedInv, [Next]_vars
  PROVE  TypeOK' /\ BoundedInv'
<1> USE ChainAssumption DEF TypeOK, BoundedInv, Steps, taskVars, Goto
<1>1. ASSUME NEW t \in Tasks, TaskStep(t) PROVE TypeOK' /\ BoundedInv'
  <2>1. CASE Begin(t)
    BY <2>1 DEF Begin
  <2>2. CASE Peek(t)
    BY <2>2 DEF Peek
  <2>3. CASE EVMPendingNonce(t)
    BY <2>3, PendingTyped DEF EVMPendingNonce
  <2>4. CASE SyncFromChain(t)
    BY <2>4 DEF SyncFromChain
  <2>5. CASE NextNonce(t)
    <3>1. /\ counter' = counter + 1 /\ counter < MaxNonce
          /\ nonce' = [nonce EXCEPT ![t] = counter]
      BY <2>5 DEF NextNonce
    <3> QED BY <2>5, <3>1 DEF NextNonce
  <2>6. CASE Sign(t)
    <3>1. signed' = signed \/ signed' = signed \cup {nonce[t]}
      BY <2>6 DEF Sign
    <3>2. nonce[t] \in 0..MaxNonce
      OBVIOUS
    <3>3. signed' \in SUBSET Nat /\ signed' \subseteq 0..MaxNonce
      BY <3>1, <3>2
    <3> QED BY <2>6, <3>3 DEF Sign
  <2>7. CASE EVMBroadcast(t)
    <3>1. pool' = pool \/ pool' = pool \cup {nonce[t]}
      BY <2>7 DEF EVMBroadcast
    <3>2. nonce[t] \in 0..MaxNonce
      OBVIOUS
    <3>3. pool' \in SUBSET Nat /\ pool' \subseteq 0..MaxNonce
      BY <3>1, <3>2
    <3> QED BY <2>7, <3>3 DEF EVMBroadcast
  <2>8. CASE Abandon(t)
    BY <2>8 DEF Abandon
  <2> QED BY <1>1, <2>1, <2>2, <2>3, <2>4, <2>5, <2>6, <2>7, <2>8 DEF TaskStep
<1>2. ASSUME NEW n \in signed, ClientBroadcast(n) PROVE TypeOK' /\ BoundedInv'
  BY <1>2 DEF ClientBroadcast
<1>3. CASE Expire
  BY <1>3 DEF Expire
<1>4. CASE UNCHANGED vars
  BY <1>4 DEF vars
<1> QED BY <1>1, <1>2, <1>3, <1>4 DEF Next

\* The model's types, and the cap on nonces, hold for every bound and every
\* number of tasks.
THEOREM NonceTypes == Spec => [](TypeOK /\ BoundedInv)
<1>1. TypeOK /\ BoundedInv /\ [Next]_vars => TypeOK' /\ BoundedInv'
  BY TypeStep
<1> QED BY <1>1, InitInv, PTL DEF Spec

LEMMA GapStep ==
  ASSUME TypeOK, expiries = 0 => GapInv, [Next]_vars, expiries' = 0
  PROVE  GapInv'
<1> USE ChainAssumption DEF TypeOK, GapInv, Steps, taskVars, Goto
<1>0. GapInv
  <2>1. expiries' = expiries \/ expiries' = expiries + 1
    BY DEF Next, vars, TaskStep, Begin, Peek, EVMPendingNonce, SyncFromChain, NextNonce, Sign,
           EVMBroadcast, Abandon, ClientBroadcast, Expire
  <2> QED BY <2>1
<1>1. Pending = ChainStart
  BY <1>0, PendingIsFirst
<1>2. ASSUME NEW t \in Tasks, TaskStep(t) PROVE GapInv'
  <2>1. CASE Begin(t)
    BY <1>0, <2>1 DEF Begin
  <2>2. CASE Peek(t)
    BY <1>0, <2>2 DEF Peek
  <2>3. CASE EVMPendingNonce(t)
    BY <1>0, <1>1, <2>3 DEF EVMPendingNonce
  <2>4. CASE SyncFromChain(t)
    BY <1>0, <2>4 DEF SyncFromChain
  <2>5. CASE NextNonce(t)
    <3>1. /\ counter > ChainStart /\ counter' = counter + 1
          /\ nonce' = [nonce EXCEPT ![t] = counter]
      BY <1>0, <2>5 DEF NextNonce
    <3>2. UNCHANGED <<read, pool, signed>> /\ pc' = [pc EXCEPT ![t] = "sign"]
      BY <2>5 DEF NextNonce
    <3> QED BY <1>0, <3>1, <3>2
  <2>6. CASE Sign(t)
    <3>1. nonce[t] # ChainStart
      <4>1. pc[t] = "sign"
        BY <2>6 DEF Sign
      <4> QED BY <1>0, <4>1
    <3>2. signed' = signed \/ signed' = signed \cup {nonce[t]}
      BY <2>6 DEF Sign
    <3>3. ChainStart \notin signed'
      BY <1>0, <3>1, <3>2
    <3> QED BY <1>0, <2>6, <3>3 DEF Sign
  <2>7. CASE EVMBroadcast(t)
    <3>1. pool' = pool \/ pool' = pool \cup {nonce[t]}
      BY <2>7 DEF EVMBroadcast
    <3>2. nonce[t] # ChainStart
      <4>1. pc[t] = "broadcast"
        BY <2>7 DEF EVMBroadcast
      <4> QED BY <1>0, <4>1
    <3>3. ChainStart \notin pool'
      BY <1>0, <3>1, <3>2
    <3> QED BY <1>0, <2>7, <3>3 DEF EVMBroadcast
  <2>8. CASE Abandon(t)
    BY <1>0, <2>8 DEF Abandon
  <2> QED BY <1>2, <2>1, <2>2, <2>3, <2>4, <2>5, <2>6, <2>7, <2>8 DEF TaskStep
<1>3. ASSUME NEW n \in signed, ClientBroadcast(n) PROVE GapInv'
  BY <1>0, <1>3 DEF ClientBroadcast
<1>4. CASE Expire
  BY <1>4 DEF Expire
<1>5. CASE UNCHANGED vars
  BY <1>0, <1>5 DEF vars
<1> QED BY <1>2, <1>3, <1>4, <1>5 DEF Next

\* The off-by-one of SyncFromChain, for any number of tasks: as long as the
\* counter is not lost, the nonce the chain waits for is never drawn and the
\* account's pending nonce never moves.
THEOREM NonceGapPermanent == Spec => []PendingNeverAdvances
<1> DEFINE Gap == expiries = 0 => GapInv
<1>1. TypeOK /\ Gap /\ [Next]_vars => Gap'
  BY GapStep
<1>2. Init => Gap
  BY InitInv
<1>3. Gap => PendingNeverAdvances
  BY PendingIsFirst DEF GapInv, PendingNeverAdvances
<1> HIDE DEF Gap
<1> QED BY <1>1, <1>2, <1>3, NonceTypes, PTL DEF Spec
-----------------------------------------------------------------------------
LEMMA DrawnStep ==
  ASSUME TypeOK, DrawnInv, [Next]_vars
  PROVE  DrawnInv'
<1> USE DEF TypeOK, DrawnInv, UniqueUntilResync, taskVars
<1>1. ASSUME NEW t \in Tasks, TaskStep(t) PROVE DrawnInv'
  <2>1. CASE Begin(t) \/ Peek(t) \/ EVMPendingNonce(t) \/ Sign(t) \/ EVMBroadcast(t)
    BY <2>1 DEF Begin, Peek, EVMPendingNonce, Sign, EVMBroadcast
  <2>2. CASE SyncFromChain(t)
    BY <2>2 DEF SyncFromChain
  <2>3. CASE NextNonce(t)
    <3>1. /\ counter' = counter + 1 /\ drawn' = drawn \cup {t}
          /\ nonce' = [nonce EXCEPT ![t] = counter]
      BY <2>3 DEF NextNonce
    <3>2. \A u \in drawn' : u # t => nonce'[u] = nonce[u] /\ nonce[u] < counter
      BY <3>1
    <3>3. nonce'[t] = counter
      BY <3>1
    <3> QED BY <3>1, <3>2, <3>3
  <2>4. CASE Abandon(t)
    <3>1. UNCHANGED nonce /\ (drawn' = {} \/ (drawn' = drawn /\ counter' \in {counter, counter + 1}))
      BY <2>4 DEF Abandon
    <3> QED BY <3>1
  <2> QED BY <1>1, <2>1, <2>2, <2>3, <2>4 DEF TaskStep
<1>2. ASSUME NEW n \in signed, ClientBroadcast(n) PROVE DrawnInv'
  BY <1>2 DEF ClientBroadcast
<1>3. CASE Expire
  BY <1>3 DEF Expire
<1>4. CASE UNCHANGED vars
  BY <1>4 DEF vars
<1> QED BY <1>1, <1>2, <1>3, <1>4 DEF Next

\* Until the counter is set again or lost, no two of any number of tasks get the
\* same nonce, whichever calls fail and whichever replies are lost.
THEOREM NoncesUnique == Spec => []UniqueUntilResync
<1>1. TypeOK /\ DrawnInv /\ [Next]_vars => DrawnInv'
  BY DrawnStep
<1>2. DrawnInv => UniqueUntilResync
  BY DEF DrawnInv
<1> QED BY <1>1, <1>2, InitInv, NonceTypes, PTL DEF Spec
=============================================================================
