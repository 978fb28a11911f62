--------------------------- MODULE CreditsProofs ---------------------------
(***************************************************************************)
(* Credits implements CreditLedger, for every number of organisations,     *)
(* concurrent calls and amounts.  The step simulation needs Exclusive: the *)
(* balance a call computes with is still the committed one when it commits.*)
(***************************************************************************)
EXTENDS Credits, SequenceTheorems, TLAPS

\* A call works on an amount it was given, and commits only what is covered.
CallInv ==
    \A c \in Calls :
        /\ pc[c] # "idle" => amount[c] \in Amounts \/ -amount[c] \in Amounts
        /\ pc[c] = "commit" => current[c] + amount[c] >= 0

CInv == TypeOK /\ Exclusive /\ CallInv

LEMMA CommittedNat == ASSUME TypeOK, NEW o \in Orgs PROVE Committed(o) \in Nat
  BY AbsentAssumption DEF TypeOK, Committed

LEMMA InitInv == Init => CInv
  BY AbsentAssumption, LimitsAssumption
     DEF Init, CInv, TypeOK, Exclusive, CallInv, Steps

LEMMA BeginInv ==
  ASSUME CInv, NEW c \in Calls, NEW o \in Orgs, NEW a \in Int, NEW step \in {"lock", "insert"},
         a \in Amounts \/ -a \in Amounts, Begin(c, o, a, step)
  PROVE  CInv'
<1> USE DEF CInv, TypeOK, Begin, Goto
<1>1. TypeOK'
  BY DEF Steps
<1>2. Exclusive' /\ CallInv'
  BY DEF Exclusive, CallInv, Committed
<1> QED BY <1>1, <1>2

\* Whoever ends gives up only what it held.
LEMMA ReleaseInv ==
  ASSUME CInv, NEW c \in Calls, Rollback(c)
  PROVE  CInv'
<1> USE AbsentAssumption DEF CInv, TypeOK, Rollback, Goto
<1>1. TypeOK'
  BY DEF Steps
<1>2. \A d \in Calls \ {c} : pc'[d] = pc[d]
  OBVIOUS
<1>3. Exclusive'
  BY <1>2 DEF Exclusive, Committed
<1>4. CallInv'
  BY <1>2 DEF CallInv
<1> QED BY <1>1, <1>3, <1>4

\* Whoever locks a row nobody holds, or has inserted it, is alone on it.
LEMMA LockInv ==
  ASSUME CInv, NEW c \in Calls, pc[c] # "idle", NEW b \in Nat, b = Committed(org[c]),
         NEW step \in Steps, step # "commit" \/ amount[c] >= 0,
         holder[org[c]] = NoCall \/ holder[org[c]] = c,
         holder' = [holder EXCEPT ![org[c]] = c],
         current' = [current EXCEPT ![c] = b],
         Goto(c, step),
         UNCHANGED <<rows, ledger, org, amount, started>>
  PROVE  CInv'
<1> USE AbsentAssumption DEF CInv, TypeOK, Goto
<1>1. TypeOK'
  OBVIOUS
<1>2. \A d \in Calls \ {c} : pc'[d] = pc[d] /\ current'[d] = current[d]
  OBVIOUS
<1>3. Exclusive'
  <2> SUFFICES ASSUME NEW d \in Calls, pc'[d] \in {"check", "commit"}
               PROVE  holder'[org[d]] = d /\ current'[d] = Committed(org[d])
    BY DEF Exclusive, Committed
  <2>1. CASE d = c
    BY <2>1
  <2>2. CASE d # c
    <3>1. holder[org[d]] = d /\ current[d] = Committed(org[d])
      BY <1>2, <2>2 DEF Exclusive
    <3>2. org[d] # org[c]
      BY <2>2, <3>1
    <3> QED BY <1>2, <2>2, <3>1, <3>2
  <2> QED BY <2>1, <2>2
<1>4. CallInv'
  BY <1>2 DEF CallInv
<1> QED BY <1>1, <1>3, <1>4

LEMMA StepInv ==
  ASSUME CInv, NEW c \in Calls, CallStep(c)
  PROVE  CInv'
<1>t. /\ org[c] \in Orgs /\ rows[org[c]] \in Nat \cup {Absent} /\ amount[c] \in Int
      /\ current[c] \in Nat /\ Committed(org[c]) \in Nat
  BY CommittedNat DEF CInv, TypeOK
<1>1. ASSUME NEW step \in Steps, TakeLock(c, step), pc[c] # "idle",
             step # "commit" \/ amount[c] >= 0,
             UNCHANGED <<rows, ledger, org, amount, started>>
      PROVE  CInv'
  <2>1. rows[org[c]] = Committed(org[c])
    BY <1>1 DEF TakeLock, Committed
  <2> QED BY <1>1, <1>t, <2>1, LockInv DEF TakeLock
<1>2. CASE LockRow(c)
  <2>1. CASE TakeLock(c, "check")
    BY <1>1, <1>2, <2>1 DEF LockRow, Steps
  <2>2. CASE rows[org[c]] = Absent /\ Goto(c, "insert") /\ UNCHANGED <<holder, current>>
    BY <1>2, <2>2 DEF LockRow, Goto, CInv, TypeOK, Exclusive, CallInv, Committed, Steps
  <2> QED BY <1>2, <2>1, <2>2 DEF LockRow
<1>3. CASE InsertRow(c)
  <2> USE AbsentAssumption DEF CInv, TypeOK, InsertRow, Goto
  <2>1. TypeOK'
    BY <1>3 DEF Steps
  <2>2. \A d \in Calls : pc'[d] \in {"check", "commit"} => pc[d] = pc'[d] /\ d # c
    BY <1>3
  <2>3. CallInv'
    BY <1>3, <2>2 DEF CallInv
  <2>4. Exclusive'
    BY <1>3, <2>2 DEF Exclusive, Committed
  <2> QED BY <2>1, <2>3, <2>4
<1>4. CASE RelockRow(c)
  <2> DEFINE step == IF amount[c] < 0 THEN "check" ELSE "commit"
  <2>0. step \in Steps /\ (step # "commit" \/ amount[c] >= 0)
    BY <1>t DEF Steps
  <2>1. CASE TakeLock(c, step)
    <3> HIDE DEF step
    <3> QED BY <1>1, <1>4, <2>0, <2>1 DEF RelockRow
  <2>2. CASE /\ rows[org[c]] = Absent /\ holder[org[c]] = c
             /\ current' = [current EXCEPT ![c] = 0] /\ Goto(c, step) /\ UNCHANGED holder
    <3>1. holder' = [holder EXCEPT ![org[c]] = c] /\ Committed(org[c]) = 0
      BY <2>2, <1>t DEF Committed, CInv, TypeOK
    <3> HIDE DEF step
    <3> QED BY <1>4, <2>0, <2>2, <3>1, LockInv DEF RelockRow
  <2> QED BY <1>4, <2>1, <2>2 DEF RelockRow
<1>5. CASE CheckBalance(c)
  <2>1. CASE Rollback(c)
    BY <2>1, ReleaseInv
  <2>2. CASE Covered(c) /\ Goto(c, "commit")
             /\ UNCHANGED <<rows, holder, ledger, org, amount, current, started>>
    BY <1>5, <2>2 DEF CheckBalance, Covered, Goto, CInv, TypeOK, Exclusive, CallInv, Committed, Steps
  <2> QED BY <1>5, <2>1, <2>2 DEF CheckBalance
<1>6. CASE Commit(c)
  <2> USE AbsentAssumption DEF CInv, TypeOK, Commit, Goto
  <2>1. current[c] + amount[c] \in Nat
    BY <1>6, <1>t DEF CallInv
  <2>2. ledger' \in [Orgs -> Seq([amount : Int, after : Nat])]
    BY <1>6, <1>t, <2>1 DEF PostEntry
  <2>4. TypeOK'
    BY <1>6, <1>t, <2>1, <2>2 DEF Steps
  <2>5. \A d \in Calls : pc'[d] # "idle" => d # c /\ pc'[d] = pc[d]
    BY <1>6
  <2>6. CallInv'
    BY <1>6, <2>5 DEF CallInv
  <2>7. \A d \in Calls : pc'[d] \in {"check", "commit"} =>
           holder[org[d]] = d /\ current[d] = Committed(org[d]) /\ org[d] # org[c]
    BY <1>6, <2>5 DEF Exclusive
  <2>8. Exclusive'
    BY <1>6, <2>5, <2>7 DEF Exclusive, Committed
  <2> QED BY <2>4, <2>6, <2>8
<1> QED BY <1>2, <1>3, <1>4, <1>5, <1>6 DEF CallStep

LEMMA NextInv == CInv /\ [Next]_vars => CInv'
<1> SUFFICES ASSUME CInv, [Next]_vars PROVE CInv'
  OBVIOUS
<1>1. ASSUME NEW c \in Calls, NEW o \in Orgs, NEW a \in Amounts, Debit(c, o, a) \/ Credit(c, o, a)
      PROVE  CInv'
  <2>1. a \in Int /\ -a \in Int /\ -(-a) = a
    BY PostsAssumption
  <2> QED BY <1>1, <2>1, BeginInv DEF Debit, Credit
<1>2. CASE UNCHANGED vars
  BY <1>2 DEF vars, callVars, CInv, TypeOK, Exclusive, CallInv, Committed
<1> QED BY <1>1, <1>2, StepInv, ReleaseInv DEF Next, Abort

\* Type correctness, and mutual exclusion on a balance row from FOR UPDATE (or
\* the INSERT that created it) to the end of the transaction, with nobody's
\* copy of the balance out of date.
THEOREM CreditsExclusive == Spec => [](TypeOK /\ Exclusive)
<1>1. CInv => TypeOK /\ Exclusive
  BY DEF CInv
<1> QED BY <1>1, InitInv, NextInv, PTL DEF Spec
-----------------------------------------------------------------------------
LEMMA InitSimulates == Init => Account!LedgerInit
  BY DEF Init, Account!LedgerInit, Committed

LEMMA CommitSimulates ==
  ASSUME CInv, NEW c \in Calls, Commit(c)
  PROVE  Account!Post(org[c], amount[c])
<1> USE DEF CInv, TypeOK
<1>1. org[c] \in Orgs /\ current[c] = Committed(org[c]) /\ current[c] + amount[c] >= 0
  BY DEF Commit, Exclusive, CallInv
<1>2. current[c] + amount[c] \in Nat
  BY <1>1
<1>3. \A o \in Orgs : Committed(o)' = IF o = org[c] THEN current[c] + amount[c] ELSE Committed(o)
  BY <1>1, <1>2, AbsentAssumption DEF Commit, Committed
<1>4. ledger' = [ledger EXCEPT ![org[c]] =
                    Append(@, [amount |-> amount[c], after |-> Committed(org[c]) + amount[c]])]
  BY <1>1 DEF Commit, PostEntry
<1> HIDE DEF CInv, TypeOK
<1> QED BY <1>1, <1>3, <1>4 DEF Account!Post

LEMMA StepSimulates ==
  CInv /\ [Next]_vars => [Account!LedgerNext]_(Account!ledgerVars)
<1> SUFFICES ASSUME CInv, [Next]_vars PROVE [Account!LedgerNext]_(Account!ledgerVars)
  OBVIOUS
<1>1. ASSUME NEW c \in Calls, Commit(c) PROVE Account!LedgerNext
  <2>1. PICK a \in Amounts : amount[c] = a \/ amount[c] = -a
    <3>1. amount[c] \in Int /\ (amount[c] \in Amounts \/ -amount[c] \in Amounts)
      BY <1>1 DEF Commit, CInv, TypeOK, CallInv
    <3>2. amount[c] = -(-amount[c])
      BY <3>1
    <3> QED BY <3>1, <3>2
  <2>2. org[c] \in Orgs
    BY DEF CInv, TypeOK
  <2> QED BY <1>1, <2>1, <2>2, CommitSimulates DEF Account!LedgerNext
<1>2. ASSUME UNCHANGED <<rows, ledger>> PROVE UNCHANGED Account!ledgerVars
  BY <1>2 DEF Account!ledgerVars, Committed
<1>3. ASSUME NEW c \in Calls, ~Commit(c), CallStep(c) \/ Abort(c) PROVE UNCHANGED <<rows, ledger>>
  BY <1>3 DEF CallStep, Abort, Rollback, LockRow, InsertRow, RelockRow, CheckBalance
<1>4. ASSUME NEW c \in Calls, NEW o \in Orgs, NEW a \in Amounts,
             Debit(c, o, a) \/ Credit(c, o, a)
      PROVE  UNCHANGED <<rows, ledger>>
  BY <1>4 DEF Debit, Credit, Begin
<1>5. CASE UNCHANGED vars
  BY <1>2, <1>5 DEF vars
<1> QED BY <1>1, <1>2, <1>3, <1>4, <1>5 DEF Next

\* Concurrent transactions implement the ledger: every commit is one whole
\* Debit or Credit of CreditLedger on the balance the previous commit left.
THEOREM CreditsImplementLedger == Spec => ImplementsLedger
  BY InitSimulates, StepSimulates, InitInv, NextInv, PTL
     DEF Spec, ImplementsLedger, Account!LedgerSpec
-----------------------------------------------------------------------------
\* Chained, of one organisation.
ChainedAt(o) ==
    /\ \A k \in 1..Len(ledger[o]) :
          ledger[o][k].after = ledger[o][k].amount + (IF k = 1 THEN 0 ELSE ledger[o][k - 1].after)
    /\ Committed(o) = IF ledger[o] = <<>> THEN 0 ELSE ledger[o][Len(ledger[o])].after

LEMMA ChainedParts ==
    /\ LedgerChained <=> \A o \in Orgs : ChainedAt(o)
    /\ LedgerChained' <=> \A o \in Orgs : ChainedAt(o)'
  BY DEF LedgerChained, Account!Chained, ChainedAt

LEMMA AppendFacts ==
  ASSUME NEW S, NEW s \in Seq(S), NEW e \in S
  PROVE  /\ Len(s) \in Nat /\ (Len(s) = 0 <=> s = <<>>)
         /\ Len(Append(s, e)) = Len(s) + 1 /\ Append(s, e) # <<>>
         /\ Append(s, e)[Len(s) + 1] = e
         /\ \A k \in 1..Len(s) : Append(s, e)[k] = s[k]
<1>1. Len(s) \in Nat /\ Len(Append(s, e)) = Len(s) + 1
  OBVIOUS
<1>2. Len(s) = 0 <=> s = <<>>
  BY EmptySeq
<1>3. Append(s, e) # <<>> /\ Append(s, e)[Len(s) + 1] = e
  BY <1>1
<1>4. \A k \in 1..Len(s) : Append(s, e)[k] = s[k]
  OBVIOUS
<1> QED BY <1>1, <1>2, <1>3, <1>4

LEMMA CommitChained ==
  ASSUME CInv, NEW c \in Calls, Commit(c), NEW o \in Orgs, ChainedAt(o)
  PROVE  ChainedAt(o)'
<1>1. CASE o # org[c]
  BY <1>1 DEF Commit, ChainedAt, Committed, CInv, TypeOK
<1>2. CASE o = org[c]
  <2> DEFINE s == ledger[o]
             e == PostEntry(c)
  <2>1. s \in Seq([amount : Int, after : Nat]) /\ e \in [amount : Int, after : Nat]
    BY <1>2 DEF Commit, CInv, TypeOK, CallInv, PostEntry
  <2>2. e.after = e.amount + Committed(o) /\ Committed(o)' = e.after
    <3>1. current[c] = Committed(o) /\ current[c] + amount[c] \in Nat
      BY <1>2 DEF Commit, CInv, TypeOK, Exclusive, CallInv
    <3> QED BY <1>2, <3>1, AbsentAssumption DEF Commit, Committed, PostEntry, CInv, TypeOK
  <2>3. ledger'[o] = Append(s, e)
    BY <1>2 DEF Commit, CInv, TypeOK
  <2>4. /\ Len(Append(s, e)) = Len(s) + 1 /\ Append(s, e) # <<>>
        /\ Append(s, e)[Len(s) + 1] = e
        /\ \A k \in 1..Len(s) : Append(s, e)[k] = s[k]
        /\ Len(s) \in Nat /\ (Len(s) = 0 <=> s = <<>>)
    <3> HIDE DEF s, e
    <3> QED BY <2>1, AppendFacts
  <2>5. Committed(o) = IF Len(s) = 0 THEN 0 ELSE s[Len(s)].after
    BY <2>4 DEF ChainedAt
  <2>6. ASSUME NEW k \in 1..(Len(s) + 1)
        PROVE  Append(s, e)[k].after = Append(s, e)[k].amount
                  + (IF k = 1 THEN 0 ELSE Append(s, e)[k - 1].after)
    <3>1. CASE k = Len(s) + 1
      <4>1. CASE Len(s) = 0
        <5>1. k = 1 /\ Append(s, e)[k] = e /\ Committed(o) = 0
          BY <2>4, <2>5, <3>1, <4>1
        <5> QED BY <2>2, <5>1
      <4>2. CASE Len(s) # 0
        <5>1. k # 1 /\ k - 1 = Len(s) /\ Len(s) \in 1..Len(s) /\ Append(s, e)[k] = e
          BY <2>4, <3>1, <4>2
        <5>2. Append(s, e)[k - 1] = s[Len(s)] /\ Committed(o) = s[Len(s)].after
          BY <2>4, <2>5, <4>2, <5>1
        <5> QED BY <2>2, <5>1, <5>2
      <4> QED BY <4>1, <4>2
    <3>2. CASE k # Len(s) + 1
      <4>1. k \in 1..Len(s) /\ (k = 1 \/ k - 1 \in 1..Len(s))
        BY <2>4, <2>6, <3>2
      <4>2. s[k].after = s[k].amount + (IF k = 1 THEN 0 ELSE s[k - 1].after)
        BY <4>1 DEF ChainedAt
      <4> QED BY <2>4, <4>1, <4>2
    <3> QED BY <3>1, <3>2
  <2> QED BY <2>2, <2>3, <2>4, <2>6 DEF ChainedAt
<1> QED BY <1>1, <1>2

LEMMA ChainedStep == CInv /\ LedgerChained /\ [Next]_vars => LedgerChained'
<1> SUFFICES ASSUME CInv, \A o \in Orgs : ChainedAt(o), [Next]_vars
             PROVE  \A o \in Orgs : ChainedAt(o)'
  BY ChainedParts
<1>1. ASSUME UNCHANGED <<rows, ledger>> PROVE \A o \in Orgs : ChainedAt(o)'
  BY <1>1 DEF ChainedAt, Committed
<1>2. ASSUME NEW c \in Calls, ~Commit(c), CallStep(c) \/ Abort(c) PROVE UNCHANGED <<rows, ledger>>
  BY <1>2 DEF CallStep, Abort, Rollback, LockRow, InsertRow, RelockRow, CheckBalance
<1>3. ASSUME NEW c \in Calls, NEW o \in Orgs, NEW a \in Amounts,
             Debit(c, o, a) \/ Credit(c, o, a)
      PROVE  UNCHANGED <<rows, ledger>>
  BY <1>3 DEF Debit, Credit, Begin
<1>4. CASE UNCHANGED vars
  BY <1>1, <1>4 DEF vars
<1> QED BY <1>1, <1>2, <1>3, <1>4, CommitChained DEF Next

\* No update is lost: in every reachable state the ledger rows of an
\* organisation chain from zero to its committed balance.
THEOREM CreditsChained == Spec => []LedgerChained
<1>1. Init => LedgerChained
  <2> SUFFICES ASSUME Init, NEW o \in Orgs PROVE ChainedAt(o)
    BY ChainedParts
  <2>1. ledger[o] = <<>> /\ Committed(o) = 0
    BY DEF Init, Committed
  <2>2. Len(ledger[o]) = 0
    BY <2>1
  <2> QED BY <2>1, <2>2 DEF ChainedAt
<1> QED BY <1>1, ChainedStep, InitInv, NextInv, PTL DEF Spec
=============================================================================
