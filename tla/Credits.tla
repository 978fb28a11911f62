------------------------------ MODULE Credits ------------------------------
(***************************************************************************)
(* Debit and Credit of internal/credits/credits.go as the Postgres         *)
(* transactions they are (READ COMMITTED), one action per statement whose  *)
(* effect another transaction can meet.                                    *)
(*                                                                         *)
(* rows holds committed balances; a transaction sees those and its own     *)
(* insert.  holder is the transaction that has the row locked FOR UPDATE   *)
(* or has inserted it and not ended.  UPDATE, the ledger INSERT and COMMIT *)
(* show at once, so they are one action; a rollback shows nothing.         *)
(***************************************************************************)
EXTENDS Integers, Sequences

CONSTANTS
    Orgs,
    Amounts,   \* amounts of credits, and costs of operations that are not free
    Calls,     \* concurrent calls of Debit and Credit
    Absent,    \* "no committed row"
    NoCall,    \* "not locked"
    Errors,    \* whether calls may fail, be cancelled or die
    MaxCalls   \* bound: calls in all

ASSUME PostsAssumption == Amounts \subseteq Nat \ {0}
ASSUME AbsentAssumption == Absent \notin Nat /\ NoCall \notin Calls
ASSUME LimitsAssumption == Errors \in BOOLEAN /\ MaxCalls \in Nat

VARIABLES
    rows,               \* org_credit_balance, committed
    holder,             \* per organisation: who locks or is inserting the row
    ledger,             \* credit_ledger, committed
    pc, org, amount,    \* per call: next statement, organisation, signed amount
    current,            \* per call: currentBalance
    started             \* calls so far

callVars == <<pc, org, amount, current>>
vars == <<rows, holder, ledger, callVars, started>>

Steps == {"idle", "lock", "insert", "relock", "check", "commit"}

TypeOK ==
    /\ rows \in [Orgs -> Nat \cup {Absent}]
    /\ holder \in [Orgs -> Calls \cup {NoCall}]
    /\ ledger \in [Orgs -> Seq([amount : Int, after : Nat])]
    /\ pc \in [Calls -> Steps]
    /\ org \in [Calls -> Orgs]
    /\ amount \in [Calls -> Int]
    /\ current \in [Calls -> Nat]
    /\ started \in Nat

\* Organisations from before migration 003, or whose row CreateOrganization has
\* not written yet, have none.
Init ==
    /\ rows \in [Orgs -> {Absent, 0}]
    /\ holder = [o \in Orgs |-> NoCall]
    /\ ledger = [o \in Orgs |-> <<>>]
    /\ pc = [c \in Calls |-> "idle"]
    /\ org \in [Calls -> Orgs]
    /\ amount = [c \in Calls |-> 0]
    /\ current = [c \in Calls |-> 0]
    /\ started = 0

Goto(c, step) == pc' = [pc EXCEPT ![c] = step]
-----------------------------------------------------------------------------
\* A call begins with the statement its function begins with.
Begin(c, o, a, step) ==
    /\ pc[c] = "idle"
    /\ started < MaxCalls
    /\ started' = started + 1
    /\ org' = [org EXCEPT ![c] = o]
    /\ amount' = [amount EXCEPT ![c] = a]
    /\ Goto(c, step)
    /\ UNCHANGED <<rows, holder, ledger, current>>

\* An operation that costs 0 returns here without a transaction.
Debit(c, o, a) == Begin(c, o, -a, "lock")

Credit(c, o, a) == Begin(c, o, a, "insert")

\* Faulty variant of TakeLock: SELECT without FOR UPDATE.
ReadOnly(c, next) ==
    /\ rows[org[c]] # Absent
    /\ current' = [current EXCEPT ![c] = rows[org[c]]]
    /\ Goto(c, next)
    /\ UNCHANGED holder

\* SELECT balance ... FOR UPDATE finds the row: waits for its holder, then
\* reads what that one committed.
TakeLock(c, next) ==
    /\ rows[org[c]] # Absent
    /\ holder[org[c]] = NoCall
    /\ holder' = [holder EXCEPT ![org[c]] = c]
    /\ current' = [current EXCEPT ![c] = rows[org[c]]]
    /\ Goto(c, next)

\* Debit's SELECT; another transaction's uncommitted row is no row.
LockRow(c) ==
    /\ pc[c] = "lock"
    /\ \/ TakeLock(c, "check")
       \/ rows[org[c]] = Absent /\ Goto(c, "insert") /\ UNCHANGED <<holder, current>>
    /\ UNCHANGED <<rows, ledger, org, amount, started>>

\* INSERT ... ON CONFLICT DO NOTHING: nothing if the row is committed; else it
\* waits for whoever is inserting it, and inserts.
InsertRow(c) ==
    /\ pc[c] = "insert"
    /\ \/ rows[org[c]] # Absent /\ UNCHANGED holder
       \/ /\ rows[org[c]] = Absent
          /\ holder[org[c]] = NoCall
          /\ holder' = [holder EXCEPT ![org[c]] = c]
    /\ Goto(c, "relock")
    /\ UNCHANGED <<rows, ledger, org, amount, current, started>>

\* The SELECT ... FOR UPDATE after it: its own row, or the committed one.
RelockRow(c) ==
    /\ pc[c] = "relock"
    /\ LET next == IF amount[c] < 0 THEN "check" ELSE "commit" IN
          \/ TakeLock(c, next)
          \/ /\ rows[org[c]] = Absent
             /\ holder[org[c]] = c
             /\ current' = [current EXCEPT ![c] = 0]
             /\ Goto(c, next)
             /\ UNCHANGED holder
    /\ UNCHANGED <<rows, ledger, org, amount, started>>

\* Faulty variant of Rollback: the transaction is left open.
RollbackForgotten(c) ==
    /\ Goto(c, "idle")
    /\ UNCHANGED <<rows, holder, ledger, org, amount, current, started>>

\* A rollback gives up the lock and the row the transaction inserted.
Rollback(c) ==
    /\ Goto(c, "idle")
    /\ holder' = [o \in Orgs |-> IF holder[o] = c THEN NoCall ELSE holder[o]]
    /\ UNCHANGED <<rows, ledger, org, amount, current, started>>

\* currentBalance >= cost
Covered(c) == current[c] + amount[c] >= 0

\* Debit with too little: ErrInsufficientCredits.
CheckBalance(c) ==
    /\ pc[c] = "check"
    /\ \/ /\ Covered(c)
          /\ Goto(c, "commit")
          /\ UNCHANGED <<rows, holder, ledger, org, amount, current, started>>
       \/ ~Covered(c) /\ Rollback(c)

\* Faulty variant of PostEntry: the ledger row carries the old balance.
PostEntryBefore(c) ==
    [amount |-> amount[c], after |-> current[c]]

\* The ledger row: balance_after is newBalance.
PostEntry(c) == [amount |-> amount[c], after |-> current[c] + amount[c]]

\* UPDATE with the balance computed here, INSERT INTO credit_ledger, COMMIT.
Commit(c) ==
    /\ pc[c] = "commit"
    /\ rows' = [rows EXCEPT ![org[c]] = current[c] + amount[c]]
    /\ ledger' = [ledger EXCEPT ![org[c]] = Append(@, PostEntry(c))]
    /\ holder' = [o \in Orgs |-> IF holder[o] = c THEN NoCall ELSE holder[o]]
    /\ Goto(c, "idle")
    /\ UNCHANGED <<org, amount, current, started>>

\* A statement fails, the request is cancelled, or the process dies.
Abort(c) ==
    /\ Errors
    /\ pc[c] # "idle"
    /\ Rollback(c)

CallStep(c) == LockRow(c) \/ InsertRow(c) \/ RelockRow(c) \/ CheckBalance(c) \/ Commit(c)

Next ==
    \/ \E c \in Calls, o \in Orgs :
          \E a \in Amounts : Debit(c, o, a) \/ Credit(c, o, a)
    \/ \E c \in Calls : CallStep(c) \/ Abort(c)

Spec == Init /\ [][Next]_vars

\* Statements are executed, and Postgres serves the waiters of a row in turn.
FairSpec ==
    /\ Spec
    /\ \A c \in Calls : SF_vars(CallStep(c))
-----------------------------------------------------------------------------
Committed(o) == IF rows[o] = Absent THEN 0 ELSE rows[o]

Account == INSTANCE CreditLedger WITH balance <- [o \in Orgs |-> Committed(o)]

\* Whatever transactions interleave, abort and race to insert a missing row, the
\* committed tables change only as CreditLedger says: one whole Debit or Credit
\* at a time, each from the balance the last one left, never below zero
\* ("This prevents overdrafts under load", credits.go:72).
ImplementsLedger == Account!LedgerSpec

\* The committed balance is the last ledger row's, and the rows chain.
LedgerChained == Account!Chained

\* Who is past its lock is alone on the row and has its committed balance in
\* hand until it ends.
Exclusive ==
    \A c \in Calls : pc[c] \in {"check", "commit"} =>
        /\ holder[org[c]] = c
        /\ current[c] = Committed(org[c])

\* No call waits forever, for a row lock or for another's insert.
EveryCallEnds == \A c \in Calls : pc[c] # "idle" ~> pc[c] = "idle"
=============================================================================
