---------------------------- MODULE CreditLedger ----------------------------
(***************************************************************************)
(* What internal/credits/credits.go promises: an organisation's balance    *)
(* changes only together with a ledger entry that records the amount and   *)
(* the balance after it, and a debit the balance does not cover does not   *)
(* happen.  Credits.tla models the transactions and implements this module.*)
(***************************************************************************)
EXTENDS Integers, Sequences

CONSTANTS
    Orgs,
    Amounts  \* what a call may debit or credit

VARIABLES
    balance,  \* per organisation: org_credit_balance.balance
    ledger    \* per organisation: its credit_ledger rows, in commit order

ledgerVars == <<balance, ledger>>

LedgerInit ==
    /\ balance = [o \in Orgs |-> 0]
    /\ ledger = [o \in Orgs |-> <<>>]

\* Debit (a < 0) or Credit (a > 0), as a whole; the balance "never goes below 0"
\* (003_cloud_credits.sql:108).
Post(o, a) ==
    /\ balance[o] + a >= 0
    /\ balance' = [balance EXCEPT ![o] = @ + a]
    /\ ledger' = [ledger EXCEPT ![o] = Append(@, [amount |-> a, after |-> balance[o] + a])]

LedgerNext == \E o \in Orgs, a \in Amounts : Post(o, a) \/ Post(o, -a)

LedgerSpec == LedgerInit /\ [][LedgerNext]_ledgerVars
-----------------------------------------------------------------------------
\* balance_after is the "snapshot of org_credit_balance.balance after this row"
\* (003_cloud_credits.sql:131): every entry starts from the one before it, and
\* the balance is the last one's.
Chained ==
    \A o \in Orgs :
        /\ \A k \in 1..Len(ledger[o]) :
              ledger[o][k].after =
                  ledger[o][k].amount + (IF k = 1 THEN 0 ELSE ledger[o][k - 1].after)
        /\ balance[o] = IF ledger[o] = <<>> THEN 0 ELSE ledger[o][Len(ledger[o])].after
=============================================================================
