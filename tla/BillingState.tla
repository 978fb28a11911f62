---------------------------- MODULE BillingState ----------------------------
(***************************************************************************)
(* What the billing components share: the balances that                    *)
(* internal/credits/credits.go keeps, the flag that an organisation has    *)
(* paid, and the goroutines that work on them (webhook deliveries, grant   *)
(* runs, SDK requests).  A Debit or Credit is one step: Credits.tla shows  *)
(* that its transactions behave so.                                        *)
(***************************************************************************)
EXTENDS Integers, FiniteSets

CONSTANTS
    Orgs,       \* organisations that are not deleted
    NoOrg,      \* "no organisation"
    Payments,   \* Stripe PaymentIntents
    NoPayment,  \* "no PaymentIntent"
    Tasks,      \* goroutines that run at the same time
    MaxFaults   \* bound: failed calls, deaths, repeated deliveries, declined cards

ASSUME NamesAssumption == NoOrg \notin Orgs /\ NoPayment \notin Payments
ASSUME FaultsAssumption == MaxFaults \in Nat
ASSUME TasksAssumption == IsFiniteSet(Tasks) /\ Tasks # {}

VARIABLES
    balance,    \* org_credit_balance
    purchased,  \* organisations with has_ever_purchased
    task,       \* per goroutine: its next step and what it holds
    faults      \* faults so far

stateVars == <<balance, purchased, task, faults>>

Idle == [step |-> "idle", org |-> NoOrg, pay |-> NoPayment, todo |-> {}, pro |-> FALSE]

At(t, steps) == task[t].step \in steps

Goto(t, step) == task' = [task EXCEPT ![t].step = step]

Finish(t) == task' = [task EXCEPT ![t] = Idle]

\* A call answers, or it fails (its database or network does).
Works == UNCHANGED faults

Fails == faults < MaxFaults /\ faults' = faults + 1

\* Faulty variant of Post: the balance is not compared with the cost.
PostUnchecked(o, a) == balance' = [balance EXCEPT ![o] = @ + a]

\* Debit (a < 0) or Credit (a > 0) of credits.go, committed.
Post(o, a) ==
    /\ balance[o] + a >= 0
    /\ balance' = [balance EXCEPT ![o] = @ + a]

StateInit ==
    /\ balance = [o \in Orgs |-> 0]
    /\ purchased = {}
    /\ task = [t \in Tasks |-> Idle]
    /\ faults = 0
=============================================================================
