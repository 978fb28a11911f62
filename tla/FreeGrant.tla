----------------------------- MODULE FreeGrant -----------------------------
(***************************************************************************)
(* The monthly free credits: internal/cron/cron.go, for one period.  Every *)
(* instance runs the grant when it starts and at the turn of the month.    *)
(***************************************************************************)
EXTENDS BillingState

CONSTANT MonthlyCredits  \* grantAmount

ASSUME GrantAssumption == MonthlyCredits \in Nat \ {0}

VARIABLES
    marked,   \* organisations with a free_tier_grants row for the period
    granted   \* per organisation: ledger rows with reason 'free_grant'

grantVars == <<marked, granted>>

GrantInit == marked = {} /\ granted = [o \in Orgs |-> 0]

\* INSERT INTO free_tier_grants ... ON CONFLICT DO NOTHING.
MarkFreeGrantGiven(o) == marked' = marked \cup {o}

\* Those without a row for the period.
ListOrgsForFreeGrant == Orgs \ marked

HasReceivedFreeGrantThisMonth(o) == o \in marked

\* A run that finds nothing to do, or cannot read the list, ends at once.
RunFreeTierGrantNow(t) ==
    /\ At(t, {"idle"})
    /\ ListOrgsForFreeGrant # {}
    /\ task' = [task EXCEPT ![t] = [Idle EXCEPT !.step = "grant", !.todo = ListOrgsForFreeGrant]]
    /\ UNCHANGED <<balance, purchased, faults, grantVars>>

\* grantToOrg: the check; an organisation that fails is passed over.
CheckGrant(t, o) ==
    /\ At(t, {"grant"})
    /\ o \in task[t].todo
    /\ LET rest == [task[t] EXCEPT !.todo = @ \ {o}]
           passOver == task' = [task EXCEPT ![t] = rest]
       IN  \/ HasReceivedFreeGrantThisMonth(o) /\ Works /\ passOver
           \/ /\ ~HasReceivedFreeGrantThisMonth(o) /\ Works
              /\ task' = [task EXCEPT ![t] = [rest EXCEPT !.step = "markGrant", !.org = o]]
           \/ Fails /\ passOver
    /\ UNCHANGED <<balance, purchased, grantVars>>

\* Faulty variant of MarkGrant: the credit comes first and the mark is forgotten.
MarkGrantForgotten(t) ==
    /\ At(t, {"markGrant"})
    /\ Works /\ Goto(t, "creditGrant")
    /\ UNCHANGED <<balance, purchased, grantVars>>

\* A conflict with another run's row is not an error.
MarkGrant(t) ==
    /\ At(t, {"markGrant"})
    /\ \/ Works /\ MarkFreeGrantGiven(task[t].org) /\ Goto(t, "creditGrant")
       \/ Fails /\ UNCHANGED marked /\ Goto(t, "grant")
    /\ UNCHANGED <<balance, purchased, granted>>

\* Credit; if it fails the organisation is passed over, marked.
CreditGrant(t) ==
    /\ At(t, {"creditGrant"})
    /\ \/ /\ Works
          /\ Post(task[t].org, MonthlyCredits)
          /\ granted' = [granted EXCEPT ![task[t].org] = @ + 1]
       \/ Fails /\ UNCHANGED <<balance, granted>>
    /\ Goto(t, "grant")
    /\ UNCHANGED <<purchased, marked>>

GrantDone(t) ==
    /\ At(t, {"grant"})
    /\ task[t].todo = {}
    /\ Finish(t)
    /\ UNCHANGED <<balance, purchased, faults, grantVars>>

\* ctx.Done(): shutdown, or the two minutes of the start-up run are over.
GrantInterrupted(t) ==
    /\ At(t, {"grant", "markGrant", "creditGrant"})
    /\ Fails
    /\ Finish(t)
    /\ UNCHANGED <<balance, purchased, grantVars>>

GrantStep(t) == (\E o \in Orgs : CheckGrant(t, o)) \/ MarkGrant(t) \/ CreditGrant(t) \/ GrantDone(t)

GrantNext == \E t \in Tasks : RunFreeTierGrantNow(t) \/ GrantStep(t) \/ GrantInterrupted(t)

GrantTypeOK == marked \subseteq Orgs /\ granted \in [Orgs -> Nat]
-----------------------------------------------------------------------------
AboutToGrant(o) == {t \in Tasks : At(t, {"creditGrant"}) /\ task[t].org = o}

\* The grant as exact as its order of steps allows.  Nothing is granted before
\* it is marked; runs that overlap grant once each and no later run adds to
\* that ("re-runs on the same day are safe", cron.go:44); and a marked
\* organisation goes without only if a run broke off between the two.
GrantExact ==
    \A o \in Orgs :
        LET due == granted[o] + Cardinality(AboutToGrant(o)) IN
        /\ o \notin marked => due = 0
        /\ due <= Cardinality(Tasks)
        /\ o \in marked /\ faults = 0 => due >= 1
=============================================================================
