----------------------------- MODULE SDKBilling -----------------------------
(***************************************************************************)
(* Billing of SDK requests: sdk_handler.go with ResolveWalletLimits of     *)
(* credits.go.  An operation is debited, then forwarded to the handler     *)
(* that creates a wallet or a job; there is no refund.  The handlers are   *)
(* modelled behind SDKAuth, whose own behaviour is in module APIKeys.      *)
(***************************************************************************)
EXTENDS BillingState

CONSTANTS
    Cost,         \* operation_costs of the operations that are not free
    FreeCap,      \* wallets of an organisation that never paid (50)
    HardCap,      \* create_wallet_hard_cap, or the organisation's max_wallets
    HourlyBase,   \* create_wallet_hourly_base
    HourlyPer1k,  \* create_wallet_hourly_per_1k
    MaxRequests   \* bound: requests in all

ASSUME LimitsAssumption ==
    /\ Cost \in Nat \ {0} /\ MaxRequests \in Nat
    /\ {FreeCap, HardCap, HourlyBase, HourlyPer1k} \subseteq Nat

VARIABLES
    wallets,   \* per organisation: wallets of its project, internal ones aside
    jobs,      \* per organisation: signing jobs
    debited,   \* per organisation: ledger rows with reason 'operation'
    requests   \* requests so far

sdkVars == <<wallets, jobs, debited, requests>>

SDKInit ==
    /\ wallets = [o \in Orgs |-> 0]
    /\ jobs = [o \in Orgs |-> 0]
    /\ debited = [o \in Orgs |-> 0]
    /\ requests = 0

\* The metadata debit writes on the ledger row.
DebitMetadata == {"project_id", "wallet_id", "path"}

\* Rows of the last hour whose metadata names the operation create_wallet.
HourlyUsed(o) == IF "operation" \in DebitMetadata THEN debited[o] ELSE 0

HourlyLimit(o) == HourlyBase + (wallets[o] \div 1000) * HourlyPer1k

Request(t, o, step, pro) ==
    /\ At(t, {"idle"})
    /\ requests < MaxRequests
    /\ requests' = requests + 1
    /\ task' = [task EXCEPT ![t] = [Idle EXCEPT !.step = step, !.org = o, !.pro = pro]]
    /\ UNCHANGED <<balance, purchased, faults, wallets, jobs, debited>>

\* CreateWallet, first read: GetOrganizationByID.
CreateWallet(t, o) == Request(t, o, "limits", o \in purchased)

\* The Sign handlers, TriggerSweep and StablecoinTransfer begin with the debit.
SubmitJob(t, o) == Request(t, o, "debitJob", FALSE)

\* Faulty variant of Refused: the flag read first is not used for the free cap.
RefusedByHardCapOnly(t) == wallets[task[t].org] >= HardCap

\* The caps, with the flag read before the counts.
Refused(t) ==
    LET o == task[t].org IN
    \/ ~task[t].pro /\ wallets[o] >= FreeCap
    \/ task[t].pro /\ wallets[o] >= HardCap
    \/ HourlyUsed(o) >= HourlyLimit(o)

\* ResolveWalletLimits, one query, and the three checks.
ResolveWalletLimits(t) ==
    /\ At(t, {"limits"})
    /\ \/ ~Refused(t) /\ Works /\ Goto(t, "debitWallet")
       \/ Refused(t) /\ Works /\ Finish(t)
       \/ Fails /\ Finish(t)
    /\ UNCHANGED <<balance, purchased, sdkVars>>

Forwarding(t) == IF At(t, {"debitWallet"}) THEN "wallet" ELSE "job"

\* Faulty variant of Debit: an insufficient balance does not stop the request.
DebitUnlessPoor(t) ==
    LET o == task[t].org IN
    /\ At(t, {"debitWallet", "debitJob"})
    /\ \/ Post(o, -Cost) /\ debited' = [debited EXCEPT ![o] = @ + 1] /\ Works
       \/ balance[o] < Cost /\ Works /\ UNCHANGED <<balance, debited>>
    /\ Goto(t, Forwarding(t))
    /\ UNCHANGED <<purchased, wallets, jobs, requests>>

\* debit: 402 without cover, 500 on an error or when the commit's answer is lost.
Debit(t) ==
    LET o == task[t].org IN
    /\ At(t, {"debitWallet", "debitJob"})
    /\ \/ /\ Post(o, -Cost)
          /\ debited' = [debited EXCEPT ![o] = @ + 1]
          /\ (Works /\ Goto(t, Forwarding(t))) \/ (Fails /\ Finish(t))
       \/ /\ (balance[o] < Cost /\ Works) \/ Fails
          /\ Finish(t)
          /\ UNCHANGED <<balance, debited>>
    /\ UNCHANGED <<purchased, wallets, jobs, requests>>

\* The forwarded handler creates the wallet or the job, or does not (a bad body,
\* an unknown wallet, a repeated idempotency key, an error).
Forward(t) ==
    LET o == task[t].org IN
    /\ At(t, {"wallet", "job"})
    /\ \/ At(t, {"wallet"}) /\ wallets' = [wallets EXCEPT ![o] = @ + 1] /\ UNCHANGED jobs
       \/ At(t, {"job"}) /\ jobs' = [jobs EXCEPT ![o] = @ + 1] /\ UNCHANGED wallets
       \/ UNCHANGED <<wallets, jobs>>
    /\ Finish(t)
    /\ UNCHANGED <<balance, purchased, faults, debited, requests>>

SDKStep(t) == ResolveWalletLimits(t) \/ Debit(t) \/ Forward(t)

SDKNext ==
    \E t \in Tasks : SDKStep(t) \/ \E o \in Orgs : CreateWallet(t, o) \/ SubmitJob(t, o)

SDKTypeOK ==
    /\ wallets \in [Orgs -> Nat] /\ jobs \in [Orgs -> Nat] /\ debited \in [Orgs -> Nat]
    /\ requests \in 0..MaxRequests
-----------------------------------------------------------------------------
InFlight(o, steps) == Cardinality({t \in Tasks : At(t, steps) /\ task[t].org = o})

\* The cap is compared with a count read before the wallet exists, so concurrent
\* requests pass it together; but never by more than they are, and the free cap
\* stands until the organisation has paid (sdk_handler.go:143).
CapOvershoot ==
    \A o \in Orgs :
        LET most == wallets[o] + InFlight(o, {"debitWallet", "wallet"})
            over == Cardinality(Tasks) - 1
        IN  /\ o \notin purchased => most <= FreeCap + over
            /\ most <= (IF FreeCap > HardCap THEN FreeCap ELSE HardCap) + over

\* Whatever is created has been paid for, requests that are still being
\* forwarded included; the converse fails (no refund).
NothingUncharged ==
    \A o \in Orgs : wallets[o] + jobs[o] + InFlight(o, {"wallet", "job"}) <= debited[o]
=============================================================================
