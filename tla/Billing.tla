------------------------------ MODULE Billing ------------------------------
(***************************************************************************)
(* Payments, the free grant and SDK requests on the same organisations: a  *)
(* purchase lifts the wallet cap a concurrent request has already read,    *)
(* and credits of both kinds pay for debits.                               *)
(***************************************************************************)
EXTENDS Payments, FreeGrant, SDKBilling

vars == <<stateVars, paymentVars, grantVars, sdkVars>>

Init == StateInit /\ PaymentsInit /\ GrantInit /\ SDKInit

Next ==
    \/ PaymentsNext /\ UNCHANGED <<grantVars, sdkVars>>
    \/ GrantNext /\ UNCHANGED <<paymentVars, sdkVars>>
    \/ SDKNext /\ UNCHANGED <<paymentVars, grantVars>>

TaskStep(t) ==
    \/ DeliveryStep(t) /\ UNCHANGED <<grantVars, sdkVars>>
    \/ GrantStep(t) /\ UNCHANGED <<paymentVars, sdkVars>>
    \/ SDKStep(t) /\ UNCHANGED <<paymentVars, grantVars>>

Delivery(p) ==
    /\ \E t \in Tasks : StripeWebhook(t, p, "succeeded")
    /\ UNCHANGED <<grantVars, sdkVars>>

Spec == Init /\ [][Next]_vars

\* Goroutines run on, and Stripe delivers an event until it is acknowledged.
FairSpec ==
    /\ Spec
    /\ \A t \in Tasks : WF_vars(TaskStep(t))
    /\ \A p \in Payments : WF_vars(Delivery(p))

TypeOK ==
    /\ balance \in [Orgs -> Nat]
    /\ purchased \subseteq Orgs
    /\ faults \in 0..MaxFaults
    /\ \A t \in Tasks :
          /\ task[t].org \in Orgs \cup {NoOrg} /\ task[t].pay \in Payments \cup {NoPayment}
          /\ task[t].todo \subseteq Orgs /\ task[t].pro \in BOOLEAN
          /\ At(t, {"idle"}) => task[t] = Idle
    /\ PaymentsTypeOK /\ GrantTypeOK /\ SDKTypeOK
=============================================================================
