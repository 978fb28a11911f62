------------------------------ MODULE Payments ------------------------------
(***************************************************************************)
(* Credit purchases: payment_handler.go and storage/payments.go.  Stripe   *)
(* keeps the PaymentIntents and delivers their events until a delivery is  *)
(* answered 2xx, in any order, and may deliver one again or while an       *)
(* earlier delivery is still being handled.  The handlers are modelled     *)
(* behind their middleware: the route of CreatePaymentIntent (main.go:412) *)
(* has no {org_id}, so that OrgAuthz as wired today answers it with 400.   *)
(***************************************************************************)
EXTENDS BillingState

CONSTANT Amounts  \* cents that are asked for

ASSUME AmountsAssumption == Amounts \subseteq Int

VARIABLES
    intent,      \* Stripe: per PaymentIntent its status and metadata
    events,      \* Stripe: per PaymentIntent the events not acknowledged
    row,         \* stripe_payments: status and credited, or NoRow
    credited,    \* per PaymentIntent: ledger rows with reason 'purchase'
    unmarked,    \* history: credited, but MarkPaymentCredited did not follow
    overlapped   \* history: two deliveries were handled at once

paymentVars == <<intent, events, row, credited, unmarked, overlapped>>

EventTypes == {"succeeded", "failed", "canceled"}
Handling == {"check", "credit", "mark", "purchase"}
NoIntent == [status |-> "none", org |-> NoOrg, total |-> 0]
NoRow == [status |-> "none", credited |-> FALSE]

PaymentsInit ==
    /\ intent = [p \in Payments |-> NoIntent]
    /\ events = [p \in Payments |-> {}]
    /\ row = [p \in Payments |-> NoRow]
    /\ credited = [p \in Payments |-> 0]
    /\ unmarked = {}
    /\ overlapped = {}
-----------------------------------------------------------------------------
\* The packages: base and bonus credits.
creditPackages == [cents \in {1000, 5000, 10000, 50000} |->
    CASE cents = 1000 -> <<10000, 5000>>
      [] cents = 5000 -> <<50000, 25000>>
      [] cents = 10000 -> <<100000, 50000>>
      [] cents = 50000 -> <<500000, 250000>>]

\* Other amounts: $1 = 1000 credits, half as bonus.
creditsForAmount(cents) ==
    LET base == (cents \div 100) * 1000 IN
    IF cents \in DOMAIN creditPackages THEN creditPackages[cents] ELSE <<base, base \div 2>>

\* INSERT ... ON CONFLICT DO NOTHING, status 'pending'.
CreateStripePayment(p) ==
    row' = IF row[p] = NoRow
           THEN [row EXCEPT ![p] = [status |-> "pending", credited |-> FALSE]]
           ELSE row

\* The row may be missing: its INSERT fails without failing the request.
CreatePaymentIntent(p, o, cents) ==
    LET c == creditsForAmount(cents) IN
    /\ intent[p] = NoIntent
    /\ cents >= 1000
    /\ intent' = [intent EXCEPT ![p] =
                    [status |-> "open", org |-> o, total |-> c[1] + c[2]]]
    /\ \/ Works /\ CreateStripePayment(p)
       \/ Fails /\ UNCHANGED row
    /\ UNCHANGED <<balance, purchased, task, events, credited, unmarked, overlapped>>

\* A PaymentIntent of the same Stripe account that this program did not create.
ForeignIntent(p) ==
    /\ intent[p] = NoIntent
    /\ intent' = [intent EXCEPT ![p].status = "open"]
    /\ UNCHANGED <<stateVars, events, row, credited, unmarked, overlapped>>

\* The customer pays, gives up, or has the card declined and may try again.
Settle(p, e) ==
    /\ intent[p].status = "open"
    /\ \/ e # "failed" /\ Works /\ intent' = [intent EXCEPT ![p].status = e]
       \/ e = "failed" /\ Fails /\ UNCHANGED intent
    /\ events' = [events EXCEPT ![p] = @ \cup {e}]
    /\ UNCHANGED <<balance, purchased, task, row, credited, unmarked, overlapped>>

\* Stripe repeats an event it has had an answer for.
Repeat(p) ==
    /\ intent[p].status = "succeeded"
    /\ Fails
    /\ events' = [events EXCEPT ![p] = @ \cup {"succeeded"}]
    /\ UNCHANGED <<balance, purchased, task, intent, row, credited, unmarked, overlapped>>
-----------------------------------------------------------------------------
InHand(p) == {t \in Tasks : At(t, Handling) /\ task[t].pay = p}

\* StripeWebhook: a verified event goes to its handler.  A delivery that
\* overlaps another one is Stripe's retry after a timeout.
StripeWebhook(t, p, e) ==
    /\ At(t, {"idle"})
    /\ e \in events[p]
    /\ task' = [task EXCEPT ![t] = [Idle EXCEPT
                  !.step = IF e = "succeeded" THEN "check" ELSE e,
                  !.pay = p, !.org = intent[p].org]]
    /\ \/ ~(e = "succeeded" /\ InHand(p) # {}) /\ Works /\ UNCHANGED overlapped
       \/ e = "succeeded" /\ InHand(p) # {} /\ Fails /\ overlapped' = overlapped \cup {p}
    /\ UNCHANGED <<balance, purchased, intent, events, row, credited, unmarked>>

\* 204: Stripe stops delivering.
Acknowledge(t, e) ==
    /\ events' = [events EXCEPT ![task[t].pay] = @ \ {e}]
    /\ Finish(t)

\* Faulty variant of UpdateStripePaymentStatus: without AND credited = false.
UpdateStripePaymentStatusAlways(p, status) ==
    row' = IF row[p] # NoRow THEN [row EXCEPT ![p].status = status] ELSE row

UpdateStripePaymentStatus(p, status) ==
    row' = IF row[p] # NoRow /\ ~row[p].credited
           THEN [row EXCEPT ![p].status = status]
           ELSE row

\* handlePaymentFailed, handlePaymentCanceled: acknowledged in any case.
RecordStatus(t) ==
    /\ At(t, {"failed", "canceled"})
    /\ \/ Works /\ UpdateStripePaymentStatus(task[t].pay, task[t].step)
       \/ Fails /\ UNCHANGED row
    /\ Acknowledge(t, task[t].step)
    /\ UNCHANGED <<balance, purchased, intent, credited, unmarked, overlapped>>

\* Faulty variant of IsPaymentCredited: asks whether the payment is settled.
IsPaymentCreditedWhenSettled(p) == row[p].status # "pending"

\* No row counts as not credited.
IsPaymentCredited(p) == row[p].credited

\* handlePaymentSucceeded up to the credit: not ours, already done, nothing to
\* give; an error is answered 500 and Stripe retries.
CheckPayment(t) ==
    LET p == task[t].pay
        done == IsPaymentCredited(p) \/ intent[p].total <= 0
    IN
    /\ At(t, {"check"})
    /\ \/ task[t].org = NoOrg /\ Works /\ Acknowledge(t, "succeeded")
       \/ task[t].org # NoOrg /\ done /\ Works /\ Acknowledge(t, "succeeded")
       \/ task[t].org # NoOrg /\ ~done /\ Works /\ Goto(t, "credit") /\ UNCHANGED events
       \/ task[t].org # NoOrg /\ Fails /\ Finish(t) /\ UNCHANGED events
    /\ UNCHANGED <<balance, purchased, intent, row, credited, unmarked, overlapped>>

\* Credit with ref_id = the PaymentIntent.  It fails, or it is committed and the
\* answer is lost; either is answered 500.
CreditPayment(t) ==
    LET p == task[t].pay IN
    /\ At(t, {"credit"})
    /\ \/ /\ Post(task[t].org, intent[p].total)
          /\ credited' = [credited EXCEPT ![p] = @ + 1]
          /\ \/ Works /\ Goto(t, "mark") /\ UNCHANGED unmarked
             \/ Fails /\ Finish(t) /\ unmarked' = unmarked \cup {p}
       \/ Fails /\ Finish(t) /\ UNCHANGED <<balance, credited, unmarked>>
    /\ UNCHANGED <<purchased, intent, events, row, overlapped>>

\* Faulty variant of MarkPaymentCredited: the delivery ends without the UPDATE.
MarkPaymentCreditedSkipped(t) ==
    /\ At(t, {"mark"})
    /\ Works
    /\ Goto(t, "purchase")
    /\ UNCHANGED <<balance, purchased, paymentVars>>

\* UPDATE; with no row to update, the INSERT that follows has org_id '' and
\* violates its foreign key.  An error is only logged.
MarkPaymentCredited(t) ==
    LET p == task[t].pay IN
    /\ At(t, {"mark"})
    /\ \/ /\ row[p] # NoRow /\ Works
          /\ row' = [row EXCEPT ![p] = [status |-> "succeeded", credited |-> TRUE]]
          /\ UNCHANGED unmarked
       \/ /\ (row[p] = NoRow /\ Works) \/ Fails
          /\ unmarked' = unmarked \cup {p}
          /\ UNCHANGED row
    /\ Goto(t, "purchase")
    /\ UNCHANGED <<balance, purchased, intent, events, credited, overlapped>>

\* has_ever_purchased and the projects' rate limit, in one transaction; an error
\* is only logged.
MarkOrgPurchased(t) ==
    /\ At(t, {"purchase"})
    /\ \/ Works /\ purchased' = purchased \cup {task[t].org}
       \/ Fails /\ UNCHANGED purchased
    /\ Acknowledge(t, "succeeded")
    /\ UNCHANGED <<balance, intent, row, credited, unmarked, overlapped>>

\* The process dies, or the request's context ends: no answer to Stripe.
DeliveryDies(t) ==
    /\ At(t, Handling \cup {"failed", "canceled"})
    /\ Fails
    /\ Finish(t)
    /\ unmarked' = IF At(t, {"mark"}) THEN unmarked \cup {task[t].pay} ELSE unmarked
    /\ UNCHANGED <<balance, purchased, intent, events, row, credited, overlapped>>

DeliveryStep(t) ==
    RecordStatus(t) \/ CheckPayment(t) \/ CreditPayment(t)
        \/ MarkPaymentCredited(t) \/ MarkOrgPurchased(t)

PaymentsNext ==
    \/ \E p \in Payments :
          \/ \E o \in Orgs, cents \in Amounts : CreatePaymentIntent(p, o, cents)
          \/ ForeignIntent(p) \/ Repeat(p)
          \/ \E e \in EventTypes : Settle(p, e) \/ \E t \in Tasks : StripeWebhook(t, p, e)
    \/ \E t \in Tasks : DeliveryStep(t) \/ DeliveryDies(t)

PaymentsTypeOK ==
    /\ \A p \in Payments :
          /\ intent[p].status \in {"none", "open", "succeeded", "canceled"}
          /\ intent[p].org \in Orgs \cup {NoOrg}
          /\ intent[p].total \in Nat
    /\ events \in [Payments -> SUBSET EventTypes]
    /\ row \in [Payments -> [status : EventTypes \cup {"none", "pending"}, credited : BOOLEAN]]
    /\ credited \in [Payments -> Nat]
    /\ unmarked \subseteq Payments /\ overlapped \subseteq Payments
-----------------------------------------------------------------------------
\* A purchase is credited more than once only if the mark did not follow a
\* credit or Stripe's retry overtook a delivery still in hand: the two holes in
\* "Retries are idempotent" (payment_handler.go:264), and the only ones.
DoubleCreditExplained ==
    \A p \in Payments : credited[p] > 1 => p \in unmarked \cup overlapped

\* However events are ordered and repeated, a row says succeeded exactly when it
\* says credited ("never update a successfully credited payment's status",
\* payments.go:117), and then the money and the ledger entry are there.
StatusSettled ==
    \A p \in Payments :
        /\ row[p].credited <=> row[p].status = "succeeded"
        /\ row[p].credited => credited[p] > 0 /\ intent[p].status = "succeeded"

\* Money taken is credited in the end, whatever fails on the way: nothing that
\* goes wrong before the credit is answered 2xx.
PaidIsCredited ==
    \A p \in Payments :
        intent[p].status = "succeeded" /\ intent[p].org # NoOrg ~> credited[p] > 0
=============================================================================
