--------------------------- MODULE BillingProofs ---------------------------
(***************************************************************************)
(* Theorems about Billing: payments, the free grant and SDK requests, for  *)
(* every set of organisations and payments, any finite number of           *)
(* goroutines and all prices, caps and bounds.                             *)
(***************************************************************************)
EXTENDS Billing, FiniteSetTheorems, TLAPS

PaySteps == Handling \cup {"failed", "canceled"}
GrantSteps == {"grant", "markGrant", "creditGrant"}
SDKSteps == {"limits", "debitWallet", "debitJob", "wallet", "job"}
Steps == {"idle"} \cup PaySteps \cup GrantSteps \cup SDKSteps
OrgSteps == {"credit", "mark", "purchase", "markGrant", "creditGrant"} \cup SDKSteps

TaskRecords == [step : Steps, org : Orgs \cup {NoOrg}, pay : Payments \cup {NoPayment},
                todo : SUBSET Orgs, pro : BOOLEAN]

IntentRecords == [status : {"none", "open", "succeeded", "canceled"},
                  org : Orgs \cup {NoOrg}, total : Nat]

\* What a goroutine holds by each of its steps.
WellHeld(k) ==
    /\ k.step \in PaySteps => k.pay \in Payments
    /\ k.step \in OrgSteps => k.org \in Orgs
    /\ k.step = "idle" => k = Idle

TasksTyped ==
    /\ task \in [Tasks -> TaskRecords]
    /\ \A t \in Tasks : WellHeld(task[t])

StateTyped == balance \in [Orgs -> Nat] /\ purchased \subseteq Orgs /\ faults \in 0..MaxFaults

PaymentsTyped ==
    /\ intent \in [Payments -> IntentRecords]
    /\ events \in [Payments -> SUBSET EventTypes]
    /\ row \in [Payments -> [status : EventTypes \cup {"none", "pending"}, credited : BOOLEAN]]
    /\ credited \in [Payments -> Nat]
    /\ unmarked \subseteq Payments /\ overlapped \subseteq Payments

Typed == TasksTyped /\ StateTyped /\ PaymentsTyped /\ GrantTypeOK /\ SDKTypeOK

\* One goroutine moves, or none does.
Moves(t) == \A s \in Tasks \ {t} : task'[s] = task[s]

LEMMA IdleTyped == Idle \in TaskRecords /\ WellHeld(Idle)
  BY DEF Idle, TaskRecords, WellHeld, Steps, PaySteps, OrgSteps, SDKSteps, GrantSteps, Handling

LEMMA InitTyped == Init => Typed
<1> SUFFICES ASSUME Init PROVE Typed
  OBVIOUS
<1>1. TasksTyped
  BY IdleTyped DEF Init, StateInit, TasksTyped
<1>2. PaymentsTyped
  BY DEF Init, PaymentsInit, NoIntent, NoRow, IntentRecords, PaymentsTyped, EventTypes
<1>3. GrantTypeOK /\ SDKTypeOK
  BY LimitsAssumption DEF Init, GrantInit, SDKInit, GrantTypeOK, SDKTypeOK
<1>4. StateTyped
  BY FaultsAssumption DEF Init, StateInit, StateTyped
<1> QED BY <1>1, <1>2, <1>3, <1>4 DEF Typed

LEMMA TypedTypeOK == Typed => TypeOK
<1> SUFFICES ASSUME Typed PROVE TypeOK
  OBVIOUS
<1>1. \A t \in Tasks : /\ task[t].org \in Orgs \cup {NoOrg} /\ task[t].pay \in Payments \cup {NoPayment}
                       /\ task[t].todo \subseteq Orgs /\ task[t].pro \in BOOLEAN
                       /\ At(t, {"idle"}) => task[t] = Idle
  BY DEF Typed, TasksTyped, TaskRecords, WellHeld, At
<1>2. PaymentsTypeOK
  BY DEF Typed, PaymentsTyped, PaymentsTypeOK, IntentRecords
<1> QED BY <1>1, <1>2 DEF Typed, StateTyped, TypeOK

LEMMA MoveTyped ==
  ASSUME TasksTyped, NEW t \in Tasks, NEW k \in TaskRecords, WellHeld(k),
         task' = [task EXCEPT ![t] = k]
  PROVE  TasksTyped' /\ Moves(t) /\ task'[t] = k
  BY DEF TasksTyped, Moves

LEMMA FinishTyped ==
  ASSUME TasksTyped, NEW t \in Tasks, Finish(t)
  PROVE  TasksTyped' /\ Moves(t) /\ task'[t] = Idle
  BY MoveTyped, IdleTyped DEF Finish

\* A goroutine goes on to a step that needs no more than it holds.
LEMMA GotoTyped ==
  ASSUME TasksTyped, NEW t \in Tasks, NEW s \in Steps \ {"idle"}, Goto(t, s),
         s \in PaySteps => task[t].pay \in Payments,
         s \in OrgSteps => task[t].org \in Orgs
  PROVE  /\ TasksTyped' /\ Moves(t) /\ task'[t].step = s
         /\ task'[t].org = task[t].org /\ task'[t].pay = task[t].pay
         /\ task'[t].pro <=> task[t].pro
<1> DEFINE k == [task[t] EXCEPT !.step = s]
<1>0. task[t] \in TaskRecords
  BY DEF TasksTyped
<1>1. task' = [task EXCEPT ![t] = k]
  BY DEF Goto
<1>2. k \in TaskRecords
  BY <1>0 DEF TaskRecords
<1>3. k.step = s /\ k.org = task[t].org /\ k.pay = task[t].pay
  BY <1>0 DEF TaskRecords
<1>4. k.pro = task[t].pro
  BY <1>0 DEF TaskRecords
<1>5. WellHeld(k)
  BY <1>3 DEF WellHeld
<1> HIDE DEF k
<1>6. TasksTyped' /\ Moves(t) /\ task'[t] = k
  BY <1>1, <1>2, <1>5, MoveTyped
<1> QED BY <1>3, <1>4, <1>6
-----------------------------------------------------------------------------
\* How each goroutine moves.  Its lane is the component it works for.
Lane(t, L) == Moves(t) /\ task[t].step \in L \cup {"idle"} /\ task'[t].step \in L \cup {"idle"}

LEMMA FailsTyped ==
  ASSUME faults \in 0..MaxFaults, Works \/ Fails
  PROVE  faults' \in 0..MaxFaults /\ faults' >= faults
  BY FaultsAssumption DEF Works, Fails

LEMMA IdleFields ==
  /\ Idle.step = "idle" /\ Idle.org = NoOrg /\ Idle.pay = NoPayment /\ ~Idle.pro
  BY DEF Idle

\* A delivery is taken up, with the organisation of its PaymentIntent.
LEMMA WebhookMoves ==
  ASSUME Typed, NEW t \in Tasks, NEW p \in Payments, NEW e \in EventTypes, StripeWebhook(t, p, e)
  PROVE  /\ TasksTyped' /\ Lane(t, PaySteps) /\ task[t].step = "idle"
         /\ task'[t].step = (IF e = "succeeded" THEN "check" ELSE e)
         /\ task'[t].pay = p
<1> DEFINE k == [Idle EXCEPT !.step = IF e = "succeeded" THEN "check" ELSE e, !.pay = p, !.org = intent[p].org]
<1>0. intent[p].org \in Orgs \cup {NoOrg}
  BY DEF Typed, PaymentsTyped, IntentRecords
<1>1. k \in TaskRecords
  <2>1. (IF e = "succeeded" THEN "check" ELSE e) \in Steps
    BY DEF Steps, PaySteps, Handling, EventTypes
  <2> QED BY <1>0, <2>1, IdleTyped DEF TaskRecords
<1>2. k.step = (IF e = "succeeded" THEN "check" ELSE e) /\ k.pay = p
  BY DEF Idle
<1>3. WellHeld(k)
  BY <1>2 DEF WellHeld, OrgSteps, SDKSteps, EventTypes
<1>4. task' = [task EXCEPT ![t] = k] /\ task[t].step = "idle"
  BY DEF StripeWebhook, At
<1> HIDE DEF k
<1>5. TasksTyped' /\ Moves(t) /\ task'[t] = k
  BY <1>1, <1>3, <1>4, MoveTyped DEF Typed
<1> QED BY <1>2, <1>4, <1>5 DEF Lane, PaySteps, Handling, EventTypes

\* A delivery ends, or goes on to the next statement with what it holds.
LEMMA DeliveryMoves ==
  ASSUME Typed, NEW t \in Tasks, DeliveryStep(t) \/ DeliveryDies(t)
  PROVE  /\ TasksTyped' /\ Lane(t, PaySteps) /\ task[t].step \in PaySteps
         /\ \/ task'[t] = Idle
            \/ /\ task'[t].pay = task[t].pay /\ task'[t].org = task[t].org
               /\ <<task[t].step, task'[t].step>> \in
                     {<<"check", "credit">>, <<"credit", "mark">>, <<"mark", "purchase">>}
<1>0. TasksTyped /\ task[t].step \in Steps /\ WellHeld(task[t]) /\ task[t].org \in Orgs \cup {NoOrg}
  BY DEF Typed, TasksTyped, TaskRecords
<1>1. task[t].step \in PaySteps
  BY DEF DeliveryStep, DeliveryDies, RecordStatus, CheckPayment, CreditPayment, MarkPaymentCredited,
         MarkOrgPurchased, At, PaySteps, Handling
<1>2. task[t].pay \in Payments
  BY <1>0, <1>1 DEF WellHeld
<1>3. CASE Finish(t)
  BY <1>0, <1>1, <1>3, FinishTyped, IdleFields DEF Lane
<1>4. CASE At(t, {"check"}) /\ task[t].org # NoOrg /\ Goto(t, "credit")
  BY <1>0, <1>1, <1>2, <1>4, GotoTyped DEF Lane, At, PaySteps, Handling, Steps
<1>5. CASE At(t, {"credit"}) /\ Goto(t, "mark")
  <2>1. task[t].org \in Orgs
    BY <1>0, <1>5 DEF WellHeld, OrgSteps, At
  <2> QED BY <1>0, <1>1, <1>2, <1>5, <2>1, GotoTyped DEF Lane, At, PaySteps, Handling, Steps
<1>6. CASE At(t, {"mark"}) /\ Goto(t, "purchase")
  <2>1. task[t].org \in Orgs
    BY <1>0, <1>6 DEF WellHeld, OrgSteps, At
  <2> QED BY <1>0, <1>1, <1>2, <1>6, <2>1, GotoTyped DEF Lane, At, PaySteps, Handling, Steps
<1> QED BY <1>3, <1>4, <1>5, <1>6
     DEF DeliveryStep, DeliveryDies, RecordStatus, CheckPayment, CreditPayment, MarkPaymentCredited,
         MarkOrgPurchased, Acknowledge

\* What a grant run holds of its list changes too.
LEMMA GrantMoves ==
  ASSUME Typed, NEW t \in Tasks, RunFreeTierGrantNow(t) \/ GrantStep(t) \/ GrantInterrupted(t)
  PROVE  /\ TasksTyped' /\ Lane(t, GrantSteps)
         /\ \A o \in Orgs :
               /\ task'[t].step \in {"markGrant", "creditGrant"} /\ task'[t].org = o =>
                     \/ CheckGrant(t, o) /\ o \notin marked /\ task'[t].step = "markGrant"
                     \/ MarkGrant(t) /\ task[t].org = o
               /\ task[t].step \in {"markGrant", "creditGrant"} /\ task[t].org = o =>
                     MarkGrant(t) \/ CreditGrant(t) \/ GrantInterrupted(t)
<1>0. TasksTyped /\ task[t] \in TaskRecords /\ WellHeld(task[t])
  BY DEF Typed, TasksTyped
<1> USE DEF At
<1>1. CASE RunFreeTierGrantNow(t)
  <2> DEFINE k == [Idle EXCEPT !.step = "grant", !.todo = ListOrgsForFreeGrant]
  <2>2. k \in TaskRecords /\ k.step = "grant"
    BY IdleTyped DEF TaskRecords, Steps, GrantSteps, ListOrgsForFreeGrant
  <2>3. WellHeld(k)
    BY <2>2 DEF WellHeld, PaySteps, Handling, OrgSteps, SDKSteps
  <2>4. task' = [task EXCEPT ![t] = k] /\ task[t].step = "idle"
    BY <1>1 DEF RunFreeTierGrantNow
  <2> HIDE DEF k
  <2>5. TasksTyped' /\ Moves(t) /\ task'[t] = k
    BY <1>0, <2>2, <2>3, <2>4, MoveTyped
  <2> QED BY <2>2, <2>4, <2>5 DEF Lane, GrantSteps
<1>2. ASSUME NEW o \in Orgs, CheckGrant(t, o)
      PROVE  /\ TasksTyped' /\ Lane(t, GrantSteps) /\ task[t].step = "grant"
             /\ \/ task'[t].step = "grant"
                \/ task'[t].step = "markGrant" /\ task'[t].org = o /\ o \notin marked
  <2> DEFINE rest == [task[t] EXCEPT !.todo = @ \ {o}]
             k == [rest EXCEPT !.step = "markGrant", !.org = o]
  <2>0. task[t].step = "grant"
    BY <1>2 DEF CheckGrant
  <2>1. rest \in TaskRecords /\ rest.step = "grant"
    BY <1>0, <2>0 DEF TaskRecords
  <2>2. k \in TaskRecords /\ k.step = "markGrant" /\ k.org = o
    <3> HIDE DEF rest
    <3> QED BY <2>1 DEF TaskRecords, Steps, GrantSteps
  <2>3. \/ task' = [task EXCEPT ![t] = rest]
        \/ task' = [task EXCEPT ![t] = k] /\ o \notin marked
    BY <1>2 DEF CheckGrant, HasReceivedFreeGrantThisMonth
  <2> HIDE DEF rest, k
  <2>4. WellHeld(rest) /\ WellHeld(k)
    BY <2>1, <2>2 DEF WellHeld, PaySteps, Handling, OrgSteps, SDKSteps
  <2>5. \/ TasksTyped' /\ Moves(t) /\ task'[t] = rest
        \/ TasksTyped' /\ Moves(t) /\ task'[t] = k /\ o \notin marked
    BY <1>0, <2>1, <2>2, <2>3, <2>4, MoveTyped
  <2> QED BY <2>0, <2>1, <2>2, <2>5 DEF Lane, GrantSteps
<1>3. CASE GrantDone(t) \/ GrantInterrupted(t)
  BY <1>0, <1>3, FinishTyped, IdleFields DEF GrantDone, GrantInterrupted, Lane, GrantSteps
<1>4. CASE MarkGrant(t)
  <2>1. /\ task[t].step = "markGrant" /\ task[t].org \in Orgs
        /\ Goto(t, "creditGrant") \/ Goto(t, "grant")
    BY <1>0, <1>4 DEF MarkGrant, WellHeld, OrgSteps
  <2>2. TasksTyped' /\ Moves(t) /\ task'[t].step \in {"creditGrant", "grant"} /\ task'[t].org = task[t].org
    BY <1>0, <2>1, GotoTyped DEF Steps, PaySteps, Handling, GrantSteps
  <2> QED BY <1>4, <2>1, <2>2 DEF Lane, GrantSteps
<1>5. CASE CreditGrant(t)
  <2>1. task[t].step = "creditGrant" /\ task[t].org \in Orgs /\ Goto(t, "grant")
    BY <1>0, <1>5 DEF CreditGrant, WellHeld, OrgSteps
  <2>2. TasksTyped' /\ Moves(t) /\ task'[t].step = "grant"
    BY <1>0, <2>1, GotoTyped DEF Steps, PaySteps, Handling, GrantSteps, OrgSteps, SDKSteps
  <2> QED BY <1>5, <2>1, <2>2 DEF Lane, GrantSteps
<1> QED BY <1>1, <1>2, <1>3, <1>4, <1>5 DEF GrantStep

LEMMA RequestMoves ==
  ASSUME Typed, NEW t \in Tasks, NEW o \in Orgs, CreateWallet(t, o) \/ SubmitJob(t, o)
  PROVE  /\ TasksTyped' /\ Lane(t, SDKSteps) /\ task[t].step = "idle" /\ task'[t].org = o
         /\ UNCHANGED <<balance, purchased, faults, wallets, jobs, debited>> /\ requests' = requests + 1
         /\ requests < MaxRequests
         /\ \/ task'[t].step = "limits" /\ (task'[t].pro => o \in purchased)
            \/ task'[t].step = "debitJob"
<1>1. ASSUME NEW s \in {"limits", "debitJob"}, NEW b \in BOOLEAN, Request(t, o, s, b)
      PROVE  TasksTyped' /\ Moves(t) /\ task'[t].step = s /\ task'[t].org = o /\ (task'[t].pro => b)
  <2> DEFINE k == [Idle EXCEPT !.step = s, !.org = o, !.pro = b]
  <2>2. k \in TaskRecords
    BY IdleTyped DEF TaskRecords, Steps, SDKSteps
  <2>3. k.step = s /\ k.org = o
    BY IdleTyped DEF TaskRecords
  <2>4. k.pro = b
    BY IdleTyped DEF TaskRecords
  <2>5. WellHeld(k)
    BY <2>3 DEF WellHeld, PaySteps, Handling
  <2>6. task' = [task EXCEPT ![t] = k]
    BY <1>1 DEF Request
  <2> HIDE DEF k
  <2>7. TasksTyped' /\ Moves(t) /\ task'[t] = k
    BY <2>2, <2>5, <2>6, MoveTyped DEF Typed
  <2> QED BY <2>3, <2>4, <2>7
<1>2. PICK s \in {"limits", "debitJob"}, b \in BOOLEAN : Request(t, o, s, b) /\ (s = "limits" /\ b => o \in purchased)
  <2>1. CASE CreateWallet(t, o)
    <3> DEFINE b == o \in purchased
    <3>1. Request(t, o, "limits", b) /\ b \in BOOLEAN /\ (b => o \in purchased)
      BY <2>1 DEF CreateWallet
    <3> HIDE DEF b
    <3> QED BY <3>1
  <2>2. CASE SubmitJob(t, o)
    BY <2>2 DEF SubmitJob
  <2> QED BY <2>1, <2>2
<1> QED BY <1>1, <1>2 DEF Request, At, Lane, SDKSteps

LEMMA SDKMoves ==
  ASSUME Typed, NEW t \in Tasks, SDKStep(t)
  PROVE  /\ TasksTyped' /\ Lane(t, SDKSteps) /\ task[t].step \in SDKSteps /\ task[t].org \in Orgs
         /\ \/ task'[t] = Idle
            \/ /\ task'[t].org = task[t].org /\ (task'[t].pro => task[t].pro)
               /\ <<task[t].step, task'[t].step>> \in
                     {<<"limits", "debitWallet">>, <<"debitWallet", "wallet">>, <<"debitJob", "job">>}
<1>0. TasksTyped /\ task[t].step \in Steps /\ WellHeld(task[t])
  BY DEF Typed, TasksTyped, TaskRecords
<1> USE DEF At
<1>1. task[t].step \in SDKSteps
  BY DEF SDKStep, ResolveWalletLimits, Debit, Forward, SDKSteps
<1>2. task[t].org \in Orgs
  BY <1>0, <1>1 DEF WellHeld, OrgSteps
<1>3. CASE Finish(t)
  BY <1>0, <1>1, <1>2, <1>3, FinishTyped, IdleFields DEF Lane
<1>4. ASSUME NEW s \in SDKSteps, Goto(t, s),
             <<task[t].step, s>> \in {<<"limits", "debitWallet">>, <<"debitWallet", "wallet">>, <<"debitJob", "job">>}
      PROVE  /\ TasksTyped' /\ Lane(t, SDKSteps) /\ task'[t].step = s
             /\ task'[t].org = task[t].org /\ (task'[t].pro => task[t].pro)
  BY <1>0, <1>1, <1>2, <1>4, GotoTyped DEF Lane, Steps, SDKSteps, PaySteps, Handling
<1>5. CASE ResolveWalletLimits(t)
  BY <1>1, <1>2, <1>3, <1>4, <1>5 DEF ResolveWalletLimits, SDKSteps
<1>6. CASE Debit(t)
  BY <1>1, <1>2, <1>3, <1>4, <1>6 DEF Debit, Forwarding, SDKSteps
<1>7. CASE Forward(t)
  BY <1>3, <1>7 DEF Forward
<1> QED BY <1>5, <1>6, <1>7 DEF SDKStep
-----------------------------------------------------------------------------
\* Types.

LEMMA PostTyped ==
  ASSUME StateTyped, NEW o \in Orgs, NEW a \in Int, Post(o, a)
  PROVE  balance' \in [Orgs -> Nat]
  BY DEF StateTyped, Post

LEMMA CreditsNat ==
  ASSUME NEW cents \in Int, cents >= 1000
  PROVE  creditsForAmount(cents)[1] + creditsForAmount(cents)[2] \in Nat
  BY DEF creditsForAmount, creditPackages

LEMMA IntentStepTyped ==
  ASSUME Typed, NEW p \in Payments,
         \/ \E o \in Orgs, cents \in Amounts : CreatePaymentIntent(p, o, cents)
         \/ ForeignIntent(p) \/ Repeat(p) \/ \E e \in EventTypes : Settle(p, e)
  PROVE  StateTyped' /\ PaymentsTyped' /\ UNCHANGED task
<1>0. StateTyped /\ PaymentsTyped /\ intent[p] \in IntentRecords
  BY DEF Typed, PaymentsTyped
<1>1. ASSUME NEW o \in Orgs, NEW cents \in Amounts, CreatePaymentIntent(p, o, cents)
      PROVE  StateTyped' /\ PaymentsTyped' /\ UNCHANGED task
  <2> DEFINE total == creditsForAmount(cents)[1] + creditsForAmount(cents)[2]
  <2>1. total \in Nat
    BY <1>1, CreditsNat, AmountsAssumption DEF CreatePaymentIntent
  <2>2. intent' = [intent EXCEPT ![p] = [status |-> "open", org |-> o, total |-> total]]
    BY <1>1 DEF CreatePaymentIntent
  <2> HIDE DEF total
  <2>3. intent' \in [Payments -> IntentRecords]
    BY <1>0, <2>1, <2>2 DEF PaymentsTyped, IntentRecords
  <2>4. UNCHANGED <<balance, purchased, task, events, credited, unmarked, overlapped>> /\ (Works \/ Fails)
    BY <1>1 DEF CreatePaymentIntent
  <2>5. row' \in [Payments -> [status : EventTypes \cup {"none", "pending"}, credited : BOOLEAN]]
    <3>1. CASE UNCHANGED row
      BY <1>0, <3>1 DEF PaymentsTyped
    <3>2. CASE row' = [row EXCEPT ![p] = [status |-> "pending", credited |-> FALSE]]
      BY <1>0, <3>2 DEF PaymentsTyped
    <3> QED BY <1>1, <3>1, <3>2 DEF CreatePaymentIntent, CreateStripePayment
  <2> QED BY <1>0, <2>3, <2>4, <2>5, FailsTyped DEF StateTyped, PaymentsTyped
<1>2. CASE ForeignIntent(p)
  BY <1>0, <1>2 DEF ForeignIntent, PaymentsTyped, StateTyped, IntentRecords, stateVars
<1>3. CASE Repeat(p)
  BY <1>0, <1>3, FailsTyped DEF Repeat, PaymentsTyped, StateTyped, EventTypes
<1>4. ASSUME NEW e \in EventTypes, Settle(p, e) PROVE StateTyped' /\ PaymentsTyped' /\ UNCHANGED task
  <2>1. intent' \in [Payments -> IntentRecords]
    <3>1. CASE UNCHANGED intent
      BY <1>0, <3>1 DEF PaymentsTyped
    <3>2. CASE intent' = [intent EXCEPT ![p].status = e] /\ e # "failed"
      <4>1. e \in {"succeeded", "canceled"}
        BY <3>2 DEF EventTypes
      <4> QED BY <1>0, <3>2, <4>1 DEF PaymentsTyped, IntentRecords
    <3> QED BY <1>4, <3>1, <3>2 DEF Settle
  <2>2. /\ events' \in [Payments -> SUBSET EventTypes] /\ (Works \/ Fails)
        /\ UNCHANGED <<balance, purchased, task, row, credited, unmarked, overlapped>>
    BY <1>0, <1>4 DEF Settle, PaymentsTyped
  <2> QED BY <1>0, <2>1, <2>2, FailsTyped DEF StateTyped, PaymentsTyped
<1> QED BY <1>1, <1>2, <1>3, <1>4

LEMMA DeliveryTyped ==
  ASSUME Typed, NEW t \in Tasks, DeliveryStep(t) \/ DeliveryDies(t)
  PROVE  StateTyped' /\ PaymentsTyped'
<1>0. StateTyped /\ PaymentsTyped
  BY DEF Typed
<1>1. task[t].step \in PaySteps /\ task[t].step \in Steps /\ WellHeld(task[t])
  BY DeliveryMoves DEF Typed, TasksTyped, TaskRecords
<1>2. PICK p \in Payments : p = task[t].pay
  BY <1>1 DEF WellHeld
<1>3. UNCHANGED intent /\ (Works \/ Fails)
  BY DEF DeliveryStep, DeliveryDies, RecordStatus, CheckPayment, CreditPayment, MarkPaymentCredited, MarkOrgPurchased
<1>4. events' \in [Payments -> SUBSET EventTypes]
  <2>1. UNCHANGED events \/ \E e : events' = [events EXCEPT ![p] = @ \ {e}]
    BY <1>2 DEF DeliveryStep, DeliveryDies, RecordStatus, CheckPayment, CreditPayment, MarkPaymentCredited,
                MarkOrgPurchased, Acknowledge
  <2> QED BY <1>0, <2>1 DEF PaymentsTyped
<1>5. row' \in [Payments -> [status : EventTypes \cup {"none", "pending"}, credited : BOOLEAN]]
  <2>1. CASE UNCHANGED row
    BY <1>0, <2>1 DEF PaymentsTyped
  <2>2. CASE row' = [row EXCEPT ![p] = [status |-> "succeeded", credited |-> TRUE]]
    BY <1>0, <2>2 DEF PaymentsTyped, EventTypes
  <2>3. ASSUME NEW s \in EventTypes, row' = [row EXCEPT ![p].status = s]
        PROVE  row' \in [Payments -> [status : EventTypes \cup {"none", "pending"}, credited : BOOLEAN]]
    <3> DEFINE r == [row[p] EXCEPT !.status = s]
    <3>1. r \in [status : EventTypes \cup {"none", "pending"}, credited : BOOLEAN]
      BY <1>0 DEF PaymentsTyped
    <3>2. row' = [row EXCEPT ![p] = r]
      BY <2>3
    <3> HIDE DEF r
    <3> QED BY <1>0, <3>1, <3>2 DEF PaymentsTyped
  <2> QED BY <1>2, <2>1, <2>2, <2>3
       DEF DeliveryStep, DeliveryDies, RecordStatus, UpdateStripePaymentStatus, CheckPayment, CreditPayment,
           MarkPaymentCredited, MarkOrgPurchased, At, EventTypes
<1>6. credited' \in [Payments -> Nat]
  BY <1>0, <1>2 DEF DeliveryStep, DeliveryDies, RecordStatus, CheckPayment, CreditPayment, MarkPaymentCredited,
                    MarkOrgPurchased, PaymentsTyped
<1>7. unmarked' \subseteq Payments /\ UNCHANGED overlapped
  BY <1>0, <1>2 DEF DeliveryStep, DeliveryDies, RecordStatus, CheckPayment, CreditPayment, MarkPaymentCredited,
                    MarkOrgPurchased, PaymentsTyped
<1>8. balance' \in [Orgs -> Nat]
  <2>1. CASE UNCHANGED balance
    BY <1>0, <2>1 DEF StateTyped
  <2>2. CASE CreditPayment(t)
    <3>1. task[t].org \in Orgs
      BY <1>1, <2>2 DEF CreditPayment, At, WellHeld, OrgSteps
    <3>2. intent[p].total \in Nat
      BY <1>0 DEF PaymentsTyped, IntentRecords
    <3> QED BY <1>0, <1>2, <2>1, <2>2, <3>1, <3>2, PostTyped DEF CreditPayment
  <2> QED BY <2>1, <2>2 DEF DeliveryStep, DeliveryDies, RecordStatus, CheckPayment, MarkPaymentCredited, MarkOrgPurchased
<1>9. purchased' \subseteq Orgs
  <2>1. CASE MarkOrgPurchased(t)
    BY <1>0, <1>1, <2>1 DEF MarkOrgPurchased, At, WellHeld, OrgSteps, StateTyped
  <2>2. CASE UNCHANGED purchased
    BY <1>0, <2>2 DEF StateTyped
  <2> QED BY <2>1, <2>2 DEF DeliveryStep, DeliveryDies, RecordStatus, CheckPayment, CreditPayment, MarkPaymentCredited
<1> QED BY <1>0, <1>3, <1>4, <1>5, <1>6, <1>7, <1>8, <1>9, FailsTyped DEF PaymentsTyped, StateTyped

LEMMA GrantTyped ==
  ASSUME Typed, NEW t \in Tasks, RunFreeTierGrantNow(t) \/ GrantStep(t) \/ GrantInterrupted(t)
  PROVE  StateTyped' /\ GrantTypeOK'
<1>0. StateTyped /\ GrantTypeOK /\ WellHeld(task[t])
  BY DEF Typed, TasksTyped
<1>1. CASE MarkGrant(t) \/ CreditGrant(t)
  <2>1. PICK o \in Orgs : o = task[t].org
    BY <1>0, <1>1 DEF MarkGrant, CreditGrant, At, WellHeld, OrgSteps
  <2>2. marked' \subseteq Orgs /\ granted' \in [Orgs -> Nat] /\ UNCHANGED purchased /\ (Works \/ Fails)
    BY <1>0, <1>1, <2>1 DEF MarkGrant, CreditGrant, MarkFreeGrantGiven, GrantTypeOK
  <2>3. balance' \in [Orgs -> Nat]
    <3>1. UNCHANGED balance \/ Post(o, MonthlyCredits)
      BY <1>1, <2>1 DEF MarkGrant, CreditGrant
    <3> QED BY <1>0, <3>1, PostTyped, GrantAssumption DEF StateTyped
  <2> QED BY <1>0, <2>2, <2>3, FailsTyped DEF StateTyped, GrantTypeOK
<1>2. CASE UNCHANGED <<balance, purchased, grantVars>> /\ (Works \/ Fails)
  BY <1>0, <1>2, FailsTyped DEF StateTyped, GrantTypeOK, grantVars
<1> QED BY <1>1, <1>2
     DEF RunFreeTierGrantNow, GrantStep, CheckGrant, GrantDone, GrantInterrupted, Works

LEMMA SDKTyped ==
  ASSUME Typed, NEW t \in Tasks, SDKStep(t)
  PROVE  StateTyped' /\ SDKTypeOK'
<1>0. StateTyped /\ SDKTypeOK
  BY DEF Typed
<1>1. PICK o \in Orgs : o = task[t].org
  BY SDKMoves
<1>2. UNCHANGED <<purchased, requests>> /\ (Works \/ Fails)
  BY DEF SDKStep, ResolveWalletLimits, Debit, Forward, sdkVars, Works
<1>3. wallets' \in [Orgs -> Nat] /\ jobs' \in [Orgs -> Nat] /\ debited' \in [Orgs -> Nat]
  <2>1. CASE ResolveWalletLimits(t)
    BY <1>0, <2>1 DEF ResolveWalletLimits, sdkVars, SDKTypeOK
  <2>2. CASE Debit(t)
    BY <1>0, <1>1, <2>2 DEF Debit, SDKTypeOK
  <2>3. CASE Forward(t)
    BY <1>0, <1>1, <2>3 DEF Forward, SDKTypeOK
  <2> QED BY <2>1, <2>2, <2>3 DEF SDKStep
<1>4. balance' \in [Orgs -> Nat]
  <2>1. UNCHANGED balance \/ Post(o, -Cost)
    BY <1>1 DEF SDKStep, ResolveWalletLimits, Debit, Forward
  <2> QED BY <1>0, <2>1, PostTyped, LimitsAssumption DEF StateTyped
<1> QED BY <1>0, <1>2, <1>3, <1>4, FailsTyped DEF StateTyped, SDKTypeOK

LEMMA NextTyped == Typed /\ [Next]_vars => Typed'
<1> SUFFICES ASSUME Typed, [Next]_vars PROVE Typed'
  OBVIOUS
<1> USE DEF Typed
<1>1. CASE PaymentsNext /\ UNCHANGED <<grantVars, sdkVars>>
  <2>0. GrantTypeOK' /\ SDKTypeOK'
    BY <1>1 DEF grantVars, sdkVars, GrantTypeOK, SDKTypeOK
  <2>1. ASSUME NEW p \in Payments, UNCHANGED task, StateTyped', PaymentsTyped' PROVE Typed'
    BY <2>0, <2>1 DEF TasksTyped
  <2>2. ASSUME NEW p \in Payments, NEW e \in EventTypes, NEW t \in Tasks, StripeWebhook(t, p, e) PROVE Typed'
    <3>1. /\ UNCHANGED <<balance, purchased, intent, events, row, credited, unmarked>> /\ (Works \/ Fails)
          /\ overlapped' \subseteq overlapped \cup {p}
      BY <2>2 DEF StripeWebhook
    <3> QED BY <2>0, <2>2, <3>1, WebhookMoves, FailsTyped DEF StateTyped, PaymentsTyped
  <2>3. ASSUME NEW t \in Tasks, DeliveryStep(t) \/ DeliveryDies(t) PROVE Typed'
    BY <2>0, <2>3, DeliveryMoves, DeliveryTyped
  <2> QED BY <1>1, <2>1, <2>2, <2>3, IntentStepTyped DEF PaymentsNext
<1>2. CASE GrantNext /\ UNCHANGED <<paymentVars, sdkVars>>
  BY <1>2, GrantMoves, GrantTyped DEF GrantNext, paymentVars, sdkVars, PaymentsTyped, SDKTypeOK
<1>3. CASE SDKNext /\ UNCHANGED <<paymentVars, grantVars>>
  <2>0. PaymentsTyped' /\ GrantTypeOK'
    BY <1>3 DEF paymentVars, grantVars, PaymentsTyped, GrantTypeOK
  <2>1. ASSUME NEW t \in Tasks, SDKStep(t) PROVE Typed'
    BY <2>0, <2>1, SDKMoves, SDKTyped
  <2>2. ASSUME NEW t \in Tasks, NEW o \in Orgs, CreateWallet(t, o) \/ SubmitJob(t, o) PROVE Typed'
    BY <2>0, <2>2, RequestMoves, LimitsAssumption DEF StateTyped, SDKTypeOK
  <2> QED BY <1>3, <2>1, <2>2 DEF SDKNext
<1>4. CASE UNCHANGED vars
  BY <1>4 DEF vars, stateVars, paymentVars, grantVars, sdkVars, TasksTyped, StateTyped, PaymentsTyped,
              GrantTypeOK, SDKTypeOK
<1> QED BY <1>1, <1>2, <1>3, <1>4 DEF Next

\* Balances never go below zero, and rows and goroutines keep their types, in
\* every interleaving of deliveries, grant runs and SDK requests.
THEOREM BillingTyped == Spec => []TypeOK
  BY InitTyped, NextTyped, TypedTypeOK, PTL DEF Spec
-----------------------------------------------------------------------------
\* Counting goroutines.  At most one enters or leaves a set of steps at a time.

Among(t, o, steps) == At(t, steps) /\ task[t].org = o

LEMMA Counted ==
  ASSUME NEW o \in Orgs, NEW steps
  PROVE  InFlight(o, steps) \in Nat /\ InFlight(o, steps) <= Cardinality(Tasks) /\ Cardinality(Tasks) \in Nat
<1> DEFINE S == {t \in Tasks : At(t, steps) /\ task[t].org = o}
<1>1. S \subseteq Tasks
  OBVIOUS
<1> HIDE DEF S
<1>2. Cardinality(S) \in Nat /\ Cardinality(S) <= Cardinality(Tasks) /\ Cardinality(Tasks) \in Nat
  BY <1>1, TasksAssumption, FS_Subset, FS_CardinalityType
<1> QED BY <1>2 DEF InFlight, S

LEMMA CountedNext ==
  ASSUME NEW o \in Orgs, NEW steps
  PROVE  InFlight(o, steps)' \in Nat /\ InFlight(o, steps)' <= Cardinality(Tasks)
<1> DEFINE S == {t \in Tasks : task'[t].step \in steps /\ task'[t].org = o}
<1>1. S \subseteq Tasks
  OBVIOUS
<1>2. InFlight(o, steps)' = Cardinality(S)
  BY DEF InFlight, At
<1> HIDE DEF S
<1>3. Cardinality(S) \in Nat /\ Cardinality(S) <= Cardinality(Tasks)
  BY <1>1, TasksAssumption, FS_Subset, FS_CardinalityType
<1> QED BY <1>2, <1>3

LEMMA CountMoves ==
  ASSUME NEW t \in Tasks, Moves(t), NEW o \in Orgs, NEW steps
  PROVE  /\ (Among(t, o, steps)' <=> Among(t, o, steps)) => InFlight(o, steps)' = InFlight(o, steps)
         /\ Among(t, o, steps)' /\ ~Among(t, o, steps) => InFlight(o, steps)' = InFlight(o, steps) + 1
         /\ ~Among(t, o, steps)' /\ Among(t, o, steps) => InFlight(o, steps)' = InFlight(o, steps) - 1
<1> DEFINE S == {s \in Tasks : At(s, steps) /\ task[s].org = o}
           R == {s \in Tasks : task'[s].step \in steps /\ task'[s].org = o}
<1>1. S \subseteq Tasks /\ R \subseteq Tasks
  OBVIOUS
<1>2. \A s \in Tasks \ {t} : s \in R <=> s \in S
  BY DEF Moves, At
<1>3. (t \in S <=> Among(t, o, steps)) /\ (t \in R <=> Among(t, o, steps)')
  BY DEF Among, At
<1>4. InFlight(o, steps) = Cardinality(S) /\ InFlight(o, steps)' = Cardinality(R)
  BY DEF InFlight, At
<1> HIDE DEF S, R
<1>5. IsFiniteSet(S) /\ IsFiniteSet(R) /\ Cardinality(S) \in Nat /\ Cardinality(R) \in Nat
  BY <1>1, TasksAssumption, FS_Subset, FS_CardinalityType
<1>6. CASE t \in S <=> t \in R
  <2>1. S = R
    BY <1>1, <1>2, <1>6
  <2> QED BY <1>3, <1>4, <1>6, <2>1
<1>7. CASE t \in R /\ t \notin S
  <2>1. R = S \cup {t}
    BY <1>1, <1>2, <1>7
  <2>2. Cardinality(R) = Cardinality(S) + 1
    BY <1>5, <1>7, <2>1, FS_AddElement
  <2> QED BY <1>3, <1>4, <1>7, <2>2
<1>8. CASE t \in S /\ t \notin R
  <2>1. R = S \ {t}
    BY <1>1, <1>2, <1>8
  <2>2. Cardinality(R) = Cardinality(S) - 1
    BY <1>5, <1>8, <2>1, FS_RemoveElement
  <2> QED BY <1>3, <1>4, <1>8, <2>2
<1> QED BY <1>6, <1>7, <1>8

\* A goroutine of another component does not count.
LEMMA LaneCounts ==
  ASSUME NEW t \in Tasks, NEW L, Lane(t, L), NEW o \in Orgs, NEW steps, steps \cap (L \cup {"idle"}) = {}
  PROVE  InFlight(o, steps)' = InFlight(o, steps)
<1>1. ~Among(t, o, steps) /\ ~Among(t, o, steps)'
  BY DEF Lane, Among, At
<1> QED BY <1>1, CountMoves DEF Lane

LEMMA NobodyCounts ==
  ASSUME UNCHANGED task, NEW o \in Orgs, NEW steps
  PROVE  InFlight(o, steps)' = InFlight(o, steps)
  BY DEF InFlight, At

\* The steps of the other components, by what they leave alone.
LEMMA PaymentLanes ==
  ASSUME Typed, PaymentsNext
  PROVE  /\ UNCHANGED task \/ \E t \in Tasks : Lane(t, PaySteps)
         /\ faults' >= faults /\ purchased \subseteq purchased'
<1>0. faults \in 0..MaxFaults
  BY DEF Typed, StateTyped
<1>1. Works \/ Fails
  BY DEF PaymentsNext, CreatePaymentIntent, ForeignIntent, Repeat, Settle, StripeWebhook, DeliveryStep, DeliveryDies,
         RecordStatus, CheckPayment, CreditPayment, MarkPaymentCredited, MarkOrgPurchased, Works, stateVars
<1>2. purchased \subseteq purchased'
  BY DEF PaymentsNext, CreatePaymentIntent, ForeignIntent, Repeat, Settle, StripeWebhook, DeliveryStep, DeliveryDies,
         RecordStatus, CheckPayment, CreditPayment, MarkPaymentCredited, MarkOrgPurchased, stateVars
<1> QED BY <1>0, <1>1, <1>2, FailsTyped, IntentStepTyped, WebhookMoves, DeliveryMoves DEF PaymentsNext

LEMMA GrantLanes ==
  ASSUME Typed, GrantNext
  PROVE  (\E t \in Tasks : Lane(t, GrantSteps)) /\ UNCHANGED purchased
  BY GrantMoves
     DEF GrantNext, RunFreeTierGrantNow, GrantStep, CheckGrant, MarkGrant, CreditGrant, GrantDone, GrantInterrupted

LEMMA SDKLanes ==
  ASSUME Typed, SDKNext
  PROVE  (\E t \in Tasks : Lane(t, SDKSteps)) /\ faults' >= faults
<1>0. faults \in 0..MaxFaults
  BY DEF Typed, StateTyped
<1>1. Works \/ Fails
  BY DEF SDKNext, SDKStep, ResolveWalletLimits, Debit, Forward, CreateWallet, SubmitJob, Request, Works
<1> QED BY <1>0, <1>1, FailsTyped, SDKMoves, RequestMoves DEF SDKNext
-----------------------------------------------------------------------------
\* SDK requests.

\* The flag a request has read was true.
ProInv ==
    \A t \in Tasks : task[t].step = "limits" /\ task[t].pro => task[t].org \in purchased

SDKInv == ProInv /\ CapOvershoot /\ NothingUncharged

\* Steps of the other components: the counts stay, the flag may be set.
LEMMA SDKKept ==
  ASSUME Typed, SDKInv, UNCHANGED sdkVars, purchased \subseteq purchased',
         UNCHANGED task \/ \E t \in Tasks : Lane(t, PaySteps) \/ Lane(t, GrantSteps)
  PROVE  SDKInv'
<1>1. \A o \in Orgs : /\ InFlight(o, {"debitWallet", "wallet"})' = InFlight(o, {"debitWallet", "wallet"})
                      /\ InFlight(o, {"wallet", "job"})' = InFlight(o, {"wallet", "job"})
  <2>1. CASE UNCHANGED task
    BY <2>1, NobodyCounts
  <2>2. ASSUME NEW t \in Tasks, Lane(t, PaySteps) \/ Lane(t, GrantSteps), NEW o \in Orgs, NEW steps \in SUBSET SDKSteps
        PROVE  InFlight(o, steps)' = InFlight(o, steps)
    <3>1. steps \cap (PaySteps \cup {"idle"}) = {} /\ steps \cap (GrantSteps \cup {"idle"}) = {}
      BY DEF SDKSteps, PaySteps, Handling, GrantSteps
    <3> QED BY <2>2, <3>1, LaneCounts
  <2> QED BY <2>1, <2>2 DEF SDKSteps
<1>2. ProInv'
  BY DEF ProInv, SDKInv, Lane, Moves, PaySteps, Handling, GrantSteps
<1>3. CapOvershoot'
  BY <1>1 DEF CapOvershoot, SDKInv, sdkVars
<1>4. NothingUncharged'
  BY <1>1 DEF NothingUncharged, SDKInv, sdkVars
<1> QED BY <1>2, <1>3, <1>4 DEF SDKInv

LEMMA CapStep ==
  ASSUME Typed, Typed', SDKInv, NEW t \in Tasks, SDKStep(t)
  PROVE  CapOvershoot'
<1>0. SDKTypeOK /\ SDKTypeOK'
  BY DEF Typed
<1>m. /\ Lane(t, SDKSteps) /\ Moves(t) /\ task[t].org \in Orgs
      /\ task'[t].step = "idle" \/ task'[t].org = task[t].org
      /\ task'[t].step = "debitWallet" => task[t].step = "limits"
      /\ task'[t].step = "wallet" => task[t].step = "debitWallet"
  BY SDKMoves, IdleFields DEF Lane
<1>p. UNCHANGED purchased
  BY DEF SDKStep, ResolveWalletLimits, Debit, Forward
<1> DEFINE W == {"debitWallet", "wallet"}
           C == Cardinality(Tasks)
           most(o) == wallets[o] + InFlight(o, W)
<1> USE DEF At
<1> SUFFICES ASSUME NEW o \in Orgs
             PROVE  /\ o \notin purchased => wallets'[o] + InFlight(o, W)' <= FreeCap + (C - 1)
                    /\ wallets'[o] + InFlight(o, W)' <= (IF FreeCap > HardCap THEN FreeCap ELSE HardCap) + (C - 1)
  BY <1>p DEF CapOvershoot
<1>1. /\ wallets[o] \in Nat /\ wallets'[o] \in Nat /\ InFlight(o, W) \in Nat /\ InFlight(o, W)' \in Nat
      /\ C \in Nat /\ InFlight(o, W)' <= C
  <2>1. InFlight(o, W) \in Nat /\ InFlight(o, W) <= C /\ C \in Nat
    BY Counted
  <2>2. InFlight(o, W)' \in Nat /\ InFlight(o, W)' <= C
    BY CountedNext
  <2> QED BY <1>0, <2>1, <2>2 DEF SDKTypeOK
<1>2. FreeCap \in Nat /\ HardCap \in Nat
  BY LimitsAssumption
<1>3. /\ o \notin purchased => most(o) <= FreeCap + (C - 1)
      /\ most(o) <= (IF FreeCap > HardCap THEN FreeCap ELSE HardCap) + (C - 1)
  BY DEF SDKInv, CapOvershoot
<1>4. CASE ResolveWalletLimits(t)
  <2>1. UNCHANGED wallets /\ task[t].step = "limits"
    BY <1>4 DEF ResolveWalletLimits, sdkVars
  <2>2. CASE Among(t, o, W)'
    <3>1. task'[t].step = "debitWallet" /\ task[t].org = o
      BY <1>m, <2>1, <2>2 DEF Among
    <3>2. ~Refused(t)
      BY <1>4, <3>1, FinishTyped, IdleFields DEF ResolveWalletLimits, Typed
    <3>3. /\ wallets[o] \in Nat
          /\ wallets[o] < FreeCap \/ (task[t].pro /\ wallets[o] < HardCap)
      BY <1>1, <1>2, <3>1, <3>2 DEF Refused
    <3>4. task[t].pro => o \in purchased
      BY <2>1, <3>1 DEF SDKInv, ProInv
    <3> QED BY <1>1, <1>2, <2>1, <3>3, <3>4
  <2>3. CASE ~Among(t, o, W)'
    <3>1. InFlight(o, W)' = InFlight(o, W)
      BY <1>m, <2>1, <2>3, CountMoves DEF Among
    <3> QED BY <1>1, <1>2, <1>3, <2>1, <3>1
  <2> QED BY <2>2, <2>3
<1>5. CASE Debit(t)
  <2>1. UNCHANGED wallets /\ task[t].step \in {"debitWallet", "debitJob"}
    BY <1>5 DEF Debit
  <2>2. Among(t, o, W)' => Among(t, o, W)
    BY <1>m, <2>1 DEF Among
  <2>3. InFlight(o, W)' <= InFlight(o, W)
    BY <1>1, <1>m, <2>2, CountMoves
  <2> QED BY <1>1, <1>2, <1>3, <2>1, <2>3
<1>6. CASE Forward(t)
  <2>1. task'[t].step = "idle" /\ task[t].step \in {"wallet", "job"}
    BY <1>6, FinishTyped, IdleFields DEF Forward, Typed
  <2>2. /\ wallets'[o] = wallets[o] + 1 => task[t].step = "wallet" /\ task[t].org = o
        /\ wallets'[o] \in {wallets[o], wallets[o] + 1}
    BY <1>0, <1>6 DEF Forward, SDKTypeOK
  <2>3. ~Among(t, o, W)'
    BY <2>1 DEF Among
  <2>4. wallets'[o] = wallets[o] + 1 => InFlight(o, W)' = InFlight(o, W) - 1
    BY <1>m, <2>2, <2>3, CountMoves DEF Among
  <2>5. InFlight(o, W)' <= InFlight(o, W)
    BY <1>1, <1>m, <2>3, CountMoves
  <2> QED BY <1>1, <1>2, <1>3, <2>2, <2>4, <2>5
<1> QED BY <1>4, <1>5, <1>6 DEF SDKStep

LEMMA ChargeStep ==
  ASSUME Typed, Typed', SDKInv, NEW t \in Tasks, SDKStep(t)
  PROVE  NothingUncharged'
<1>0. SDKTypeOK /\ SDKTypeOK'
  BY DEF Typed
<1>m. /\ Moves(t) /\ task[t].org \in Orgs
      /\ task'[t].step = "idle" \/ task'[t].org = task[t].org
      /\ task'[t].step \in {"wallet", "job"} => task[t].step \in {"debitWallet", "debitJob"}
  BY SDKMoves, IdleFields DEF Lane
<1> DEFINE J == {"wallet", "job"}
<1> USE DEF At
<1> SUFFICES ASSUME NEW o \in Orgs
             PROVE  wallets'[o] + jobs'[o] + InFlight(o, J)' <= debited'[o]
  BY DEF NothingUncharged
<1>1. /\ wallets[o] \in Nat /\ jobs[o] \in Nat /\ debited[o] \in Nat /\ InFlight(o, J) \in Nat
      /\ wallets'[o] \in Nat /\ jobs'[o] \in Nat /\ debited'[o] \in Nat
      /\ wallets[o] + jobs[o] + InFlight(o, J) <= debited[o]
  BY <1>0, Counted DEF SDKTypeOK, SDKInv, NothingUncharged
<1>2. CASE ResolveWalletLimits(t)
  <2>1. UNCHANGED sdkVars /\ task[t].step = "limits"
    BY <1>2 DEF ResolveWalletLimits
  <2>2. ~Among(t, o, J) /\ ~Among(t, o, J)'
    BY <1>m, <2>1 DEF Among
  <2>3. InFlight(o, J)' = InFlight(o, J)
    BY <1>m, <2>2, CountMoves
  <2> QED BY <1>1, <2>1, <2>3 DEF sdkVars
<1>3. CASE Debit(t)
  <2>1. UNCHANGED <<wallets, jobs>> /\ task[t].step \in {"debitWallet", "debitJob"}
    BY <1>3 DEF Debit
  <2>2. ~Among(t, o, J)
    BY <2>1 DEF Among
  <2>3. CASE Among(t, o, J)'
    <3>1. ~Finish(t)
      BY <2>3, FinishTyped, IdleFields DEF Among, Typed
    <3>2. debited' = [debited EXCEPT ![o] = @ + 1]
      BY <1>3, <1>m, <2>3, <3>1 DEF Debit, Among
    <3>3. debited'[o] = debited[o] + 1 /\ InFlight(o, J)' = InFlight(o, J) + 1
      BY <1>0, <1>m, <2>2, <2>3, <3>2, CountMoves DEF SDKTypeOK
    <3> QED BY <1>1, <2>1, <3>3
  <2>4. CASE ~Among(t, o, J)'
    <3>1. InFlight(o, J)' = InFlight(o, J)
      BY <1>m, <2>2, <2>4, CountMoves
    <3>2. debited'[o] >= debited[o]
      BY <1>0, <1>3, <1>m DEF Debit, SDKTypeOK
    <3> QED BY <1>1, <2>1, <3>1, <3>2
  <2> QED BY <2>3, <2>4
<1>4. CASE Forward(t)
  <2>1. UNCHANGED debited /\ task'[t].step = "idle" /\ task[t].step \in {"wallet", "job"}
    BY <1>4, FinishTyped, IdleFields DEF Forward, Typed
  <2>2. ~Among(t, o, J)'
    BY <2>1 DEF Among
  <2>3. CASE task[t].org = o
    <3>1. InFlight(o, J)' = InFlight(o, J) - 1
      BY <1>m, <2>1, <2>2, <2>3, CountMoves DEF Among
    <3>2. wallets'[o] + jobs'[o] <= wallets[o] + jobs[o] + 1
      BY <1>0, <1>4, <2>3 DEF Forward, SDKTypeOK
    <3> QED BY <1>1, <2>1, <3>1, <3>2
  <2>4. CASE task[t].org # o
    <3>1. InFlight(o, J)' = InFlight(o, J)
      BY <1>m, <2>2, <2>4, CountMoves DEF Among
    <3>2. wallets'[o] = wallets[o] /\ jobs'[o] = jobs[o]
      BY <1>0, <1>4, <1>m, <2>4 DEF Forward, SDKTypeOK
    <3> QED BY <1>1, <2>1, <3>1, <3>2
  <2> QED BY <2>3, <2>4
<1> QED BY <1>2, <1>3, <1>4 DEF SDKStep

LEMMA SDKInvInit == Init => SDKInv
<1> SUFFICES ASSUME Init PROVE SDKInv
  OBVIOUS
<1>1. \A o \in Orgs : wallets[o] = 0 /\ jobs[o] = 0 /\ debited[o] = 0
  BY DEF Init, SDKInit
<1>2. \A t \in Tasks : task[t].step = "idle"
  BY IdleFields DEF Init, StateInit
<1>3. ASSUME NEW o \in Orgs, NEW steps \in SUBSET SDKSteps PROVE InFlight(o, steps) = 0
  <2> DEFINE S == {t \in Tasks : At(t, steps) /\ task[t].org = o}
  <2>1. S = {}
    BY <1>2 DEF At, SDKSteps
  <2> HIDE DEF S
  <2>2. Cardinality(S) = 0
    BY <2>1, FS_EmptySet
  <2> QED BY <2>2 DEF InFlight, S
<1>4. \A o \in Orgs : InFlight(o, {"wallet", "job"}) = 0 /\ InFlight(o, {"debitWallet", "wallet"}) = 0
  BY <1>3 DEF SDKSteps
<1>5. NothingUncharged /\ ProInv
  BY <1>1, <1>2, <1>4 DEF NothingUncharged, ProInv
<1>6. Cardinality(Tasks) \in Nat /\ Cardinality(Tasks) >= 1
  BY TasksAssumption, FS_CardinalityType, FS_EmptySet
<1>7. CapOvershoot
  BY <1>1, <1>4, <1>6, LimitsAssumption DEF CapOvershoot
<1> QED BY <1>5, <1>7 DEF SDKInv

LEMMA SDKInvNext == Typed /\ Typed' /\ SDKInv /\ [Next]_vars => SDKInv'
<1> SUFFICES ASSUME Typed, Typed', SDKInv, [Next]_vars PROVE SDKInv'
  OBVIOUS
<1>1. CASE PaymentsNext /\ UNCHANGED <<grantVars, sdkVars>>
  BY <1>1, PaymentLanes, SDKKept
<1>2. CASE GrantNext /\ UNCHANGED <<paymentVars, sdkVars>>
  BY <1>2, GrantLanes, SDKKept
<1>3. ASSUME NEW t \in Tasks, SDKStep(t) PROVE SDKInv'
  <2>1. UNCHANGED purchased
    BY <1>3 DEF SDKStep, ResolveWalletLimits, Debit, Forward
  <2>2. task'[t].step # "limits" /\ Moves(t)
    BY <1>3, SDKMoves, IdleFields DEF Lane
  <2>3. ProInv'
    BY <2>1, <2>2 DEF ProInv, SDKInv, Moves
  <2> QED BY <1>3, <2>3, CapStep, ChargeStep DEF SDKInv
<1>4. ASSUME NEW t \in Tasks, NEW o \in Orgs, CreateWallet(t, o) \/ SubmitJob(t, o) PROVE SDKInv'
  <2>1. /\ UNCHANGED <<purchased, wallets, jobs, debited>> /\ Moves(t)
        /\ task[t].step = "idle" /\ task'[t].step \in {"limits", "debitJob"}
        /\ task'[t].step = "limits" /\ task'[t].pro => task'[t].org \in purchased
    BY <1>4, RequestMoves DEF Lane
  <2>2. \A p \in Orgs : /\ InFlight(p, {"debitWallet", "wallet"})' = InFlight(p, {"debitWallet", "wallet"})
                        /\ InFlight(p, {"wallet", "job"})' = InFlight(p, {"wallet", "job"})
    BY <2>1, CountMoves DEF Among, At
  <2>3. ProInv'
    BY <2>1 DEF ProInv, SDKInv, Moves
  <2>4. CapOvershoot' /\ NothingUncharged'
    BY <2>1, <2>2 DEF SDKInv, CapOvershoot, NothingUncharged
  <2> QED BY <2>3, <2>4 DEF SDKInv
<1>5. CASE UNCHANGED vars
  BY <1>5, SDKKept DEF vars, stateVars
<1> QED BY <1>1, <1>2, <1>3, <1>4, <1>5 DEF Next, SDKNext

\* However many SDK requests read the counts before one of them creates its
\* wallet, the cap is passed by fewer than run at once; and the free cap holds
\* until the purchase is recorded.
THEOREM CapsHold == Spec => []CapOvershoot
<1>1. SDKInv => CapOvershoot
  BY DEF SDKInv
<1> QED BY <1>1, SDKInvInit, SDKInvNext, InitTyped, NextTyped, PTL DEF Spec

\* Every wallet and every job has its debit, requests still being forwarded
\* included: the debit of sdk_handler.go comes first in every interleaving.
THEOREM RequestsCharged == Spec => []NothingUncharged
<1>1. SDKInv => NothingUncharged
  BY DEF SDKInv
<1> QED BY <1>1, SDKInvInit, SDKInvNext, InitTyped, NextTyped, PTL DEF Spec
-----------------------------------------------------------------------------
\* The free grant.

\* A run that has found an organisation without a row will still grant to it,
\* but none begins to once the row is there.
GrantInv ==
    \A o \in Orgs :
        /\ o \notin marked => granted[o] = 0 /\ InFlight(o, {"creditGrant"}) = 0
        /\ granted[o] + InFlight(o, {"markGrant", "creditGrant"}) <= Cardinality(Tasks)
        /\ o \in marked /\ faults = 0 => granted[o] + InFlight(o, {"creditGrant"}) >= 1

\* Those about to grant are among those that will.
LEMMA GrantCounts ==
  ASSUME NEW o \in Orgs
  PROVE  /\ Cardinality(AboutToGrant(o)) = InFlight(o, {"creditGrant"})
         /\ InFlight(o, {"creditGrant"}) <= InFlight(o, {"markGrant", "creditGrant"})
<1> DEFINE S == {t \in Tasks : At(t, {"creditGrant"}) /\ task[t].org = o}
           R == {t \in Tasks : At(t, {"markGrant", "creditGrant"}) /\ task[t].org = o}
<1>1. S \subseteq R /\ R \subseteq Tasks
  BY DEF At
<1>2. InFlight(o, {"creditGrant"}) = Cardinality(S) /\ Cardinality(AboutToGrant(o)) = Cardinality(S)
  BY DEF InFlight, AboutToGrant
<1>3. InFlight(o, {"markGrant", "creditGrant"}) = Cardinality(R)
  BY DEF InFlight
<1> HIDE DEF S, R
<1>4. Cardinality(S) <= Cardinality(R)
  BY <1>1, TasksAssumption, FS_Subset
<1> QED BY <1>2, <1>3, <1>4

LEMMA GrantInvExact == Typed /\ GrantInv => GrantExact
<1> SUFFICES ASSUME Typed, GrantInv, NEW o \in Orgs
             PROVE  LET due == granted[o] + Cardinality(AboutToGrant(o)) IN
                    /\ o \notin marked => due = 0
                    /\ due <= Cardinality(Tasks)
                    /\ o \in marked /\ faults = 0 => due >= 1
  BY DEF GrantExact
<1>1. granted[o] \in Nat
  BY DEF Typed, GrantTypeOK
<1>2. /\ InFlight(o, {"creditGrant"}) \in Nat /\ InFlight(o, {"markGrant", "creditGrant"}) \in Nat
      /\ Cardinality(Tasks) \in Nat
  BY Counted
<1> QED BY <1>1, <1>2, GrantCounts DEF GrantInv

LEMMA GrantInvInit == Init => GrantInv
<1> SUFFICES ASSUME Init, NEW o \in Orgs
             PROVE  /\ granted[o] = 0 /\ InFlight(o, {"creditGrant"}) = 0 /\ o \notin marked
                    /\ InFlight(o, {"markGrant", "creditGrant"}) \in Nat
                    /\ InFlight(o, {"markGrant", "creditGrant"}) <= Cardinality(Tasks)
  <2>1. Cardinality(Tasks) \in Nat
    BY TasksAssumption, FS_CardinalityType
  <2> QED BY <2>1 DEF GrantInv
<1>1. {t \in Tasks : At(t, {"creditGrant"}) /\ task[t].org = o} = {}
  BY IdleFields DEF Init, StateInit, At
<1>2. InFlight(o, {"creditGrant"}) = 0
  BY <1>1, FS_EmptySet DEF InFlight
<1> QED BY <1>2, Counted DEF Init, GrantInit

\* Steps of the other components, and of grant runs between organisations.
LEMMA GrantKept ==
  ASSUME GrantInv, UNCHANGED grantVars, faults \in Nat, faults' \in Nat, faults' >= faults,
         \A o \in Orgs : /\ InFlight(o, {"creditGrant"})' = InFlight(o, {"creditGrant"})
                         /\ InFlight(o, {"markGrant", "creditGrant"})' = InFlight(o, {"markGrant", "creditGrant"})
  PROVE  GrantInv'
  BY DEF GrantInv, grantVars

LEMMA GrantAway ==
  ASSUME Typed, Typed', GrantInv, UNCHANGED grantVars, faults' >= faults,
         UNCHANGED task \/ \E t \in Tasks : Lane(t, PaySteps) \/ Lane(t, SDKSteps)
  PROVE  GrantInv'
<1>0. faults \in Nat /\ faults' \in Nat
  BY FaultsAssumption DEF Typed, StateTyped
<1>1. ASSUME NEW t \in Tasks, Lane(t, PaySteps) \/ Lane(t, SDKSteps), NEW o \in Orgs, NEW steps \in SUBSET GrantSteps
      PROVE  InFlight(o, steps)' = InFlight(o, steps)
  <2>1. steps \cap (PaySteps \cup {"idle"}) = {} /\ steps \cap (SDKSteps \cup {"idle"}) = {}
    BY DEF SDKSteps, PaySteps, Handling, GrantSteps
  <2> QED BY <1>1, <2>1, LaneCounts
<1>2. \A o \in Orgs : /\ InFlight(o, {"creditGrant"})' = InFlight(o, {"creditGrant"})
                      /\ InFlight(o, {"markGrant", "creditGrant"})' = InFlight(o, {"markGrant", "creditGrant"})
  BY <1>1, NobodyCounts DEF GrantSteps
<1> QED BY <1>0, <1>2, GrantKept

LEMMA GrantInvStep ==
  ASSUME Typed, Typed', GrantInv, NEW t \in Tasks, RunFreeTierGrantNow(t) \/ GrantStep(t) \/ GrantInterrupted(t)
  PROVE  GrantInv'
<1> DEFINE A == {"creditGrant"}
           B == {"markGrant", "creditGrant"}
           C == Cardinality(Tasks)
<1>0. GrantTypeOK /\ GrantTypeOK' /\ faults \in Nat /\ faults' \in Nat /\ WellHeld(task[t])
  BY FaultsAssumption DEF Typed, StateTyped, TasksTyped
<1>1. Moves(t)
  BY GrantMoves DEF Lane
<1>2. \A o \in Orgs : /\ granted[o] \in Nat /\ granted'[o] \in Nat /\ C \in Nat
                      /\ InFlight(o, A) \in Nat /\ InFlight(o, B) \in Nat
                      /\ InFlight(o, A)' \in Nat /\ InFlight(o, B)' \in Nat /\ InFlight(o, B)' <= C
  BY <1>0, Counted, CountedNext DEF GrantTypeOK
<1>3. ASSUME UNCHANGED grantVars, faults' >= faults,
             task[t].step \notin B, task'[t].step \notin B
      PROVE  GrantInv'
  BY <1>0, <1>1, <1>3, CountMoves, GrantKept DEF Among, At
<1>4. ASSUME NEW x \in Orgs, CheckGrant(t, x) PROVE GrantInv'
  <2>1. UNCHANGED grantVars /\ faults' >= faults /\ task[t].step = "grant"
    BY <1>4, FailsTyped DEF CheckGrant, At, Typed, StateTyped
  <2>2. CASE task'[t].step \in B
    <3>1. PICK o \in Orgs : o = task'[t].org /\ o \notin marked /\ task'[t].step = "markGrant"
      <4>1. task'[t].org \in Orgs
        BY <2>2 DEF Typed, TasksTyped, WellHeld, OrgSteps
      <4> QED BY <1>4, <2>1, <2>2, <4>1, GrantMoves DEF MarkGrant, At, GrantStep
    <3>2. \A p \in Orgs : InFlight(p, A)' = InFlight(p, A)
      BY <1>1, <2>1, <3>1, CountMoves DEF Among, At
    <3>3. \A p \in Orgs \ {o} : InFlight(p, B)' = InFlight(p, B)
      BY <1>1, <2>1, <3>1, CountMoves DEF Among, At
    <3>4. granted[o] = 0
      BY <3>1 DEF GrantInv
    <3> QED BY <1>0, <1>2, <2>1, <3>1, <3>2, <3>3, <3>4 DEF GrantInv, grantVars
  <2> QED BY <1>3, <2>1, <2>2
<1>5. CASE RunFreeTierGrantNow(t) \/ GrantDone(t)
  <2>1. UNCHANGED <<grantVars, faults>> /\ task[t].step \notin B
    BY <1>5 DEF RunFreeTierGrantNow, GrantDone, At
  <2>2. task'[t].step \notin B
    <3>1. CASE GrantDone(t)
      BY <3>1, FinishTyped, IdleFields DEF GrantDone, Typed
    <3>2. CASE RunFreeTierGrantNow(t)
      BY <3>2, IdleTyped DEF RunFreeTierGrantNow, Typed, TasksTyped, TaskRecords
    <3> QED BY <1>5, <3>1, <3>2
  <2> QED BY <1>0, <1>3, <2>1, <2>2
<1>6. CASE MarkGrant(t)
  <2>1. PICK o \in Orgs : o = task[t].org
    BY <1>0, <1>6 DEF MarkGrant, At, WellHeld, OrgSteps
  <2>2. task[t].step = "markGrant" /\ UNCHANGED granted
    BY <1>6 DEF MarkGrant, At
  <2>3. \A p \in Orgs \ {o} : InFlight(p, A)' = InFlight(p, A) /\ InFlight(p, B)' = InFlight(p, B)
    <3>1. task'[t].step \in B => task'[t].org = o
      BY <1>6, <2>1, GotoTyped DEF MarkGrant, Typed, Steps, PaySteps, Handling, GrantSteps
    <3> QED BY <1>1, <2>1, <2>2, <3>1, CountMoves DEF Among, At
  <2>4. CASE Works /\ MarkFreeGrantGiven(o) /\ Goto(t, "creditGrant")
    <3>1. task'[t].step = "creditGrant" /\ task'[t].org = o
      BY <2>1, <2>4, GotoTyped DEF Typed, Steps, PaySteps, Handling, GrantSteps
    <3>2. InFlight(o, A)' = InFlight(o, A) + 1 /\ InFlight(o, B)' = InFlight(o, B)
      BY <1>1, <2>1, <2>2, <3>1, CountMoves DEF Among, At
    <3>3. UNCHANGED faults /\ marked' = marked \cup {o}
      BY <2>4 DEF Works, MarkFreeGrantGiven
    <3> QED BY <1>2, <2>2, <2>3, <3>2, <3>3 DEF GrantInv
  <2>5. CASE Fails /\ UNCHANGED marked /\ Goto(t, "grant")
    <3>1. task'[t].step = "grant"
      BY <2>5, GotoTyped DEF Typed, Steps, PaySteps, Handling, GrantSteps, OrgSteps, SDKSteps
    <3>2. InFlight(o, A)' = InFlight(o, A) /\ InFlight(o, B)' = InFlight(o, B) - 1
      BY <1>1, <2>1, <2>2, <3>1, CountMoves DEF Among, At
    <3>3. UNCHANGED marked /\ faults' # 0
      BY <1>0, <2>5 DEF Fails
    <3> QED BY <1>2, <2>2, <2>3, <3>2, <3>3 DEF GrantInv
  <2> QED BY <1>6, <2>1, <2>4, <2>5 DEF MarkGrant
<1>7. CASE CreditGrant(t)
  <2>1. PICK o \in Orgs : o = task[t].org
    BY <1>0, <1>7 DEF CreditGrant, At, WellHeld, OrgSteps
  <2>2. task[t].step = "creditGrant" /\ UNCHANGED marked /\ Goto(t, "grant")
    BY <1>7 DEF CreditGrant, At
  <2>3. task'[t].step = "grant"
    BY <2>2, GotoTyped DEF Typed, Steps, PaySteps, Handling, GrantSteps, OrgSteps, SDKSteps
  <2>4. \A p \in Orgs \ {o} : InFlight(p, A)' = InFlight(p, A) /\ InFlight(p, B)' = InFlight(p, B)
    BY <1>1, <2>1, <2>2, <2>3, CountMoves DEF Among, At
  <2>5. InFlight(o, A)' = InFlight(o, A) - 1 /\ InFlight(o, B)' = InFlight(o, B) - 1
    BY <1>1, <2>1, <2>2, <2>3, CountMoves DEF Among, At
  <2>6. o \in marked
    BY <1>2, <2>5 DEF GrantInv
  <2>7. \/ UNCHANGED faults /\ granted' = [granted EXCEPT ![o] = @ + 1]
        \/ faults' # 0 /\ UNCHANGED granted
    BY <1>0, <1>7, <2>1 DEF CreditGrant, Works, Fails
  <2>8. \A p \in Orgs : \/ UNCHANGED faults /\ granted'[p] = (IF p = o THEN granted[p] + 1 ELSE granted[p])
                        \/ faults' # 0 /\ granted'[p] = granted[p]
    BY <1>0, <2>7 DEF GrantTypeOK
  <2> QED BY <1>2, <2>2, <2>4, <2>5, <2>6, <2>8 DEF GrantInv
<1>8. CASE GrantInterrupted(t)
  <2>1. UNCHANGED grantVars /\ faults' # 0 /\ task'[t].step = "idle"
    BY <1>0, <1>8, FinishTyped, IdleFields DEF GrantInterrupted, Fails, Typed
  <2>2. \A p \in Orgs : InFlight(p, A)' <= InFlight(p, A) /\ InFlight(p, B)' <= InFlight(p, B)
    BY <1>1, <1>2, <2>1, CountMoves DEF Among, At
  <2> QED BY <1>2, <2>1, <2>2 DEF GrantInv, grantVars
<1> QED BY <1>4, <1>5, <1>6, <1>7, <1>8 DEF GrantStep

LEMMA GrantInvNext == Typed /\ Typed' /\ GrantInv /\ [Next]_vars => GrantInv'
<1> SUFFICES ASSUME Typed, Typed', GrantInv, [Next]_vars PROVE GrantInv'
  OBVIOUS
<1>1. CASE PaymentsNext /\ UNCHANGED <<grantVars, sdkVars>>
  BY <1>1, PaymentLanes, GrantAway
<1>2. CASE GrantNext /\ UNCHANGED <<paymentVars, sdkVars>>
  BY <1>2, GrantInvStep DEF GrantNext
<1>3. CASE SDKNext /\ UNCHANGED <<paymentVars, grantVars>>
  BY <1>3, SDKLanes, GrantAway
<1>4. CASE UNCHANGED vars
  BY <1>4, GrantAway DEF vars, stateVars, Typed, StateTyped
<1> QED BY <1>1, <1>2, <1>3, <1>4 DEF Next

\* Grant runs of any number of instances, interrupted anywhere: an organisation
\* is granted to at most once by each run that overlaps the first mark, never by
\* a later one, and goes without only after a fault.
THEOREM GrantsExact == Spec => []GrantExact
  BY GrantInvInit, GrantInvNext, GrantInvExact, InitTyped, NextTyped, PTL DEF Spec
-----------------------------------------------------------------------------
\* Payments.

\* Stripe delivers 'succeeded' only for money it has taken, and a delivery about
\* to mark the row has put its entry into the ledger.
SettledInv ==
    /\ StatusSettled
    /\ \A p \in Payments : "succeeded" \in events[p] => intent[p].status = "succeeded"
    /\ \A t \in Tasks :
          /\ task[t].step \in Handling => intent[task[t].pay].status = "succeeded"
          /\ task[t].step = "mark" => credited[task[t].pay] > 0

\* Without a retry that overtakes and without a lost mark, one delivery is in
\* hand at a time, and a purchase that is credited says so or is about to.
OnceInv ==
    \A p \in Payments \ (unmarked \cup overlapped) :
        /\ \A s, t \in InHand(p) : s = t
        /\ \A t \in InHand(p) : task[t].step = "credit" => credited[p] = 0
        /\ credited[p] <= 1
        /\ credited[p] = 1 => row[p].credited \/ \E t \in InHand(p) : task[t].step = "mark"

RowRecords == [status : EventTypes \cup {"none", "pending"}, credited : BOOLEAN]

LEMMA PayInit == Init => SettledInv /\ OnceInv
<1> SUFFICES ASSUME Init PROVE SettledInv /\ OnceInv
  OBVIOUS
<1>1. \A t \in Tasks : task[t].step = "idle"
  BY IdleFields DEF Init, StateInit
<1>2. \A p \in Payments : ~row[p].credited /\ row[p].status = "none" /\ events[p] = {} /\ credited[p] = 0
  BY DEF Init, PaymentsInit, NoRow
<1>3. SettledInv
  BY <1>1, <1>2 DEF SettledInv, StatusSettled, Handling
<1>4. \A p \in Payments : InHand(p) = {}
  BY <1>1 DEF InHand, At, Handling
<1> QED BY <1>2, <1>3, <1>4 DEF OnceInv

\* What becomes of a PaymentIntent and its row outside of a delivery.
LEMMA IntentStepPays ==
  ASSUME Typed, NEW p \in Payments,
         \/ \E o \in Orgs, cents \in Amounts : CreatePaymentIntent(p, o, cents)
         \/ ForeignIntent(p) \/ Repeat(p) \/ \E e \in EventTypes : Settle(p, e)
  PROVE  /\ UNCHANGED <<task, credited, unmarked, overlapped>>
         /\ \A q \in Payments : /\ intent[q].status = "succeeded" => intent'[q].status = "succeeded"
                                /\ "succeeded" \in events'[q] =>
                                      "succeeded" \in events[q] \/ intent'[q].status = "succeeded"
                                /\ row'[q].credited <=> row[q].credited
                                /\ row'[q].status = "succeeded" <=> row[q].status = "succeeded"
<1>0. /\ intent \in [Payments -> IntentRecords] /\ events \in [Payments -> SUBSET EventTypes]
      /\ row \in [Payments -> RowRecords]
  BY DEF Typed, PaymentsTyped, RowRecords
<1>1. ASSUME NEW o \in Orgs, NEW cents \in Amounts, CreatePaymentIntent(p, o, cents)
      PROVE  /\ UNCHANGED <<task, credited, unmarked, overlapped, events>>
             /\ \A q \in Payments : /\ intent[q].status = "succeeded" => intent'[q].status = "succeeded"
                                    /\ row'[q].credited <=> row[q].credited
                                    /\ row'[q].status = "succeeded" <=> row[q].status = "succeeded"
  <2>1. UNCHANGED <<task, credited, unmarked, overlapped, events>> /\ intent[p].status = "none"
    BY <1>1 DEF CreatePaymentIntent, NoIntent
  <2>2. \A q \in Payments \ {p} : intent'[q] = intent[q]
    BY <1>0, <1>1 DEF CreatePaymentIntent
  <2>3. UNCHANGED row \/ (row[p] = NoRow /\ row' = [row EXCEPT ![p] = [status |-> "pending", credited |-> FALSE]])
    BY <1>1 DEF CreatePaymentIntent, CreateStripePayment
  <2>4. CASE UNCHANGED row
    BY <2>1, <2>2, <2>4
  <2>5. CASE row[p] = NoRow /\ row' = [row EXCEPT ![p] = [status |-> "pending", credited |-> FALSE]]
    <3>1. ~row[p].credited /\ row[p].status = "none" /\ ~row'[p].credited /\ row'[p].status = "pending"
      BY <1>0, <2>5 DEF NoRow
    <3>2. \A q \in Payments \ {p} : row'[q] = row[q]
      BY <1>0, <2>5
    <3> QED BY <2>1, <2>2, <3>1, <3>2
  <2> QED BY <2>3, <2>4, <2>5
<1>2. CASE ForeignIntent(p)
  BY <1>0, <1>2 DEF ForeignIntent, stateVars, NoIntent, IntentRecords
<1>3. CASE Repeat(p)
  BY <1>0, <1>3 DEF Repeat
<1>4. ASSUME NEW e \in EventTypes, Settle(p, e)
      PROVE  /\ UNCHANGED <<task, credited, unmarked, overlapped, row>>
             /\ \A q \in Payments : /\ intent[q].status = "succeeded" => intent'[q].status = "succeeded"
                                    /\ "succeeded" \in events'[q] =>
                                          "succeeded" \in events[q] \/ intent'[q].status = "succeeded"
  BY <1>0, <1>4 DEF Settle, IntentRecords
<1> QED BY <1>1, <1>2, <1>3, <1>4

LEMMA PayKept ==
  ASSUME Typed, SettledInv, OnceInv, NEW p \in Payments,
         \/ \E o \in Orgs, cents \in Amounts : CreatePaymentIntent(p, o, cents)
         \/ ForeignIntent(p) \/ Repeat(p) \/ \E e \in EventTypes : Settle(p, e)
  PROVE  SettledInv' /\ OnceInv'
<1>1. \A t \in Tasks : task[t].step \in Handling => task[t].pay \in Payments
  BY DEF Typed, TasksTyped, WellHeld, PaySteps
<1>2. \A q \in Payments : InHand(q)' = InHand(q)
  BY IntentStepPays DEF InHand, At
<1>3. SettledInv'
  BY <1>1, IntentStepPays DEF SettledInv, StatusSettled
<1>4. OnceInv'
  BY <1>2, IntentStepPays DEF OnceInv
<1> QED BY <1>3, <1>4

LEMMA WebhookPays ==
  ASSUME Typed, SettledInv, OnceInv, NEW p \in Payments, NEW e \in EventTypes, NEW t \in Tasks,
         StripeWebhook(t, p, e)
  PROVE  SettledInv' /\ OnceInv'
<1>1. /\ UNCHANGED <<intent, events, row, credited, unmarked>> /\ e \in events[p]
      /\ overlapped \subseteq overlapped'
      /\ e = "succeeded" /\ p \notin overlapped' => InHand(p) = {}
  BY DEF StripeWebhook
<1>2. /\ Moves(t) /\ task[t].step = "idle" /\ task'[t].pay = p
      /\ task'[t].step = (IF e = "succeeded" THEN "check" ELSE e)
  BY WebhookMoves DEF Lane
<1>3. e # "succeeded" => task'[t].step \notin Handling
  BY <1>2 DEF Handling, EventTypes
<1>4. SettledInv'
  <2>1. \A s \in Tasks : /\ task'[s].step \in Handling => intent[task'[s].pay].status = "succeeded"
                         /\ task'[s].step = "mark" => credited[task'[s].pay] > 0
    BY <1>1, <1>2, <1>3 DEF SettledInv, Moves, Handling
  <2> QED BY <1>1, <2>1 DEF SettledInv, StatusSettled
<1>5. \A q \in Payments : InHand(q)' \ {t} = InHand(q) /\ (t \in InHand(q)' => q = p /\ e = "succeeded")
  BY <1>2, <1>3 DEF InHand, At, Moves, Handling
<1>6. ASSUME NEW q \in Payments \ (unmarked' \cup overlapped')
      PROVE  /\ \A r, s \in InHand(q)' : r = s
             /\ \A s \in InHand(q)' : task'[s].step = "credit" => credited'[q] = 0
             /\ credited'[q] <= 1
             /\ credited'[q] = 1 => row'[q].credited \/ \E s \in InHand(q)' : task'[s].step = "mark"
  <2>1. q \in Payments \ (unmarked \cup overlapped)
    BY <1>1, <1>6
  <2>2. \A s \in InHand(q) : s \in Tasks \ {t} /\ task'[s] = task[s]
    BY <1>2, <1>5 DEF Moves, InHand
  <2>3. CASE t \notin InHand(q)'
    BY <1>1, <1>5, <2>1, <2>2, <2>3 DEF OnceInv
  <2>4. CASE t \in InHand(q)'
    <3>1. q = p /\ InHand(q)' = {t} /\ task'[t].step = "check"
      BY <1>1, <1>2, <1>5, <1>6, <2>4
    <3> QED BY <1>1, <1>5, <2>1, <2>2, <3>1 DEF OnceInv
  <2> QED BY <2>3, <2>4
<1> QED BY <1>4, <1>6 DEF OnceInv

\* What a delivery changes is its own payment's.
LEMMA DeliveryPays ==
  ASSUME Typed, NEW t \in Tasks, NEW p \in Payments, p = task[t].pay, DeliveryStep(t) \/ DeliveryDies(t)
  PROVE  /\ UNCHANGED <<intent, overlapped>>
         /\ unmarked \subseteq unmarked' /\ unmarked' \subseteq unmarked \cup {p}
         /\ \A q \in Payments : events'[q] \subseteq events[q]
         /\ \A q \in Payments \ {p} : row'[q] = row[q] /\ credited'[q] = credited[q]
<1>0. /\ events \in [Payments -> SUBSET EventTypes] /\ row \in [Payments -> RowRecords]
      /\ credited \in [Payments -> Nat]
  BY DEF Typed, PaymentsTyped, RowRecords
<1>1. /\ UNCHANGED <<intent, overlapped>>
      /\ unmarked \subseteq unmarked' /\ unmarked' \subseteq unmarked \cup {p}
  BY DEF DeliveryStep, DeliveryDies, RecordStatus, CheckPayment, CreditPayment, MarkPaymentCredited, MarkOrgPurchased
<1>2. \A q \in Payments : events'[q] \subseteq events[q]
  BY <1>0 DEF DeliveryStep, DeliveryDies, RecordStatus, CheckPayment, CreditPayment, MarkPaymentCredited,
              MarkOrgPurchased, Acknowledge
<1>3. \A q \in Payments \ {p} : row'[q] = row[q]
  BY <1>0 DEF DeliveryStep, DeliveryDies, RecordStatus, CheckPayment, CreditPayment, MarkPaymentCredited,
              MarkOrgPurchased, UpdateStripePaymentStatus
<1>4. \A q \in Payments \ {p} : credited'[q] = credited[q]
  BY <1>0 DEF DeliveryStep, DeliveryDies, RecordStatus, CheckPayment, CreditPayment, MarkPaymentCredited,
              MarkOrgPurchased
<1> QED BY <1>1, <1>2, <1>3, <1>4

\* A row that says credited goes on saying so, with its status.
LEMMA StatusUpdate ==
  ASSUME Typed, NEW p \in Payments, NEW s \in {"failed", "canceled"}, UpdateStripePaymentStatus(p, s)
  PROVE  /\ row'[p].credited <=> row[p].credited
         /\ row[p].credited => row'[p] = row[p]
         /\ ~row[p].credited => row'[p].status # "succeeded" \/ row'[p] = row[p]
<1>0. row \in [Payments -> RowRecords]
  BY DEF Typed, PaymentsTyped, RowRecords
<1>1. CASE row[p] # NoRow /\ ~row[p].credited
  <2> DEFINE r == [row[p] EXCEPT !.status = s]
  <2>1. row[p] \in RowRecords
    BY <1>0
  <2>2. r.status = s /\ (r.credited <=> row[p].credited)
    BY <2>1 DEF RowRecords
  <2>3. row' = [row EXCEPT ![p] = r]
    BY <1>1 DEF UpdateStripePaymentStatus
  <2> HIDE DEF r
  <2>4. row'[p] = r
    BY <1>0, <2>3
  <2> QED BY <1>1, <2>2, <2>4
<1> QED BY <1>1 DEF UpdateStripePaymentStatus

LEMMA DeliverySettled ==
  ASSUME Typed, SettledInv, NEW t \in Tasks, DeliveryStep(t) \/ DeliveryDies(t)
  PROVE  SettledInv'
<1>0. row \in [Payments -> RowRecords] /\ credited \in [Payments -> Nat] /\ WellHeld(task[t])
  BY DEF Typed, PaymentsTyped, RowRecords, TasksTyped
<1>1. PICK p \in Payments : p = task[t].pay
  BY <1>0, DeliveryMoves DEF WellHeld
<1>2. Moves(t)
  BY DeliveryMoves DEF Lane
<1>3. \A q \in Payments : credited'[q] >= credited[q]
  <2>1. credited'[p] >= credited[p]
    BY <1>0, <1>1 DEF DeliveryStep, DeliveryDies, RecordStatus, CheckPayment, CreditPayment, MarkPaymentCredited,
                      MarkOrgPurchased
  <2> QED BY <1>0, <1>1, <2>1, DeliveryPays
<1>4. \A s \in Tasks : /\ task'[s].step \in Handling => intent'[task'[s].pay].status = "succeeded"
                       /\ task'[s].step = "mark" => credited'[task'[s].pay] > 0
  <2>1. \A s \in Tasks : task[s].step \in Handling => task[s].pay \in Payments
    BY DEF Typed, TasksTyped, WellHeld, PaySteps
  <2>2. \A s \in Tasks \ {t} : /\ task'[s].step \in Handling => intent'[task'[s].pay].status = "succeeded"
                               /\ task'[s].step = "mark" => credited'[task'[s].pay] > 0
    <3>2. \A q \in Payments : credited[q] > 0 => credited'[q] > 0
      <4>1. credited' \in [Payments -> Nat]
        BY DeliveryTyped DEF PaymentsTyped
      <4> QED BY <1>0, <1>3, <4>1
    <3> QED BY <1>1, <1>2, <2>1, <3>2, DeliveryPays DEF SettledInv, Moves, Handling
  <2>3. task'[t].step \in Handling => task'[t].pay = p /\ task[t].step \in Handling
    BY <1>1, DeliveryMoves, IdleFields DEF Handling
  <2>4. task'[t].step = "mark" => credited'[p] > 0
    <3>1. CASE CreditPayment(t) /\ ~Finish(t)
      BY <1>0, <1>1, <3>1 DEF CreditPayment
    <3>2. CASE Finish(t)
      BY <3>2, FinishTyped, IdleFields DEF Typed
    <3>3. CASE task[t].step # "credit"
      BY <3>3, DeliveryMoves, IdleFields
    <3> QED BY <3>1, <3>2, <3>3
         DEF DeliveryStep, DeliveryDies, RecordStatus, CheckPayment, MarkPaymentCredited, MarkOrgPurchased, At, Acknowledge
  <2> QED BY <1>1, <2>2, <2>3, <2>4, DeliveryPays DEF SettledInv, Handling
<1>5. /\ row'[p].credited <=> row'[p].status = "succeeded"
      /\ row'[p].credited => credited'[p] > 0 /\ intent'[p].status = "succeeded"
  <2>0. /\ row[p].credited <=> row[p].status = "succeeded"
        /\ row[p].credited => credited[p] > 0 /\ intent[p].status = "succeeded"
    BY DEF SettledInv, StatusSettled
  <2>1. UNCHANGED intent /\ (credited[p] > 0 => credited'[p] > 0)
    <3>1. credited'[p] \in Nat /\ credited[p] \in Nat
      BY <1>0, DeliveryTyped DEF PaymentsTyped
    <3> QED BY <1>1, <1>3, <3>1, DeliveryPays
  <2>2. CASE row'[p] = row[p]
    BY <2>0, <2>1, <2>2
  <2>3. CASE RecordStatus(t)
    <3>1. CASE UNCHANGED row
      BY <2>2, <3>1
    <3>2. PICK s \in {"failed", "canceled"} : s = task[t].step
      BY <2>3 DEF RecordStatus, At
    <3>3. CASE UpdateStripePaymentStatus(p, s)
      BY <2>0, <2>1, <2>2, <3>3, StatusUpdate
    <3> QED BY <1>1, <2>3, <3>1, <3>2, <3>3 DEF RecordStatus
  <2>4. CASE row' = [row EXCEPT ![p] = [status |-> "succeeded", credited |-> TRUE]] /\ task[t].step = "mark"
    <3>1. row'[p].credited /\ row'[p].status = "succeeded"
      BY <1>0, <2>4
    <3>2. credited[p] > 0 /\ intent[p].status = "succeeded"
      BY <1>1, <2>4 DEF SettledInv, Handling
    <3> QED BY <2>1, <3>1, <3>2
  <2> QED BY <1>1, <2>2, <2>3, <2>4
       DEF DeliveryStep, DeliveryDies, CheckPayment, CreditPayment, MarkPaymentCredited, MarkOrgPurchased, At
<1>6. StatusSettled'
  <2>1. ASSUME NEW q \in Payments \ {p}
        PROVE  /\ row'[q].credited <=> row'[q].status = "succeeded"
               /\ row'[q].credited => credited'[q] > 0 /\ intent'[q].status = "succeeded"
    BY <1>1, DeliveryPays DEF SettledInv, StatusSettled
  <2> QED BY <1>5, <2>1 DEF StatusSettled
<1> QED BY <1>1, <1>4, <1>6, DeliveryPays DEF SettledInv

LEMMA DeliveryOnce ==
  ASSUME Typed, Typed', OnceInv, NEW t \in Tasks, DeliveryStep(t) \/ DeliveryDies(t)
  PROVE  OnceInv'
<1>0. row \in [Payments -> RowRecords] /\ credited \in [Payments -> Nat] /\ WellHeld(task[t])
  BY DEF Typed, PaymentsTyped, RowRecords, TasksTyped
<1>1. PICK p \in Payments : p = task[t].pay
  BY <1>0, DeliveryMoves DEF WellHeld
<1>2. Moves(t)
  BY DeliveryMoves DEF Lane
<1>3. /\ task'[t].step \in Handling => task[t].step \in Handling /\ task'[t].pay = p
      /\ task'[t].step = "credit" => task[t].step = "check"
      /\ task'[t].step = "mark" => task[t].step = "credit"
  BY <1>1, DeliveryMoves, IdleFields DEF Handling
<1>4. \A q \in Payments : InHand(q)' \subseteq InHand(q) /\ InHand(q)' \subseteq Tasks
  BY <1>1, <1>2, <1>3 DEF InHand, At, Moves
<1>5. \A q \in Payments \ {p} : InHand(q)' = InHand(q) /\ t \notin InHand(q)
  BY <1>1, <1>2, <1>3 DEF InHand, At, Moves
<1>6. \A s \in Tasks \ {t} : task'[s] = task[s]
  BY <1>2 DEF Moves
<1>7. ASSUME NEW q \in Payments \ {p}, q \notin unmarked' \cup overlapped'
      PROVE  /\ \A r, s \in InHand(q)' : r = s
             /\ \A s \in InHand(q)' : task'[s].step = "credit" => credited'[q] = 0
             /\ credited'[q] <= 1
             /\ credited'[q] = 1 => row'[q].credited \/ \E s \in InHand(q)' : task'[s].step = "mark"
  <2>1. q \notin unmarked \cup overlapped /\ row'[q] = row[q] /\ credited'[q] = credited[q]
    BY <1>1, <1>7, DeliveryPays
  <2>2. \A s \in InHand(q) : task'[s] = task[s]
    BY <1>5, <1>6 DEF InHand
  <2> QED BY <1>5, <2>1, <2>2 DEF OnceInv
<1>8. ASSUME p \notin unmarked' \cup overlapped'
      PROVE  /\ \A r, s \in InHand(p)' : r = s
             /\ \A s \in InHand(p)' : task'[s].step = "credit" => credited'[p] = 0
             /\ credited'[p] <= 1
             /\ credited'[p] = 1 => row'[p].credited \/ \E s \in InHand(p)' : task'[s].step = "mark"
  <2>0. p \notin unmarked \cup overlapped
    BY <1>1, <1>8, DeliveryPays
  <2>1. /\ \A r, s \in InHand(p) : r = s
        /\ \A s \in InHand(p) : task[s].step = "credit" => credited[p] = 0
        /\ credited[p] <= 1
        /\ credited[p] = 1 => row[p].credited \/ \E s \in InHand(p) : task[s].step = "mark"
    BY <2>0 DEF OnceInv
  <2>2. credited[p] \in Nat
    BY <1>0
  <2>3. CASE task[t].step \notin Handling
    <3>1. /\ UNCHANGED credited /\ (row'[p].credited <=> row[p].credited)
      <4>1. CASE UNCHANGED <<credited, row>>
        BY <4>1
      <4>2. CASE RecordStatus(t)
        <5>1. PICK s \in {"failed", "canceled"} : s = task[t].step
          BY <4>2 DEF RecordStatus, At
        <5> QED BY <1>1, <4>2, <5>1, StatusUpdate DEF RecordStatus
      <4> QED BY <2>3, <4>1, <4>2
           DEF DeliveryStep, DeliveryDies, CheckPayment, CreditPayment, MarkPaymentCredited, MarkOrgPurchased,
               At, Handling
    <3>2. InHand(p)' = InHand(p) /\ t \notin InHand(p)
      BY <1>3, <1>4, <1>6, <2>3 DEF InHand, At
    <3>3. \A s \in InHand(p) : task'[s] = task[s]
      BY <1>6, <3>2 DEF InHand
    <3> QED BY <2>1, <3>1, <3>2, <3>3
  <2>4. CASE task[t].step \in Handling
    <3>1. InHand(p) = {t} /\ InHand(p)' \subseteq {t}
      BY <1>1, <1>4, <2>1, <2>4 DEF InHand, At
    <3>2. task'[t].step \in Handling => InHand(p)' = {t}
      BY <1>3, <3>1 DEF InHand, At
    <3>3. CASE CheckPayment(t)
      <4>1. UNCHANGED <<row, credited>> /\ task[t].step = "check"
        BY <3>3 DEF CheckPayment, At
      <4>2. task'[t].step = "credit" => ~row[p].credited
        BY <1>1, <3>3, FinishTyped, IdleFields DEF CheckPayment, IsPaymentCredited, Typed, Acknowledge
      <4>3. credited[p] = 1 => row[p].credited
        BY <2>1, <3>1, <4>1
      <4> QED BY <1>3, <2>1, <2>2, <3>1, <4>1, <4>2, <4>3
    <3>4. CASE CreditPayment(t)
      <4>1. UNCHANGED row /\ task[t].step = "credit" /\ credited[p] = 0
        BY <2>1, <3>1, <3>4 DEF CreditPayment, At
      <4>2. task'[t].step # "credit"
        BY <1>3, <4>1
      <4>3. CASE Goto(t, "mark")
        <5>1. task'[t].step = "mark"
          BY <1>0, <1>1, <4>1, <4>3, GotoTyped DEF Typed, Steps, PaySteps, Handling, OrgSteps, WellHeld
        <5>2. credited'[p] \in {0, 1}
          BY <1>0, <1>1, <3>4, <4>1 DEF CreditPayment
        <5> QED BY <3>1, <3>2, <4>2, <5>1, <5>2 DEF Handling
      <4>4. CASE Fails /\ Finish(t) /\ UNCHANGED credited
        BY <3>1, <4>1, <4>2, <4>4
      <4> QED BY <1>1, <1>8, <3>4, <4>3, <4>4 DEF CreditPayment
    <3>5. CASE MarkPaymentCredited(t)
      <4>1. UNCHANGED credited /\ task[t].step = "mark" /\ row' = [row EXCEPT ![p] = [status |-> "succeeded", credited |-> TRUE]]
        BY <1>1, <1>8, <3>5 DEF MarkPaymentCredited, At
      <4>2. row'[p].credited
        BY <1>0, <4>1
      <4> QED BY <1>3, <2>1, <3>1, <4>1, <4>2
    <3>6. CASE MarkOrgPurchased(t) \/ DeliveryDies(t)
      <4>1. UNCHANGED <<row, credited>> /\ task[t].step # "mark" /\ task'[t].step = "idle"
        BY <1>1, <1>8, <3>6, FinishTyped, IdleFields DEF MarkOrgPurchased, DeliveryDies, At, Acknowledge, Typed
      <4> QED BY <2>1, <3>1, <4>1
    <3> QED BY <2>4, <3>3, <3>4, <3>5, <3>6 DEF DeliveryStep, RecordStatus, At, Handling
  <2> QED BY <2>3, <2>4
<1> QED BY <1>7, <1>8 DEF OnceInv

LEMMA PayNext == Typed /\ Typed' /\ SettledInv /\ OnceInv /\ [Next]_vars => SettledInv' /\ OnceInv'
<1> SUFFICES ASSUME Typed, Typed', SettledInv, OnceInv, [Next]_vars PROVE SettledInv' /\ OnceInv'
  OBVIOUS
<1>1. CASE PaymentsNext
  BY <1>1, PayKept, WebhookPays, DeliverySettled, DeliveryOnce DEF PaymentsNext
<1>2. ASSUME UNCHANGED paymentVars, \E t \in Tasks : Lane(t, GrantSteps) \/ Lane(t, SDKSteps)
      PROVE  SettledInv' /\ OnceInv'
  <2>1. PICK t \in Tasks : Lane(t, GrantSteps) \/ Lane(t, SDKSteps)
    BY <1>2
  <2>2. /\ task[t].step \notin Handling /\ task'[t].step \notin Handling
        /\ \A s \in Tasks \ {t} : task'[s] = task[s]
    BY <2>1 DEF Lane, Moves, GrantSteps, SDKSteps, Handling
  <2>3. \A p \in Payments : InHand(p)' = InHand(p) /\ \A s \in InHand(p) : task'[s] = task[s]
    BY <2>2 DEF InHand, At
  <2>4. SettledInv'
    BY <1>2, <2>2 DEF SettledInv, StatusSettled, paymentVars, Handling
  <2>5. OnceInv'
    BY <1>2, <2>3 DEF OnceInv, paymentVars
  <2> QED BY <2>4, <2>5
<1>3. CASE UNCHANGED vars
  <2>1. UNCHANGED <<paymentVars, task>>
    BY <1>3 DEF vars, stateVars
  <2>2. \A p \in Payments : InHand(p)' = InHand(p)
    BY <2>1 DEF InHand, At
  <2> QED BY <2>1, <2>2 DEF SettledInv, StatusSettled, OnceInv, paymentVars
<1> QED BY <1>1, <1>2, <1>3, GrantLanes, SDKLanes DEF Next

\* However Stripe orders, repeats and overlaps its events, a payment row says
\* succeeded exactly when it says credited, and then the money was taken and the
\* ledger has the entry.
THEOREM PaymentsSettled == Spec => []StatusSettled
<1>1. SettledInv => StatusSettled
  BY DEF SettledInv
<1> QED BY <1>1, PayInit, PayNext, InitTyped, NextTyped, PTL DEF Spec

\* A purchase credited twice had its mark lost after a credit, or a retry handled
\* while the first delivery was still in hand: IsPaymentCredited stops the rest.
THEOREM CreditsOnce == Spec => []DoubleCreditExplained
<1>1. Typed /\ OnceInv => DoubleCreditExplained
  <2> SUFFICES ASSUME Typed, OnceInv, NEW p \in Payments \ (unmarked \cup overlapped) PROVE ~(credited[p] > 1)
    BY DEF DoubleCreditExplained
  <2>1. credited[p] \in Nat
    BY DEF Typed, PaymentsTyped
  <2> QED BY <2>1 DEF OnceInv
<1> QED BY <1>1, PayInit, PayNext, InitTyped, NextTyped, PTL DEF Spec
=============================================================================
