--------------------------- MODULE APIKeysProofs ---------------------------
(***************************************************************************)
(* Theorems about APIKeys, for any keys, any finite number of concurrent   *)
(* requests, and all rates and bounds.                                     *)
(***************************************************************************)
EXTENDS APIKeys, FiniteSetTheorems, TLAPS

\* What a lookup can have found: never a project that counts as cloud-managed.
Entries == [rate : {FreeRate, ProRate}, cloudManaged : {FALSE}]

Steps == {"idle", "insert", "invalidate", "get", "db", "set", "project", "count", "add"}
KeySteps == {"insert", "invalidate", "get", "db", "set"}
EntrySteps == {"set", "project", "count", "add"}

TaskRecords == [step : Steps, key : Keys \cup {NoKey}, route : Routes,
                entry : Entries \cup {NoEntry}, count : Nat]

WellRead(k) ==
    /\ k.step \in KeySteps => k.key \in Keys
    /\ k.step \in EntrySteps => k.entry \in Entries

TasksTyped ==
    /\ task \in [Tasks -> TaskRecords]
    /\ \A t \in Tasks : WellRead(task[t])

Windows == [old : Nat, new : Nat]

StoreTyped ==
    /\ key \in [Keys -> {"none", "active", "revoked"}]
    /\ rate \in {FreeRate, ProRate}
    /\ cache \in [Keys -> Entries \cup {NoEntry}]
    /\ window \in Windows /\ admitted \in Windows
    /\ faults \in 0..MaxFaults

Typed == TasksTyped /\ StoreTyped

\* A limit that was read is never above the present one: it is only raised.
Stale(e) == e \in Entries => e.rate <= rate

StaleInv ==
    /\ \A k \in Keys : Stale(cache[k])
    /\ \A t \in Tasks : Stale(task[t].entry)

\* Only failing open lets through what the window does not hold.
WindowInv ==
    /\ admitted.new <= window.new + faults
    /\ Total(admitted) <= Total(window) + faults

\* Requests that will be let through: they counted before the limit was reached.
Passing == {t \in Tasks : At(t, "add") /\ Allowed(t)}

PassInv == Total(admitted) + Cardinality(Passing) <= rate + (Cardinality(Tasks) - 1) + faults

RateInv == StaleInv /\ WindowInv /\ PassInv /\ NoCloudKeyServed

Moves(t) == \A s \in Tasks \ {t} : task'[s] = task[s]

LEMMA Rates ==
  FreeRate \in Nat /\ ProRate \in Nat /\ FreeRate <= ProRate /\ MaxFaults \in Nat
  BY RatesAssumption

LEMMA NoEntryApart == NoEntry \notin Entries
  BY NamesAssumption, Rates DEF Entries

LEMMA IdleTyped == Idle \in TaskRecords /\ WellRead(Idle) /\ Idle.step = "idle" /\ Idle.entry = NoEntry
  BY DEF Idle, TaskRecords, WellRead, Steps, KeySteps, EntrySteps, Routes

LEMMA InitTyped == Init => Typed
  BY IdleTyped, Rates DEF Init, Typed, TasksTyped, StoreTyped, Windows

LEMMA MoveTyped ==
  ASSUME TasksTyped, NEW t \in Tasks, NEW k \in TaskRecords, WellRead(k),
         task' = [task EXCEPT ![t] = k]
  PROVE  TasksTyped' /\ Moves(t) /\ task'[t] = k
  BY DEF TasksTyped, Moves

LEMMA FinishTyped ==
  ASSUME TasksTyped, NEW t \in Tasks, Finish(t)
  PROVE  TasksTyped' /\ Moves(t) /\ task'[t] = Idle
  BY MoveTyped, IdleTyped DEF Finish

LEMMA GotoTyped ==
  ASSUME TasksTyped, NEW t \in Tasks, NEW s \in Steps, Goto(t, s),
         s \in KeySteps => task[t].key \in Keys,
         s \in EntrySteps => task[t].entry \in Entries
  PROVE  /\ TasksTyped' /\ Moves(t) /\ task'[t].step = s
         /\ task'[t].entry = task[t].entry /\ task'[t].route = task[t].route
<1> DEFINE k == [task[t] EXCEPT !.step = s]
<1>0. task[t] \in TaskRecords
  BY DEF TasksTyped
<1>1. task' = [task EXCEPT ![t] = k]
  BY DEF Goto
<1>2. k \in TaskRecords /\ k.step = s /\ k.entry = task[t].entry /\ k.route = task[t].route /\ k.key = task[t].key
  BY <1>0 DEF TaskRecords
<1>3. WellRead(k)
  BY <1>2 DEF WellRead
<1> HIDE DEF k
<1> QED BY <1>1, <1>2, <1>3, MoveTyped

LEMMA FailsTyped ==
  ASSUME faults \in 0..MaxFaults, Works \/ Fails
  PROVE  faults' \in 0..MaxFaults /\ faults' >= faults
  BY Rates DEF Works, Fails

\* A request arrives with nothing looked up.
Arrives(t, k) == CreateAPIKey(t, k) \/ RevokeAPIKey(t, k) \/ \E r \in Routes : Auth(t, k, r)

LEMMA ArrivalMoves ==
  ASSUME Typed, NEW t \in Tasks, NEW k \in Keys, Arrives(t, k)
  PROVE  /\ TasksTyped' /\ Moves(t) /\ task[t].step = "idle"
         /\ task'[t].step \in {"insert", "invalidate", "get"} /\ task'[t].entry = NoEntry
         /\ UNCHANGED <<rate, cache, window, admitted>> /\ (Works \/ Fails)
         /\ key' \in [Keys -> {"none", "active", "revoked"}]
<1>1. ASSUME NEW s \in {"insert", "invalidate", "get"}, NEW r \in Routes,
             task' = [task EXCEPT ![t] = [Idle EXCEPT !.step = s, !.key = k, !.route = r]]
      PROVE  TasksTyped' /\ Moves(t) /\ task'[t].step = s /\ task'[t].entry = NoEntry
  <2> DEFINE n == [Idle EXCEPT !.step = s, !.key = k, !.route = r]
  <2>1. n \in TaskRecords /\ n.step = s /\ n.key = k /\ n.entry = NoEntry
    BY IdleTyped DEF TaskRecords, Steps
  <2>2. WellRead(n)
    BY <2>1 DEF WellRead, KeySteps, EntrySteps
  <2> HIDE DEF n
  <2> QED BY <1>1, <2>1, <2>2, MoveTyped DEF Typed, n
<1>2. ASSUME NEW s \in {"insert", "invalidate"},
             task' = [task EXCEPT ![t] = [Idle EXCEPT !.step = s, !.key = k]]
      PROVE  TasksTyped' /\ Moves(t) /\ task'[t].step = s /\ task'[t].entry = NoEntry
  <2> DEFINE n == [Idle EXCEPT !.step = s, !.key = k]
  <2>1. n \in TaskRecords /\ n.step = s /\ n.key = k /\ n.entry = NoEntry
    BY IdleTyped DEF TaskRecords, Steps
  <2>2. WellRead(n)
    BY <2>1 DEF WellRead, KeySteps, EntrySteps
  <2> HIDE DEF n
  <2> QED BY <1>2, <2>1, <2>2, MoveTyped DEF Typed, n
<1>3. CASE CreateAPIKey(t, k)
  BY <1>2, <1>3 DEF CreateAPIKey, At, Typed, StoreTyped
<1>4. CASE RevokeAPIKey(t, k)
  BY <1>2, <1>4 DEF RevokeAPIKey, At, Typed, StoreTyped, Works
<1>5. ASSUME NEW r \in Routes, Auth(t, k, r)
      PROVE  /\ TasksTyped' /\ Moves(t) /\ task[t].step = "idle" /\ task'[t].step = "get" /\ task'[t].entry = NoEntry
             /\ UNCHANGED <<key, rate, cache, window, admitted, faults>>
  BY <1>1, <1>5 DEF Auth, At
<1> QED BY <1>3, <1>4, <1>5 DEF Arrives, Typed, StoreTyped, Works

\* What a request goes on with: nothing, or an entry that is in the cache, that
\* it has just looked up, or that it had.
LEMMA StepMoves ==
  ASSUME Typed, NEW t \in Tasks, TaskStep(t)
  PROVE  /\ TasksTyped' /\ Moves(t) /\ (Works \/ Fails) /\ UNCHANGED rate
         /\ key' \in [Keys -> {"none", "active", "revoked"}]
         /\ \/ task'[t] = Idle
            \/ /\ task'[t].route = task[t].route
               /\ <<task[t].step, task'[t].step>> \in
                     {<<"get", "project">>, <<"get", "db">>, <<"db", "set">>, <<"set", "project">>,
                      <<"project", "count">>, <<"count", "add">>}
               /\ \/ task'[t].entry = task[t].entry
                  \/ \E k \in Keys : task'[t].entry = cache[k]
                  \/ task'[t].entry = [rate |-> rate, cloudManaged |-> FALSE]
         /\ task'[t].step = "count" => ~(task[t].route = "sdk" /\ ~task[t].entry.cloudManaged)
         /\ task'[t].step = "add" => task'[t].count = Total(window)
<1>0. TasksTyped /\ task[t] \in TaskRecords /\ WellRead(task[t]) /\ StoreTyped
  BY DEF Typed, TasksTyped
<1> USE DEF At
<1>1. CASE InsertKey(t) \/ InvalidateAPIKeyCache(t) \/ AddToWindow(t)
  <2>1. Finish(t) /\ (Works \/ Fails) /\ UNCHANGED rate
    BY <1>1 DEF InsertKey, InvalidateAPIKeyCache, AddToWindow, Works
  <2>2. key' \in [Keys -> {"none", "active", "revoked"}]
    BY <1>0, <1>1 DEF InsertKey, InvalidateAPIKeyCache, AddToWindow, StoreTyped, WellRead, KeySteps
  <2> QED BY <1>0, <2>1, <2>2, FinishTyped, IdleTyped
<1>2. CASE CacheGet(t)
  <2>1. PICK k \in Keys : k = task[t].key
    BY <1>0, <1>2 DEF CacheGet, WellRead, KeySteps
  <2>2. UNCHANGED <<key, rate>> /\ (Works \/ Fails) /\ task[t].step = "get"
    BY <1>2 DEF CacheGet
  <2>3. CASE Goto(t, "db")
    BY <1>0, <2>1, <2>2, <2>3, GotoTyped DEF Steps, KeySteps, EntrySteps, StoreTyped
  <2>4. CASE cache[k] # NoEntry /\ task' = [task EXCEPT ![t].step = "project", ![t].entry = cache[k]]
    <3>1. cache[k] \in Entries
      BY <1>0, <2>4 DEF StoreTyped
    <3> DEFINE n == [task[t] EXCEPT !.step = "project", !.entry = cache[k]]
    <3>2. n \in TaskRecords /\ n.step = "project" /\ n.entry = cache[k] /\ n.route = task[t].route
      BY <1>0, <3>1 DEF TaskRecords, Steps
    <3>3. WellRead(n)
      BY <3>1, <3>2 DEF WellRead, KeySteps
    <3>4. task' = [task EXCEPT ![t] = n]
      BY <2>4
    <3> HIDE DEF n
    <3>5. TasksTyped' /\ Moves(t) /\ task'[t] = n
      BY <1>0, <3>2, <3>3, <3>4, MoveTyped
    <3> QED BY <1>0, <2>2, <3>2, <3>5 DEF StoreTyped
  <2> QED BY <1>2, <2>1, <2>3, <2>4 DEF CacheGet
<1>3. CASE LookUp(t)
  <2>1. PICK k \in Keys : k = task[t].key
    BY <1>0, <1>3 DEF LookUp, WellRead, KeySteps
  <2>2. UNCHANGED <<key, rate>> /\ (Works \/ Fails) /\ task[t].step = "db"
    BY <1>3 DEF LookUp
  <2>3. CASE Finish(t)
    BY <1>0, <2>2, <2>3, FinishTyped, IdleTyped DEF StoreTyped
  <2> DEFINE e == [rate |-> rate, cloudManaged |-> FALSE]
  <2>4. CASE task' = [task EXCEPT ![t].step = "set", ![t].entry = e]
    <3>1. e \in Entries
      BY <1>0 DEF StoreTyped, Entries
    <3> DEFINE n == [task[t] EXCEPT !.step = "set", !.entry = e]
    <3>2. task' = [task EXCEPT ![t] = n]
      BY <2>4
    <3> HIDE DEF e
    <3>3. n \in TaskRecords /\ n.step = "set" /\ n.entry = e /\ n.route = task[t].route /\ n.key = k
      BY <1>0, <2>1, <3>1 DEF TaskRecords, Steps
    <3>4. WellRead(n)
      BY <3>1, <3>3 DEF WellRead
    <3> HIDE DEF n
    <3>5. TasksTyped' /\ Moves(t) /\ task'[t] = n
      BY <1>0, <3>2, <3>3, <3>4, MoveTyped
    <3> QED BY <1>0, <2>2, <3>3, <3>5 DEF StoreTyped, e
  <2> QED BY <1>3, <2>1, <2>3, <2>4 DEF LookUp, GetAPIKeyByKey
<1>4. CASE CacheSet(t)
  <2>1. Goto(t, "project") /\ UNCHANGED <<key, rate>> /\ (Works \/ Fails) /\ task[t].step = "set"
    BY <1>4 DEF CacheSet
  <2>2. task[t].entry \in Entries
    BY <1>0, <2>1 DEF WellRead, EntrySteps
  <2> QED BY <1>0, <2>1, <2>2, GotoTyped DEF Steps, KeySteps, StoreTyped
<1>5. CASE CheckProject(t)
  <2>1. UNCHANGED <<key, rate>> /\ Works /\ task[t].step = "project"
    BY <1>5 DEF CheckProject, Works
  <2>2. CASE Finish(t)
    BY <1>0, <2>1, <2>2, FinishTyped, IdleTyped DEF StoreTyped
  <2>3. CASE Goto(t, "count") /\ ~(task[t].route = "sdk" /\ ~task[t].entry.cloudManaged)
    <3>1. task[t].entry \in Entries
      BY <1>0, <2>1 DEF WellRead, EntrySteps
    <3> QED BY <1>0, <2>1, <2>3, <3>1, GotoTyped DEF Steps, KeySteps, StoreTyped
  <2> QED BY <1>5, <2>2, <2>3 DEF CheckProject
<1>6. CASE CountWindow(t)
  <2>1. UNCHANGED <<key, rate>> /\ (Works \/ Fails) /\ task[t].step = "count"
    BY <1>6 DEF CountWindow
  <2>2. CASE Finish(t)
    BY <1>0, <2>1, <2>2, FinishTyped, IdleTyped DEF StoreTyped
  <2>3. CASE task' = [task EXCEPT ![t].step = "add", ![t].count = Total(window)]
    <3>1. task[t].entry \in Entries /\ Total(window) \in Nat
      BY <1>0, <2>1 DEF WellRead, EntrySteps, StoreTyped, Windows, Total
    <3> DEFINE n == [task[t] EXCEPT !.step = "add", !.count = Total(window)]
    <3>2. /\ n \in TaskRecords /\ n.step = "add" /\ n.entry = task[t].entry /\ n.route = task[t].route
          /\ n.count = Total(window)
      BY <1>0, <3>1 DEF TaskRecords, Steps
    <3>3. WellRead(n)
      BY <3>1, <3>2 DEF WellRead, KeySteps
    <3>4. task' = [task EXCEPT ![t] = n]
      BY <2>3
    <3> HIDE DEF n
    <3>5. TasksTyped' /\ Moves(t) /\ task'[t] = n
      BY <1>0, <3>2, <3>3, <3>4, MoveTyped
    <3> QED BY <1>0, <2>1, <3>2, <3>5 DEF StoreTyped
  <2> QED BY <1>6, <2>2, <2>3 DEF CountWindow
<1> QED BY <1>1, <1>2, <1>3, <1>4, <1>5, <1>6 DEF TaskStep

LEMMA CacheWrites ==
  ASSUME Typed, NEW t \in Tasks, TaskStep(t)
  PROVE  /\ cache' \in [Keys -> Entries \cup {NoEntry}]
         /\ \A k \in Keys : cache'[k] \in {cache[k], NoEntry, task[t].entry}
<1>0. cache \in [Keys -> Entries \cup {NoEntry}] /\ WellRead(task[t])
  BY DEF Typed, TasksTyped, StoreTyped
<1>1. CASE InvalidateAPIKeyCache(t) \/ CacheSet(t)
  <2>1. PICK k \in Keys : k = task[t].key
    BY <1>0, <1>1 DEF InvalidateAPIKeyCache, CacheSet, At, WellRead, KeySteps
  <2>2. CASE CacheSet(t)
    <3>1. task[t].entry \in Entries
      BY <1>0, <2>2 DEF CacheSet, At, WellRead, EntrySteps
    <3> QED BY <1>0, <2>1, <2>2, <3>1 DEF CacheSet
  <2>3. CASE InvalidateAPIKeyCache(t)
    BY <1>0, <2>1, <2>3 DEF InvalidateAPIKeyCache
  <2> QED BY <1>1, <2>2, <2>3
<1> QED BY <1>0, <1>1 DEF TaskStep, InsertKey, CacheGet, LookUp, CheckProject, CountWindow, AddToWindow

\* The limiter's two steps, as the other requests see them.
LEMMA WindowWrites ==
  ASSUME Typed, NEW t \in Tasks, TaskStep(t)
  PROVE  /\ window' \in Windows /\ admitted' \in Windows
         /\ window'.old = window.old /\ admitted'.old = admitted.old
         /\ \/ UNCHANGED <<window, admitted>> /\ (t \in Passing => FALSE)
            \/ UNCHANGED window /\ admitted'.new = admitted.new + 1 /\ faults' = faults + 1 /\ t \notin Passing
            \/ window'.new = window.new + 1 /\ UNCHANGED admitted /\ t \notin Passing
            \/ window'.new = window.new + 1 /\ admitted'.new = admitted.new + 1 /\ t \in Passing
<1>0. window \in Windows /\ admitted \in Windows
  BY DEF Typed, StoreTyped
<1>1. CASE CountWindow(t) /\ ~UNCHANGED admitted
  BY <1>0, <1>1 DEF CountWindow, Windows, Fails, Passing, At
<1>2. CASE AddToWindow(t)
  BY <1>0, <1>2 DEF AddToWindow, Windows, Passing, At
<1>3. CASE ~AddToWindow(t) /\ UNCHANGED <<window, admitted>>
  <2>1. task[t].step # "add"
    BY <1>3 DEF TaskStep, InsertKey, InvalidateAPIKeyCache, CacheGet, LookUp, CacheSet, CheckProject, CountWindow, At
  <2> QED BY <1>0, <1>3, <2>1 DEF Passing, At
<1> QED BY <1>1, <1>2, <1>3
     DEF TaskStep, InsertKey, InvalidateAPIKeyCache, CacheGet, LookUp, CacheSet, CheckProject, CountWindow

LEMMA NextTyped == Typed /\ [Next]_vars => Typed'
<1> SUFFICES ASSUME Typed, [Next]_vars PROVE Typed'
  OBVIOUS
<1> USE DEF Typed
<1>1. ASSUME NEW t \in Tasks, TaskStep(t) PROVE Typed'
  <2>1. faults' \in 0..MaxFaults
    BY <1>1, StepMoves, FailsTyped DEF StoreTyped
  <2> QED BY <1>1, <2>1, StepMoves, CacheWrites, WindowWrites DEF StoreTyped
<1>2. ASSUME NEW t \in Tasks, NEW k \in Keys, Arrives(t, k) PROVE Typed'
  <2>1. faults' \in 0..MaxFaults
    BY <1>2, ArrivalMoves, FailsTyped DEF StoreTyped
  <2> QED BY <1>2, <2>1, ArrivalMoves DEF StoreTyped
<1>3. ASSUME NEW k \in Keys, Expire(k) PROVE Typed'
  BY <1>3 DEF Expire, StoreTyped, TasksTyped
<1>4. CASE MarkOrgPurchased
  BY <1>4 DEF MarkOrgPurchased, StoreTyped, TasksTyped
<1>5. CASE Tick
  BY <1>5 DEF Tick, StoreTyped, TasksTyped, Windows
<1>6. CASE UNCHANGED vars
  BY <1>6 DEF vars, StoreTyped, TasksTyped
<1> QED BY <1>1, <1>2, <1>3, <1>4, <1>5, <1>6 DEF Next, Arrives
-----------------------------------------------------------------------------
\* The limiter.

LEMMA PassingCount ==
  /\ IsFiniteSet(Passing) /\ Cardinality(Passing) \in Nat /\ Cardinality(Passing) <= Cardinality(Tasks)
  /\ Cardinality(Passing') \in Nat /\ Cardinality(Passing') <= Cardinality(Tasks)
  /\ Cardinality(Tasks) \in Nat /\ Cardinality(Tasks) >= 1
<1>1. Passing \subseteq Tasks /\ Passing' \subseteq Tasks
  BY DEF Passing
<1>2. Cardinality(Tasks) \in Nat /\ Cardinality(Tasks) >= 1
  BY TasksAssumption, FS_CardinalityType, FS_EmptySet
<1> QED BY <1>1, <1>2, TasksAssumption, FS_Subset, FS_CardinalityType

LEMMA InitRates == Init => RateInv
<1> SUFFICES ASSUME Init PROVE RateInv
  OBVIOUS
<1>0. rate \in Nat /\ rate = FreeRate /\ faults = 0
  BY Rates DEF Init
<1>1. \A t \in Tasks : task[t] = Idle
  BY DEF Init
<1>2. StaleInv
  BY <1>1, IdleTyped, NoEntryApart DEF Init, StaleInv, Stale
<1>3. WindowInv /\ Total(admitted) = 0
  BY <1>0 DEF Init, WindowInv, Total
<1>4. Passing = {}
  BY <1>1, IdleTyped DEF Passing, At
<1>5. PassInv
  BY <1>0, <1>3, <1>4, PassingCount, FS_EmptySet DEF PassInv
<1>6. NoCloudKeyServed
  BY <1>1, IdleTyped DEF NoCloudKeyServed
<1> QED BY <1>2, <1>3, <1>5, <1>6 DEF RateInv

\* Whether the other requests will be let through does not depend on this one.
LEMMA PassingMoves ==
  ASSUME NEW t \in Tasks, Moves(t)
  PROVE  /\ t \notin Passing /\ t \notin Passing' => Cardinality(Passing') = Cardinality(Passing)
         /\ t \in Passing /\ t \notin Passing' => Cardinality(Passing') = Cardinality(Passing) - 1
<1>1. \A s \in Tasks \ {t} : s \in Passing' <=> s \in Passing
  BY DEF Passing, Moves, At, Allowed
<1>2. Passing \subseteq Tasks /\ Passing' \subseteq Tasks
  BY DEF Passing
<1>3. CASE t \notin Passing /\ t \notin Passing'
  <2>1. Passing' = Passing
    BY <1>1, <1>2, <1>3
  <2> QED BY <1>3, <2>1
<1>4. CASE t \in Passing /\ t \notin Passing'
  <2>1. Passing' = Passing \ {t}
    BY <1>1, <1>2, <1>4
  <2> QED BY <1>4, <2>1, PassingCount, FS_RemoveElement
<1> QED BY <1>3, <1>4

LEMMA StepRates ==
  ASSUME Typed, Typed', RateInv, NEW t \in Tasks, TaskStep(t)
  PROVE  RateInv'
<1>0. /\ rate \in Nat /\ UNCHANGED rate /\ faults \in Nat /\ faults' \in Nat /\ faults' >= faults
      /\ window.old \in Nat /\ window.new \in Nat /\ admitted.old \in Nat /\ admitted.new \in Nat
      /\ window'.old \in Nat /\ window'.new \in Nat /\ admitted'.old \in Nat /\ admitted'.new \in Nat
  BY StepMoves, FailsTyped, Rates DEF Typed, StoreTyped, Windows
<1>1. Moves(t)
  BY StepMoves
<1>2. StaleInv'
  <2>1. \A e : Stale(e) => Stale(e)'
    BY <1>0 DEF Stale
  <2>2. Stale(NoEntry)
    BY NoEntryApart DEF Stale
  <2>3. Stale([rate |-> rate, cloudManaged |-> FALSE])
    BY <1>0 DEF Stale
  <2>4. Stale(task'[t].entry)
    BY <2>2, <2>3, StepMoves, IdleTyped DEF RateInv, StaleInv
  <2>5. \A k \in Keys : Stale(cache'[k])
    BY <2>2, CacheWrites DEF RateInv, StaleInv
  <2> QED BY <1>0, <1>1, <2>4, <2>5 DEF StaleInv, Moves, RateInv, Stale
<1>3. WindowInv'
  BY <1>0, WindowWrites DEF RateInv, WindowInv, Total
<1>4. PassInv'
  <2>1. CASE t \notin Passing'
    BY <1>0, <1>1, <2>1, WindowWrites, PassingMoves, PassingCount DEF RateInv, PassInv, Total
  <2>2. CASE t \in Passing'
    <3>1. task'[t].step = "add" /\ task'[t].count < task'[t].entry.rate
      BY <2>2 DEF Passing, At, Allowed
    <3>2. task'[t].count = Total(window)
      BY <3>1, StepMoves
    <3>3. task'[t].entry \in Entries
      BY <3>1 DEF Typed, TasksTyped, WellRead, EntrySteps
    <3>4. task'[t].entry.rate <= rate /\ task'[t].entry.rate \in Nat
      BY <1>0, <1>2, <3>3, Rates DEF StaleInv, Stale, Entries
    <3>5. UNCHANGED <<window, admitted>>
      <4>1. task[t].step = "count"
        BY <3>1, StepMoves, IdleTyped
      <4>2. ~Finish(t)
        BY <3>1, FinishTyped, IdleTyped DEF Typed
      <4> QED BY <4>1, <4>2
           DEF TaskStep, InsertKey, InvalidateAPIKeyCache, CacheGet, LookUp, CacheSet, CheckProject, CountWindow,
               AddToWindow, At
    <3>6. Total(window) < rate /\ Total(admitted) <= Total(window) + faults
      BY <1>0, <3>1, <3>2, <3>4 DEF RateInv, WindowInv, Total
    <3> QED BY <1>0, <3>5, <3>6, PassingCount DEF PassInv, Total
  <2> QED BY <2>1, <2>2
<1>5. NoCloudKeyServed'
  <2>1. task'[t].step \in {"count", "add"} => task'[t].route # "sdk"
    <3>1. CASE task'[t].step = "count"
      <4>1. task[t].step = "project" /\ task'[t].route = task[t].route
        BY <3>1, StepMoves, IdleTyped
      <4>2. task[t].entry \in Entries
        BY <4>1 DEF Typed, TasksTyped, WellRead, EntrySteps
      <4> QED BY <3>1, <4>1, <4>2, StepMoves DEF Entries
    <3>2. CASE task'[t].step = "add"
      BY <3>2, StepMoves, IdleTyped DEF RateInv, NoCloudKeyServed
    <3> QED BY <3>1, <3>2
  <2> QED BY <1>1, <2>1 DEF RateInv, NoCloudKeyServed, Moves
<1> QED BY <1>2, <1>3, <1>4, <1>5 DEF RateInv

LEMMA NextRates == Typed /\ Typed' /\ RateInv /\ [Next]_vars => RateInv'
<1> SUFFICES ASSUME Typed, Typed', RateInv, [Next]_vars PROVE RateInv'
  OBVIOUS
<1>0. /\ rate \in Nat /\ faults \in Nat
      /\ window.old \in Nat /\ window.new \in Nat /\ admitted.old \in Nat /\ admitted.new \in Nat
  BY Rates DEF Typed, StoreTyped, Windows
<1>1. ASSUME NEW t \in Tasks, NEW k \in Keys, Arrives(t, k) PROVE RateInv'
  <2>1. /\ UNCHANGED <<rate, cache, window, admitted>> /\ Moves(t) /\ task[t].step = "idle"
        /\ task'[t].step \in {"insert", "invalidate", "get"} /\ task'[t].entry = NoEntry
    BY <1>1, ArrivalMoves
  <2>a. faults' >= faults /\ faults' \in Nat
    BY <1>1, ArrivalMoves, FailsTyped, Rates DEF Typed, StoreTyped
  <2>2. t \notin Passing /\ t \notin Passing'
    BY <2>1 DEF Passing, At
  <2>3. PassInv'
    BY <1>0, <2>1, <2>a, <2>2, PassingMoves, PassingCount DEF RateInv, PassInv, Total
  <2>4. Stale(NoEntry)
    BY NoEntryApart DEF Stale
  <2>5. StaleInv'
    BY <2>1, <2>4 DEF RateInv, StaleInv, Stale, Moves
  <2>6. WindowInv' /\ NoCloudKeyServed'
    BY <1>0, <2>1, <2>a DEF RateInv, WindowInv, NoCloudKeyServed, Total, Moves
  <2> QED BY <2>3, <2>5, <2>6 DEF RateInv
<1>2. ASSUME NEW k \in Keys, Expire(k) PROVE RateInv'
  <2>1. UNCHANGED <<rate, window, admitted, task, faults>> /\ \A q \in Keys : cache'[q] \in {cache[q], NoEntry}
    BY <1>2 DEF Expire, Typed, StoreTyped
  <2>2. StaleInv'
    BY <2>1, NoEntryApart DEF RateInv, StaleInv, Stale
  <2> QED BY <2>1, <2>2 DEF RateInv, WindowInv, PassInv, Passing, At, Allowed, NoCloudKeyServed, Total
<1>3. CASE MarkOrgPurchased
  <2>1. UNCHANGED <<cache, window, admitted, task, faults>> /\ rate' >= rate /\ rate' \in Nat
    BY <1>3, Rates DEF MarkOrgPurchased
  <2>2. Passing' = Passing
    BY <2>1 DEF Passing, At, Allowed
  <2>3. StaleInv'
    <3>1. \A e : Stale(e) => Stale(e)'
      <4> SUFFICES ASSUME NEW e \in Entries, e.rate <= rate PROVE e.rate <= rate'
        BY DEF Stale
      <4>1. e.rate \in Nat
        BY Rates DEF Entries
      <4> QED BY <1>0, <2>1, <4>1
    <3> QED BY <2>1, <3>1 DEF RateInv, StaleInv, Stale
  <2>4. PassInv'
    BY <1>0, <2>1, <2>2, PassingCount DEF RateInv, PassInv, Total
  <2> QED BY <2>1, <2>3, <2>4 DEF RateInv, WindowInv, NoCloudKeyServed, Total
<1>4. CASE Tick
  <2>1. /\ UNCHANGED <<cache, rate, task, faults>>
        /\ window'.old = window.new /\ window'.new = 0 /\ admitted'.old = admitted.new /\ admitted'.new = 0
    BY <1>4 DEF Tick
  <2>2. Passing' = Passing
    BY <2>1 DEF Passing, At, Allowed
  <2>3. WindowInv' /\ PassInv'
    BY <1>0, <2>1, <2>2, PassingCount DEF RateInv, WindowInv, PassInv, Total
  <2> QED BY <2>1, <2>3 DEF RateInv, StaleInv, Stale, NoCloudKeyServed
<1>5. CASE UNCHANGED vars
  BY <1>5 DEF vars, RateInv, StaleInv, Stale, WindowInv, PassInv, Passing, At, Allowed, NoCloudKeyServed, Total
<1> QED BY <1>1, <1>2, <1>3, <1>4, <1>5, StepRates DEF Next, Arrives

\* The sliding window lets through at most the limit, one more for each other
\* request between its ZCARD and its ZADD, and those that a failing Redis let
\* through: whatever the limit a request was admitted under was when cached.
THEOREM RatesBounded == Spec => []RateBounded
<1>1. Typed /\ RateInv => RateBounded
  <2> SUFFICES ASSUME Typed, RateInv PROVE RateBounded
    OBVIOUS
  <2>1. rate \in Nat /\ faults \in Nat /\ Total(admitted) \in Nat
    BY Rates DEF Typed, StoreTyped, Windows, Total
  <2> QED BY <2>1, PassingCount DEF RateInv, PassInv, RateBounded
<1> QED BY <1>1, InitTyped, NextTyped, InitRates, NextRates, PTL DEF Spec

\* No request on the SDK routes gets past SDKAuth, whatever is cached and however
\* lookups, revocations and expiry interleave: no lookup yields cloud_managed.
THEOREM SDKRefuses == Spec => []NoCloudKeyServed
<1>1. RateInv => NoCloudKeyServed
  BY DEF RateInv
<1> QED BY <1>1, InitTyped, NextTyped, InitRates, NextRates, PTL DEF Spec
-----------------------------------------------------------------------------
\* The number of keys.

Inserting == {t \in Tasks : At(t, "insert")}

KeyInv ==
    /\ IsFiniteSet(ListAPIKeys)
    /\ Cardinality(ListAPIKeys) + Cardinality(Inserting) <= MaxKeys + (Cardinality(Tasks) - 1) + faults

LEMMA InsertingCount ==
  /\ IsFiniteSet(Inserting) /\ Cardinality(Inserting) \in Nat
  /\ Cardinality(Inserting') \in Nat /\ Cardinality(Inserting') <= Cardinality(Tasks)
<1>1. Inserting \subseteq Tasks /\ Inserting' \subseteq Tasks
  BY DEF Inserting
<1> QED BY <1>1, TasksAssumption, FS_Subset, FS_CardinalityType

LEMMA InsertingMoves ==
  ASSUME NEW t \in Tasks, Moves(t), task'[t].step # "insert"
  PROVE  /\ Cardinality(Inserting') <= Cardinality(Inserting)
         /\ task[t].step = "insert" => Cardinality(Inserting') = Cardinality(Inserting) - 1
<1>1. Inserting' = Inserting \ {t}
  BY DEF Inserting, Moves, At
<1>2. t \in Inserting <=> task[t].step = "insert"
  BY DEF Inserting, At
<1>3. CASE t \in Inserting
  <2>1. Cardinality(Inserting') = Cardinality(Inserting) - 1
    BY <1>1, <1>3, InsertingCount, FS_RemoveElement
  <2> QED BY <2>1, InsertingCount
<1>4. CASE t \notin Inserting
  <2>1. Inserting' = Inserting
    BY <1>1, <1>4
  <2> QED BY <1>2, <1>4, <2>1, InsertingCount
<1> QED BY <1>3, <1>4

LEMMA InsertingGrows ==
  ASSUME NEW t \in Tasks, Moves(t)
  PROVE  Cardinality(Inserting') <= Cardinality(Inserting) + 1
<1>1. Inserting' \subseteq Inserting \cup {t}
  BY DEF Inserting, Moves, At
<1> DEFINE S == Inserting
<1>2. IsFiniteSet(S) /\ Cardinality(S) \in Nat
  BY InsertingCount
<1> HIDE DEF S
<1>3. IsFiniteSet(S \cup {t}) /\ Cardinality(S \cup {t}) <= Cardinality(S) + 1
  <2>1. IsFiniteSet(S \cup {t}) /\ (t \notin S => Cardinality(S \cup {t}) = Cardinality(S) + 1)
    BY <1>2, FS_AddElement
  <2>2. t \in S => S \cup {t} = S
    OBVIOUS
  <2> QED BY <1>2, <2>1, <2>2
<1>4. Inserting' \subseteq S \cup {t}
  BY <1>1 DEF S
<1>5. Cardinality(Inserting') <= Cardinality(S \cup {t})
  BY <1>3, <1>4, FS_Subset
<1>6. Cardinality(S \cup {t}) \in Nat
  BY <1>3, FS_CardinalityType
<1>7. Cardinality(Inserting') <= Cardinality(S) + 1
  BY <1>2, <1>3, <1>5, <1>6, InsertingCount
<1> QED BY <1>7 DEF S

LEMMA InitKeys == Init => KeyInv
<1> SUFFICES ASSUME Init PROVE KeyInv
  OBVIOUS
<1>1. ListAPIKeys = {} /\ Inserting = {}
  BY IdleTyped DEF Init, ListAPIKeys, Inserting, At
<1>2. IsFiniteSet(ListAPIKeys) /\ Cardinality(ListAPIKeys) = 0 /\ Cardinality(Inserting) = 0
  BY <1>1, FS_EmptySet
<1>3. Cardinality(Tasks) \in Nat /\ Cardinality(Tasks) # 0
  BY TasksAssumption, FS_CardinalityType, FS_EmptySet
<1>4. 0 + 0 <= MaxKeys + (Cardinality(Tasks) - 1) + 0
  BY <1>3, RatesAssumption
<1> QED BY <1>2, <1>4 DEF KeyInv, Init

\* Steps that neither list nor insert.
LEMMA KeysKept ==
  ASSUME KeyInv, NEW t \in Tasks, Moves(t), task'[t].step # "insert", UNCHANGED key,
         faults \in Nat, faults' \in Nat, faults' >= faults
  PROVE  KeyInv'
<1>1. ListAPIKeys' = ListAPIKeys
  BY DEF ListAPIKeys
<1> DEFINE L == Cardinality(ListAPIKeys)
<1>2. L \in Nat /\ Cardinality(Tasks) \in Nat /\ MaxKeys \in Nat
  BY FS_CardinalityType, PassingCount, RatesAssumption DEF KeyInv
<1>3. L + Cardinality(Inserting) <= MaxKeys + (Cardinality(Tasks) - 1) + faults
  BY DEF KeyInv
<1> HIDE DEF L
<1>4. L + Cardinality(Inserting') <= MaxKeys + (Cardinality(Tasks) - 1) + faults'
  BY <1>2, <1>3, InsertingMoves, InsertingCount
<1> QED BY <1>1, <1>4 DEF KeyInv, L

LEMMA NextKeys == Typed /\ KeyInv /\ [Next]_vars => KeyInv'
<1> SUFFICES ASSUME Typed, KeyInv, [Next]_vars PROVE KeyInv'
  OBVIOUS
<1>f. faults \in Nat /\ (Works \/ Fails => faults' \in Nat /\ faults' >= faults)
  BY FailsTyped, Rates DEF Typed, StoreTyped
<1>0. key \in [Keys -> {"none", "active", "revoked"}] /\ TasksTyped
  BY DEF Typed, StoreTyped
<1>b. MaxKeys \in Nat /\ Cardinality(Tasks) \in Nat /\ Cardinality(ListAPIKeys) \in Nat
  BY FS_CardinalityType, PassingCount, RatesAssumption DEF KeyInv
<1>1. ASSUME NEW t \in Tasks, InsertKey(t) PROVE KeyInv'
  <2>1. PICK k \in Keys : k = task[t].key
    BY <1>0, <1>1 DEF InsertKey, At, TasksTyped, WellRead, KeySteps
  <2>2. Moves(t) /\ task'[t].step # "insert" /\ task[t].step = "insert"
    BY <1>0, <1>1, FinishTyped, IdleTyped DEF InsertKey, At
  <2>a. faults' \in Nat /\ faults' >= faults
    BY <1>1, <1>f DEF InsertKey
  <2>3. CASE UNCHANGED key
    BY <1>f, <2>a, <2>2, <2>3, KeysKept
  <2>4. CASE key' = [key EXCEPT ![k] = "active"]
    <3>1. ListAPIKeys' = ListAPIKeys \cup {k}
      BY <1>0, <2>4 DEF ListAPIKeys
    <3>2. IsFiniteSet(ListAPIKeys') /\ Cardinality(ListAPIKeys') <= Cardinality(ListAPIKeys) + 1
      <4> DEFINE S == ListAPIKeys
      <4>1. IsFiniteSet(S) /\ Cardinality(S) \in Nat
        BY <1>b DEF KeyInv
      <4> HIDE DEF S
      <4>2. IsFiniteSet(S \cup {k}) /\ Cardinality(S \cup {k}) <= Cardinality(S) + 1
        <5>1. IsFiniteSet(S \cup {k})
          BY <4>1, FS_AddElement
        <5>2. CASE k \in S
          <6>1. S \cup {k} = S
            BY <5>2
          <6>2. Cardinality(S) <= Cardinality(S) + 1
            BY <4>1
          <6> QED BY <5>1, <6>1, <6>2
        <5>3. CASE k \notin S
          <6>1. Cardinality(S \cup {k}) = Cardinality(S) + 1
            BY <4>1, <5>3, FS_AddElement
          <6> QED BY <4>1, <5>1, <6>1
        <5> QED BY <5>2, <5>3
      <4> QED BY <3>1, <4>2 DEF S
    <3>3. Cardinality(ListAPIKeys') \in Nat
      BY <3>2, FS_CardinalityType
    <3>4. Cardinality(Inserting') = Cardinality(Inserting) - 1
      BY <2>2, InsertingMoves
    <3> QED BY <1>b, <1>f, <2>a, <3>2, <3>3, <3>4, InsertingCount DEF KeyInv
  <2> QED BY <1>1, <2>1, <2>3, <2>4 DEF InsertKey
<1>2. ASSUME NEW t \in Tasks, TaskStep(t), ~InsertKey(t) PROVE KeyInv'
  <2>1. UNCHANGED key
    BY <1>2 DEF TaskStep, InvalidateAPIKeyCache, CacheGet, LookUp, CacheSet, CheckProject, CountWindow, AddToWindow
  <2>2. Moves(t) /\ task'[t].step # "insert" /\ (Works \/ Fails)
    BY <1>2, StepMoves, IdleTyped
  <2> QED BY <1>f, <2>1, <2>2, KeysKept
<1>3. ASSUME NEW t \in Tasks, NEW k \in Keys, CreateAPIKey(t, k) PROVE KeyInv'
  <2>1. UNCHANGED key /\ Moves(t)
    BY <1>3, ArrivalMoves DEF CreateAPIKey, Arrives
  <2>2. ListAPIKeys' = ListAPIKeys
    BY <2>1 DEF ListAPIKeys
  <2> DEFINE L == Cardinality(ListAPIKeys)
  <2>3. L \in Nat /\ L + Cardinality(Inserting) <= MaxKeys + (Cardinality(Tasks) - 1) + faults
    BY <1>b DEF KeyInv
  <2>4. CASE UnderLimit(ListAPIKeys) /\ Works
    <3>1. L < MaxKeys /\ faults' = faults
      BY <2>4 DEF UnderLimit, Works
    <3> HIDE DEF L
    <3>2. L + Cardinality(Inserting') <= MaxKeys + (Cardinality(Tasks) - 1) + faults'
      BY <1>b, <1>f, <2>3, <3>1, InsertingCount
    <3> QED BY <2>2, <3>2 DEF KeyInv, L
  <2>5. CASE Fails
    <3>1. faults' = faults + 1
      BY <2>5 DEF Fails
    <3>2. Cardinality(Inserting') <= Cardinality(Inserting) + 1
      BY <2>1, InsertingGrows
    <3> HIDE DEF L
    <3>3. L + Cardinality(Inserting') <= MaxKeys + (Cardinality(Tasks) - 1) + faults'
      BY <1>b, <1>f, <2>3, <3>1, <3>2, InsertingCount
    <3> QED BY <2>2, <3>3 DEF KeyInv, L
  <2> QED BY <1>3, <2>4, <2>5 DEF CreateAPIKey
<1>4. ASSUME NEW t \in Tasks, NEW k \in Keys, RevokeAPIKey(t, k) PROVE KeyInv'
  <2>1. Moves(t) /\ task[t].step = "idle" /\ task'[t].step = "invalidate" /\ faults' = faults
    BY <1>4, ArrivalMoves, IdleTyped DEF Arrives, RevokeAPIKey, TasksTyped, TaskRecords, Typed
  <2>2. ListAPIKeys' = ListAPIKeys \ {k} /\ k \in ListAPIKeys
    BY <1>0, <1>4 DEF RevokeAPIKey, ListAPIKeys
  <2>3. IsFiniteSet(ListAPIKeys') /\ Cardinality(ListAPIKeys') = Cardinality(ListAPIKeys) - 1
    BY <2>2, FS_RemoveElement DEF KeyInv
  <2>4. Cardinality(Inserting') <= Cardinality(Inserting)
    BY <2>1, InsertingMoves
  <2> QED BY <1>b, <1>f, <2>1, <2>3, <2>4, InsertingCount DEF KeyInv
<1>5. ASSUME NEW t \in Tasks, NEW k \in Keys, NEW r \in Routes, Auth(t, k, r) PROVE KeyInv'
  <2>1. Moves(t) /\ task'[t].step = "get" /\ UNCHANGED <<key, faults>>
    BY <1>5, ArrivalMoves, IdleTyped DEF Arrives, Auth, TasksTyped, TaskRecords, Typed
  <2> QED BY <1>f, <2>1, KeysKept
<1>6. CASE (\E k \in Keys : Expire(k)) \/ MarkOrgPurchased \/ Tick \/ UNCHANGED vars
  BY <1>6 DEF Expire, MarkOrgPurchased, Tick, vars, KeyInv, ListAPIKeys, Inserting, At
<1> QED BY <1>1, <1>2, <1>3, <1>4, <1>5, <1>6 DEF Next

\* A project has no more keys than MaxAPIKeysPerProject, one for each other
\* request that listed the keys before the INSERT of the last one, and one for
\* each list whose error CreateAPIKey discarded (cloud_handlers.go:581).
THEOREM KeysLimited == Spec => []KeysBounded
<1>1. Typed /\ KeyInv => KeysBounded
  <2> SUFFICES ASSUME Typed, KeyInv PROVE KeysBounded
    OBVIOUS
  <2>1. Cardinality(ListAPIKeys) \in Nat /\ Cardinality(Tasks) \in Nat /\ MaxKeys \in Nat /\ faults \in Nat
    BY FS_CardinalityType, PassingCount, RatesAssumption DEF KeyInv, Typed, StoreTyped
  <2> QED BY <2>1, InsertingCount DEF KeyInv, KeysBounded
<1> QED BY <1>1, InitTyped, NextTyped, InitKeys, NextKeys, PTL DEF Spec
=============================================================================
