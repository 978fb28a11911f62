------------------------------ MODULE APIKeys ------------------------------
(***************************************************************************)
(* API keys of one cloud project: created and revoked by                   *)
(* cloud_handlers.go, cached in Redis by storage/api_key_cache.go, checked *)
(* by Auth and SDKAuth, and limited by ratelimit/limiter.go.  The second   *)
(* of the limiter's window is two half-second slots.                       *)
(***************************************************************************)
EXTENDS Integers, FiniteSets

CONSTANTS
    Keys,
    Used,              \* bound: the keys that requests come with
    Tasks,             \* requests that run at the same time
    NoKey, NoEntry,
    MaxKeys,           \* MaxAPIKeysPerProject, on testnet
    FreeRate, ProRate, \* rate_limit_rps before and after the first purchase
    MaxWindow,         \* bound: requests in one window
    MaxFaults          \* bound: failed calls of Redis and Postgres

ASSUME UsedAssumption == Used \subseteq Keys
ASSUME NamesAssumption == NoKey \notin Keys /\ NoEntry \notin [rate : Nat, cloudManaged : BOOLEAN]
ASSUME TasksAssumption == IsFiniteSet(Tasks) /\ Tasks # {}
ASSUME RatesAssumption ==
    /\ {MaxKeys, FreeRate, ProRate, MaxWindow, MaxFaults} \subseteq Nat
    /\ FreeRate <= ProRate

VARIABLES
    key,       \* api_keys: "none", "active" or "revoked"
    rate,      \* projects.rate_limit_rps
    cache,     \* Redis: the project as it was when the key was looked up
    window,    \* Redis: the limiter's set, by slot
    admitted,  \* requests let through, by slot
    task, faults

vars == <<key, rate, cache, window, admitted, task, faults>>

Routes == {"direct", "sdk"}
Idle == [step |-> "idle", key |-> NoKey, route |-> "direct", entry |-> NoEntry, count |-> 0]

Init ==
    /\ key = [k \in Keys |-> "none"]
    /\ rate = FreeRate
    /\ cache = [k \in Keys |-> NoEntry]
    /\ window = [old |-> 0, new |-> 0]
    /\ admitted = [old |-> 0, new |-> 0]
    /\ task = [t \in Tasks |-> Idle]
    /\ faults = 0

At(t, step) == task[t].step = step
Goto(t, step) == task' = [task EXCEPT ![t].step = step]
Finish(t) == task' = [task EXCEPT ![t] = Idle]
Works == UNCHANGED faults
Fails == faults < MaxFaults /\ faults' = faults + 1
Total(w) == w.old + w.new
-----------------------------------------------------------------------------
ListAPIKeys == {k \in Keys : key[k] = "active"}

\* Faulty variant of UnderLimit: > for >= in the comparison that refuses.
UnderLimitOneMore(listed) == Cardinality(listed) <= MaxKeys

UnderLimit(listed) == Cardinality(listed) < MaxKeys

\* CreateAPIKey on testnet: ListAPIKeys, and later the INSERT.  The error of the
\* list is discarded, and what a failing list returns is empty or cut short.
CreateAPIKey(t, k) ==
    /\ At(t, "idle")
    /\ key[k] = "none"
    /\ ~\E s \in Tasks : task[s].key = k
    /\ \/ UnderLimit(ListAPIKeys) /\ Works
       \/ \E listed \in SUBSET ListAPIKeys : UnderLimit(listed) /\ Fails
    /\ task' = [task EXCEPT ![t] = [Idle EXCEPT !.step = "insert", !.key = k]]
    /\ UNCHANGED <<key, rate, cache, window, admitted>>

InsertKey(t) ==
    /\ At(t, "insert")
    /\ \/ Works /\ key' = [key EXCEPT ![task[t].key] = "active"]
       \/ Fails /\ UNCHANGED key
    /\ Finish(t)
    /\ UNCHANGED <<rate, cache, window, admitted>>

\* RevokeAPIKey: the row first, then the cache entry.
RevokeAPIKey(t, k) ==
    /\ At(t, "idle")
    /\ key[k] = "active"
    /\ key' = [key EXCEPT ![k] = "revoked"]
    /\ task' = [task EXCEPT ![t] = [Idle EXCEPT !.step = "invalidate", !.key = k]]
    /\ UNCHANGED <<rate, cache, window, admitted, faults>>

\* DEL; its error is ignored, and the request may die before it.
InvalidateAPIKeyCache(t) ==
    /\ At(t, "invalidate")
    /\ \/ Works /\ cache' = [cache EXCEPT ![task[t].key] = NoEntry]
       \/ Fails /\ UNCHANGED cache
    /\ Finish(t)
    /\ UNCHANGED <<key, rate, window, admitted>>

\* MarkOrgPurchased raises the limit in the table; the cache keeps the old one.
MarkOrgPurchased ==
    /\ rate = FreeRate
    /\ rate' = ProRate
    /\ UNCHANGED <<key, cache, window, admitted, task, faults>>

\* The entry's five minutes are over.
Expire(k) ==
    /\ cache[k] # NoEntry
    /\ cache' = [cache EXCEPT ![k] = NoEntry]
    /\ UNCHANGED <<key, rate, window, admitted, task, faults>>

Tick ==
    /\ window' = [old |-> window.new, new |-> 0]
    /\ admitted' = [old |-> admitted.new, new |-> 0]
    /\ UNCHANGED <<key, rate, cache, task, faults>>
-----------------------------------------------------------------------------
\* A request with the right secret, on /wallets (Auth) or /sdk (SDKAuth).
Auth(t, k, route) ==
    /\ At(t, "idle")
    /\ k \in Used /\ key[k] # "none"
    /\ Total(window) + Cardinality({s \in Tasks : ~At(s, "idle")}) < MaxWindow
    /\ task' = [task EXCEPT ![t] = [Idle EXCEPT !.step = "get", !.key = k, !.route = route]]
    /\ UNCHANGED <<key, rate, cache, window, admitted, faults>>

\* GetAPIKeyByKeyCached: a hit ends the lookup; a miss or an error goes on.
CacheGet(t) ==
    LET e == cache[task[t].key] IN
    /\ At(t, "get")
    /\ \/ e # NoEntry /\ Works /\ task' = [task EXCEPT ![t].step = "project", ![t].entry = e]
       \/ e = NoEntry /\ Works /\ Goto(t, "db")
       \/ Fails /\ Goto(t, "db")
    /\ UNCHANGED <<key, rate, cache, window, admitted>>

\* Faulty variant of GetAPIKeyByKey: without the conditions on the key.
GetAnyAPIKeyByKey(k) == [rate |-> rate, cloudManaged |-> FALSE]

\* Active keys only; the SELECT leaves out cloud_managed and org_id, so they have
\* Go's zero values although the project's row has them set.
GetAPIKeyByKey(k) ==
    IF key[k] = "active" THEN [rate |-> rate, cloudManaged |-> FALSE] ELSE NoEntry

LookUp(t) ==
    LET e == GetAPIKeyByKey(task[t].key) IN
    /\ At(t, "db")
    /\ \/ e # NoEntry /\ Works /\ task' = [task EXCEPT ![t].step = "set", ![t].entry = e]
       \/ e = NoEntry /\ Works /\ Finish(t)
       \/ Fails /\ Finish(t)
    /\ UNCHANGED <<key, rate, cache, window, admitted>>

\* SET with the TTL; its error is ignored.
CacheSet(t) ==
    /\ At(t, "set")
    /\ \/ Works /\ cache' = [cache EXCEPT ![task[t].key] = task[t].entry]
       \/ Fails /\ UNCHANGED cache
    /\ Goto(t, "project")
    /\ UNCHANGED <<key, rate, window, admitted>>

\* Faulty variant of CheckProject: the check is left out.
CheckProjectSkipped(t) ==
    /\ At(t, "project")
    /\ Goto(t, "count")
    /\ UNCHANGED <<key, rate, cache, window, admitted, faults>>

\* SDKAuth: only cloud-managed projects.
CheckProject(t) ==
    LET forbidden == task[t].route = "sdk" /\ ~task[t].entry.cloudManaged IN
    /\ At(t, "project")
    /\ IF forbidden THEN Finish(t) ELSE Goto(t, "count")
    /\ UNCHANGED <<key, rate, cache, window, admitted, faults>>

\* Allow: a pipeline, not a transaction.  First ZREMRANGEBYSCORE and ZCARD; on
\* an error the request is let through uncounted.
CountWindow(t) ==
    /\ At(t, "count")
    /\ \/ Works /\ task' = [task EXCEPT ![t].step = "add", ![t].count = Total(window)]
          /\ UNCHANGED admitted
       \/ Fails /\ Finish(t) /\ admitted' = [admitted EXCEPT !.new = @ + 1]
    /\ UNCHANGED <<key, rate, cache, window>>

\* Faulty variant of Allowed: <= for <.
AllowedOneMore(t) == task[t].count <= task[t].entry.rate

Allowed(t) == task[t].count < task[t].entry.rate

\* Then ZADD, for a request that is turned away too.
AddToWindow(t) ==
    /\ At(t, "add")
    /\ window' = [window EXCEPT !.new = @ + 1]
    /\ admitted' = IF Allowed(t) THEN [admitted EXCEPT !.new = @ + 1] ELSE admitted
    /\ Finish(t)
    /\ UNCHANGED <<key, rate, cache, faults>>
-----------------------------------------------------------------------------
TaskStep(t) ==
    \/ InsertKey(t) \/ InvalidateAPIKeyCache(t) \/ CacheGet(t) \/ LookUp(t)
    \/ CacheSet(t) \/ CheckProject(t) \/ CountWindow(t) \/ AddToWindow(t)

Next ==
    \/ \E t \in Tasks : TaskStep(t)
    \/ \E t \in Tasks, k \in Keys :
          CreateAPIKey(t, k) \/ RevokeAPIKey(t, k) \/ \E r \in Routes : Auth(t, k, r)
    \/ \E k \in Keys : Expire(k)
    \/ MarkOrgPurchased
    \/ Tick

Spec == Init /\ [][Next]_vars

\* Requests run on, and Redis drops an entry when its TTL is over.
FairSpec ==
    /\ Spec
    /\ \A t \in Tasks : WF_vars(TaskStep(t))
    /\ \A k \in Used : WF_vars(Expire(k))
-----------------------------------------------------------------------------
\* Revoking a key "takes effect before TTL" (cloud_handlers.go:681) unless a
\* request that has read the row writes it back after the DEL; but the entry
\* then dies with its TTL and no stream of requests can renew it.  (A key that
\* is not used is never cached.)
RevokedDiesOut == \A k \in Used : key[k] = "revoked" ~> [](cache[k] = NoEntry)

\* In a window the limiter lets through at most the limit and one more for each
\* other request between its ZCARD and ZADD; only failing open adds to that
\* (limiter.go:35-48).
RateBounded == Total(admitted) <= rate + (Cardinality(Tasks) - 1) + faults

\* "testnet projects are limited to %d API keys" (cloud_handlers.go:584), but the
\* limit is compared with a list read before the INSERT: requests pass it
\* together, by fewer than they are, and one more passes for each list that fails.
KeysBounded == Cardinality(ListAPIKeys) <= MaxKeys + (Cardinality(Tasks) - 1) + faults

\* SDK routes "only serve cloud-managed projects" (sdk_auth.go:72); all keys here
\* are of such a project, and yet none of their requests on these routes gets
\* past SDKAuth, whatever is cached.
NoCloudKeyServed == \A t \in Tasks : task[t].route = "sdk" => task[t].step \notin {"count", "add"}
=============================================================================
