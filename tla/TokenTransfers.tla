--------------------------- MODULE TokenTransfers ---------------------------
(***************************************************************************)
(* The token registry (stablecoin/registry.go, storage/stablecoin.go, the  *)
(* operator's handlers in admin.go) with its Redis cache, and the          *)
(* transfers and balances that read it (stablecoin/service.go).  One       *)
(* token; an entry is its contract with its decimals on a chain.           *)
(***************************************************************************)
EXTENDS MasterWallets

VARIABLES
    token,  \* stablecoin_tokens: chain, entry, enabled
    cache,  \* Redis, by key: an answer, and whether it was old when it was written
    stirred,\* history: transfers that a write of their chain's entry overlapped, or
            \* that were answered from a value Excused explains
    missed  \* history: keys whose value outlived a write, as its DEL failed or was left out

history == <<stirred, missed>>
tokenVars == <<token, cache, history>>
fundsVars == <<relayerVars, config>>

List == "list"

ASSUME ListAssumption == List \notin Chains

Keys == Chains \cup {List}
Seeded == CHOOSE v \in Versions : TRUE
Row(c, v) == [chain |-> c, entry |-> <<c, v>>, enabled |-> TRUE]

\* The migration's seed.
TokenInit ==
    /\ token = [i \in DOMAIN ChainAt |-> Row(ChainAt[i], Seeded)]
    /\ cache = [k \in Keys |-> NoEntry]
    /\ stirred = {} /\ missed = {}

Enabled == {i \in DOMAIN token : token[i].enabled}

\* What a read of the tables can return: GetStablecoinToken, LIMIT 1 without
\* ORDER BY, or ListStablecoinTokens.
Answers(k) ==
    IF k = List THEN {{token[i].entry : i \in Enabled}}
    ELSE {token[i].entry : i \in RowsOf(token, k) \cap Enabled}

\* Why a value in Redis need not be current: a reader put it there after the DEL,
\* it outlived a write, or the DEL is still to come.
Excused(k) ==
    \/ cache[k].late
    \/ k \in missed
    \/ \E t \in Tasks : At(t, {"invalidate"}) /\ k \in {task[t].chain, List}

\* The transfers that have read the entry of a chain when it is written.
Stirs(c) == stirred' = stirred \cup {s \in Tasks : task[s].chain = c /\ task[s].wallet # 0 /\ task[s].entries # <<>>}
-----------------------------------------------------------------------------
\* UpsertToken and DisableToken: the table, then DEL of the entry and the list.
UpsertToken(t, c, v) ==
    /\ Begin(t, [Idle EXCEPT !.step = "invalidate", !.chain = c])
    /\ token' = Upsert(token, Row(c, v))
    /\ Stirs(c)
    /\ UNCHANGED <<wallet, job, faults, cache, missed, fundsVars>>

\* Disable looks for its row among the enabled ones, to know the key.
DisableToken(t, i) ==
    /\ Begin(t, [Idle EXCEPT !.step = "disable", !.other = i, !.flag = token[i].enabled])
    /\ UNCHANGED <<wallet, job, faults, tokenVars, fundsVars>>

DisableStablecoinToken(t) ==
    LET i == task[t].other IN
    /\ At(t, {"disable"})
    /\ \/ /\ Works
          /\ token' = [token EXCEPT ![i].enabled = FALSE]
          /\ Stirs(token[i].chain)
          /\ missed' = missed \cup {k \in {token[i].chain, List} :
                                       token[i].enabled /\ ~task[t].flag /\ cache[k] # NoEntry}
          /\ IF task[t].flag
             THEN task' = [task EXCEPT ![t] = [Idle EXCEPT !.step = "invalidate", !.chain = token[i].chain]]
             ELSE Finish(t)
       \/ Fails /\ Finish(t) /\ UNCHANGED <<token, history>>
    /\ UNCHANGED <<wallet, job, requests, cache, fundsVars>>

\* Faulty variant of Dropped: the aggregate key is forgotten.
DroppedEntryOnly(c) == {c}

\* Faulty variant of Dropped: only the aggregate key.
DroppedListOnly(c) == {List}

Dropped(c) == {c, List}

\* The error is ignored, and the request may die before the DEL.
Invalidate(t) ==
    /\ At(t, {"invalidate"})
    /\ \/ /\ Works
          /\ cache' = [k \in Keys |-> IF k \in Dropped(task[t].chain) THEN NoEntry ELSE cache[k]]
          /\ missed' = missed \ Dropped(task[t].chain)
       \/ /\ Fails /\ UNCHANGED cache
          /\ missed' = missed \cup {k \in Dropped(task[t].chain) : cache[k] # NoEntry}
    /\ Finish(t)
    /\ UNCHANGED <<wallet, job, requests, token, stirred, fundsVars>>

\* Ten minutes are over.
ExpireEntry(k) ==
    /\ cache[k] # NoEntry
    /\ cache' = [cache EXCEPT ![k] = NoEntry]
    /\ missed' = missed \ {k}
    /\ UNCHANGED <<stateVars, token, stirred, fundsVars>>
-----------------------------------------------------------------------------
\* Balance and ListAll: one read.
ReadTokens(t, k) ==
    /\ Begin(t, [Idle EXCEPT !.step = "get", !.chain = k])
    /\ UNCHANGED <<wallet, job, faults, tokenVars, fundsVars>>

\* The checks of the request itself: on Solana always gasless.
Transferable(c, gasless) == c \in NullChains => gasless

Transfer(t, w, c, gasless) ==
    /\ Transferable(c, gasless)
    /\ Begin(t, [Idle EXCEPT !.step = "sender", !.chain = c, !.wallet = w, !.flag = gasless])
    /\ stirred' = stirred \ {t}
    /\ UNCHANGED <<wallet, job, faults, token, cache, missed, fundsVars>>

CheckSender(t) ==
    LET accepted == UsableOn(task[t].wallet, task[t].chain) /\ ~wallet[task[t].wallet].master IN
    /\ At(t, {"sender"})
    /\ \/ accepted /\ Works /\ Accept(t, "get")
       \/ ~accepted /\ Works /\ Finish(t)
       \/ Fails /\ Finish(t)
    /\ UNCHANGED <<wallet, job, requests, tokenVars, fundsVars>>

\* Where a request goes on after its nth read of the registry: a transfer reads
\* it for the decimals, for the contract whose balance it asks, and for the payload.
After(t, n) ==
    IF task[t].wallet = 0 THEN "idle"
    ELSE CASE n = 1 -> IF task[t].flag THEN "configured" ELSE "get"
           [] n = 2 -> "covered"
           [] n = 3 -> "transfer"

CacheKey(t) == task[t].chain

Answered(t, entry, step) ==
    LET more == [task[t] EXCEPT !.step = step, !.entries = Append(task[t].entries, entry)]
    IN  task' = [task EXCEPT ![t] = IF step = "idle" THEN Idle ELSE more]

CacheGet(t) ==
    LET hit == cache[CacheKey(t)] IN
    /\ At(t, {"get"})
    /\ \/ hit # NoEntry /\ Works /\ Answered(t, hit.answer, After(t, Len(task[t].entries) + 1))
          /\ stirred' = stirred \cup {s \in {t} : Excused(CacheKey(t))}
       \/ ((hit = NoEntry /\ Works) \/ Fails) /\ Goto(t, "db") /\ UNCHANGED stirred
    /\ UNCHANGED <<wallet, job, requests, token, cache, missed, fundsVars>>

ReadTable(t) ==
    LET answers == Answers(task[t].chain) IN
    /\ At(t, {"db"})
    /\ \/ Works /\ \E e \in answers : Answered(t, e, "set")
       \/ ((answers = {} /\ Works) \/ Fails) /\ Finish(t)
    /\ UNCHANGED <<wallet, job, requests, tokenVars, fundsVars>>

\* setCache; its error is ignored.
SetCache(t) ==
    LET n == Len(task[t].entries)
        answer == task[t].entries[n]
    IN  /\ At(t, {"set"})
        /\ \/ Works /\ cache' = [cache EXCEPT ![CacheKey(t)] =
                          [answer |-> answer, late |-> answer \notin Answers(task[t].chain)]]
              /\ missed' = missed \ {CacheKey(t)}
           \/ Fails /\ UNCHANGED <<cache, missed>>
        /\ IF After(t, n) = "idle" THEN Finish(t) ELSE Goto(t, After(t, n))
        /\ UNCHANGED <<wallet, job, requests, token, stirred, fundsVars>>
-----------------------------------------------------------------------------
\* assertRelayerConfigured, and assertRelayerHealthy, which reads it again.
CheckRelayer(t) ==
    LET step == IF At(t, {"configured"}) THEN "healthy" ELSE "get" IN
    /\ At(t, {"configured", "healthy"})
    /\ \/ GetRelayerWallet(task[t].chain) # {} /\ Goto(t, step)
       \/ GetRelayerWallet(task[t].chain) = {} /\ Finish(t)
       \/ At(t, {"healthy"}) /\ Finish(t)
    /\ UNCHANGED <<wallet, job, requests, faults, tokenVars, fundsVars>>

\* The sender's balance of the second entry's contract, against the amount in
\* the first entry's decimals.
CheckBalance(t) ==
    /\ At(t, {"covered"})
    /\ Goto(t, "get") \/ Finish(t)
    /\ UNCHANGED <<wallet, job, requests, faults, tokenVars, fundsVars>>

\* buildEVMPayload, buildSolanaPayload: the third entry's contract, and the amount
\* in its decimals.
TransferPayload(t) ==
    [op |-> "transfer", chain |-> task[t].chain, from |-> task[t].wallet, to |-> 0,
     entries |-> task[t].entries, gasless |-> task[t].flag, early |-> task[t].early]

CreateTransferJob(t) ==
    /\ At(t, {"transfer"})
    /\ \/ Works /\ CreateSigningJob(TransferPayload(t))
       \/ Fails /\ UNCHANGED job
    /\ Finish(t)
    /\ UNCHANGED <<wallet, requests, tokenVars, fundsVars>>

TokenStep(t) ==
    \/ DisableStablecoinToken(t) \/ Invalidate(t)
    \/ CheckSender(t) \/ CacheGet(t) \/ ReadTable(t) \/ SetCache(t)
    \/ CheckRelayer(t) \/ CheckBalance(t) \/ CreateTransferJob(t)

TokenNext ==
    \/ \E t \in Tasks :
          \/ TokenStep(t)
          \/ \E c \in Chains, v \in Versions : UpsertToken(t, c, v)
          \/ \E i \in DOMAIN token : DisableToken(t, i)
          \/ \E k \in Keys : ReadTokens(t, k)
          \/ \E w \in DOMAIN wallet, c \in Chains, g \in BOOLEAN : Transfer(t, w, c, g)
    \/ \E k \in Keys : ExpireEntry(k)
-----------------------------------------------------------------------------
\* "Cache is invalidated immediately on any write" (registry.go:17): a value in
\* Redis that the table no longer gives is about to be dropped, or a reader put it
\* there after the DEL, or the DEL of the write it outlived failed, or that write
\* was a Disable that had not yet seen its row re-enabled and so dropped nothing.
StaleExplained ==
    \A k \in Keys : cache[k] # NoEntry /\ cache[k].answer \notin Answers(k) => Excused(k)

\* The amount put in the payload is the amount that was compared, of the contract
\* whose balance was asked: when a transfer is about to create its job, its three
\* separate reads are all what the table gives, unless the operator wrote the
\* chain's entry while it ran or a read met a value that Excused explains.  What
\* was written before, and what other chains' entries do, never shows.  They are
\* one and the same entry except on Solana, where the table can hold several.
TransferConsistent ==
    \A t \in Tasks : At(t, {"transfer"}) /\ t \notin stirred =>
        \A i \in 1..3 :
            /\ task[t].entries[i] \in Answers(task[t].chain)
            /\ task[t].chain \notin NullChains => task[t].entries[i] = task[t].entries[1]
=============================================================================
