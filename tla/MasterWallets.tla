--------------------------- MODULE MasterWallets ---------------------------
(***************************************************************************)
(* Master wallets and sweeps: sweep/sweep.go and handlers/sweep.go over    *)
(* storage/sweep.go.  Nothing here is in a transaction.  The dust          *)
(* threshold only decides whether a sweep goes on.                         *)
(***************************************************************************)
EXTENDS Relayers

VARIABLE config  \* project_sweep_config: chain, wallet, enabled

MasterInit == config = <<>>

\* GetSweepConfig, LIMIT 1 without ORDER BY: with several rows, any one.
GetSweepConfig(c) == {config[i] : i \in RowsOf(config, c)}
-----------------------------------------------------------------------------
ProvisionMasterWallet(t, c) ==
    /\ Begin(t, [Idle EXCEPT !.step = "provision", !.chain = c])
    /\ UNCHANGED <<wallet, job, faults, relayerVars, config>>

\* An existing configuration ends the request; otherwise Generate and
\* CreateWallet with user_id "_master".
FindOrGenerate(t) ==
    LET c == task[t].chain IN
    /\ At(t, {"provision"})
    /\ \/ /\ GetSweepConfig(c) = {} /\ Works
          /\ wallet' = NewWallet(c, "_master")
          /\ task' = [task EXCEPT ![t].step = "old", ![t].wallet = Len(wallet')]
       \/ /\ (GetSweepConfig(c) # {} /\ Works) \/ Fails
          /\ Finish(t) /\ UNCHANGED wallet
    /\ UNCHANGED <<job, requests, relayerVars, config>>

\* CreateMasterWallet, four statements.  Errors of the first two are ignored.
ReadOldMaster(t) ==
    LET rows == GetSweepConfig(task[t].chain)
        Old(w) == task' = [task EXCEPT ![t].step = IF w = 0 THEN "flag" ELSE "clear", ![t].other = w]
    IN  /\ At(t, {"old"})
        /\ \/ Works /\ \E r \in rows : Old(r.wallet)
           \/ Works /\ rows = {} /\ Old(0)
           \/ Fails /\ Old(0)
        /\ UNCHANGED <<wallet, job, requests, relayerVars, config>>

ClearOldMaster(t) ==
    /\ At(t, {"clear"})
    /\ \/ Works /\ wallet' = [wallet EXCEPT ![task[t].other].master = FALSE]
       \/ Fails /\ UNCHANGED wallet
    /\ Goto(t, "flag")
    /\ UNCHANGED <<job, requests, relayerVars, config>>

\* Faulty variant of FlagMaster: the UPDATE is left out.
FlagForgotten(t) ==
    /\ At(t, {"flag"})
    /\ Goto(t, "config")
    /\ UNCHANGED <<wallet, job, requests, faults, relayerVars, config>>

FlagMaster(t) ==
    /\ At(t, {"flag"})
    /\ \/ Works /\ wallet' = [wallet EXCEPT ![task[t].wallet].master = TRUE] /\ Goto(t, "config")
       \/ Fails /\ Finish(t) /\ UNCHANGED wallet
    /\ UNCHANGED <<job, requests, relayerVars, config>>

UpsertSweepConfig(t) ==
    /\ At(t, {"config"})
    /\ \/ Works /\ config' = Upsert(config, [chain |-> task[t].chain, wallet |-> task[t].wallet,
                                             enabled |-> TRUE])
       \/ Fails /\ UNCHANGED config
    /\ Finish(t)
    /\ UNCHANGED <<wallet, job, requests, relayerVars>>
-----------------------------------------------------------------------------
\* PATCH: reads the row, and writes back both fields, the one not asked for as
\* it was read.  ask is what the request says about enabled, or nothing.
UpdateSweepConfig(t, i, ask) ==
    /\ Begin(t, [Idle EXCEPT !.step = "patch", !.other = i,
                             !.flag = IF ask = {} THEN config[i].enabled ELSE ask = {TRUE}])
    /\ UNCHANGED <<wallet, job, faults, relayerVars, config>>

WriteSweepConfig(t) ==
    /\ At(t, {"patch"})
    /\ \/ Works /\ config' = [config EXCEPT ![task[t].other].enabled = task[t].flag]
       \/ Fails /\ UNCHANGED config
    /\ Finish(t)
    /\ UNCHANGED <<wallet, job, requests, relayerVars>>
-----------------------------------------------------------------------------
\* GET /users/_master/wallets lists a wallet as soon as it is inserted: requests
\* can name one that has yet to be flagged.
Unready == {task[t].wallet : t \in {s \in Tasks : At(s, {"old", "clear", "flag"})}}

\* is_master was read as false.
Accept(t, step) ==
    task' = [task EXCEPT ![t].step = step, ![t].early = task[t].wallet \in Unready]

TriggerSweep(t, w, c) ==
    /\ Begin(t, [Idle EXCEPT !.step = "source", !.chain = c, !.wallet = w])
    /\ UNCHANGED <<wallet, job, faults, relayerVars, config>>

MaySweep(w) == ~wallet[w].master

SweepSource(t) ==
    /\ At(t, {"source"})
    /\ \/ MaySweep(task[t].wallet) /\ Works /\ Accept(t, "target")
       \/ ((~MaySweep(task[t].wallet) /\ Works) \/ Fails) /\ Finish(t)
    /\ UNCHANGED <<wallet, job, requests, relayerVars, config>>

SweepTarget(t) ==
    LET rows == GetSweepConfig(task[t].chain) IN
    /\ At(t, {"target"})
    /\ \/ \E r \in rows : r.enabled /\ Works
                          /\ task' = [task EXCEPT ![t].step = "fees", ![t].other = r.wallet]
       \/ (rows = {} \/ \E r \in rows : ~r.enabled) /\ Works /\ Finish(t)
       \/ Fails /\ Finish(t)
    /\ UNCHANGED <<wallet, job, requests, relayerVars, config>>

\* assertRelayerHealthy, fetchBalance and assertAboveDustThreshold can all
\* succeed: a node has no balance for an address of the other kind, which
\* TriggerSweep does not rule out.
Sweepable(w, c) == UsableOn(w, c)

\* The relayer, then its balance and the balance to sweep.
SweepFees(t) ==
    /\ At(t, {"fees"})
    /\ \/ GetRelayerWallet(task[t].chain) # {} /\ Sweepable(task[t].wallet, task[t].chain)
          /\ Goto(t, "sweep")
       \/ Finish(t)
    /\ UNCHANGED <<wallet, job, requests, faults, relayerVars, config>>

\* buildSweepPayload: to the master wallet.
SweepPayload(t) ==
    [op |-> "sweep", chain |-> task[t].chain, from |-> task[t].wallet, to |-> task[t].other,
     entries |-> <<>>, gasless |-> TRUE, early |-> task[t].early]

CreateSweepJob(t) ==
    /\ At(t, {"sweep"})
    /\ \/ Works /\ CreateSigningJob(SweepPayload(t))
       \/ Fails /\ UNCHANGED job
    /\ Finish(t)
    /\ UNCHANGED <<wallet, requests, relayerVars, config>>

SweepStep(t) ==
    \/ FindOrGenerate(t) \/ ReadOldMaster(t) \/ ClearOldMaster(t) \/ FlagMaster(t)
    \/ UpsertSweepConfig(t) \/ WriteSweepConfig(t)
    \/ SweepSource(t) \/ SweepTarget(t) \/ SweepFees(t) \/ CreateSweepJob(t)

SweepNext ==
    \E t \in Tasks :
        \/ SweepStep(t)
        \/ \E c \in Chains : ProvisionMasterWallet(t, c) \/ \E w \in DOMAIN wallet : TriggerSweep(t, w, c)
        \/ \E i \in DOMAIN config, ask \in {{}, {TRUE}, {FALSE}} : UpdateSweepConfig(t, i, ask)
-----------------------------------------------------------------------------
Masters(c) == {w \in DOMAIN wallet : wallet[w].chain = c /\ wallet[w].user = "_master"}

Destinations == {config[i].wallet : i \in DOMAIN config}

\* "master wallets cannot be swept - they are the sweep destination" (sweep.go:135)
\* and "Master wallet attempted as sender" (API.md:1333): a wallet that funds are
\* swept to is the source of a sweep or transfer only if its is_master was read
\* before its provisioning had set it, or has been cleared by another provisioning
\* of its chain that overlapped its own.  No failing statement leads to it.  The
\* signing routes (submitJob) take a master wallet like any other.
MasterNotSender ==
    \A j \in job :
        j.op # "sign" /\ j.from \in Destinations =>
            \/ j.early
            \/ /\ ~wallet[j.from].master
               /\ Cardinality(Masters(wallet[j.from].chain)) > 1
=============================================================================
