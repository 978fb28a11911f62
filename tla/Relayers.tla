------------------------------ MODULE Relayers ------------------------------
(***************************************************************************)
(* Relayer wallets: handlers/relayer.go and the relayer_wallets table of   *)
(* storage/store.go, and what the worker does with the jobs they pay for   *)
(* (worker.go with relayer/relayer.go).                                    *)
(***************************************************************************)
EXTENDS FundsState

VARIABLES
    relayer,  \* relayer_wallets: chain, wallet, active
    sent      \* history: jobs sent to a chain, and whose key signed them

relayerVars == <<relayer, sent>>

RelayersInit ==
    /\ relayer = [i \in DOMAIN ChainAt |->
                    [chain |-> ChainAt[i], wallet |-> Len(ChainAt) + i, active |-> TRUE]]
    /\ sent = {}

\* LIMIT 1: with several active rows, any one.
GetRelayerWallet(c) == {relayer[i].wallet : i \in {k \in RowsOf(relayer, c) : relayer[k].active}}

\* Validation, Generate and CreateWallet with user_id "_relayer".
RegisterRelayer(t, c) ==
    /\ Begin(t, [Idle EXCEPT !.step = "relayer", !.chain = c, !.wallet = Len(wallet) + 1])
    /\ wallet' = NewWallet(c, "_relayer")
    /\ UNCHANGED <<job, faults, relayerVars>>

CreateRelayerWallet(t) ==
    /\ At(t, {"relayer"})
    /\ \/ Works /\ relayer' = Upsert(relayer, [chain |-> task[t].chain, wallet |-> task[t].wallet,
                                               active |-> TRUE])
       \/ Fails /\ UNCHANGED relayer
    /\ Finish(t)
    /\ UNCHANGED <<wallet, job, requests, sent>>

DeactivateRelayerWallet(i) ==
    /\ requests < MaxRequests
    /\ requests' = requests + 1
    /\ relayer' = [relayer EXCEPT ![i].active = FALSE]
    /\ UNCHANGED <<wallet, job, task, faults, sent>>

\* submitJob, for the routes that sign what the client sends: any wallet of the
\* project, a master wallet too, and no look at its chain.
SubmitSign(w, c, gasless) ==
    /\ wallet[w].user \in Signers
    /\ requests < MaxRequests
    /\ requests' = requests + 1
    /\ CreateSigningJob([op |-> "sign", chain |-> c, from |-> w, to |-> 0, entries |-> <<>>,
                         gasless |-> gasless, early |-> FALSE])
    /\ UNCHANGED <<wallet, task, faults, relayerVars>>

\* RelayEVM builds and signs with the relayer's key; the user's wallet is a
\* parameter it does not use.
RelayEVM(j) == GetRelayerWallet(j.chain)

\* A token transfer needs the two token accounts, which buildSolanaPayload never
\* fills in.
buildSolanaMessage(j) == j.op # "transfer"

\* Signing for a chain of one kind fails with a key of the other.
OwnKey(j) == {w \in {j.from} : UsableOn(w, j.chain)}

\* RelaySolana has the user sign and the relayer pay the fee.
RelaySolana(j) ==
    IF GetRelayerWallet(j.chain) # {} /\ buildSolanaMessage(j) THEN OwnKey(j) ELSE {}

\* The worker's attempt that succeeds; without gasless the transaction is only
\* signed, with the wallet's own key.
RunJob(j) ==
    LET signers == CASE ~j.gasless -> OwnKey(j)
                     [] j.gasless /\ j.chain \in NullChains -> RelaySolana(j)
                     [] OTHER -> RelayEVM(j)
    IN  /\ \A s \in sent : s.job # j
        /\ \E w \in signers : sent' = sent \cup {[job |-> j, signer |-> w]}
        /\ UNCHANGED <<stateVars, relayer>>

RelayerStep(t) == CreateRelayerWallet(t)

RelayersNext ==
    \/ \E t \in Tasks : RelayerStep(t) \/ \E c \in Chains : RegisterRelayer(t, c)
    \/ \E i \in DOMAIN relayer : relayer[i].active /\ DeactivateRelayerWallet(i)
    \/ \E w \in DOMAIN wallet, c \in Chains, g \in BOOLEAN : SubmitSign(w, c, g)
    \/ \E j \in job : RunJob(j)
-----------------------------------------------------------------------------
\* "the relayer pays fees so the full balance transfers" (worker.go:281): what a
\* sweep moves is the swept wallet's, so that wallet's key signs.
SweptFromSource == \A s \in sent : s.job.op = "sweep" => s.signer = s.job.from
=============================================================================
