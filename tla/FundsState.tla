----------------------------- MODULE FundsState -----------------------------
(***************************************************************************)
(* What the components that move a project's funds share: its wallets, its *)
(* signing jobs and the requests at work.  A row's id is its place in the  *)
(* table.  Each statement of a request is a step; calls of a node only     *)
(* decide whether the request goes on.                                     *)
(***************************************************************************)
EXTENDS Integers, FiniteSets, Sequences

CONSTANTS
    Chains,       \* networks: an EVM chain by its chain_id, or Solana
    NullChains,   \* Solana, whose chain_id is NULL
    NoChain,
    Versions,     \* what the operator can register: a contract with its decimals
    NoEntry,      \* no value in Redis
    Tasks,        \* requests that run at the same time
    Signers,      \* bound: the users whose wallets the signing routes are asked for
    MaxRequests,  \* bound: requests in all
    MaxFaults     \* bound: failed statements and cancelled requests

ASSUME ChainsAssumption == IsFiniteSet(Chains) /\ NullChains \subseteq Chains /\ NoChain \notin Chains
ASSUME BoundsAssumption == MaxRequests \in Nat /\ MaxFaults \in Nat

VARIABLES
    wallet,    \* wallets: the chain it was made for, user and is_master
    job,       \* signing_jobs, with what their payloads say
    task, requests, faults

stateVars == <<wallet, job, task, requests, faults>>

\* chain and wallet as in the request; other: the wallet read from a table;
\* entries: what the registry has answered so far; early, a history: is_master was
\* read while the wallet was still being provisioned.
Idle == [step |-> "idle", chain |-> NoChain, wallet |-> 0, other |-> 0,
         flag |-> FALSE, entries |-> <<>>, early |-> FALSE]

At(t, steps) == task[t].step \in steps
Goto(t, step) == task' = [task EXCEPT ![t].step = step]
Finish(t) == task' = [task EXCEPT ![t] = Idle]
Works == UNCHANGED faults
Fails == faults < MaxFaults /\ faults' = faults + 1

Begin(t, request) ==
    /\ At(t, {"idle"})
    /\ requests < MaxRequests
    /\ requests' = requests + 1
    /\ task' = [task EXCEPT ![t] = request]

\* A wallet's row has only the type of its chain: all EVM chains are alike to it.
UsableOn(w, c) == wallet[w].chain = c \/ {wallet[w].chain, c} \cap NullChains = {}

RowsOf(table, c) == {i \in DOMAIN table : table[i].chain = c}

\* Faulty variant of Upsert: a plain INSERT.
InsertAlways(table, row) == Append(table, row)

\* INSERT .. ON CONFLICT (.., chain_type, chain_id) DO UPDATE: two NULLs do not
\* conflict, so on Solana it always inserts.
Upsert(table, row) ==
    LET rows == RowsOf(table, row.chain) \ {i \in DOMAIN table : row.chain \in NullChains}
    IN  IF rows = {} THEN Append(table, row) ELSE [i \in DOMAIN table |-> IF i \in rows THEN row ELSE table[i]]

NewWallet(c, user) == Append(wallet, [chain |-> c, user |-> user, master |-> FALSE])

CreateSigningJob(j) == job' = job \cup {j}

\* The chains in some order.
ChainAt == CHOOSE s \in [1..Cardinality(Chains) -> Chains] : \A c \in Chains : \E i \in DOMAIN s : s[i] = c

\* A project with a user's wallet and a registered relayer on each chain.
StateInit ==
    /\ wallet = [i \in DOMAIN ChainAt |-> [chain |-> ChainAt[i], user |-> "user", master |-> FALSE]]
                \o [i \in DOMAIN ChainAt |-> [chain |-> ChainAt[i], user |-> "_relayer", master |-> FALSE]]
    /\ job = {}
    /\ task = [t \in Tasks |-> Idle]
    /\ requests = 0 /\ faults = 0
=============================================================================
