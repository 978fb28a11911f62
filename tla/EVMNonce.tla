------------------------------ MODULE EVMNonce ------------------------------
(***************************************************************************)
(* Transaction nonces of one EVM account: the Redis counter of             *)
(* internal/nonce/manager.go and the tasks that draw from it: RelayEVM     *)
(* (internal/relayer/relayer.go), which broadcasts, and the sign_tx_evm    *)
(* branch of worker.sign, which hands the signed transaction to the client.*)
(* The two are the same up to the signature; a relayer wallet is a wallet  *)
(* of its project, so an account can have both.                            *)
(*                                                                         *)
(* One action per Redis or RPC call.  A missing counter is 0: GET and INCR *)
(* treat the two alike.  The node (external) pools or includes at most one *)
(* transaction per nonce and reports as pending the first nonce it lacks.  *)
(***************************************************************************)
EXTENDS Naturals

CONSTANTS
    Tasks,        \* concurrent calls of RelayEVM or sign
    ChainStart,   \* the account's next nonce on chain at the start
    Errors,       \* whether calls may fail and processes may die
    MaxNonce,     \* bound: the counter
    MaxExpiries   \* bound: how often the counter is lost (24 h TTL, DEL, a Redis restart)

ASSUME ChainAssumption == ChainStart \in Nat /\ MaxNonce \in Nat /\ ChainStart <= MaxNonce
ASSUME FaultsAssumption == Errors \in BOOLEAN /\ MaxExpiries \in Nat

VARIABLES
    counter,          \* vaultkey:nonce:{chainId}:{address}, 0 when missing
    pc, nonce, read,  \* per task: next call, txNonce, pendingNonce
    pool,             \* node: nonces of the transactions it holds from ChainStart on
    signed,           \* nonces of signed transactions handed to the client
    expiries,         \* how often the counter was lost
    base, drawn       \* since the counter was last set or lost: the pending nonce
                      \* it was set to, the tasks that have drawn

taskVars == <<pc, nonce, read>>
vars == <<counter, taskVars, pool, signed, expiries, base, drawn>>

Steps == {"idle", "peek", "readInit", "setInit", "next", "sign", "broadcast", "readResync", "setResync"}

TypeOK ==
    /\ counter \in Nat
    /\ pc \in [Tasks -> Steps]
    /\ nonce \in [Tasks -> Nat]
    /\ read \in [Tasks -> Nat]
    /\ pool \in SUBSET Nat
    /\ signed \in SUBSET Nat
    /\ expiries \in Nat
    /\ base \in Nat
    /\ drawn \in SUBSET Tasks

Init ==
    /\ counter = 0
    /\ pc = [t \in Tasks |-> "idle"]
    /\ nonce = [t \in Tasks |-> 0]
    /\ read = [t \in Tasks |-> 0]
    /\ pool = {}
    /\ signed = {}
    /\ expiries = 0
    /\ base = 0
    /\ drawn = {}

Goto(t, step) == pc' = [pc EXCEPT ![t] = step]

\* eth_getTransactionCount(address, "pending"): the first nonce the node lacks.
Pending ==
    CHOOSE n \in ChainStart..(MaxNonce + 1) :
        n \notin pool /\ \A m \in ChainStart..n : m = n \/ m \in pool
-----------------------------------------------------------------------------
\* RelayEVM's balance check has passed, or a sign_tx_evm payload was parsed.
Begin(t) ==
    /\ pc[t] = "idle"
    /\ Goto(t, "peek")
    /\ UNCHANGED <<counter, nonce, read, pool, signed, expiries, base, drawn>>

\* ensureNonce: Peek is one less than the counter, 0 when it is missing.
Peek(t) ==
    /\ pc[t] = "peek"
    /\ Goto(t, IF counter > 1 THEN "next" ELSE "readInit")
    /\ UNCHANGED <<counter, nonce, read, pool, signed, expiries, base, drawn>>

\* resyncNonce: ask the node ...
EVMPendingNonce(t) ==
    /\ pc[t] \in {"readInit", "readResync"}
    /\ read' = [read EXCEPT ![t] = Pending]
    /\ Goto(t, IF pc[t] = "readInit" THEN "setInit" ELSE "setResync")
    /\ UNCHANGED <<counter, nonce, pool, signed, expiries, base, drawn>>

\* Faulty variant of SyncFromChain: seeded as the comment in Next says.
SyncToPending(t) ==
    /\ pc[t] \in {"setInit", "setResync"}
    /\ counter' = read[t]
    /\ base' = read[t]
    /\ drawn' = {}
    /\ Goto(t, IF pc[t] = "setInit" THEN "next" ELSE "idle")
    /\ UNCHANGED <<nonce, read, pool, signed, expiries>>

\* ... and force-set the counter to its answer plus one.
SyncFromChain(t) ==
    /\ pc[t] \in {"setInit", "setResync"}
    /\ counter' = read[t] + 1
    /\ base' = read[t]
    /\ drawn' = {}
    /\ Goto(t, IF pc[t] = "setInit" THEN "next" ELSE "idle")
    /\ UNCHANGED <<nonce, read, pool, signed, expiries>>

\* Faulty variant of Next: GET instead of INCR.
NextWithoutIncr(t) ==
    /\ pc[t] = "next"
    /\ counter < MaxNonce
    /\ nonce' = [nonce EXCEPT ![t] = counter]
    /\ drawn' = drawn \cup {t}
    /\ Goto(t, "sign")
    /\ UNCHANGED <<counter, read, pool, signed, expiries, base>>

\* Faulty variant of Next: DECR instead of INCR.
NextDecr(t) ==
    /\ pc[t] = "next"
    /\ counter < MaxNonce
    /\ counter' = counter - 1
    /\ nonce' = [nonce EXCEPT ![t] = counter' - 1]
    /\ drawn' = drawn \cup {t}
    /\ Goto(t, "sign")
    /\ UNCHANGED <<read, pool, signed, expiries, base>>

\* INCR, and the value it returns less one.
NextNonce(t) ==
    /\ pc[t] = "next"
    /\ counter < MaxNonce
    /\ counter' = counter + 1
    /\ nonce' = [nonce EXCEPT ![t] = counter' - 1]
    /\ drawn' = drawn \cup {t}
    /\ Goto(t, "sign")
    /\ UNCHANGED <<read, pool, signed, expiries, base>>

\* SignEVMTransaction: RelayEVM goes on to broadcast, sign_tx_evm returns what
\* it signed; an error (or a missing relayer key) resyncs the counter.
Sign(t) ==
    /\ pc[t] = "sign"
    /\ \/ Goto(t, "broadcast") /\ UNCHANGED signed
       \/ Goto(t, "idle") /\ signed' = signed \cup {nonce[t]}
       \/ Errors /\ Goto(t, "readResync") /\ UNCHANGED signed
    /\ UNCHANGED <<counter, nonce, read, pool, expiries, base, drawn>>

\* The node may take a transaction whose nonce it lacks, and refuses any other.
Acceptable(n) == n >= ChainStart /\ n \notin pool

\* EVMBroadcast: accepted; or refused (a used nonce, a gap) or not answered,
\* which resyncs the counter.
EVMBroadcast(t) ==
    /\ pc[t] = "broadcast"
    /\ \/ Acceptable(nonce[t]) /\ pool' = pool \cup {nonce[t]} /\ Goto(t, "idle")
       \/ nonce[t] # Pending /\ UNCHANGED pool /\ Goto(t, "readResync")
       \/ /\ Errors
          /\ Goto(t, "readResync")
          /\ UNCHANGED pool \/ (Acceptable(nonce[t]) /\ pool' = pool \cup {nonce[t]})
    /\ UNCHANGED <<counter, nonce, read, signed, expiries, base, drawn>>

\* The client broadcasts a transaction it got signed, whenever it likes.
ClientBroadcast(n) ==
    /\ Acceptable(n)
    /\ pool' = pool \cup {n}
    /\ UNCHANGED <<counter, taskVars, signed, expiries, base, drawn>>

\* A call fails and the task returns its error, or the process dies: what was
\* drawn is not given back.  The command in flight may have been executed.
Abandon(t) ==
    /\ Errors
    /\ pc[t] # "idle"
    /\ \/ UNCHANGED <<counter, base, drawn>>
       \/ /\ pc[t] = "next" /\ counter < MaxNonce
          /\ counter' = counter + 1
          /\ UNCHANGED <<base, drawn>>
       \/ /\ pc[t] \in {"setInit", "setResync"}
          /\ counter' = read[t] + 1 /\ base' = read[t] /\ drawn' = {}
    /\ Goto(t, "idle")
    /\ UNCHANGED <<nonce, read, pool, signed, expiries>>

\* The key expires 24 h after the last SyncFromChain, used or not.
Expire ==
    /\ expiries < MaxExpiries
    /\ counter # 0
    /\ expiries' = expiries + 1
    /\ counter' = 0
    /\ base' = 0
    /\ drawn' = {}
    /\ UNCHANGED <<taskVars, pool, signed>>

TaskStep(t) ==
    \/ Begin(t) \/ Peek(t) \/ EVMPendingNonce(t) \/ SyncFromChain(t)
    \/ NextNonce(t) \/ Sign(t) \/ EVMBroadcast(t) \/ Abandon(t)

Next ==
    \/ \E t \in Tasks : TaskStep(t)
    \/ \E n \in signed : ClientBroadcast(n)
    \/ Expire

Spec == Init /\ [][Next]_vars
-----------------------------------------------------------------------------
\* Until the counter is set again, no two tasks get the same nonce, whatever
\* fails: Next is one INCR ("every returned nonce must be unique",
\* nonce_test.go:57).
UniqueUntilResync ==
    \A t, u \in drawn : t # u => nonce[t] # nonce[u]

\* "first Next() call returns pendingNonce" (manager.go:59-60), and it does not:
\* SyncFromChain seeds the counter with one more than Next expects, so while
\* the counter is not lost the nonce the chain waits for is never drawn, however
\* tasks interleave, fail and resync: the pending nonce stays where it was and
\* no transaction of the account is ever included.
PendingNeverAdvances == expiries = 0 => Pending = ChainStart
=============================================================================
