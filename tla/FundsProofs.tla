---------------------------- MODULE FundsProofs ----------------------------
(***************************************************************************)
(* Theorems about Funds, for any finite set of chains, any registry        *)
(* versions, any number of concurrent requests and any faults.             *)
(***************************************************************************)
EXTENDS Funds, FiniteSetTheorems, SequenceTheorems, TLAPS

Entry == Chains \X (Versions \cup {Seeded})
Found == Entry \cup SUBSET Entry

WalletRows == [chain : Chains, user : {"user", "_relayer", "_master"}, master : BOOLEAN]
ConfigRows == [chain : Chains, wallet : Nat, enabled : BOOLEAN]
RelayerRows == [chain : Chains, wallet : Nat, active : BOOLEAN]
TokenRows == [chain : Chains, entry : Entry, enabled : BOOLEAN]

Provisions == {"old", "clear", "flag", "config"}
ChainSteps == Provisions \cup
              {"provision", "source", "target", "fees", "sweep", "relayer", "invalidate", "sender",
               "configured", "healthy", "covered", "transfer"}
ReadSteps == {"get", "db", "set"}
WalletSteps == {"source", "target", "fees", "sweep", "sender", "configured", "healthy", "covered", "transfer"}
Steps == ChainSteps \cup ReadSteps \cup {"idle", "patch", "disable"}

Requests == [step : Steps, chain : Keys \cup {NoChain}, wallet : Nat, other : Nat,
             flag : BOOLEAN, entries : Seq(Found), early : BOOLEAN]

\* How many answers of the registry a request has at a step.
Reads(step) ==
    CASE step \in {"get", "db"} -> 0..2
      [] step = "set" -> 1..3
      [] step \in {"configured", "healthy"} -> {1}
      [] step = "covered" -> {2}
      [] step = "transfer" -> {3}
      [] OTHER -> {0}

WellFormed(r) ==
    /\ r.step \in ChainSteps => r.chain \in Chains
    /\ r.step \in ReadSteps => r.chain \in Keys /\ (r.wallet # 0 => r.chain \in Chains)
    /\ r.step \in WalletSteps => r.wallet # 0
    /\ Len(r.entries) \in Reads(r.step)

TasksTyped ==
    /\ task \in [Tasks -> Requests]
    /\ \A t \in Tasks : WellFormed(task[t])

TablesTyped ==
    /\ wallet \in Seq(WalletRows)
    /\ config \in Seq(ConfigRows)
    /\ relayer \in Seq(RelayerRows)
    /\ token \in Seq(TokenRows)
    /\ DOMAIN cache = Keys /\ \A k \in Keys : cache[k] # NoEntry => cache[k].answer \in Found
    /\ requests \in 0..MaxRequests /\ faults \in 0..MaxFaults

\* A request's ids are of rows that exist: rows are never deleted.
RefsTyped ==
    \A t \in Tasks :
        /\ task[t].wallet \in 0..Len(wallet)
        /\ At(t, {"disable"}) => task[t].other \in DOMAIN token
        /\ At(t, {"patch"}) => task[t].other \in DOMAIN config

Typed == TasksTyped /\ TablesTyped /\ RefsTyped

MadeFor(w, c, user) == w \in DOMAIN wallet /\ wallet[w].chain = c /\ wallet[w].user = user

\* What refers to a wallet, a request at work included, refers to one of its
\* chain that was made for that use.
UseInv ==
    /\ \A i \in DOMAIN config : MadeFor(config[i].wallet, config[i].chain, "_master")
    /\ \A i \in DOMAIN relayer : MadeFor(relayer[i].wallet, relayer[i].chain, "_relayer")
    /\ \A t \in Tasks : At(t, Provisions) => MadeFor(task[t].wallet, task[t].chain, "_master")
    /\ \A t \in Tasks : At(t, {"clear"}) => MadeFor(task[t].other, task[t].chain, "_master")
    /\ \A t \in Tasks : At(t, {"relayer"}) => MadeFor(task[t].wallet, task[t].chain, "_relayer")
    /\ \A w \in DOMAIN wallet : wallet[w].master => wallet[w].user = "_master"

Unique(table) ==
    \A i, j \in DOMAIN table :
        table[i].chain = table[j].chain /\ table[i].chain \notin NullChains => i = j

UniqueInv == Unique(config) /\ Unique(relayer) /\ Unique(token)

\* A chain where a flag can have been lost.
Doubled(c) == \E v, w \in Masters(c) : v # w

\* Steps between the check of a wallet's flag and the job.
Checked(r) ==
    \/ r.step \in {"target", "fees", "sweep"}
    \/ r.step \in ReadSteps \cup {"configured", "healthy", "covered", "transfer"} /\ r.wallet # 0

\* A wallet being provisioned is one provisioning's only, and neither funds nor
\* the UPDATE that clears a flag go to it yet.
OwnInv ==
    /\ \A s, t \in Tasks : s # t /\ At(s, Provisions) /\ At(t, Provisions) => task[t].wallet # task[s].wallet
    /\ \A i \in DOMAIN config, s \in Tasks : At(s, Provisions) => config[i].wallet # task[s].wallet
    /\ \A s, t \in Tasks : At(s, {"clear"}) /\ At(t, Provisions) => task[s].other # task[t].wallet

\* Its flag is set before it is configured, and lost only where two were made.
FlagInv ==
    /\ \A s \in Tasks : At(s, {"config"}) => wallet[task[s].wallet].master
    /\ \A i \in DOMAIN config : wallet[config[i].wallet].master \/ Doubled(wallet[config[i].wallet].chain)

\* No provisioning is to come for the wallet; it has lost its flag, or nothing is
\* swept to it.
Settled(w) ==
    /\ \A s \in Tasks : At(s, Provisions) => task[s].wallet # w
    /\ (~wallet[w].master /\ Doubled(wallet[w].chain)) \/ w \notin Destinations

Fine(w, early) == w \in DOMAIN wallet /\ (wallet[w].user = "_master" => early \/ Settled(w))

\* So the flag of a master wallet lets it pass early, or for good.
CheckedInv ==
    /\ \A t \in Tasks : Checked(task[t]) => Fine(task[t].wallet, task[t].early)
    /\ \A j \in job : j.op # "sign" => Fine(j.from, j.early)

MasterInv == OwnInv /\ FlagInv /\ CheckedInv

\* What an undisturbed transfer has read is what the table gives.
AnswerInv ==
    \A t \in Tasks, c \in Chains : task[t].wallet # 0 /\ t \notin stirred /\ c = task[t].chain =>
        \A i \in 1..Len(task[t].entries) : task[t].entries[i] \in Answers(c)

Moves(t) == \A s \in Tasks \ {t} : task'[s] = task[s]

LEMMA Bounds == MaxRequests \in Nat /\ MaxFaults \in Nat
  BY BoundsAssumption

\* The chains can be listed, each once.
LEMMA ChainAtLists ==
  /\ Cardinality(Chains) \in Nat
  /\ ChainAt \in [1..Cardinality(Chains) -> Chains]
  /\ \A i, j \in 1..Cardinality(Chains) : ChainAt[i] = ChainAt[j] => i = j
<1> DEFINE n == Cardinality(Chains)
<1>1. IsFiniteSet(Chains)
  BY ChainsAssumption
<1>2. n \in Nat /\ ExistsBijection(1..n, Chains)
  BY <1>1, FS_CardinalityType
<1>3. IsFiniteSet(1..n) /\ Cardinality(1..n) = n
  BY <1>2, FS_Interval
<1>4. \E s \in [1..n -> Chains] : \A c \in Chains : \E i \in DOMAIN s : s[i] = c
  BY <1>2 DEF ExistsBijection, Bijection, Surjection
<1>5. ChainAt \in [1..n -> Chains] /\ \A c \in Chains : \E i \in DOMAIN ChainAt : ChainAt[i] = c
  BY <1>4 DEF ChainAt
<1> HIDE DEF n
<1>6. ChainAt \in Surjection(1..n, Chains)
  BY <1>5 DEF Surjection
<1>7. ChainAt \in Injection(1..n, Chains)
  BY <1>3, <1>6, FS_SurjSameCardinalityImpliesInj DEF n
<1> QED BY <1>2, <1>5, <1>7 DEF Injection, IsInjective, n

LEMMA IdleTyped ==
  /\ Idle \in Requests /\ WellFormed(Idle)
  /\ Idle.step = "idle" /\ Idle.chain = NoChain /\ Idle.wallet = 0 /\ Idle.other = 0 /\ Idle.entries = <<>>
  /\ Idle.early = FALSE
  BY DEF Idle, Requests, WellFormed, Steps, ChainSteps, ReadSteps, WalletSteps, Provisions, Reads

LEMMA MoveTyped ==
  ASSUME TasksTyped, NEW t \in Tasks, NEW r \in Requests, WellFormed(r),
         task' = [task EXCEPT ![t] = r]
  PROVE  TasksTyped' /\ Moves(t) /\ task'[t] = r
  BY DEF TasksTyped, Moves

LEMMA FinishTyped ==
  ASSUME TasksTyped, NEW t \in Tasks, Finish(t)
  PROVE  TasksTyped' /\ Moves(t) /\ task'[t] = Idle
  BY MoveTyped, IdleTyped DEF Finish

\* A request that goes on with what it had.
Keeps(t) ==
    /\ task'[t].chain = task[t].chain /\ task'[t].wallet = task[t].wallet
    /\ task'[t].other = task[t].other /\ task'[t].flag = task[t].flag
    /\ task'[t].entries = task[t].entries

LEMMA GotoTyped ==
  ASSUME TasksTyped, NEW t \in Tasks, NEW s \in Steps, Goto(t, s),
         WellFormed([task[t] EXCEPT !.step = s])
  PROVE  TasksTyped' /\ Moves(t) /\ task'[t].step = s /\ Keeps(t)
<1> DEFINE r == [task[t] EXCEPT !.step = s]
<1>1. task[t] \in Requests
  BY DEF TasksTyped
<1>2. task' = [task EXCEPT ![t] = r]
  BY DEF Goto
<1>3. r \in Requests /\ r.step = s /\ r.chain = task[t].chain /\ r.wallet = task[t].wallet
      /\ r.other = task[t].other /\ r.flag = task[t].flag /\ r.entries = task[t].entries
  BY <1>1 DEF Requests
<1>4. WellFormed(r)
  OBVIOUS
<1> HIDE DEF r
<1> QED BY <1>2, <1>3, <1>4, MoveTyped DEF Keeps

\* What WellFormed asks of a request that keeps its fields.
LEMMA StepWellFormed ==
  ASSUME NEW r \in Requests, NEW s \in Steps,
         s \in ChainSteps => r.chain \in Chains,
         s \in ReadSteps => r.chain \in Keys /\ (r.wallet # 0 => r.chain \in Chains),
         s \in WalletSteps => r.wallet # 0,
         Len(r.entries) \in Reads(s)
  PROVE  WellFormed([r EXCEPT !.step = s])
<1> DEFINE n == [r EXCEPT !.step = s]
<1>1. n.step = s /\ n.chain = r.chain /\ n.wallet = r.wallet /\ n.entries = r.entries
  BY DEF Requests
<1> HIDE DEF n
<1>2. WellFormed(n)
  BY <1>1 DEF WellFormed
<1> QED BY <1>2 DEF n

\* An INSERT or an UPDATE of one chain's row: every row is the old one or the
\* written one, and a chain with an id keeps one row.
Upserted(T, row, U) ==
    /\ DOMAIN T \subseteq DOMAIN U
    /\ \A i \in DOMAIN U :
          \/ U[i] = row /\ (i \in DOMAIN T => T[i].chain = row.chain)
          \/ i \in DOMAIN T /\ U[i] = T[i]
    /\ Unique(T) => Unique(U)

LEMMA UpsertRows ==
  ASSUME NEW S, NEW T \in Seq(S), NEW row \in S, NEW U, U = Upsert(T, row)
  PROVE  U \in Seq(S) /\ Upserted(T, row, U)
<1> DEFINE rows == RowsOf(T, row.chain) \ {i \in DOMAIN T : row.chain \in NullChains}
<1>1. Len(T) \in Nat /\ DOMAIN T = 1..Len(T) /\ \A i \in DOMAIN T : T[i] \in S
  OBVIOUS
<1>2. CASE rows = {}
  <2>1. U = Append(T, row)
    BY <1>2 DEF Upsert
  <2>2. U \in Seq(S) /\ Len(U) = Len(T) + 1 /\ U[Len(T) + 1] = row /\ \A i \in 1..Len(T) : U[i] = T[i]
    BY <1>1, <2>1
  <2>3. DOMAIN U = 1..(Len(T) + 1)
    BY <2>2
  <2>4. \A i \in DOMAIN U : \/ U[i] = row /\ i \notin DOMAIN T
                            \/ i \in DOMAIN T /\ U[i] = T[i]
    BY <1>1, <2>2, <2>3
  <2>5. row.chain \in NullChains \/ \A i \in DOMAIN T : T[i].chain # row.chain
    BY <1>2 DEF RowsOf
  <2>6. ASSUME Unique(T) PROVE Unique(U)
    <3> SUFFICES ASSUME NEW i \in DOMAIN U, NEW j \in DOMAIN U,
                        U[i].chain = U[j].chain, U[i].chain \notin NullChains
                 PROVE  i = j
      BY DEF Unique
    <3>1. CASE i \in DOMAIN T /\ j \in DOMAIN T
      BY <2>2, <3>1, <2>6, <1>1 DEF Unique
    <3>2. CASE i \notin DOMAIN T /\ j \notin DOMAIN T
      BY <3>2, <1>1, <2>3
    <3>3. CASE i \in DOMAIN T /\ j \notin DOMAIN T
      BY <3>3, <2>4, <2>5
    <3>4. CASE i \notin DOMAIN T /\ j \in DOMAIN T
      BY <3>4, <2>4, <2>5
    <3> QED BY <3>1, <3>2, <3>3, <3>4
  <2>7. DOMAIN T \subseteq DOMAIN U /\ Len(U) >= Len(T)
    BY <1>1, <2>2, <2>3
  <2> QED BY <2>2, <2>4, <2>6, <2>7 DEF Upserted
<1>3. CASE rows # {}
  <2>1. U = [i \in DOMAIN T |-> IF i \in rows THEN row ELSE T[i]]
    BY <1>3 DEF Upsert
  <2>2. DOMAIN U = DOMAIN T /\ U \in [1..Len(T) -> S]
    BY <1>1, <2>1
  <2>3. U \in Seq(S) /\ Len(U) = Len(T)
    BY <1>1, <2>2
  <2>4. \A i \in DOMAIN U : \/ U[i] = row /\ i \in rows
                            \/ U[i] = T[i] /\ i \notin rows
    BY <2>1
  <2>5. \A i \in rows : T[i].chain = row.chain
    BY DEF RowsOf
  <2> HIDE DEF rows
  <2>6. \A i \in DOMAIN T : U[i].chain = T[i].chain
    BY <2>2, <2>4, <2>5
  <2>7. Unique(T) => Unique(U)
    BY <2>2, <2>6 DEF Unique
  <2> QED BY <1>1, <2>2, <2>3, <2>4, <2>5, <2>7 DEF Upserted
<1> QED BY <1>2, <1>3

LEMMA LenAppended ==
  ASSUME NEW S, NEW T \in Seq(S), NEW x
  PROVE  /\ Len(Append(T, x)) = Len(T) + 1 /\ DOMAIN Append(T, x) = 1..(Len(T) + 1)
         /\ Append(T, x)[Len(T) + 1] = x /\ \A i \in 1..Len(T) : Append(T, x)[i] = T[i]
<1>1. T \in Seq(S \cup {x})
  BY SeqMonotonic
<1> QED BY <1>1

\* An UPDATE of one row of a table.
Updated(T, i, row, U) ==
    /\ Len(U) = Len(T) /\ DOMAIN U = DOMAIN T
    /\ U[i] = row /\ \A k \in DOMAIN T : k # i => U[k] = T[k]

LEMMA RowUpdated ==
  ASSUME NEW S, NEW T \in Seq(S), NEW i \in DOMAIN T, NEW row \in S, NEW U, U = [T EXCEPT ![i] = row]
  PROVE  U \in Seq(S) /\ Updated(T, i, row, U)
<1>1. Len(T) \in Nat /\ DOMAIN T = 1..Len(T)
  OBVIOUS
<1>2. i \in 1..Len(T)
  BY <1>1
<1>3. U \in Seq(S) /\ Len(U) = Len(T)
  BY <1>2, ExceptSeq
<1> QED BY <1>1, <1>3 DEF Updated

LEMMA UniqueCount ==
  ASSUME NEW S, NEW T \in Seq(S), Unique(T), NEW c \in Chains \ NullChains
  PROVE  Cardinality(RowsOf(T, c)) <= 1
<1> DEFINE R == RowsOf(T, c)
<1>1. \A i, j \in R : i = j
  BY DEF Unique, RowsOf
<1> HIDE DEF R
<1>2. CASE R = {}
  BY <1>2, FS_EmptySet DEF R
<1>3. CASE R # {}
  <2>1. PICK i \in R : TRUE
    BY <1>3
  <2>2. R = {i}
    BY <1>1, <2>1
  <2>3. Cardinality(R) = 1
    BY <2>2, FS_Singleton
  <2> QED BY <2>3 DEF R
<1> QED BY <1>2, <1>3
-----------------------------------------------------------------------------
(***************************************************************************)
(* What a step does to the request that makes it.                          *)
(***************************************************************************)

LEMMA BeginTyped ==
  ASSUME Typed, NEW t \in Tasks, NEW r \in Requests, WellFormed(r), Begin(t, r)
  PROVE  /\ TasksTyped' /\ Moves(t) /\ task'[t] = r
         /\ task[t].step = "idle" /\ requests' \in 0..MaxRequests
<1>1. TasksTyped /\ requests \in 0..MaxRequests
  BY DEF Typed, TablesTyped
<1>2. task' = [task EXCEPT ![t] = r]
  BY DEF Begin
<1>3. task[t].step = "idle" /\ requests' \in 0..MaxRequests
  BY <1>1, Bounds DEF Begin, At
<1> QED BY <1>1, <1>2, <1>3, MoveTyped

Arrives(t, s, c, w) ==
    /\ TasksTyped' /\ Moves(t) /\ task[t].step = "idle" /\ requests' \in 0..MaxRequests
    /\ task'[t].step = s /\ task'[t].chain = c /\ task'[t].wallet = w
    /\ task'[t].entries = <<>>

LEMMA ChainArrives ==
  ASSUME Typed, NEW t \in Tasks, NEW c \in Chains, NEW s \in {"provision", "invalidate"},
         Begin(t, [Idle EXCEPT !.step = s, !.chain = c])
  PROVE  Arrives(t, s, c, 0)
<1> DEFINE r == [Idle EXCEPT !.step = s, !.chain = c]
<1>1. r \in Requests /\ r.step = s /\ r.chain = c /\ r.wallet = 0 /\ r.other = 0 /\ r.entries = <<>>
  BY IdleTyped DEF Requests, Steps, ChainSteps, Keys
<1> HIDE DEF r
<1>2. WellFormed(r)
  BY <1>1 DEF WellFormed, ChainSteps, ReadSteps, WalletSteps, Reads
<1> QED BY <1>1, <1>2, BeginTyped DEF Arrives, r

LEMMA ReadArrives ==
  ASSUME Typed, NEW t \in Tasks, NEW k \in Keys, ReadTokens(t, k)
  PROVE  Arrives(t, "get", k, 0)
<1> DEFINE r == [Idle EXCEPT !.step = "get", !.chain = k]
<1>1. r \in Requests /\ r.step = "get" /\ r.chain = k /\ r.wallet = 0 /\ r.other = 0 /\ r.entries = <<>>
  BY IdleTyped DEF Requests, Steps, ReadSteps, Keys
<1> HIDE DEF r
<1>2. WellFormed(r)
  BY <1>1 DEF WellFormed, ChainSteps, Provisions, ReadSteps, WalletSteps, Reads
<1>3. Begin(t, r)
  BY DEF ReadTokens, r
<1> QED BY <1>1, <1>2, <1>3, BeginTyped DEF Arrives

LEMMA WalletArrives ==
  ASSUME Typed, NEW t \in Tasks, NEW c \in Chains, NEW w \in Nat \ {0}, NEW s \in {"source", "relayer"},
         Begin(t, [Idle EXCEPT !.step = s, !.chain = c, !.wallet = w])
  PROVE  Arrives(t, s, c, w)
<1> DEFINE r == [Idle EXCEPT !.step = s, !.chain = c, !.wallet = w]
<1>1. r \in Requests /\ r.step = s /\ r.chain = c /\ r.wallet = w /\ r.other = 0 /\ r.entries = <<>>
  BY IdleTyped DEF Requests, Steps, ChainSteps, Keys
<1> HIDE DEF r
<1>2. WellFormed(r)
  BY <1>1 DEF WellFormed, ChainSteps, ReadSteps, WalletSteps, Reads
<1> QED BY <1>1, <1>2, BeginTyped DEF Arrives, r

LEMMA TransferArrives ==
  ASSUME Typed, NEW t \in Tasks, NEW c \in Chains, NEW w \in Nat \ {0}, NEW g \in BOOLEAN,
         Transfer(t, w, c, g)
  PROVE  Arrives(t, "sender", c, w)
<1> DEFINE r == [Idle EXCEPT !.step = "sender", !.chain = c, !.wallet = w, !.flag = g]
<1>1. r \in Requests
  BY IdleTyped DEF Requests, Steps, ChainSteps, Keys
<1>2. r.step = "sender" /\ r.chain = c /\ r.wallet = w /\ r.other = 0 /\ r.entries = <<>>
  BY IdleTyped DEF Requests
<1>3. Begin(t, r)
  BY DEF Transfer
<1> HIDE DEF r
<1>4. WellFormed(r)
  BY <1>2 DEF WellFormed, ChainSteps, ReadSteps, WalletSteps, Reads
<1> QED BY <1>1, <1>2, <1>3, <1>4, BeginTyped DEF Arrives

LEMMA RowArrives ==
  ASSUME Typed, NEW t \in Tasks, NEW i \in Nat, NEW f \in BOOLEAN, NEW s \in {"patch", "disable"},
         Begin(t, [Idle EXCEPT !.step = s, !.other = i, !.flag = f])
  PROVE  Arrives(t, s, NoChain, 0) /\ task'[t].other = i /\ task'[t].flag = f
<1> DEFINE r == [Idle EXCEPT !.step = s, !.other = i, !.flag = f]
<1>1. r \in Requests
  BY IdleTyped DEF Requests, Steps
<1>2. r.step = s /\ r.chain = NoChain /\ r.wallet = 0 /\ r.other = i /\ r.flag = f /\ r.entries = <<>>
  BY IdleTyped DEF Requests
<1> HIDE DEF r
<1>4. WellFormed(r)
  BY <1>2 DEF WellFormed, ChainSteps, Provisions, ReadSteps, WalletSteps, Reads
<1> QED BY <1>1, <1>2, <1>4, BeginTyped DEF Arrives, r

Ends(t) == TasksTyped' /\ Moves(t) /\ task'[t] = Idle
Goes(t, s) == TasksTyped' /\ Moves(t) /\ task'[t].step = s /\ Keeps(t)

LEMMA EndsTyped ==
  ASSUME Typed, NEW t \in Tasks, Finish(t)
  PROVE  Ends(t)
  BY FinishTyped DEF Typed, Ends

LEMMA GoesTyped ==
  ASSUME Typed, NEW t \in Tasks, NEW s \in Steps, Goto(t, s),
         s \in ChainSteps => task[t].chain \in Chains,
         s \in ReadSteps => task[t].chain \in Keys /\ (task[t].wallet # 0 => task[t].chain \in Chains),
         s \in WalletSteps => task[t].wallet # 0,
         Len(task[t].entries) \in Reads(s)
  PROVE  Goes(t, s)
<1>1. TasksTyped /\ task[t] \in Requests
  BY DEF Typed, TasksTyped
<1>2. WellFormed([task[t] EXCEPT !.step = s])
  BY <1>1, StepWellFormed
<1> QED BY <1>1, <1>2, GotoTyped DEF Goes

\* A wallet's flag was read, and the request goes on.
LEMMA AcceptTyped ==
  ASSUME Typed, NEW t \in Tasks, NEW s \in {"target", "get"}, Accept(t, s),
         task[t].step = IF s = "target" THEN "source" ELSE "sender"
  PROVE  Goes(t, s) /\ task'[t].early = (task[t].wallet \in Unready)
<1> DEFINE e == task[t].wallet \in Unready
           r == [task[t] EXCEPT !.step = s, !.early = e]
<1>1. TasksTyped /\ task[t] \in Requests /\ WellFormed(task[t])
  BY DEF Typed, TasksTyped
<1>2. task' = [task EXCEPT ![t] = r]
  BY <1>1 DEF Accept
<1>3. e \in BOOLEAN
  OBVIOUS
<1> HIDE DEF e
<1>4. r \in Requests
  BY <1>1, <1>3 DEF Requests, Steps, ChainSteps, ReadSteps
<1>5. /\ r.step = s /\ r.chain = task[t].chain /\ r.wallet = task[t].wallet /\ r.other = task[t].other
      /\ r.flag = task[t].flag /\ r.entries = task[t].entries /\ r.early = e
  BY <1>1 DEF Requests
<1> HIDE DEF r
<1>6. task[t].chain \in Chains /\ task[t].wallet # 0 /\ Len(task[t].entries) = 0
  BY <1>1 DEF WellFormed, ChainSteps, WalletSteps, Reads
<1>7. WellFormed(r)
  BY <1>5, <1>6 DEF WellFormed, ChainSteps, Provisions, ReadSteps, WalletSteps, Reads, Keys
<1>8. TasksTyped' /\ Moves(t) /\ task'[t] = r
  BY <1>1, <1>2, <1>4, <1>7, MoveTyped
<1> QED BY <1>5, <1>8 DEF Goes, Keeps, e

LEMMA TaskTyped ==
  ASSUME Typed, NEW t \in Tasks
  PROVE  /\ TasksTyped /\ task[t] \in Requests /\ WellFormed(task[t])
         /\ task[t].wallet \in 0..Len(wallet) /\ Len(wallet) \in Nat
         /\ Len(task[t].entries) \in Nat
<1>1. TasksTyped /\ task[t] \in Requests /\ WellFormed(task[t])
  BY DEF Typed, TasksTyped
<1>2. wallet \in Seq(WalletRows) /\ task[t].wallet \in 0..Len(wallet) /\ task[t].entries \in Seq(Found)
  BY <1>1 DEF Typed, TablesTyped, RefsTyped, Requests
<1> QED BY <1>1, <1>2

\* Steps of a request that only end it or send it on.
LEMMA PlainEffects ==
  ASSUME Typed, NEW t \in Tasks
  PROVE  /\ ClearOldMaster(t) => task[t].step = "clear" /\ Goes(t, "flag")
         /\ FlagMaster(t) => task[t].step = "flag" /\ (Goes(t, "config") \/ Ends(t))
         /\ UpsertSweepConfig(t) => task[t].step = "config" /\ Ends(t)
         /\ WriteSweepConfig(t) => task[t].step = "patch" /\ Ends(t)
         /\ SweepSource(t) => task[t].step = "source" /\ (Goes(t, "target") \/ Ends(t))
         /\ SweepFees(t) => task[t].step = "fees" /\ (Goes(t, "sweep") \/ Ends(t))
         /\ CreateSweepJob(t) => task[t].step = "sweep" /\ Ends(t)
         /\ CreateRelayerWallet(t) => task[t].step = "relayer" /\ Ends(t)
         /\ Invalidate(t) => task[t].step = "invalidate" /\ Ends(t)
         /\ CreateTransferJob(t) => task[t].step = "transfer" /\ Ends(t)
<1>1. WellFormed(task[t])
  BY TaskTyped
<1>2. ASSUME NEW s \in {"flag", "config", "sweep"}, Goto(t, s),
             IF s \in Provisions THEN task[t].step \in Provisions ELSE task[t].step = "fees"
      PROVE  Goes(t, s)
  BY <1>1, <1>2, GoesTyped DEF WellFormed, Steps, ChainSteps, Provisions, ReadSteps, WalletSteps, Reads
<1>3. ClearOldMaster(t) => task[t].step = "clear" /\ Goes(t, "flag")
  BY <1>2 DEF ClearOldMaster, At, Provisions
<1>4. FlagMaster(t) => task[t].step = "flag" /\ (Goes(t, "config") \/ Ends(t))
  BY <1>2, EndsTyped DEF FlagMaster, At, Provisions
<1>5. SweepSource(t) => task[t].step = "source" /\ (Goes(t, "target") \/ Ends(t))
  BY AcceptTyped, EndsTyped DEF SweepSource, At
<1>6. SweepFees(t) => task[t].step = "fees" /\ (Goes(t, "sweep") \/ Ends(t))
  BY <1>2, EndsTyped DEF SweepFees, At, Provisions
<1>7. /\ UpsertSweepConfig(t) => task[t].step = "config" /\ Ends(t)
      /\ WriteSweepConfig(t) => task[t].step = "patch" /\ Ends(t)
      /\ CreateSweepJob(t) => task[t].step = "sweep" /\ Ends(t)
  BY EndsTyped DEF UpsertSweepConfig, WriteSweepConfig, CreateSweepJob, At
<1>8. /\ CreateRelayerWallet(t) => task[t].step = "relayer" /\ Ends(t)
      /\ Invalidate(t) => task[t].step = "invalidate" /\ Ends(t)
      /\ CreateTransferJob(t) => task[t].step = "transfer" /\ Ends(t)
  BY EndsTyped DEF CreateRelayerWallet, Invalidate, CreateTransferJob, At
<1> QED BY <1>3, <1>4, <1>5, <1>6, <1>7, <1>8

\* FindOrGenerate goes on with the wallet it has made.
LEMMA FindEffect ==
  ASSUME Typed, NEW t \in Tasks, FindOrGenerate(t)
  PROVE  /\ task[t].step = "provision"
         /\ \/ Ends(t) /\ UNCHANGED wallet
            \/ /\ TasksTyped' /\ Moves(t) /\ task'[t].step = "old"
               /\ wallet' = NewWallet(task[t].chain, "_master")
               /\ task'[t].chain = task[t].chain /\ task'[t].wallet = Len(wallet) + 1
               /\ task'[t].entries = task[t].entries
<1>1. task[t] \in Requests /\ WellFormed(task[t]) /\ Len(wallet) \in Nat /\ TasksTyped
  BY TaskTyped
<1>2. task[t].step = "provision"
  BY DEF FindOrGenerate, At
<1>3. CASE Finish(t) /\ UNCHANGED wallet
  BY <1>2, <1>3, EndsTyped
<1>4. CASE /\ wallet' = NewWallet(task[t].chain, "_master")
           /\ task' = [task EXCEPT ![t].step = "old", ![t].wallet = Len(wallet')]
  <2>1. Len(wallet') = Len(wallet) + 1
    <3>1. wallet \in Seq(WalletRows)
      BY DEF Typed, TablesTyped
    <3> QED BY <1>4, <3>1, LenAppended DEF NewWallet
  <2>2. PICK m \in Nat : m = Len(wallet) + 1
    BY <1>1
  <2> DEFINE r == [task[t] EXCEPT !.step = "old", !.wallet = m]
  <2>3. task' = [task EXCEPT ![t] = r]
    BY <1>1, <1>4, <2>1, <2>2
  <2>4. r \in Requests
    BY <1>1 DEF Requests, Steps, ChainSteps, Provisions
  <2>5. r.step = "old" /\ r.chain = task[t].chain /\ r.wallet = m /\ r.entries = task[t].entries
    BY <1>1 DEF Requests
  <2> HIDE DEF r
  <2>6. WellFormed(r)
    BY <1>1, <1>2, <2>5 DEF WellFormed, ChainSteps, Provisions, ReadSteps, WalletSteps, Reads
  <2>7. TasksTyped' /\ Moves(t) /\ task'[t] = r
    BY <1>1, <2>3, <2>4, <2>6, MoveTyped
  <2> QED BY <1>2, <1>4, <2>2, <2>5, <2>7
<1> QED BY <1>2, <1>3, <1>4 DEF FindOrGenerate

\* ReadOldMaster and SweepTarget put what they read into other.
LEMMA OtherEffect ==
  ASSUME Typed, NEW t \in Tasks, NEW s \in {"clear", "flag", "fees"}, NEW w \in Nat,
         task' = [task EXCEPT ![t].step = s, ![t].other = w],
         IF s = "fees" THEN task[t].step = "target" ELSE task[t].step = "old"
  PROVE  /\ TasksTyped' /\ Moves(t) /\ task'[t].step = s /\ task'[t].other = w
         /\ task'[t].chain = task[t].chain /\ task'[t].wallet = task[t].wallet
         /\ task'[t].entries = task[t].entries
<1>1. task[t] \in Requests /\ WellFormed(task[t]) /\ TasksTyped
  BY TaskTyped
<1> DEFINE r == [task[t] EXCEPT !.step = s, !.other = w]
<1>2. task' = [task EXCEPT ![t] = r]
  BY <1>1
<1>3. r \in Requests
  BY <1>1 DEF Requests, Steps, ChainSteps, Provisions
<1>4. r.step = s /\ r.other = w /\ r.chain = task[t].chain /\ r.wallet = task[t].wallet /\ r.entries = task[t].entries
  BY <1>1 DEF Requests
<1> HIDE DEF r
<1>5. WellFormed(r)
  BY <1>1, <1>4 DEF WellFormed, ChainSteps, Provisions, ReadSteps, WalletSteps, Reads
<1> QED BY <1>1, <1>2, <1>3, <1>4, <1>5, MoveTyped

LEMMA ConfigWallets ==
  ASSUME Typed, NEW c
  PROVE  \A r \in GetSweepConfig(c) :
            \E i \in DOMAIN config : r = config[i] /\ r.chain = c /\ r.wallet \in Nat
<1>1. config \in Seq(ConfigRows)
  BY DEF Typed, TablesTyped
<1>2. \A i \in DOMAIN config : config[i] \in ConfigRows
  BY <1>1
<1>3. \A i \in DOMAIN config : config[i].wallet \in Nat
  BY <1>2 DEF ConfigRows
<1> QED BY <1>3 DEF GetSweepConfig, RowsOf

LEMMA OldEffect ==
  ASSUME Typed, NEW t \in Tasks, ReadOldMaster(t)
  PROVE  /\ task[t].step = "old" /\ TasksTyped' /\ Moves(t)
         /\ task'[t].chain = task[t].chain /\ task'[t].wallet = task[t].wallet
         /\ task'[t].entries = task[t].entries
         /\ \/ task'[t].step = "flag"
            \/ /\ task'[t].step = "clear"
               /\ \E i \in DOMAIN config : config[i].chain = task[t].chain /\ task'[t].other = config[i].wallet
                                           /\ config[i].wallet # 0
<1>1. task[t].step = "old"
  BY DEF ReadOldMaster, At
<1>2. PICK w \in Nat :
        /\ task' = [task EXCEPT ![t].step = IF w = 0 THEN "flag" ELSE "clear", ![t].other = w]
        /\ w = 0 \/ \E i \in DOMAIN config : config[i].chain = task[t].chain /\ w = config[i].wallet
  BY ConfigWallets DEF ReadOldMaster
<1>3. CASE w = 0
  BY <1>1, <1>2, <1>3, OtherEffect
<1>4. CASE w # 0
  <2>1. task' = [task EXCEPT ![t].step = "clear", ![t].other = w]
    BY <1>2, <1>4
  <2>2. /\ TasksTyped' /\ Moves(t) /\ task'[t].step = "clear" /\ task'[t].other = w
        /\ task'[t].chain = task[t].chain /\ task'[t].wallet = task[t].wallet
        /\ task'[t].entries = task[t].entries
    BY <1>1, <2>1, OtherEffect
  <2> QED BY <1>1, <1>2, <1>4, <2>2
<1> QED BY <1>3, <1>4

LEMMA TargetEffect ==
  ASSUME Typed, NEW t \in Tasks, SweepTarget(t)
  PROVE  /\ task[t].step = "target"
         /\ \/ Ends(t)
            \/ /\ TasksTyped' /\ Moves(t) /\ task'[t].step = "fees"
               /\ task'[t].chain = task[t].chain /\ task'[t].wallet = task[t].wallet
               /\ task'[t].entries = task[t].entries
<1>1. task[t].step = "target"
  BY DEF SweepTarget, At
<1>2. CASE Finish(t)
  BY <1>1, <1>2, EndsTyped
<1>3. ASSUME NEW r \in GetSweepConfig(task[t].chain),
             task' = [task EXCEPT ![t].step = "fees", ![t].other = r.wallet]
      PROVE  /\ TasksTyped' /\ Moves(t) /\ task'[t].step = "fees"
             /\ task'[t].chain = task[t].chain /\ task'[t].wallet = task[t].wallet
             /\ task'[t].entries = task[t].entries
  <2>1. PICK w \in Nat : w = r.wallet
    BY ConfigWallets
  <2> QED BY <1>1, <1>3, <2>1, OtherEffect
<1> QED BY <1>1, <1>2, <1>3 DEF SweepTarget

\* DisableStablecoinToken goes on to the DEL with its row's chain, or ends.
LEMMA DisableEffect ==
  ASSUME Typed, NEW t \in Tasks, DisableStablecoinToken(t)
  PROVE  /\ task[t].step = "disable" /\ task[t].other \in DOMAIN token
         /\ \/ Ends(t) /\ ((Works /\ ~task[t].flag) \/ (Fails /\ UNCHANGED <<token, history>>))
            \/ /\ Works /\ TasksTyped' /\ Moves(t) /\ task'[t].step = "invalidate"
               /\ task'[t].chain = token[task[t].other].chain
               /\ task'[t].wallet = 0 /\ task'[t].entries = <<>>
<1>1. task[t].step = "disable" /\ task[t].other \in DOMAIN token /\ TasksTyped
  BY DEF DisableStablecoinToken, At, Typed, RefsTyped
<1>2. PICK c \in Chains : c = token[task[t].other].chain
  <2>1. token \in Seq(TokenRows)
    BY DEF Typed, TablesTyped
  <2>2. token[task[t].other] \in TokenRows
    BY <1>1, <2>1
  <2> QED BY <2>2 DEF TokenRows
<1>3. CASE Fails /\ Finish(t) /\ UNCHANGED <<token, history>>
  BY <1>1, <1>3, EndsTyped
<1>4. CASE Works /\ ~task[t].flag /\ Finish(t)
  BY <1>1, <1>4, EndsTyped
<1>5. CASE Works /\ task' = [task EXCEPT ![t] = [Idle EXCEPT !.step = "invalidate", !.chain = c]]
  <2> DEFINE r == [Idle EXCEPT !.step = "invalidate", !.chain = c]
  <2>1. r \in Requests /\ r.step = "invalidate" /\ r.chain = c /\ r.wallet = 0 /\ r.entries = <<>>
    BY IdleTyped DEF Requests, Steps, ChainSteps, Keys
  <2> HIDE DEF r
  <2>2. WellFormed(r)
    BY <2>1 DEF WellFormed, ChainSteps, ReadSteps, WalletSteps, Reads
  <2>3. TasksTyped' /\ Moves(t) /\ task'[t] = r
    BY <1>1, <1>5, <2>1, <2>2, MoveTyped DEF r
  <2> QED BY <1>1, <1>2, <1>5, <2>1, <2>3
<1> QED BY <1>2, <1>3, <1>4, <1>5 DEF DisableStablecoinToken

\* Where a request is after its nth read.
LEMMA AfterRead ==
  ASSUME Typed, NEW t \in Tasks, NEW n \in 1..3
  PROVE  /\ task[t].wallet = 0 => After(t, n) = "idle"
         /\ task[t].wallet # 0 =>
               /\ After(t, n) \in {"get", "configured", "covered", "transfer"}
               /\ n \in Reads(After(t, n))
<1>1. CASE task[t].wallet = 0
  BY <1>1 DEF After
<1>2. CASE task[t].wallet # 0 /\ n = 1
  BY <1>2 DEF After, Reads
<1>3. CASE task[t].wallet # 0 /\ n = 2
  BY <1>3 DEF After, Reads
<1>4. CASE task[t].wallet # 0 /\ n = 3
  BY <1>4 DEF After, Reads
<1> QED BY <1>1, <1>2, <1>3, <1>4

\* One more answer.
Grows(t, e, s) ==
    /\ TasksTyped' /\ Moves(t) /\ task'[t].step = s
    /\ task'[t].chain = task[t].chain /\ task'[t].wallet = task[t].wallet
    /\ task'[t].entries = Append(task[t].entries, e)

LEMMA OneMore ==
  ASSUME NEW q \in Seq(Found), NEW e \in Found, Len(q) \in 0..2
  PROVE  Append(q, e) \in Seq(Found) /\ Len(Append(q, e)) = Len(q) + 1 /\ Len(Append(q, e)) \in 1..3
<1>1. Append(q, e) \in Seq(Found) /\ Len(Append(q, e)) = Len(q) + 1
  OBVIOUS
<1>2. \A m \in 0..2 : m + 1 \in 1..3
  OBVIOUS
<1> QED BY <1>1, <1>2

LEMMA AnsweredEffect ==
  ASSUME Typed, NEW t \in Tasks, task[t].step \in {"get", "db"}, NEW e \in Found, NEW s \in Steps,
         Answered(t, e, s),
         \/ s = "set" \/ s = After(t, Len(task[t].entries) + 1)
  PROVE  \/ s = "idle" /\ Ends(t)
         \/ s # "idle" /\ Grows(t, e, s)
<1>1. task[t] \in Requests /\ WellFormed(task[t]) /\ TasksTyped
  BY TaskTyped
<1>2. task[t].entries \in Seq(Found) /\ Len(task[t].entries) \in 0..2
  BY <1>1 DEF Requests, WellFormed, Reads
<1>3. CASE s = "idle"
  <2>1. task' = [task EXCEPT ![t] = Idle]
    BY <1>3 DEF Answered
  <2> QED BY <1>1, <1>3, <2>1, MoveTyped, IdleTyped DEF Ends
<1>4. CASE s # "idle"
  <2> DEFINE a == Append(task[t].entries, e)
             r == [task[t] EXCEPT !.step = s, !.entries = a]
  <2>1. task' = [task EXCEPT ![t] = r]
    BY <1>1, <1>4 DEF Answered, Requests
  <2>2. a \in Seq(Found) /\ Len(a) = Len(task[t].entries) + 1 /\ Len(a) \in 1..3
    BY <1>2, OneMore
  <2> HIDE DEF a
  <2>3. r \in Requests
    BY <1>1, <2>2 DEF Requests
  <2>4. r.step = s /\ r.entries = a /\ r.chain = task[t].chain /\ r.wallet = task[t].wallet
    BY <1>1 DEF Requests
  <2> HIDE DEF r
  <2>5. task[t].chain \in Keys /\ (task[t].wallet # 0 => task[t].chain \in Chains)
    BY <1>1 DEF WellFormed, ReadSteps
  <2>6. CASE s = "set"
    <3>1. WellFormed(r)
      BY <2>2, <2>4, <2>5, <2>6 DEF WellFormed, ChainSteps, Provisions, ReadSteps, WalletSteps, Reads
    <3> QED BY <1>1, <1>4, <2>1, <2>3, <2>4, <3>1, MoveTyped DEF Grows, a
  <2>7. CASE s = After(t, Len(a))
    <3>1. task[t].wallet # 0 /\ s \in {"get", "configured", "covered", "transfer"} /\ Len(a) \in Reads(s)
      BY <1>4, <2>2, <2>7, AfterRead
    <3>2. WellFormed(r)
      BY <2>4, <2>5, <3>1 DEF WellFormed, ChainSteps, Provisions, ReadSteps, WalletSteps
    <3> QED BY <1>1, <1>4, <2>1, <2>3, <2>4, <3>2, MoveTyped DEF Grows, a
  <2> QED BY <2>2, <2>6, <2>7
<1> QED BY <1>3, <1>4

LEMMA AnswersTyped ==
  ASSUME Typed, NEW k \in Keys
  PROVE  Answers(k) \subseteq Found
<1>1. token \in Seq(TokenRows)
  BY DEF Typed, TablesTyped
<1>2. \A i \in DOMAIN token : token[i] \in TokenRows
  BY <1>1
<1>3. \A i \in DOMAIN token : token[i].entry \in Entry
  BY <1>2 DEF TokenRows
<1>4. CASE k = List
  <2>1. {token[i].entry : i \in Enabled} \in SUBSET Entry
    BY <1>3 DEF Enabled
  <2>2. Answers(k) = {{token[i].entry : i \in Enabled}}
    BY <1>4 DEF Answers
  <2> QED BY <2>1, <2>2 DEF Found
<1>5. CASE k # List
  <2>1. Answers(k) = {token[i].entry : i \in RowsOf(token, k) \cap Enabled}
    BY <1>5 DEF Answers
  <2>2. RowsOf(token, k) \subseteq DOMAIN token
    BY DEF RowsOf
  <2> QED BY <1>3, <2>1, <2>2 DEF Found
<1> QED BY <1>4, <1>5

\* A request in the registry has a key to read.
LEMMA ReadKey ==
  ASSUME Typed, NEW t \in Tasks, task[t].step \in ReadSteps
  PROVE  task[t].chain \in Keys /\ (task[t].wallet # 0 => task[t].chain \in Chains)
  BY TaskTyped DEF WellFormed

LEMMA GetEffect ==
  ASSUME Typed, NEW t \in Tasks, CacheGet(t)
  PROVE  /\ task[t].step = "get"
         /\ \/ Ends(t) \/ Goes(t, "db")
            \/ /\ task[t].wallet # 0 /\ cache[task[t].chain] # NoEntry
               /\ \E s \in {"get", "configured", "covered", "transfer"} :
                     Grows(t, cache[task[t].chain].answer, s)
<1>1. task[t].step = "get" /\ task[t] \in Requests /\ WellFormed(task[t])
  BY TaskTyped DEF CacheGet, At
<1>2. PICK k \in Keys : k = task[t].chain /\ (task[t].wallet # 0 => k \in Chains)
  BY <1>1, ReadKey DEF ReadSteps
<1>3. Len(task[t].entries) \in 0..2
  BY <1>1 DEF WellFormed, Reads
<1>4. CASE Goto(t, "db")
  <2>1. Len(task[t].entries) \in Reads("db")
    BY <1>3 DEF Reads
  <2>2. Goes(t, "db")
    BY <1>2, <1>4, <2>1, GoesTyped DEF Steps, ChainSteps, Provisions, ReadSteps, WalletSteps
  <2> QED BY <1>1, <2>2
<1>5. CASE cache[k] # NoEntry /\ Answered(t, cache[k].answer, After(t, Len(task[t].entries) + 1))
  <2>1. cache[k].answer \in Found
    BY <1>5 DEF Typed, TablesTyped
  <2>2. PICK n \in 1..3 : n = Len(task[t].entries) + 1
    <3>1. \A m \in 0..2 : m + 1 \in 1..3
      OBVIOUS
    <3> QED BY <1>3, <3>1
  <2>3. PICK s : s = After(t, n)
    OBVIOUS
  <2>4. /\ task[t].wallet = 0 => s = "idle"
        /\ task[t].wallet # 0 => s \in {"get", "configured", "covered", "transfer"}
    BY <2>3, AfterRead
  <2>5. s \in Steps
    BY <2>4 DEF Steps, ChainSteps, ReadSteps
  <2>6. PICK e \in Found : e = cache[k].answer
    BY <2>1
  <2>7. (s = "idle" /\ Ends(t)) \/ (s # "idle" /\ Grows(t, cache[k].answer, s))
    <3>1. Answered(t, e, s)
      BY <1>5, <2>2, <2>3, <2>6
    <3>2. s = After(t, Len(task[t].entries) + 1)
      BY <2>2, <2>3
    <3>3. task[t].step \in {"get", "db"}
      BY <1>1
    <3>4. (s = "idle" /\ Ends(t)) \/ (s # "idle" /\ Grows(t, e, s))
      BY <2>5, <3>1, <3>2, <3>3, AnsweredEffect
    <3> QED BY <2>6, <3>4
  <2> QED BY <1>1, <1>2, <1>5, <2>4, <2>7
<1> QED BY <1>2, <1>4, <1>5 DEF CacheGet, CacheKey

LEMMA ReadEffect ==
  ASSUME Typed, NEW t \in Tasks, ReadTable(t)
  PROVE  /\ task[t].step = "db"
         /\ Ends(t) \/ \E e \in Answers(task[t].chain) : Grows(t, e, "set")
<1>1. task[t].step = "db" /\ task[t].chain \in Keys
  BY ReadKey DEF ReadTable, At, ReadSteps
<1>2. CASE Finish(t)
  BY <1>1, <1>2, EndsTyped
<1>3. ASSUME NEW e \in Answers(task[t].chain), Answered(t, e, "set")
      PROVE  Grows(t, e, "set")
  <2>1. e \in Found
    BY <1>1, AnswersTyped
  <2> QED BY <1>1, <1>3, <2>1, AnsweredEffect DEF Steps, ReadSteps
<1> QED BY <1>1, <1>2, <1>3 DEF ReadTable

LEMMA SetEffect ==
  ASSUME Typed, NEW t \in Tasks, SetCache(t)
  PROVE  /\ task[t].step = "set" /\ Len(task[t].entries) \in 1..3
         /\ \/ Ends(t)
            \/ task[t].wallet # 0 /\ \E s \in {"get", "configured", "covered", "transfer"} : Goes(t, s)
<1>1. task[t].step = "set" /\ task[t] \in Requests /\ WellFormed(task[t])
  BY TaskTyped DEF SetCache, At
<1>2. PICK n \in 1..3 : n = Len(task[t].entries)
  BY <1>1 DEF WellFormed, Reads
<1>3. CASE After(t, n) = "idle"
  <2>1. Finish(t)
    BY <1>2, <1>3 DEF SetCache
  <2> QED BY <1>1, <1>2, <2>1, EndsTyped
<1>4. CASE After(t, n) # "idle"
  <2>1. PICK s \in {"get", "configured", "covered", "transfer"} :
           s = After(t, n) /\ n \in Reads(s) /\ task[t].wallet # 0
    BY <1>4, AfterRead
  <2>2. Goto(t, s)
    BY <1>2, <1>4, <2>1 DEF SetCache
  <2>3. task[t].chain \in Keys /\ task[t].chain \in Chains
    BY <1>1, <2>1, ReadKey DEF ReadSteps
  <2>4. Goes(t, s)
    BY <1>2, <2>1, <2>2, <2>3, GoesTyped DEF Steps, ChainSteps, ReadSteps
  <2> QED BY <1>1, <1>2, <2>1, <2>4
<1> QED BY <1>3, <1>4

LEMMA CheckEffects ==
  ASSUME Typed, NEW t \in Tasks
  PROVE  /\ CheckSender(t) => task[t].step = "sender" /\ (Goes(t, "get") \/ Ends(t))
         /\ CheckRelayer(t) =>
              \/ Ends(t)
              \/ task[t].step = "configured" /\ Goes(t, "healthy")
              \/ task[t].step = "healthy" /\ Goes(t, "get")
         /\ CheckBalance(t) => task[t].step = "covered" /\ (Goes(t, "get") \/ Ends(t))
<1>1. WellFormed(task[t]) /\ task[t] \in Requests
  BY TaskTyped
<1>2. ASSUME Goto(t, "get"), task[t].step \in {"healthy", "covered"}
      PROVE  Goes(t, "get")
  <2>1. task[t].chain \in Chains /\ task[t].chain \in Keys
    BY <1>1, <1>2 DEF WellFormed, ChainSteps, Keys
  <2>2. Len(task[t].entries) \in {1, 2}
    BY <1>1, <1>2 DEF WellFormed, Reads
  <2>3. \A m \in {1, 2} : m \in Reads("get")
    BY DEF Reads
  <2> QED BY <1>2, <2>1, <2>2, <2>3, GoesTyped DEF Steps, ReadSteps, ChainSteps, Provisions, WalletSteps
<1>3. ASSUME Goto(t, "healthy"), task[t].step = "configured"
      PROVE  Goes(t, "healthy")
  <2>1. task[t].chain \in Chains /\ task[t].wallet # 0
    BY <1>1, <1>3 DEF WellFormed, ChainSteps, WalletSteps
  <2>2. Len(task[t].entries) \in Reads("healthy")
    BY <1>1, <1>3 DEF WellFormed, Reads
  <2> QED BY <1>3, <2>1, <2>2, GoesTyped DEF Steps, ReadSteps, ChainSteps
<1>4. CheckSender(t) => task[t].step = "sender" /\ (Goes(t, "get") \/ Ends(t))
  BY AcceptTyped, EndsTyped DEF CheckSender, At
<1>5. CheckBalance(t) => task[t].step = "covered" /\ (Goes(t, "get") \/ Ends(t))
  BY <1>2, EndsTyped DEF CheckBalance, At
<1>6. ASSUME CheckRelayer(t)
      PROVE  \/ Ends(t)
             \/ task[t].step = "configured" /\ Goes(t, "healthy")
             \/ task[t].step = "healthy" /\ Goes(t, "get")
  <2>1. CASE Finish(t)
    BY <2>1, EndsTyped
  <2>2. CASE task[t].step = "configured" /\ Goto(t, "healthy")
    BY <1>3, <2>2
  <2>3. CASE task[t].step = "healthy" /\ Goto(t, "get")
    BY <1>2, <2>3
  <2> QED BY <1>6, <2>1, <2>2, <2>3 DEF CheckRelayer, At
<1> QED BY <1>4, <1>5, <1>6

\* What was known of the wallet when its flag was read stays with the request.
LEMMA EarlyKept ==
  ASSUME Typed, NEW t \in Tasks,
         \/ SweepTarget(t) \/ SweepFees(t) \/ CacheGet(t) \/ ReadTable(t) \/ SetCache(t)
         \/ CheckRelayer(t) \/ CheckBalance(t)
  PROVE  task'[t].step = "idle" \/ task'[t].early = task[t].early
<1>1. task[t] \in Requests /\ task \in [Tasks -> Requests]
  BY DEF Typed, TasksTyped
<1>2. ASSUME NEW s, Goto(t, s) PROVE task'[t].early = task[t].early
  BY <1>1, <1>2 DEF Goto, Requests
<1>3. ASSUME Finish(t) PROVE task'[t].step = "idle"
  BY <1>1, <1>3, IdleTyped DEF Finish
<1>4. ASSUME NEW e, NEW s, Answered(t, e, s)
      PROVE  task'[t].step = "idle" \/ task'[t].early = task[t].early
  <2> DEFINE more == [task[t] EXCEPT !.step = s, !.entries = Append(task[t].entries, e)]
  <2>1. more.early = task[t].early
    BY <1>1 DEF Requests
  <2>2. task'[t] = Idle \/ task'[t] = more
    BY <1>1, <1>4 DEF Answered
  <2> HIDE DEF more
  <2> QED BY <2>1, <2>2, IdleTyped
<1>5. CASE SweepTarget(t)
  <2>1. ASSUME NEW w, task' = [task EXCEPT ![t].step = "fees", ![t].other = w]
        PROVE  task'[t].early = task[t].early
    BY <1>1, <2>1 DEF Requests
  <2> QED BY <1>3, <1>5, <2>1 DEF SweepTarget
<1>6. CASE SweepFees(t) \/ CheckRelayer(t) \/ CheckBalance(t)
  BY <1>2, <1>3, <1>6 DEF SweepFees, CheckRelayer, CheckBalance
<1>7. CASE CacheGet(t) \/ ReadTable(t) \/ SetCache(t)
  BY <1>2, <1>3, <1>4, <1>7 DEF CacheGet, ReadTable, SetCache
<1> QED BY <1>5, <1>6, <1>7
-----------------------------------------------------------------------------
(***************************************************************************)
(* Types.                                                                  *)
(***************************************************************************)

LEMMA CountsTyped ==
  ASSUME Typed
  PROVE  /\ faults \in Nat
         /\ Works => faults' \in 0..MaxFaults /\ faults' = faults
         /\ Fails => faults' \in 0..MaxFaults /\ faults' = faults + 1 /\ faults' > 0
         /\ UNCHANGED requests => requests' \in 0..MaxRequests
<1>1. faults \in 0..MaxFaults /\ requests \in 0..MaxRequests
  BY DEF Typed, TablesTyped
<1> QED BY <1>1, Bounds DEF Works, Fails

LEMMA TablesAre ==
  ASSUME Typed
  PROVE  /\ Len(wallet) \in Nat /\ DOMAIN wallet = 1..Len(wallet)
         /\ \A w \in DOMAIN wallet : wallet[w] \in WalletRows
         /\ DOMAIN config \subseteq Nat /\ \A i \in DOMAIN config : config[i] \in ConfigRows
         /\ DOMAIN relayer \subseteq Nat /\ \A i \in DOMAIN relayer : relayer[i] \in RelayerRows
         /\ DOMAIN token \subseteq Nat /\ \A i \in DOMAIN token : token[i] \in TokenRows
<1>1. /\ wallet \in Seq(WalletRows) /\ config \in Seq(ConfigRows)
      /\ relayer \in Seq(RelayerRows) /\ token \in Seq(TokenRows)
  BY DEF Typed, TablesTyped
<1>2. Len(wallet) \in Nat /\ DOMAIN wallet = 1..Len(wallet) /\ \A w \in DOMAIN wallet : wallet[w] \in WalletRows
  BY <1>1
<1>3. DOMAIN config \subseteq Nat /\ \A i \in DOMAIN config : config[i] \in ConfigRows
  BY <1>1
<1>4. DOMAIN relayer \subseteq Nat /\ \A i \in DOMAIN relayer : relayer[i] \in RelayerRows
  BY <1>1
<1>5. DOMAIN token \subseteq Nat /\ \A i \in DOMAIN token : token[i] \in TokenRows
  BY <1>1
<1> QED BY <1>2, <1>3, <1>4, <1>5

\* Tables only grow, and a wallet keeps its chain and its user.
Extended ==
    /\ Len(wallet) \in Nat /\ Len(wallet') \in Nat /\ Len(wallet') >= Len(wallet)
    /\ DOMAIN wallet \subseteq DOMAIN wallet'
    /\ \A w \in DOMAIN wallet : wallet'[w].chain = wallet[w].chain /\ wallet'[w].user = wallet[w].user
    /\ DOMAIN config \subseteq DOMAIN config' /\ DOMAIN token \subseteq DOMAIN token'

LEMMA StillTyped ==
  ASSUME Typed, UNCHANGED <<wallet, config, relayer, token, cache>>,
         requests' \in 0..MaxRequests, faults' \in 0..MaxFaults
  PROVE  TablesTyped' /\ Extended
<1>1. TablesTyped'
  BY DEF Typed, TablesTyped
<1>2. Extended
  BY TablesAre DEF Extended
<1> QED BY <1>1, <1>2

LEMMA RefsKept ==
  ASSUME Typed, NEW t \in Tasks, TasksTyped', Moves(t), Extended,
         task'[t].wallet \in 0..Len(wallet'),
         task'[t].step = "disable" => task'[t].other \in DOMAIN token',
         task'[t].step = "patch" => task'[t].other \in DOMAIN config'
  PROVE  RefsTyped'
<1> SUFFICES ASSUME NEW s \in Tasks
             PROVE  /\ task'[s].wallet \in 0..Len(wallet')
                    /\ task'[s].step = "disable" => task'[s].other \in DOMAIN token'
                    /\ task'[s].step = "patch" => task'[s].other \in DOMAIN config'
  BY DEF RefsTyped, At
<1>1. CASE s = t
  BY <1>1
<1>2. CASE s # t
  <2>1. task'[s] = task[s]
    BY <1>2 DEF Moves
  <2>2. task[s].wallet \in 0..Len(wallet')
    BY DEF Typed, RefsTyped, Extended
  <2> QED BY <2>1, <2>2 DEF Typed, RefsTyped, Extended, At
<1> QED BY <1>1, <1>2

\* A request that ends, or goes on to a step that needs no row but its wallet.
LEMMA PlainRefs ==
  ASSUME Typed, NEW t \in Tasks, Extended,
         \/ Ends(t)
         \/ \E s \in Steps \ {"disable", "patch"} :
               Goes(t, s) \/ \E e : Grows(t, e, s)
  PROVE  TasksTyped' /\ RefsTyped'
<1>1. task[t].wallet \in 0..Len(wallet') /\ 0 \in 0..Len(wallet')
  BY DEF Typed, RefsTyped, Extended
<1>2. CASE Ends(t)
  BY <1>1, <1>2, RefsKept, IdleTyped DEF Ends
<1>3. ASSUME NEW s \in Steps \ {"disable", "patch"}, Goes(t, s) \/ \E e : Grows(t, e, s)
      PROVE  TasksTyped' /\ RefsTyped'
  <2>1. TasksTyped' /\ Moves(t) /\ task'[t].step = s /\ task'[t].wallet = task[t].wallet
    BY <1>3 DEF Goes, Grows, Keeps
  <2> QED BY <1>1, <2>1, RefsKept
<1> QED BY <1>2, <1>3

LEMMA ArrivalRefs ==
  ASSUME Typed, NEW t \in Tasks, NEW s \in Steps, NEW c, NEW w \in 0..Len(wallet'), Extended, Arrives(t, s, c, w),
         s = "disable" => task'[t].other \in DOMAIN token',
         s = "patch" => task'[t].other \in DOMAIN config'
  PROVE  TasksTyped' /\ RefsTyped'
  BY RefsKept DEF Arrives

LEMMA WalletAdded ==
  ASSUME Typed, NEW c \in Chains, NEW u \in {"_relayer", "_master"}, wallet' = NewWallet(c, u),
         UNCHANGED <<config, relayer, token, cache>>
  PROVE  /\ wallet' \in Seq(WalletRows) /\ Extended /\ Len(wallet') = Len(wallet) + 1
         /\ DOMAIN wallet' = 1..(Len(wallet) + 1)
         /\ wallet'[Len(wallet) + 1] = [chain |-> c, user |-> u, master |-> FALSE]
         /\ \A w \in DOMAIN wallet : wallet'[w] = wallet[w]
<1> DEFINE row == [chain |-> c, user |-> u, master |-> FALSE]
<1>1. wallet \in Seq(WalletRows) /\ wallet' = Append(wallet, row)
  BY DEF Typed, TablesTyped, NewWallet
<1>2. row \in WalletRows
  BY DEF WalletRows
<1> HIDE DEF row
<1>3. wallet' \in Seq(WalletRows)
  BY <1>1, <1>2
<1>4. /\ Len(wallet') = Len(wallet) + 1 /\ DOMAIN wallet' = 1..(Len(wallet) + 1)
      /\ wallet'[Len(wallet) + 1] = row /\ \A w \in 1..Len(wallet) : wallet'[w] = wallet[w]
  BY <1>1, LenAppended
<1>5. \A w \in DOMAIN wallet : wallet'[w] = wallet[w]
  BY <1>4, TablesAre
<1>6. Extended
  BY <1>4, <1>5, TablesAre DEF Extended
<1> QED BY <1>3, <1>4, <1>5, <1>6 DEF row

LEMMA WalletFlagged ==
  ASSUME Typed, NEW w \in DOMAIN wallet, NEW b \in BOOLEAN, wallet' = [wallet EXCEPT ![w].master = b],
         UNCHANGED <<config, relayer, token, cache>>
  PROVE  /\ wallet' \in Seq(WalletRows) /\ Extended /\ DOMAIN wallet' = DOMAIN wallet
         /\ wallet'[w].master = b /\ wallet'[w].chain = wallet[w].chain /\ wallet'[w].user = wallet[w].user
         /\ \A v \in DOMAIN wallet : v # w => wallet'[v] = wallet[v]
<1> DEFINE row == [wallet[w] EXCEPT !.master = b]
<1>1. wallet \in Seq(WalletRows) /\ wallet[w] \in WalletRows
  BY TablesAre DEF Typed, TablesTyped
<1>2. wallet' = [wallet EXCEPT ![w] = row]
  BY <1>1
<1>3. row \in WalletRows
  BY <1>1 DEF WalletRows
<1>4. row.master = b /\ row.chain = wallet[w].chain /\ row.user = wallet[w].user
  BY <1>1 DEF WalletRows
<1> HIDE DEF row
<1>5. /\ wallet' \in Seq(WalletRows) /\ Len(wallet') = Len(wallet) /\ DOMAIN wallet' = DOMAIN wallet
      /\ wallet'[w] = row /\ \A k \in DOMAIN wallet : k # w => wallet'[k] = wallet[k]
  BY <1>1, <1>2, <1>3, RowUpdated DEF Updated
<1>6. Extended
  <2>1. \A v \in DOMAIN wallet : wallet'[v].chain = wallet[v].chain /\ wallet'[v].user = wallet[v].user
    BY <1>4, <1>5
  <2> QED BY <1>5, <2>1, TablesAre DEF Extended
<1> QED BY <1>4, <1>5, <1>6

LEMMA ConfigEffect ==
  ASSUME Typed, NEW t \in Tasks, UpsertSweepConfig(t) \/ WriteSweepConfig(t)
  PROVE  /\ config' \in Seq(ConfigRows) /\ DOMAIN config \subseteq DOMAIN config'
         /\ Unique(config) => Unique(config')
         /\ \A i \in DOMAIN config' :
               \/ /\ task[t].step = "config"
                  /\ config'[i].chain = task[t].chain /\ config'[i].wallet = task[t].wallet
               \/ i \in DOMAIN config /\ config'[i].chain = config[i].chain /\ config'[i].wallet = config[i].wallet
<1>1. config \in Seq(ConfigRows) /\ \A i \in DOMAIN config : config[i] \in ConfigRows
  BY TablesAre DEF Typed, TablesTyped
<1>2. task[t] \in Requests /\ WellFormed(task[t])
  BY TaskTyped
<1>3. CASE UNCHANGED config
  BY <1>1, <1>3
<1>4. CASE /\ task[t].step = "config"
           /\ config' = Upsert(config, [chain |-> task[t].chain, wallet |-> task[t].wallet, enabled |-> TRUE])
  <2> DEFINE row == [chain |-> task[t].chain, wallet |-> task[t].wallet, enabled |-> TRUE]
  <2>1. task[t].chain \in Chains /\ task[t].wallet \in Nat
    BY <1>2, <1>4 DEF WellFormed, ChainSteps, Provisions, Requests
  <2>2. row \in ConfigRows /\ row.chain = task[t].chain /\ row.wallet = task[t].wallet
    BY <2>1 DEF ConfigRows
  <2>3. config' = Upsert(config, row)
    BY <1>4
  <2> HIDE DEF row
  <2>4. config' \in Seq(ConfigRows) /\ Upserted(config, row, config')
    BY <1>1, <2>2, <2>3, UpsertRows
  <2> QED BY <1>4, <2>2, <2>4 DEF Upserted
<1>5. CASE /\ task[t].step = "patch"
           /\ config' = [config EXCEPT ![task[t].other].enabled = task[t].flag]
  <2>1. PICK i \in DOMAIN config : i = task[t].other
    BY <1>5 DEF Typed, RefsTyped, At
  <2>2. PICK f \in BOOLEAN : f = task[t].flag
    BY <1>2 DEF Requests
  <2> DEFINE row == [config[i] EXCEPT !.enabled = f]
  <2>3. config' = [config EXCEPT ![i] = row]
    BY <1>1, <1>5, <2>1, <2>2
  <2>4. row \in ConfigRows
    BY <1>1 DEF ConfigRows
  <2>5. row.chain = config[i].chain /\ row.wallet = config[i].wallet
    BY <1>1 DEF ConfigRows
  <2> HIDE DEF row
  <2>6. /\ config' \in Seq(ConfigRows) /\ DOMAIN config' = DOMAIN config
        /\ config'[i] = row /\ \A k \in DOMAIN config : k # i => config'[k] = config[k]
    BY <1>1, <2>3, <2>4, RowUpdated DEF Updated
  <2>7. \A k \in DOMAIN config : config'[k].chain = config[k].chain /\ config'[k].wallet = config[k].wallet
    BY <2>5, <2>6
  <2> QED BY <2>6, <2>7 DEF Unique
<1> QED BY <1>3, <1>4, <1>5 DEF UpsertSweepConfig, WriteSweepConfig, At

LEMMA RelayerEffect ==
  ASSUME Typed
  PROVE  /\ \A t \in Tasks : CreateRelayerWallet(t) =>
               /\ relayer' \in Seq(RelayerRows)
               /\ Unique(relayer) => Unique(relayer')
               /\ \A i \in DOMAIN relayer' :
                     \/ relayer'[i].chain = task[t].chain /\ relayer'[i].wallet = task[t].wallet
                     \/ i \in DOMAIN relayer /\ relayer'[i] = relayer[i]
         /\ \A k \in DOMAIN relayer : DeactivateRelayerWallet(k) =>
               /\ relayer' \in Seq(RelayerRows)
               /\ Unique(relayer) => Unique(relayer')
               /\ DOMAIN relayer' = DOMAIN relayer
               /\ \A i \in DOMAIN relayer :
                     relayer'[i].chain = relayer[i].chain /\ relayer'[i].wallet = relayer[i].wallet
<1>1. relayer \in Seq(RelayerRows) /\ \A i \in DOMAIN relayer : relayer[i] \in RelayerRows
  BY TablesAre DEF Typed, TablesTyped
<1>2. ASSUME NEW t \in Tasks, CreateRelayerWallet(t)
      PROVE  /\ relayer' \in Seq(RelayerRows)
             /\ Unique(relayer) => Unique(relayer')
             /\ \A i \in DOMAIN relayer' :
                   \/ relayer'[i].chain = task[t].chain /\ relayer'[i].wallet = task[t].wallet
                   \/ i \in DOMAIN relayer /\ relayer'[i] = relayer[i]
  <2>1. task[t].step = "relayer" /\ task[t] \in Requests /\ WellFormed(task[t])
    BY <1>2, TaskTyped DEF CreateRelayerWallet, At
  <2>2. CASE UNCHANGED relayer
    BY <1>1, <2>2
  <2> DEFINE row == [chain |-> task[t].chain, wallet |-> task[t].wallet, active |-> TRUE]
  <2>3. CASE relayer' = Upsert(relayer, row)
    <3>1. task[t].chain \in Chains /\ task[t].wallet \in Nat
      BY <2>1 DEF WellFormed, ChainSteps, Requests
    <3>2. row \in RelayerRows /\ row.chain = task[t].chain /\ row.wallet = task[t].wallet
      BY <3>1 DEF RelayerRows
    <3> HIDE DEF row
    <3>3. relayer' \in Seq(RelayerRows) /\ Upserted(relayer, row, relayer')
      BY <1>1, <2>3, <3>2, UpsertRows
    <3> QED BY <3>2, <3>3 DEF Upserted
  <2> QED BY <1>2, <2>2, <2>3 DEF CreateRelayerWallet
<1>3. ASSUME NEW k \in DOMAIN relayer, DeactivateRelayerWallet(k)
      PROVE  /\ relayer' \in Seq(RelayerRows)
             /\ Unique(relayer) => Unique(relayer')
             /\ DOMAIN relayer' = DOMAIN relayer
             /\ \A i \in DOMAIN relayer :
                   relayer'[i].chain = relayer[i].chain /\ relayer'[i].wallet = relayer[i].wallet
  <2> DEFINE row == [relayer[k] EXCEPT !.active = FALSE]
  <2>1. relayer' = [relayer EXCEPT ![k] = row]
    BY <1>1, <1>3 DEF DeactivateRelayerWallet
  <2>2. row \in RelayerRows
    BY <1>1 DEF RelayerRows
  <2>3. row.chain = relayer[k].chain /\ row.wallet = relayer[k].wallet
    BY <1>1 DEF RelayerRows
  <2> HIDE DEF row
  <2>4. /\ relayer' \in Seq(RelayerRows) /\ DOMAIN relayer' = DOMAIN relayer
        /\ relayer'[k] = row /\ \A i \in DOMAIN relayer : i # k => relayer'[i] = relayer[i]
    BY <1>1, <2>1, <2>2, RowUpdated DEF Updated
  <2>5. \A i \in DOMAIN relayer : relayer'[i].chain = relayer[i].chain /\ relayer'[i].wallet = relayer[i].wallet
    BY <2>3, <2>4
  <2> QED BY <2>4, <2>5 DEF Unique
<1> QED BY <1>2, <1>3

LEMMA TokenUpserted ==
  ASSUME Typed, NEW t \in Tasks, NEW c \in Chains, NEW v \in Versions, UpsertToken(t, c, v)
  PROVE  /\ token' \in Seq(TokenRows) /\ DOMAIN token \subseteq DOMAIN token'
         /\ Unique(token) => Unique(token')
         /\ \A i \in DOMAIN token' :
               \/ /\ token'[i].chain = c /\ token'[i].entry = <<c, v>>
                  /\ i \in DOMAIN token => token[i].chain = c
               \/ i \in DOMAIN token /\ token'[i] = token[i]
<1>1. token \in Seq(TokenRows)
  BY DEF Typed, TablesTyped
<1>2. PICK row \in TokenRows : row = Row(c, v) /\ row.chain = c /\ row.entry = <<c, v>>
  <2>1. <<c, v>> \in Entry
    BY DEF Entry
  <2>2. Row(c, v) \in TokenRows
    BY <2>1 DEF Row, TokenRows
  <2>3. Row(c, v).chain = c /\ Row(c, v).entry = <<c, v>>
    BY DEF Row
  <2> QED BY <2>2, <2>3
<1>3. token' = Upsert(token, row)
  BY <1>2 DEF UpsertToken
<1>4. token' \in Seq(TokenRows) /\ Upserted(token, row, token')
  BY <1>1, <1>2, <1>3, UpsertRows
<1> QED BY <1>2, <1>4 DEF Upserted

LEMMA TokenDisabled ==
  ASSUME Typed, NEW i \in DOMAIN token, token' = [token EXCEPT ![i].enabled = FALSE]
  PROVE  /\ token' \in Seq(TokenRows) /\ DOMAIN token' = DOMAIN token
         /\ token'[i].chain = token[i].chain /\ token'[i].entry = token[i].entry /\ ~token'[i].enabled
         /\ \A k \in DOMAIN token : k # i => token'[k] = token[k]
         /\ Unique(token) => Unique(token')
<1>1. token \in Seq(TokenRows) /\ token[i] \in TokenRows
  BY TablesAre DEF Typed, TablesTyped
<1> DEFINE row == [token[i] EXCEPT !.enabled = FALSE]
<1>2. token' = [token EXCEPT ![i] = row]
  BY <1>1
<1>3. row \in TokenRows
  BY <1>1 DEF TokenRows
<1>4. row.chain = token[i].chain /\ row.entry = token[i].entry /\ ~row.enabled
  BY <1>1 DEF TokenRows
<1> HIDE DEF row
<1>5. /\ token' \in Seq(TokenRows) /\ DOMAIN token' = DOMAIN token
      /\ token'[i] = row /\ \A k \in DOMAIN token : k # i => token'[k] = token[k]
  <2>1. token' \in Seq(TokenRows) /\ Updated(token, i, row, token')
    BY <1>1, <1>2, <1>3, RowUpdated
  <2> QED BY <2>1 DEF Updated
<1>6. \A k \in DOMAIN token : token'[k].chain = token[k].chain
  BY <1>4, <1>5
<1>7. Unique(token) => Unique(token')
  BY <1>5, <1>6 DEF Unique
<1> QED BY <1>4, <1>5, <1>7

LEMMA CacheEffect ==
  ASSUME Typed
  PROVE  /\ \A t \in Tasks : Invalidate(t) =>
               /\ DOMAIN cache' = Keys
               /\ \A k \in Keys : cache'[k] \in {cache[k], NoEntry}
         /\ \A k \in Keys : ExpireEntry(k) =>
               /\ DOMAIN cache' = Keys
               /\ \A i \in Keys : cache'[i] \in {cache[i], NoEntry}
         /\ \A t \in Tasks : SetCache(t) =>
               /\ DOMAIN cache' = Keys
               /\ \A k \in Keys :
                     \/ cache'[k] = cache[k] /\ (k \in missed => k \in missed')
                     \/ /\ k = task[t].chain
                        /\ cache'[k].answer = task[t].entries[Len(task[t].entries)]
                        /\ cache'[k].answer \in Found
                        /\ cache'[k].late = (cache'[k].answer \notin Answers(k))
<1>1. DOMAIN cache = Keys
  BY DEF Typed, TablesTyped
<1>2. ASSUME NEW t \in Tasks, SetCache(t)
      PROVE  /\ DOMAIN cache' = Keys
             /\ \A k \in Keys :
                   \/ cache'[k] = cache[k] /\ (k \in missed => k \in missed')
                   \/ /\ k = task[t].chain
                      /\ cache'[k].answer = task[t].entries[Len(task[t].entries)]
                      /\ cache'[k].answer \in Found
                      /\ cache'[k].late = (cache'[k].answer \notin Answers(k))
  <2>1. task[t].step = "set" /\ task[t] \in Requests /\ Len(task[t].entries) \in 1..3
    BY <1>2, TaskTyped, SetEffect
  <2>2. PICK key \in Keys : key = task[t].chain
    BY <2>1, ReadKey DEF ReadSteps
  <2>3. PICK answer \in Found : answer = task[t].entries[Len(task[t].entries)]
    <3>1. task[t].entries \in Seq(Found)
      BY <2>1 DEF Requests
    <3>2. \A n \in 1..3 : n \in 1..n
      OBVIOUS
    <3> QED BY <2>1, <3>1, <3>2, ElementOfSeq
  <2>4. PICK row : row = [answer |-> answer, late |-> answer \notin Answers(key)]
    OBVIOUS
  <2>5. row.answer = answer /\ row.late = (answer \notin Answers(key))
    BY <2>4
  <2>6. \/ UNCHANGED <<cache, missed>>
        \/ cache' = [cache EXCEPT ![key] = row] /\ missed' = missed \ {key}
    BY <1>2, <2>2, <2>3, <2>4 DEF SetCache, CacheKey
  <2> QED BY <1>1, <2>2, <2>3, <2>5, <2>6
<1>3. ASSUME NEW t \in Tasks, Invalidate(t)
      PROVE  DOMAIN cache' = Keys /\ \A k \in Keys : cache'[k] \in {cache[k], NoEntry}
  BY <1>1, <1>3 DEF Invalidate
<1>4. ASSUME NEW k \in Keys, ExpireEntry(k)
      PROVE  DOMAIN cache' = Keys /\ \A i \in Keys : cache'[i] \in {cache[i], NoEntry}
  BY <1>1, <1>4 DEF ExpireEntry
<1> QED BY <1>2, <1>3, <1>4

\* Steps that change no table.
LEMMA PlainStepTyped ==
  ASSUME Typed, NEW t \in Tasks,
         UNCHANGED <<wallet, config, relayer, token, cache, requests>>, Works \/ Fails,
         \/ Ends(t)
         \/ \E s \in Steps \ {"disable", "patch"} : Goes(t, s) \/ \E e : Grows(t, e, s)
  PROVE  Typed'
<1>1. TablesTyped' /\ Extended
  BY StillTyped, CountsTyped
<1> QED BY <1>1, PlainRefs DEF Typed

LEMMA TablesChanged ==
  ASSUME Typed, wallet' \in Seq(WalletRows), config' \in Seq(ConfigRows), relayer' \in Seq(RelayerRows),
         token' \in Seq(TokenRows), UNCHANGED cache,
         requests' \in 0..MaxRequests, faults' \in 0..MaxFaults
  PROVE  TablesTyped'
  BY DEF Typed, TablesTyped

LEMMA SweepStepTyped ==
  ASSUME Typed, UseInv, NEW t \in Tasks, SweepStep(t), UNCHANGED tokenVars
  PROVE  Typed'
<1>1. UNCHANGED <<token, cache>>
  BY DEF tokenVars
<1>2. UNCHANGED <<relayer, requests>> /\ (Works \/ Fails)
  BY DEF SweepStep, FindOrGenerate, ReadOldMaster, ClearOldMaster, FlagMaster, UpsertSweepConfig,
         WriteSweepConfig, SweepSource, SweepTarget, SweepFees, CreateSweepJob, relayerVars, Works
<1>3. requests' \in 0..MaxRequests /\ faults' \in 0..MaxFaults
  BY <1>2, CountsTyped
<1>4. {"old", "flag", "config", "target", "sweep", "fees"} \subseteq Steps \ {"disable", "patch"}
  BY DEF Steps, ChainSteps, Provisions
<1>w. /\ wallet \in Seq(WalletRows) /\ config \in Seq(ConfigRows)
      /\ relayer' \in Seq(RelayerRows) /\ token' \in Seq(TokenRows)
  BY <1>1, <1>2 DEF Typed, TablesTyped
<1>5. CASE SweepSource(t) \/ SweepFees(t) \/ CreateSweepJob(t)
  <2>1. UNCHANGED <<wallet, config>> /\ (Ends(t) \/ Goes(t, "target") \/ Goes(t, "sweep"))
    BY <1>5, PlainEffects DEF SweepSource, SweepFees, CreateSweepJob
  <2> QED BY <1>1, <1>2, <1>4, <2>1, PlainStepTyped
<1>6. CASE SweepTarget(t) \/ ReadOldMaster(t)
  <2>1. UNCHANGED <<wallet, config>>
    BY <1>6 DEF SweepTarget, ReadOldMaster
  <2>2. CASE Ends(t)
    BY <1>1, <1>2, <2>1, <2>2, PlainStepTyped
  <2>3. CASE /\ TasksTyped' /\ Moves(t) /\ task'[t].step \in {"fees", "flag", "clear"}
             /\ task'[t].wallet = task[t].wallet
    <3>1. TablesTyped' /\ Extended
      BY <1>1, <1>2, <1>3, <2>1, StillTyped
    <3>2. task'[t].wallet \in 0..Len(wallet')
      BY <2>1, <2>3, TaskTyped
    <3> QED BY <2>3, <3>1, <3>2, RefsKept DEF Typed
  <2> QED BY <1>6, <2>2, <2>3, TargetEffect, OldEffect
<1>7. CASE FindOrGenerate(t)
  <2>0. UNCHANGED config
    BY <1>7 DEF FindOrGenerate
  <2>1. CASE Ends(t) /\ UNCHANGED wallet
    BY <1>1, <1>2, <2>0, <2>1, PlainStepTyped
  <2>2. CASE /\ TasksTyped' /\ Moves(t) /\ task'[t].step = "old"
             /\ wallet' = NewWallet(task[t].chain, "_master") /\ task'[t].wallet = Len(wallet) + 1
    <3>1. PICK c \in Chains : c = task[t].chain
      BY <1>7, FindEffect, TaskTyped DEF WellFormed, ChainSteps
    <3>2. wallet' \in Seq(WalletRows) /\ Extended /\ Len(wallet') = Len(wallet) + 1
      BY <1>1, <1>2, <2>0, <2>2, <3>1, WalletAdded
    <3>3. TablesTyped'
      BY <1>1, <1>3, <1>w, <2>0, <3>2, TablesChanged
    <3>4. Len(wallet) + 1 \in 0..(Len(wallet) + 1)
      BY TablesAre
    <3> QED BY <2>2, <3>2, <3>3, <3>4, RefsKept DEF Typed
  <2> QED BY <1>7, <2>1, <2>2, FindEffect
<1>8. CASE ClearOldMaster(t) \/ FlagMaster(t)
  <2>1. Ends(t) \/ \E s \in Steps \ {"disable", "patch"} : Goes(t, s)
    BY <1>4, <1>8, PlainEffects
  <2>2. UNCHANGED config
    BY <1>8 DEF ClearOldMaster, FlagMaster
  <2>3. CASE UNCHANGED wallet
    BY <1>1, <1>2, <2>1, <2>2, <2>3, PlainStepTyped
  <2>4. ASSUME NEW w \in DOMAIN wallet, NEW b \in BOOLEAN, wallet' = [wallet EXCEPT ![w].master = b]
        PROVE  Typed'
    <3>1. wallet' \in Seq(WalletRows) /\ Extended
      BY <1>1, <1>2, <2>2, <2>4, WalletFlagged
    <3>2. TablesTyped'
      BY <1>1, <1>3, <1>w, <2>2, <3>1, TablesChanged
    <3> QED BY <2>1, <3>1, <3>2, PlainRefs DEF Typed
  <2>5. ClearOldMaster(t) => task[t].other \in DOMAIN wallet
    BY DEF ClearOldMaster, UseInv, MadeFor
  <2>6. FlagMaster(t) => task[t].wallet \in DOMAIN wallet
    BY DEF FlagMaster, UseInv, MadeFor, At, Provisions
  <2> QED BY <1>8, <2>3, <2>4, <2>5, <2>6 DEF ClearOldMaster, FlagMaster
<1>9. CASE UpsertSweepConfig(t) \/ WriteSweepConfig(t)
  <2>1. UNCHANGED wallet /\ Ends(t)
    BY <1>9, PlainEffects DEF UpsertSweepConfig, WriteSweepConfig
  <2>2. config' \in Seq(ConfigRows) /\ DOMAIN config \subseteq DOMAIN config'
    BY <1>9, ConfigEffect
  <2>3. TablesTyped'
    BY <1>1, <1>3, <1>w, <2>1, <2>2, TablesChanged
  <2>4. Extended
    BY <1>1, <2>1, <2>2, TablesAre DEF Extended
  <2> QED BY <2>1, <2>3, <2>4, PlainRefs DEF Typed
<1> QED BY <1>5, <1>6, <1>7, <1>8, <1>9 DEF SweepStep

LEMMA TokenStepTyped ==
  ASSUME Typed, NEW t \in Tasks, TokenStep(t)
  PROVE  Typed'
<1>1. UNCHANGED <<wallet, config, relayer, requests>> /\ (Works \/ Fails)
  BY DEF TokenStep, DisableStablecoinToken, Invalidate, CheckSender, CacheGet, ReadTable, SetCache,
         CheckRelayer, CheckBalance, CreateTransferJob, fundsVars, relayerVars, Works
<1>2. requests' \in 0..MaxRequests /\ faults' \in 0..MaxFaults
  BY <1>1, CountsTyped
<1>3. {"get", "db", "set", "configured", "healthy", "covered", "transfer"} \subseteq Steps \ {"disable", "patch"}
  BY DEF Steps, ChainSteps, ReadSteps
<1>4. CASE CheckSender(t) \/ CheckRelayer(t) \/ CheckBalance(t) \/ CreateTransferJob(t)
  <2>1. UNCHANGED <<token, cache>>
    BY <1>4 DEF CheckSender, CheckRelayer, CheckBalance, CreateTransferJob, tokenVars
  <2>2. Ends(t) \/ Goes(t, "get") \/ Goes(t, "healthy")
    BY <1>4, PlainEffects, CheckEffects
  <2> QED BY <1>1, <1>3, <2>1, <2>2, PlainStepTyped
<1>5. CASE CacheGet(t)
  <2>1. UNCHANGED <<token, cache>>
    BY <1>5 DEF CacheGet, tokenVars
  <2>2. \/ Ends(t)
        \/ \E s \in Steps \ {"disable", "patch"} : Goes(t, s) \/ \E e : Grows(t, e, s)
    BY <1>3, <1>5, GetEffect
  <2> QED BY <1>1, <2>1, <2>2, PlainStepTyped
<1>6. CASE ReadTable(t)
  <2>1. UNCHANGED <<token, cache>>
    BY <1>6 DEF ReadTable, tokenVars
  <2>2. \/ Ends(t)
        \/ \E s \in Steps \ {"disable", "patch"} : Goes(t, s) \/ \E e : Grows(t, e, s)
    BY <1>3, <1>6, ReadEffect
  <2> QED BY <1>1, <2>1, <2>2, PlainStepTyped
<1>7. CASE SetCache(t) \/ Invalidate(t)
  <2>1. UNCHANGED token
    BY <1>7 DEF SetCache, Invalidate
  <2>2. DOMAIN cache' = Keys /\ \A k \in Keys : cache'[k] # NoEntry => cache'[k].answer \in Found
    <3>1. \A k \in Keys : cache[k] # NoEntry => cache[k].answer \in Found
      BY DEF Typed, TablesTyped
    <3> QED BY <1>7, <3>1, CacheEffect
  <2>3. TablesTyped'
    BY <1>1, <1>2, <2>1, <2>2 DEF Typed, TablesTyped
  <2>4. Extended
    BY <1>1, <2>1, TablesAre DEF Extended
  <2>5. Ends(t) \/ \E s \in Steps \ {"disable", "patch"} : Goes(t, s)
    BY <1>3, <1>7, SetEffect, PlainEffects
  <2> QED BY <2>3, <2>4, <2>5, PlainRefs DEF Typed
<1>8. CASE DisableStablecoinToken(t)
  <2>1. UNCHANGED cache
    BY <1>8 DEF DisableStablecoinToken
  <2>2. PICK i \in DOMAIN token : i = task[t].other
    BY <1>8, DisableEffect
  <2>3. token' \in Seq(TokenRows) /\ DOMAIN token' = DOMAIN token
    <3>1. CASE UNCHANGED token
      BY <3>1 DEF Typed, TablesTyped
    <3>2. CASE token' = [token EXCEPT ![i].enabled = FALSE]
      BY <3>2, TokenDisabled
    <3> QED BY <1>8, <2>2, <3>1, <3>2 DEF DisableStablecoinToken
  <2>4. TablesTyped'
    BY <1>1, <1>2, <2>1, <2>3 DEF Typed, TablesTyped
  <2>5. Extended
    BY <1>1, <2>3, TablesAre DEF Extended
  <2>6. CASE Ends(t)
    BY <2>4, <2>5, <2>6, PlainRefs DEF Typed
  <2>7. CASE TasksTyped' /\ Moves(t) /\ task'[t].step = "invalidate" /\ task'[t].wallet = 0
    <3>1. 0 \in 0..Len(wallet')
      BY <2>5 DEF Extended
    <3> QED BY <2>4, <2>5, <2>7, <3>1, RefsKept DEF Typed
  <2> QED BY <1>8, <2>6, <2>7, DisableEffect
<1> QED BY <1>4, <1>5, <1>6, <1>7, <1>8 DEF TokenStep

LEMMA WalletIds ==
  ASSUME Typed, NEW w \in DOMAIN wallet
  PROVE  w \in Nat \ {0} /\ w \in 0..Len(wallet)
  BY TablesAre

\* A request arrives.
LEMMA ArrivalTyped ==
  ASSUME Typed, NEW t \in Tasks
  PROVE  /\ \A c \in Chains : ProvisionMasterWallet(t, c) /\ UNCHANGED tokenVars => Typed'
         /\ \A c \in Chains, w \in DOMAIN wallet : TriggerSweep(t, w, c) /\ UNCHANGED tokenVars => Typed'
         /\ \A i \in DOMAIN config, ask \in {{}, {TRUE}, {FALSE}} :
               UpdateSweepConfig(t, i, ask) /\ UNCHANGED tokenVars => Typed' /\ Arrives(t, "patch", NoChain, 0)
         /\ \A c \in Chains, v \in Versions : UpsertToken(t, c, v) => Typed'
         /\ \A i \in DOMAIN token : DisableToken(t, i) =>
               Typed' /\ Arrives(t, "disable", NoChain, 0)
         /\ \A k \in Keys : ReadTokens(t, k) => Typed'
         /\ \A w \in DOMAIN wallet, c \in Chains, g \in BOOLEAN : Transfer(t, w, c, g) => Typed'
<1> USE DEF tokenVars, fundsVars, relayerVars
<1>0. 0 \in 0..Len(wallet)
  BY TablesAre
<1>1. ASSUME UNCHANGED <<wallet, config, relayer, token, cache, faults>>, requests' \in 0..MaxRequests
      PROVE  TablesTyped' /\ Extended
  BY <1>1, StillTyped, CountsTyped DEF Works
<1>2. ASSUME NEW s \in Steps \ {"disable", "patch"}, NEW c, NEW w \in 0..Len(wallet), Arrives(t, s, c, w),
             UNCHANGED <<wallet, config, relayer, token, cache, faults>>
      PROVE  Typed'
  <2>1. TablesTyped' /\ Extended
    BY <1>1, <1>2 DEF Arrives
  <2> QED BY <1>2, <2>1, ArrivalRefs DEF Typed
<1>3. {"provision", "source", "get", "sender", "invalidate"} \subseteq Steps \ {"disable", "patch"}
  BY DEF Steps, ChainSteps, ReadSteps
<1>4. ASSUME NEW c \in Chains, ProvisionMasterWallet(t, c) /\ UNCHANGED tokenVars PROVE Typed'
  <2>1. Arrives(t, "provision", c, 0)
    BY <1>4, ChainArrives DEF ProvisionMasterWallet
  <2> QED BY <1>0, <1>2, <1>3, <1>4, <2>1 DEF ProvisionMasterWallet
<1>5. ASSUME NEW c \in Chains, NEW w \in DOMAIN wallet, TriggerSweep(t, w, c) /\ UNCHANGED tokenVars PROVE Typed'
  <2>1. w \in Nat \ {0} /\ w \in 0..Len(wallet)
    BY WalletIds
  <2>2. Arrives(t, "source", c, w)
    BY <1>5, <2>1, WalletArrives DEF TriggerSweep
  <2> QED BY <1>2, <1>3, <1>5, <2>1, <2>2 DEF TriggerSweep
<1>6. ASSUME NEW k \in Keys, ReadTokens(t, k) PROVE Typed'
  <2>1. Arrives(t, "get", k, 0)
    BY <1>6, ReadArrives
  <2> QED BY <1>0, <1>2, <1>3, <1>6, <2>1 DEF ReadTokens
<1>7. ASSUME NEW w \in DOMAIN wallet, NEW c \in Chains, NEW g \in BOOLEAN, Transfer(t, w, c, g) PROVE Typed'
  <2>1. w \in Nat \ {0} /\ w \in 0..Len(wallet)
    BY WalletIds
  <2>2. Arrives(t, "sender", c, w)
    BY <1>7, <2>1, TransferArrives
  <2>3. UNCHANGED <<wallet, config, relayer, token, cache, faults>>
    BY <1>7 DEF Transfer
  <2> QED BY <1>2, <1>3, <2>1, <2>2, <2>3
<1>8. ASSUME NEW c \in Chains, NEW v \in Versions, UpsertToken(t, c, v) PROVE Typed'
  <2>1. Arrives(t, "invalidate", c, 0)
    BY <1>8, ChainArrives DEF UpsertToken
  <2>2. token' \in Seq(TokenRows) /\ DOMAIN token \subseteq DOMAIN token'
    BY <1>8, TokenUpserted
  <2>3. UNCHANGED <<wallet, config, relayer, cache, faults>> /\ requests' \in 0..MaxRequests
    BY <1>8, <2>1 DEF UpsertToken, Arrives
  <2>4. TablesTyped'
    BY <2>2, <2>3 DEF Typed, TablesTyped
  <2>5. Extended
    BY <2>2, <2>3, TablesAre DEF Extended
  <2>6. 0 \in 0..Len(wallet')
    BY <1>0, <2>3
  <2> QED BY <1>3, <2>1, <2>4, <2>5, <2>6, ArrivalRefs DEF Typed
<1>9. ASSUME NEW s \in {"patch", "disable"}, NEW i \in Nat, NEW f \in BOOLEAN,
             Begin(t, [Idle EXCEPT !.step = s, !.other = i, !.flag = f]),
             s = "patch" => i \in DOMAIN config, s = "disable" => i \in DOMAIN token,
             UNCHANGED <<wallet, config, relayer, token, cache, faults>>
      PROVE  Typed' /\ Arrives(t, s, NoChain, 0)
  <2>1. Arrives(t, s, NoChain, 0) /\ task'[t].other = i
    BY <1>9, RowArrives
  <2>2. TablesTyped' /\ Extended
    BY <1>1, <1>9, <2>1 DEF Arrives
  <2>3. s \in Steps /\ 0 \in 0..Len(wallet')
    BY <1>0, <1>9 DEF Steps
  <2> QED BY <1>9, <2>1, <2>2, <2>3, ArrivalRefs DEF Typed
<1>10. ASSUME NEW i \in DOMAIN token, DisableToken(t, i) PROVE Typed' /\ Arrives(t, "disable", NoChain, 0)
  <2>1. i \in Nat /\ token[i].enabled \in BOOLEAN
    BY TablesAre DEF TokenRows
  <2> QED BY <1>9, <1>10, <2>1 DEF DisableToken
<1>11. ASSUME NEW i \in DOMAIN config, NEW ask \in {{}, {TRUE}, {FALSE}},
              UpdateSweepConfig(t, i, ask) /\ UNCHANGED tokenVars
       PROVE  Typed' /\ Arrives(t, "patch", NoChain, 0)
  <2>1. i \in Nat /\ config[i].enabled \in BOOLEAN
    BY TablesAre DEF ConfigRows
  <2>2. PICK f \in BOOLEAN : f = (IF ask = {} THEN config[i].enabled ELSE ask = {TRUE})
    BY <2>1
  <2> QED BY <1>9, <1>11, <2>1, <2>2 DEF UpdateSweepConfig
<1> QED BY <1>4, <1>5, <1>6, <1>7, <1>8, <1>10, <1>11

LEMMA RelayersTyped ==
  ASSUME Typed, UNCHANGED <<config, tokenVars>>
  PROVE  /\ \A t \in Tasks, c \in Chains : RegisterRelayer(t, c) =>
               /\ Typed' /\ Arrives(t, "relayer", c, Len(wallet) + 1)
               /\ wallet' = NewWallet(c, "_relayer") /\ UNCHANGED <<relayer, token, cache>>
         /\ \A t \in Tasks : CreateRelayerWallet(t) => Typed'
         /\ \A i \in DOMAIN relayer : DeactivateRelayerWallet(i) => Typed'
         /\ \A w, c, g : SubmitSign(w, c, g) => Typed'
         /\ \A j \in job : RunJob(j) => Typed'
<1>1. UNCHANGED <<config, token, cache>>
  BY DEF tokenVars
<1>w. /\ wallet \in Seq(WalletRows) /\ relayer \in Seq(RelayerRows)
      /\ config' \in Seq(ConfigRows) /\ token' \in Seq(TokenRows)
  BY <1>1 DEF Typed, TablesTyped
<1>2. ASSUME NEW t \in Tasks, NEW c \in Chains, RegisterRelayer(t, c)
      PROVE  /\ Typed' /\ Arrives(t, "relayer", c, Len(wallet) + 1)
             /\ wallet' = NewWallet(c, "_relayer") /\ UNCHANGED <<relayer, token, cache>>
  <2>1. PICK m \in Nat \ {0} : m = Len(wallet) + 1
    BY TablesAre
  <2>2. Arrives(t, "relayer", c, m)
    BY <1>2, <2>1, WalletArrives DEF RegisterRelayer
  <2>3. UNCHANGED <<relayer, faults>> /\ wallet' = NewWallet(c, "_relayer")
    BY <1>2 DEF RegisterRelayer, relayerVars
  <2>4. wallet' \in Seq(WalletRows) /\ Extended /\ Len(wallet') = Len(wallet) + 1
    BY <1>1, <2>3, WalletAdded
  <2>5. TablesTyped'
    BY <1>1, <1>w, <2>2, <2>3, <2>4, TablesChanged, CountsTyped DEF Arrives, Works
  <2>6. m \in 0..Len(wallet')
    BY <2>1, <2>4, TablesAre
  <2>7. TasksTyped' /\ RefsTyped'
    BY <2>2, <2>4, <2>6, ArrivalRefs DEF Steps, ChainSteps
  <2> QED BY <1>1, <2>1, <2>2, <2>3, <2>5, <2>7 DEF Typed
<1>3. ASSUME NEW t \in Tasks, CreateRelayerWallet(t) PROVE Typed'
  <2>1. UNCHANGED <<wallet, requests>> /\ (Works \/ Fails) /\ Ends(t)
    BY <1>3, PlainEffects DEF CreateRelayerWallet
  <2>2. relayer' \in Seq(RelayerRows)
    BY <1>3, RelayerEffect
  <2>3. TablesTyped'
    BY <1>1, <1>w, <2>1, <2>2, TablesChanged, CountsTyped
  <2>4. Extended
    BY <1>1, <2>1, TablesAre DEF Extended
  <2> QED BY <2>1, <2>3, <2>4, PlainRefs DEF Typed
<1>4. ASSUME NEW i \in DOMAIN relayer, DeactivateRelayerWallet(i) PROVE Typed'
  <2>1. UNCHANGED <<wallet, task, faults>> /\ relayer' \in Seq(RelayerRows)
    BY <1>4, RelayerEffect DEF DeactivateRelayerWallet
  <2>2. requests' \in 0..MaxRequests
    BY <1>4, Bounds DEF Typed, TablesTyped, DeactivateRelayerWallet
  <2>3. TablesTyped'
    BY <1>1, <1>w, <2>1, <2>2, TablesChanged, CountsTyped DEF Works
  <2> QED BY <1>1, <2>1, <2>3 DEF Typed, TasksTyped, RefsTyped, At
<1>5. ASSUME NEW j \in job, RunJob(j) PROVE Typed'
  <2>1. UNCHANGED <<stateVars, relayer>>
    BY <1>5 DEF RunJob
  <2> QED BY <1>1, <2>1 DEF Typed, TasksTyped, TablesTyped, RefsTyped, At, stateVars
<1>6. ASSUME NEW w, NEW c, NEW g, SubmitSign(w, c, g) PROVE Typed'
  <2>1. UNCHANGED <<wallet, task, faults, relayer>>
    BY <1>6 DEF SubmitSign, relayerVars
  <2>2. requests' \in 0..MaxRequests
    BY <1>6, Bounds DEF Typed, TablesTyped, SubmitSign
  <2>3. TablesTyped'
    BY <1>1, <1>w, <2>1, <2>2, TablesChanged, CountsTyped DEF Works
  <2> QED BY <1>1, <2>1, <2>3 DEF Typed, TasksTyped, RefsTyped, At
<1> QED BY <1>2, <1>3, <1>4, <1>5, <1>6

LEMMA ExpireTyped ==
  ASSUME Typed, NEW k \in Keys, ExpireEntry(k)
  PROVE  Typed'
<1>1. UNCHANGED <<stateVars, token, config, relayer>>
  BY DEF ExpireEntry, fundsVars, relayerVars
<1>2. DOMAIN cache' = Keys /\ \A i \in Keys : cache'[i] # NoEntry => cache'[i].answer \in Found
  <2>1. \A i \in Keys : cache[i] # NoEntry => cache[i].answer \in Found
    BY DEF Typed, TablesTyped
  <2> QED BY <2>1, CacheEffect
<1> QED BY <1>1, <1>2 DEF Typed, TasksTyped, TablesTyped, RefsTyped, At, stateVars

LEMMA NextTyped == Typed /\ UseInv /\ [Next]_vars => Typed'
<1> SUFFICES ASSUME Typed, UseInv, [Next]_vars PROVE Typed'
  OBVIOUS
<1>1. CASE RelayersNext /\ UNCHANGED <<config, tokenVars>>
  BY <1>1, RelayersTyped DEF RelayersNext, RelayerStep
<1>2. CASE SweepNext /\ UNCHANGED tokenVars
  BY <1>2, SweepStepTyped, ArrivalTyped DEF SweepNext
<1>3. CASE TokenNext
  BY <1>3, TokenStepTyped, ArrivalTyped, ExpireTyped DEF TokenNext
<1>4. CASE UNCHANGED vars
  BY <1>4 DEF vars, stateVars, relayerVars, tokenVars, Typed, TasksTyped, TablesTyped, RefsTyped, At
<1> QED BY <1>1, <1>2, <1>3, <1>4 DEF Next

LEMMA InitTables ==
  ASSUME Init
  PROVE  /\ wallet \in Seq(WalletRows) /\ config \in Seq(ConfigRows)
         /\ relayer \in Seq(RelayerRows) /\ token \in Seq(TokenRows)
         /\ Unique(config) /\ Unique(relayer) /\ Unique(token)
         /\ \A i \in DOMAIN relayer : MadeFor(relayer[i].wallet, relayer[i].chain, "_relayer")
         /\ \A w \in DOMAIN wallet : ~wallet[w].master /\ wallet[w].user # "_master"
         /\ \A i \in DOMAIN token : token[i].entry = <<token[i].chain, Seeded>>
<1> DEFINE n == Cardinality(Chains)
           users == [i \in 1..n |-> [chain |-> ChainAt[i], user |-> "user", master |-> FALSE]]
           relayers == [i \in 1..n |-> [chain |-> ChainAt[i], user |-> "_relayer", master |-> FALSE]]
<1>1. n \in Nat /\ DOMAIN ChainAt = 1..n /\ \A i \in 1..n : ChainAt[i] \in Chains
  BY ChainAtLists
<1>2. Len(ChainAt) = n
  <2>1. ChainAt \in Seq(Chains)
    BY ChainAtLists
  <2> QED BY <1>1, <2>1
<1>3. wallet = users \o relayers
  BY <1>1 DEF Init, StateInit
<1>4. relayer = [i \in 1..n |-> [chain |-> ChainAt[i], wallet |-> n + i, active |-> TRUE]]
  BY <1>1, <1>2 DEF Init, RelayersInit
<1>5. token = [i \in 1..n |-> Row(ChainAt[i], Seeded)]
  BY <1>1 DEF Init, TokenInit
<1>6. config = <<>>
  BY DEF Init, MasterInit
<1>7. users \in [1..n -> WalletRows] /\ relayers \in [1..n -> WalletRows]
  BY <1>1 DEF WalletRows
<1>8. \A i, j \in 1..n : ChainAt[i] = ChainAt[j] => i = j
  BY ChainAtLists
<1>9. /\ \A i \in 1..n : ~users[i].master /\ users[i].user = "user"
      /\ \A i \in 1..n : ~relayers[i].master /\ relayers[i].user = "_relayer" /\ relayers[i].chain = ChainAt[i]
  OBVIOUS
<1> HIDE DEF users, relayers, n
<1>10. users \in Seq(WalletRows) /\ Len(users) = n /\ relayers \in Seq(WalletRows) /\ Len(relayers) = n
  BY <1>1, <1>7
<1>11. /\ wallet \in Seq(WalletRows) /\ Len(wallet) = n + n
       /\ \A i \in 1..(n + n) : wallet[i] = IF i <= n THEN users[i] ELSE relayers[i - n]
  <2>1. /\ users \o relayers \in Seq(WalletRows) /\ Len(users \o relayers) = Len(users) + Len(relayers)
        /\ \A i \in 1 .. Len(users) + Len(relayers) :
              (users \o relayers)[i] = IF i <= Len(users) THEN users[i] ELSE relayers[i - Len(users)]
    BY <1>10, ConcatProperties
  <2> QED BY <1>1, <1>3, <1>10, <2>1
<1>12. DOMAIN wallet = 1..(n + n)
  BY <1>11
<1>13. \A i \in 1..n : n + i \in DOMAIN wallet /\ wallet[n + i] = relayers[i]
  BY <1>1, <1>11, <1>12
<1>14. \A w \in DOMAIN wallet : ~wallet[w].master /\ wallet[w].user # "_master"
  <2> SUFFICES ASSUME NEW w \in DOMAIN wallet PROVE ~wallet[w].master /\ wallet[w].user # "_master"
    OBVIOUS
  <2>1. CASE w <= n
    <3>1. w \in 1..n /\ wallet[w] = users[w]
      BY <1>1, <1>11, <1>12, <2>1
    <3> QED BY <1>9, <3>1
  <2>2. CASE ~(w <= n)
    <3>1. PICK i \in 1..n : i = w - n
      BY <1>1, <1>12, <2>2
    <3>2. wallet[w] = relayers[i]
      BY <1>11, <1>12, <2>2, <3>1
    <3> QED BY <1>9, <3>2
  <2> QED BY <2>1, <2>2
<1>15. /\ relayer \in Seq(RelayerRows) /\ DOMAIN relayer = 1..n
       /\ \A i \in 1..n : relayer[i].chain = ChainAt[i] /\ relayer[i].wallet = n + i
  <2>1. relayer \in [1..n -> RelayerRows]
    <3>1. \A i \in 1..n : n + i \in Nat
      BY <1>1
    <3> QED BY <1>1, <1>4, <3>1 DEF RelayerRows
  <2> QED BY <1>1, <1>4, <2>1
<1>16. /\ token \in Seq(TokenRows) /\ DOMAIN token = 1..n
       /\ \A i \in 1..n : token[i].chain = ChainAt[i] /\ token[i].entry = <<ChainAt[i], Seeded>>
  <2>1. \A i \in 1..n : Row(ChainAt[i], Seeded) \in TokenRows
    BY <1>1 DEF Row, TokenRows, Entry
  <2>2. token \in [1..n -> TokenRows]
    BY <1>5, <2>1
  <2> QED BY <1>1, <1>5, <2>2 DEF Row
<1>17. Unique(config) /\ config \in Seq(ConfigRows)
  BY <1>6 DEF Unique
<1>18. Unique(relayer) /\ Unique(token)
  BY <1>8, <1>15, <1>16 DEF Unique
<1>19. \A i \in DOMAIN relayer : MadeFor(relayer[i].wallet, relayer[i].chain, "_relayer")
  BY <1>9, <1>13, <1>15 DEF MadeFor
<1> QED BY <1>11, <1>14, <1>15, <1>16, <1>17, <1>18, <1>19

LEMMA InitTyped == Init => Typed /\ UseInv /\ UniqueInv
<1> SUFFICES ASSUME Init PROVE Typed /\ UseInv /\ UniqueInv
  OBVIOUS
<1>1. task = [t \in Tasks |-> Idle] /\ requests = 0 /\ faults = 0 /\ config = <<>>
      /\ cache = [k \in Keys |-> NoEntry]
  BY DEF Init, StateInit, MasterInit, TokenInit
<1>2. \A t \in Tasks : task[t] = Idle
  BY <1>1
<1>3. TasksTyped
  BY <1>1, IdleTyped DEF TasksTyped
<1>4. TablesTyped
  BY <1>1, InitTables, Bounds DEF TablesTyped
<1>5. RefsTyped
  <2>1. wallet \in Seq(WalletRows)
    BY InitTables
  <2>2. 0 \in 0..Len(wallet)
    BY <2>1
  <2> QED BY <1>2, <2>2, IdleTyped DEF RefsTyped, At
<1>6. UseInv
  <2>1. DOMAIN config = {}
    BY <1>1
  <2> QED BY <1>2, <2>1, InitTables, IdleTyped DEF UseInv, At, Provisions
<1> QED BY <1>3, <1>4, <1>5, <1>6, InitTables DEF Typed, UniqueInv
-----------------------------------------------------------------------------
(***************************************************************************)
(* One row per chain, and rows for wallets made for them.                  *)
(***************************************************************************)

LEMMA MadeStays ==
  ASSUME Extended, NEW w, NEW c, NEW u, MadeFor(w, c, u)
  PROVE  MadeFor(w, c, u)'
  BY DEF Extended, MadeFor

\* What keeps UseInv: rows come from the request that made their wallet, and a
\* request gets a wallet by making it.
LEMMA UseKept ==
  ASSUME UseInv, NEW t \in Tasks, Moves(t), Extended,
         \A i \in DOMAIN config' :
            \/ i \in DOMAIN config /\ config'[i].chain = config[i].chain /\ config'[i].wallet = config[i].wallet
            \/ /\ task[t].step \in Provisions
               /\ config'[i].chain = task[t].chain /\ config'[i].wallet = task[t].wallet,
         \A i \in DOMAIN relayer' :
            \/ i \in DOMAIN relayer /\ relayer'[i].chain = relayer[i].chain /\ relayer'[i].wallet = relayer[i].wallet
            \/ /\ task[t].step = "relayer"
               /\ relayer'[i].chain = task[t].chain /\ relayer'[i].wallet = task[t].wallet,
         task'[t].step \in Provisions =>
            \/ task[t].step \in Provisions /\ task'[t].chain = task[t].chain /\ task'[t].wallet = task[t].wallet
            \/ /\ task'[t].wallet \in DOMAIN wallet' /\ wallet'[task'[t].wallet].chain = task'[t].chain
               /\ wallet'[task'[t].wallet].user = "_master",
         task'[t].step = "relayer" =>
            /\ task'[t].wallet \in DOMAIN wallet' /\ wallet'[task'[t].wallet].chain = task'[t].chain
            /\ wallet'[task'[t].wallet].user = "_relayer",
         task'[t].step = "clear" =>
            \E i \in DOMAIN config : config[i].chain = task'[t].chain /\ config[i].wallet = task'[t].other,
         \A w \in DOMAIN wallet' : wallet'[w].master =>
            (w \in DOMAIN wallet /\ wallet[w].master) \/ wallet'[w].user = "_master"
  PROVE  UseInv'
<1>1. \A s \in Tasks : s # t => task'[s] = task[s]
  BY DEF Moves
<1>2. ASSUME NEW i \in DOMAIN config'
      PROVE  \E w, c : w = config'[i].wallet /\ c = config'[i].chain /\ MadeFor(w, c, "_master")'
  <2>1. PICK w, c : w = config'[i].wallet /\ c = config'[i].chain
    OBVIOUS
  <2>2. MadeFor(w, c, "_master")
    BY <2>1 DEF UseInv, At
  <2> QED BY <2>1, <2>2, MadeStays
<1>3. ASSUME NEW i \in DOMAIN relayer'
      PROVE  \E w, c : w = relayer'[i].wallet /\ c = relayer'[i].chain /\ MadeFor(w, c, "_relayer")'
  <2>1. PICK w, c : w = relayer'[i].wallet /\ c = relayer'[i].chain
    OBVIOUS
  <2>2. MadeFor(w, c, "_relayer")
    BY <2>1 DEF UseInv, At
  <2> QED BY <2>1, <2>2, MadeStays
<1>4. ASSUME NEW s \in Tasks, task'[s].step \in Provisions
      PROVE  \E w, c : w = task'[s].wallet /\ c = task'[s].chain /\ MadeFor(w, c, "_master")'
  <2>1. PICK w, c : w = task'[s].wallet /\ c = task'[s].chain
    OBVIOUS
  <2>2. CASE MadeFor(w, c, "_master")
    BY <2>1, <2>2, MadeStays
  <2>3. CASE s = t /\ w \in DOMAIN wallet' /\ wallet'[w].chain = c /\ wallet'[w].user = "_master"
    BY <2>1, <2>3 DEF MadeFor
  <2> QED BY <1>1, <1>4, <2>1, <2>2, <2>3 DEF UseInv, At
<1>5. ASSUME NEW s \in Tasks, task'[s].step = "relayer"
      PROVE  \E w, c : w = task'[s].wallet /\ c = task'[s].chain /\ MadeFor(w, c, "_relayer")'
  <2>1. PICK w, c : w = task'[s].wallet /\ c = task'[s].chain
    OBVIOUS
  <2>2. CASE MadeFor(w, c, "_relayer")
    BY <2>1, <2>2, MadeStays
  <2>3. CASE s = t
    BY <1>5, <2>1, <2>3 DEF MadeFor
  <2>4. s # t => MadeFor(w, c, "_relayer")
    BY <1>1, <1>5, <2>1 DEF UseInv, At
  <2> QED BY <2>2, <2>3, <2>4
<1>6. ASSUME NEW s \in Tasks, task'[s].step = "clear"
      PROVE  \E w, c : w = task'[s].other /\ c = task'[s].chain /\ MadeFor(w, c, "_master")'
  <2>1. PICK w, c : w = task'[s].other /\ c = task'[s].chain
    OBVIOUS
  <2>2. MadeFor(w, c, "_master")
    BY <1>1, <1>6, <2>1 DEF UseInv, At
  <2> QED BY <2>1, <2>2, MadeStays
<1>7. \A w \in DOMAIN wallet' : wallet'[w].master => wallet'[w].user = "_master"
  BY DEF UseInv, Extended
<1> QED BY <1>2, <1>3, <1>4, <1>5, <1>6, <1>7 DEF UseInv, At, MadeFor

\* A request comes to have checked its wallet by reading its flag, and makes jobs
\* of the wallet it has checked.
Checks(t) ==
    /\ Checked(task'[t]) =>
          /\ task'[t].wallet = task[t].wallet /\ task[t].wallet \in DOMAIN wallet
          /\ \/ Checked(task[t]) /\ task'[t].early = task[t].early
             \/ /\ task[t].step \in {"source", "sender"} /\ ~wallet[task[t].wallet].master
                /\ task'[t].early = (task[t].wallet \in Unready)
    /\ \A j \in job' : j \in job \/ (Checked(task[t]) /\ j.from = task[t].wallet /\ j.early = task[t].early)

\* A step that provisions nothing: it may check a wallet's flag, and make a job
\* of a wallet it has checked.
Quiet(t) ==
    /\ Moves(t) /\ Extended /\ UNCHANGED wallet
    /\ DOMAIN config' = DOMAIN config
    /\ \A i \in DOMAIN config : config'[i].chain = config[i].chain /\ config'[i].wallet = config[i].wallet
    /\ task[t].step \notin Provisions /\ task'[t].step \notin Provisions \cup {"relayer"}
    /\ Checks(t)

LEMMA UseQuiet ==
  ASSUME UseInv, NEW t \in Tasks, Quiet(t),
         \A i \in DOMAIN relayer' :
            \/ i \in DOMAIN relayer /\ relayer'[i].chain = relayer[i].chain /\ relayer'[i].wallet = relayer[i].wallet
            \/ /\ task[t].step = "relayer"
               /\ relayer'[i].chain = task[t].chain /\ relayer'[i].wallet = task[t].wallet
  PROVE  UseInv'
  BY UseKept DEF Quiet, Provisions

\* Wallets that a request names exist: 0 is none.
LEMMA NamedExists ==
  ASSUME Typed, NEW t \in Tasks, task[t].wallet # 0
  PROVE  task[t].wallet \in DOMAIN wallet
<1>1. task[t].wallet \in 0..Len(wallet)
  BY DEF Typed, RefsTyped
<1> QED BY <1>1, TablesAre

LEMMA EndsQuietly ==
  ASSUME Typed, NEW t \in Tasks, Ends(t), UNCHANGED wallet, DOMAIN token \subseteq DOMAIN token',
         DOMAIN config' = DOMAIN config,
         \A i \in DOMAIN config : config'[i].chain = config[i].chain /\ config'[i].wallet = config[i].wallet,
         task[t].step \notin Provisions,
         \A j \in job' : j \in job \/ (Checked(task[t]) /\ j.from = task[t].wallet /\ j.early = task[t].early)
  PROVE  Quiet(t)
<1>1. Extended
  BY TablesAre DEF Extended
<1>2. ~Checked(Idle) /\ Idle.step = "idle"
  BY IdleTyped DEF Checked, ReadSteps
<1> QED BY <1>1, <1>2 DEF Ends, Quiet, Checks, Provisions

LEMMA GoesQuietly ==
  ASSUME Typed, NEW t \in Tasks, NEW s \in Steps \ (Provisions \cup {"relayer"}),
         Goes(t, s) \/ (\E e : Grows(t, e, s))
            \/ (TasksTyped' /\ Moves(t) /\ task'[t].step = s /\ task'[t].wallet = task[t].wallet),
         UNCHANGED <<wallet, token, config, job>>,
         task[t].step \notin Provisions,
         \/ Checked(task[t]) /\ task'[t].early = task[t].early
         \/ /\ task[t].step \in {"source", "sender"} /\ ~wallet[task[t].wallet].master
            /\ task'[t].early = (task[t].wallet \in Unready)
         \/ task[t].wallet = 0 /\ s \in ReadSteps,
         s \in {"target", "fees", "sweep"} => task[t].wallet \in DOMAIN wallet
  PROVE  Quiet(t)
<1>1. Extended
  BY TablesAre DEF Extended
<1>2. Moves(t) /\ task'[t].step = s /\ task'[t].wallet = task[t].wallet
  BY DEF Goes, Grows, Keeps
<1>3. Checked(task'[t]) => task[t].wallet \in DOMAIN wallet
  BY <1>2, NamedExists DEF Checked
<1>4. task[t].wallet = 0 /\ s \in ReadSteps => ~Checked(task'[t])
  BY <1>2 DEF Checked, ReadSteps
<1>5. Checks(t)
  BY <1>2, <1>3, <1>4 DEF Checks
<1> QED BY <1>1, <1>2, <1>5 DEF Quiet

LEMMA ArrivesQuietly ==
  ASSUME Typed, NEW t \in Tasks, NEW s \in {"provision", "patch", "source", "invalidate", "disable", "get", "sender"},
         NEW c, NEW w, Arrives(t, s, c, w), s = "get" => w = 0,
         UNCHANGED <<wallet, config, job>>, DOMAIN token \subseteq DOMAIN token'
  PROVE  Quiet(t)
<1>1. Extended
  BY TablesAre DEF Extended
<1>2. ~Checked(task'[t])
  BY DEF Checked, ReadSteps, Arrives
<1> QED BY <1>1, <1>2 DEF Quiet, Checks, Arrives, Provisions

LEMMA ConfigStays ==
  UNCHANGED config =>
      /\ DOMAIN config' = DOMAIN config
      /\ \A i \in DOMAIN config : config'[i].chain = config[i].chain /\ config'[i].wallet = config[i].wallet
  OBVIOUS

LEMMA SweepStepQuiet ==
  ASSUME Typed, NEW t \in Tasks, UNCHANGED tokenVars,
         \/ SweepSource(t) \/ SweepTarget(t) \/ SweepFees(t) \/ CreateSweepJob(t) \/ WriteSweepConfig(t)
  PROVE  Quiet(t) /\ UNCHANGED relayer
<1>0. UNCHANGED <<wallet, relayer, token>>
  BY DEF SweepSource, SweepTarget, SweepFees, CreateSweepJob, WriteSweepConfig, relayerVars, tokenVars
<1>1. task[t].step \in WalletSteps => task[t].wallet \in DOMAIN wallet
  BY TaskTyped, NamedExists DEF WellFormed
<1>2. {"target", "fees", "sweep"} \subseteq Steps \ (Provisions \cup {"relayer"})
  BY DEF Steps, ChainSteps, Provisions
<1>3. CASE SweepSource(t)
  <2>1. UNCHANGED <<config, job>> /\ task[t].step = "source"
    BY <1>3 DEF SweepSource, At
  <2>2. CASE Ends(t)
    BY <1>0, <2>1, <2>2, EndsQuietly, ConfigStays DEF Provisions
  <2>3. CASE Accept(t, "target") /\ ~wallet[task[t].wallet].master
    <3>1. Goes(t, "target") /\ task'[t].early = (task[t].wallet \in Unready)
      BY <2>1, <2>3, AcceptTyped
    <3> QED BY <1>0, <1>1, <1>2, <2>1, <2>3, <3>1, GoesQuietly DEF Provisions, WalletSteps
  <2> QED BY <1>3, <2>2, <2>3, EndsTyped DEF SweepSource, MaySweep
<1>4. CASE SweepTarget(t)
  <2>1. UNCHANGED <<config, job>> /\ task[t].step = "target" /\ Checked(task[t])
    BY <1>4 DEF SweepTarget, At, Checked
  <2>2. CASE Ends(t)
    BY <1>0, <2>1, <2>2, EndsQuietly, ConfigStays DEF Provisions
  <2>3. CASE TasksTyped' /\ Moves(t) /\ task'[t].step = "fees" /\ task'[t].wallet = task[t].wallet
    <3>1. task'[t].early = task[t].early
      BY <1>4, <2>3, EarlyKept
    <3> QED BY <1>0, <1>1, <1>2, <2>1, <2>3, <3>1, GoesQuietly DEF Provisions, WalletSteps
  <2> QED BY <1>4, <2>2, <2>3, TargetEffect
<1>5. CASE SweepFees(t)
  <2>1. UNCHANGED <<config, job>> /\ task[t].step = "fees" /\ Checked(task[t])
    BY <1>5 DEF SweepFees, At, Checked
  <2>2. CASE Ends(t)
    BY <1>0, <2>1, <2>2, EndsQuietly, ConfigStays DEF Provisions
  <2>3. CASE Goes(t, "sweep")
    <3>1. task'[t].early = task[t].early
      BY <1>5, <2>3, EarlyKept DEF Goes
    <3> QED BY <1>0, <1>1, <1>2, <2>1, <2>3, <3>1, GoesQuietly DEF Provisions, WalletSteps
  <2> QED BY <1>5, <2>2, <2>3, PlainEffects
<1>6. CASE CreateSweepJob(t)
  <2>1. UNCHANGED config /\ task[t].step = "sweep" /\ Checked(task[t])
    BY <1>6 DEF CreateSweepJob, At, Checked
  <2>2. \A j \in job' : j \in job \/ (j.from = task[t].wallet /\ j.early = task[t].early)
    BY <1>6 DEF CreateSweepJob, CreateSigningJob, SweepPayload
  <2>3. Ends(t)
    BY <1>6, PlainEffects
  <2> QED BY <1>0, <2>1, <2>2, <2>3, EndsQuietly, ConfigStays DEF Provisions
<1>7. CASE WriteSweepConfig(t)
  <2>1. UNCHANGED job /\ task[t].step = "patch" /\ Ends(t)
    BY <1>7, PlainEffects DEF WriteSweepConfig
  <2>2. /\ DOMAIN config' = DOMAIN config
        /\ \A i \in DOMAIN config : config'[i].chain = config[i].chain /\ config'[i].wallet = config[i].wallet
    BY <1>7, <2>1, ConfigEffect
  <2> QED BY <1>0, <2>1, <2>2, EndsQuietly DEF Provisions
<1> QED BY <1>0, <1>3, <1>4, <1>5, <1>6, <1>7

LEMMA TokenStepQuiet ==
  ASSUME Typed, NEW t \in Tasks, TokenStep(t)
  PROVE  Quiet(t) /\ UNCHANGED relayer
<1>0. UNCHANGED <<wallet, config, relayer>>
  BY DEF TokenStep, DisableStablecoinToken, Invalidate, CheckSender, CacheGet, ReadTable, SetCache,
         CheckRelayer, CheckBalance, CreateTransferJob, fundsVars, relayerVars
<1> SUFFICES Quiet(t)
  BY <1>0
<1>1. {"get", "db", "set", "configured", "healthy", "covered", "transfer"}
         \subseteq Steps \ (Provisions \cup {"relayer"})
  BY DEF Steps, ChainSteps, ReadSteps, Provisions
<1>2. ASSUME UNCHANGED job, task[t].step \notin Provisions, Ends(t), DOMAIN token \subseteq DOMAIN token'
      PROVE  Quiet(t)
  BY <1>0, <1>2, EndsQuietly, ConfigStays
<1>3. ASSUME UNCHANGED <<job, token>>, task[t].step \notin Provisions,
             NEW s \in {"get", "db", "set", "configured", "healthy", "covered", "transfer"},
             Goes(t, s) \/ \E e : Grows(t, e, s),
             Checked(task[t]) \/ (task[t].wallet = 0 /\ s \in ReadSteps),
             CacheGet(t) \/ ReadTable(t) \/ SetCache(t) \/ CheckRelayer(t) \/ CheckBalance(t)
      PROVE  Quiet(t)
  <2>1. task'[t].early = task[t].early
    BY <1>3, EarlyKept DEF Goes, Grows
  <2> QED BY <1>0, <1>1, <1>3, <2>1, GoesQuietly
<1>4. CASE CheckSender(t)
  <2>1. UNCHANGED <<job, token>> /\ task[t].step = "sender"
    BY <1>4 DEF CheckSender, At, tokenVars
  <2>2. CASE Finish(t)
    BY <1>2, <2>1, <2>2, EndsTyped DEF Provisions
  <2>3. CASE Accept(t, "get") /\ ~wallet[task[t].wallet].master
    <3>1. Goes(t, "get") /\ task'[t].early = (task[t].wallet \in Unready)
      BY <2>1, <2>3, AcceptTyped
    <3> QED BY <1>0, <1>1, <2>1, <2>3, <3>1, GoesQuietly DEF Provisions
  <2> QED BY <1>4, <2>2, <2>3 DEF CheckSender
<1>5. CASE CacheGet(t)
  <2>1. UNCHANGED <<job, token>> /\ task[t].step = "get"
    BY <1>5 DEF CacheGet, At, tokenVars
  <2>2. Checked(task[t]) \/ task[t].wallet = 0
    BY <2>1 DEF Checked, ReadSteps
  <2>3. CASE Ends(t)
    BY <1>2, <2>1, <2>3 DEF Provisions
  <2>4. CASE Goes(t, "db")
    BY <1>3, <1>5, <2>1, <2>2, <2>4 DEF Provisions, ReadSteps
  <2>5. ASSUME task[t].wallet # 0, NEW s \in {"get", "configured", "covered", "transfer"}, NEW e, Grows(t, e, s)
        PROVE  Quiet(t)
    BY <1>3, <1>5, <2>1, <2>2, <2>5 DEF Provisions
  <2> QED BY <1>5, <2>3, <2>4, <2>5, GetEffect
<1>6. CASE ReadTable(t)
  <2>1. UNCHANGED <<job, token>> /\ task[t].step = "db"
    BY <1>6 DEF ReadTable, At, tokenVars
  <2>2. Checked(task[t]) \/ task[t].wallet = 0
    BY <2>1 DEF Checked, ReadSteps
  <2>3. CASE Ends(t)
    BY <1>2, <2>1, <2>3 DEF Provisions
  <2>4. ASSUME NEW e, Grows(t, e, "set") PROVE Quiet(t)
    BY <1>3, <1>6, <2>1, <2>2, <2>4 DEF Provisions, ReadSteps
  <2> QED BY <1>6, <2>3, <2>4, ReadEffect
<1>7. CASE SetCache(t)
  <2>1. UNCHANGED <<job, token>> /\ task[t].step = "set"
    BY <1>7 DEF SetCache, At
  <2>2. CASE Ends(t)
    BY <1>2, <2>1, <2>2 DEF Provisions
  <2>3. ASSUME task[t].wallet # 0, NEW s \in {"get", "configured", "covered", "transfer"}, Goes(t, s)
        PROVE  Quiet(t)
    <3>1. Checked(task[t])
      BY <2>1, <2>3 DEF Checked, ReadSteps
    <3> QED BY <1>3, <1>7, <2>1, <2>3, <3>1 DEF Provisions
  <2> QED BY <1>7, <2>2, <2>3, SetEffect
<1>8. CASE CheckRelayer(t) \/ CheckBalance(t)
  <2>1. UNCHANGED <<job, token>> /\ task[t].step \in {"configured", "healthy", "covered"}
    BY <1>8 DEF CheckRelayer, CheckBalance, At, tokenVars
  <2>2. Checked(task[t])
    BY <2>1, TaskTyped DEF Checked, WellFormed, WalletSteps
  <2>3. CASE Ends(t)
    BY <1>2, <2>1, <2>3 DEF Provisions
  <2>4. CASE Goes(t, "get") \/ Goes(t, "healthy")
    BY <1>3, <1>8, <2>1, <2>2, <2>4 DEF Provisions
  <2> QED BY <1>8, <2>3, <2>4, CheckEffects
<1>9. CASE CreateTransferJob(t)
  <2>1. UNCHANGED token /\ task[t].step = "transfer" /\ Ends(t)
    BY <1>9, PlainEffects DEF CreateTransferJob, tokenVars
  <2>2. Checked(task[t])
    BY <2>1, TaskTyped DEF Checked, WellFormed, WalletSteps
  <2>3. \A j \in job' : j \in job \/ (j.from = task[t].wallet /\ j.early = task[t].early)
    BY <1>9 DEF CreateTransferJob, CreateSigningJob, TransferPayload
  <2> QED BY <1>0, <2>1, <2>2, <2>3, EndsQuietly, ConfigStays DEF Provisions
<1>10. CASE Invalidate(t)
  <2>1. UNCHANGED <<job, token>> /\ task[t].step = "invalidate" /\ Ends(t)
    BY <1>10, PlainEffects DEF Invalidate
  <2> QED BY <1>2, <2>1 DEF Provisions
<1>11. CASE DisableStablecoinToken(t)
  <2>1. UNCHANGED job /\ task[t].step = "disable"
    BY <1>11 DEF DisableStablecoinToken, At
  <2>2. DOMAIN token' = DOMAIN token
    <3>1. PICK i \in DOMAIN token : i = task[t].other
      BY <1>11, DisableEffect
    <3> QED BY <1>11, <3>1 DEF DisableStablecoinToken
  <2>3. CASE Ends(t)
    BY <1>2, <2>1, <2>2, <2>3 DEF Provisions
  <2>4. CASE Moves(t) /\ task'[t].step = "invalidate" /\ task'[t].wallet = 0
    <3>1. Extended
      BY <1>0, <2>2, TablesAre DEF Extended
    <3>2. ~Checked(task'[t])
      BY <2>4 DEF Checked, ReadSteps
    <3> QED BY <1>0, <2>1, <2>4, <3>1, <3>2, ConfigStays DEF Quiet, Checks, Provisions
  <2> QED BY <1>11, <2>3, <2>4, DisableEffect
<1> QED BY <1>0, <1>4, <1>5, <1>6, <1>7, <1>8, <1>9, <1>10, <1>11 DEF TokenStep

\* Requests that arrive, but for a relayer's registration.
Arrival(t) ==
    \/ /\ \/ \E c \in Chains : ProvisionMasterWallet(t, c) \/ \E w \in DOMAIN wallet : TriggerSweep(t, w, c)
          \/ \E i \in DOMAIN config, ask \in {{}, {TRUE}, {FALSE}} : UpdateSweepConfig(t, i, ask)
       /\ UNCHANGED tokenVars
    \/ \E c \in Chains, v \in Versions : UpsertToken(t, c, v)
    \/ \E i \in DOMAIN token : DisableToken(t, i)
    \/ \E k \in Keys : ReadTokens(t, k)
    \/ \E w \in DOMAIN wallet, c \in Chains, g \in BOOLEAN : Transfer(t, w, c, g)

LEMMA ArrivalQuiet ==
  ASSUME Typed, NEW t \in Tasks, Arrival(t)
  PROVE  Quiet(t) /\ UNCHANGED relayer
<1> USE DEF tokenVars, fundsVars, relayerVars
<1>0. UNCHANGED <<wallet, config, relayer, job>>
  BY DEF Arrival, ProvisionMasterWallet, TriggerSweep, UpdateSweepConfig, UpsertToken, DisableToken,
         ReadTokens, Transfer
<1>1. ASSUME NEW s \in {"provision", "patch", "source", "invalidate", "disable", "get", "sender"},
             NEW c, NEW w, Arrives(t, s, c, w), s = "get" => w = 0,
             DOMAIN token \subseteq DOMAIN token'
      PROVE  Quiet(t)
  BY <1>0, <1>1, ArrivesQuietly
<1>2. ASSUME NEW c \in Chains, ProvisionMasterWallet(t, c) /\ UNCHANGED tokenVars PROVE Quiet(t)
  <2>1. Arrives(t, "provision", c, 0)
    BY <1>2, ChainArrives DEF ProvisionMasterWallet
  <2> QED BY <1>1, <1>2, <2>1
<1>3. ASSUME NEW c \in Chains, NEW w \in DOMAIN wallet, TriggerSweep(t, w, c) /\ UNCHANGED tokenVars PROVE Quiet(t)
  <2>1. w \in Nat \ {0}
    BY WalletIds
  <2>2. Arrives(t, "source", c, w)
    BY <1>3, <2>1, WalletArrives DEF TriggerSweep
  <2> QED BY <1>1, <1>3, <2>2
<1>4. ASSUME NEW k \in Keys, ReadTokens(t, k) PROVE Quiet(t)
  <2>1. Arrives(t, "get", k, 0) /\ UNCHANGED token
    BY <1>4, ReadArrives DEF ReadTokens
  <2> QED BY <1>1, <2>1
<1>5. ASSUME NEW w \in DOMAIN wallet, NEW c \in Chains, NEW g \in BOOLEAN, Transfer(t, w, c, g) PROVE Quiet(t)
  <2>1. w \in Nat \ {0}
    BY WalletIds
  <2>2. Arrives(t, "sender", c, w)
    BY <1>5, <2>1, TransferArrives
  <2>3. UNCHANGED token
    BY <1>5 DEF Transfer
  <2> QED BY <1>1, <2>2, <2>3
<1>6. ASSUME NEW c \in Chains, NEW v \in Versions, UpsertToken(t, c, v) PROVE Quiet(t)
  <2>1. Arrives(t, "invalidate", c, 0)
    BY <1>6, ChainArrives DEF UpsertToken
  <2>2. DOMAIN token \subseteq DOMAIN token'
    BY <1>6, TokenUpserted
  <2> QED BY <1>1, <2>1, <2>2
<1>7. ASSUME NEW i \in DOMAIN token, DisableToken(t, i) PROVE Quiet(t)
  <2>1. Arrives(t, "disable", NoChain, 0) /\ UNCHANGED token
    BY <1>7, ArrivalTyped DEF DisableToken
  <2> QED BY <1>1, <2>1
<1>8. ASSUME NEW i \in DOMAIN config, NEW ask \in {{}, {TRUE}, {FALSE}},
             UpdateSweepConfig(t, i, ask) /\ UNCHANGED tokenVars
      PROVE  Quiet(t)
  <2>1. Arrives(t, "patch", NoChain, 0) /\ UNCHANGED token
    BY <1>8, ArrivalTyped
  <2> QED BY <1>1, <2>1
<1> QED BY <1>0, <1>2, <1>3, <1>4, <1>5, <1>6, <1>7, <1>8 DEF Arrival

LEMMA RelayerQuiet ==
  ASSUME Typed, NEW t \in Tasks, CreateRelayerWallet(t), UNCHANGED <<config, tokenVars>>
  PROVE  Quiet(t)
<1>1. UNCHANGED <<wallet, job, token>> /\ task[t].step = "relayer" /\ Ends(t)
  BY PlainEffects DEF CreateRelayerWallet, tokenVars
<1> QED BY <1>1, EndsQuietly, ConfigStays DEF Provisions

\* Steps of no request.
LEMMA UseStill ==
  ASSUME UseInv, UNCHANGED <<wallet, config, task>>, DOMAIN relayer' = DOMAIN relayer,
         \A i \in DOMAIN relayer : relayer'[i].chain = relayer[i].chain /\ relayer'[i].wallet = relayer[i].wallet
  PROVE  UseInv'
  BY DEF UseInv, MadeFor, At

LEMMA ProvisioningUse ==
  ASSUME Typed, UseInv, NEW t \in Tasks, UNCHANGED tokenVars,
         \/ FindOrGenerate(t) \/ ReadOldMaster(t) \/ ClearOldMaster(t) \/ FlagMaster(t) \/ UpsertSweepConfig(t)
  PROVE  UseInv'
<1>0. UNCHANGED <<relayer, token, cache>>
  BY DEF FindOrGenerate, ReadOldMaster, ClearOldMaster, FlagMaster, UpsertSweepConfig, relayerVars, tokenVars
<1>1. CASE FindOrGenerate(t)
  <2>0. UNCHANGED config
    BY <1>1 DEF FindOrGenerate
  <2>1. CASE Ends(t) /\ UNCHANGED wallet
    <3>1. Extended /\ Moves(t) /\ task'[t].step = "idle"
      BY <1>0, <2>0, <2>1, TablesAre, IdleTyped DEF Extended, Ends
    <3> QED BY <1>0, <2>0, <2>1, <3>1, UseKept DEF Provisions
  <2>2. CASE /\ TasksTyped' /\ Moves(t) /\ task'[t].step = "old"
             /\ wallet' = NewWallet(task[t].chain, "_master")
             /\ task'[t].chain = task[t].chain /\ task'[t].wallet = Len(wallet) + 1
    <3>1. PICK c \in Chains : c = task[t].chain
      BY <1>1, FindEffect, TaskTyped DEF WellFormed, ChainSteps
    <3>2. /\ Extended /\ DOMAIN wallet' = 1..(Len(wallet) + 1)
          /\ wallet'[Len(wallet) + 1] = [chain |-> c, user |-> "_master", master |-> FALSE]
          /\ \A w \in DOMAIN wallet : wallet'[w] = wallet[w]
      BY <1>0, <2>0, <2>2, <3>1, WalletAdded
    <3>3. PICK m : m = Len(wallet) + 1 /\ m \in DOMAIN wallet' /\ DOMAIN wallet' = DOMAIN wallet \cup {m}
      BY <3>2, TablesAre
    <3>4. wallet'[m].chain = c /\ wallet'[m].user = "_master" /\ ~wallet'[m].master
      BY <3>2, <3>3
    <3>5. \A w \in DOMAIN wallet' : wallet'[w].master => (w \in DOMAIN wallet /\ wallet[w].master)
      BY <3>2, <3>3, <3>4
    <3> QED BY <1>0, <2>0, <2>2, <3>1, <3>2, <3>3, <3>4, <3>5, UseKept
  <2> QED BY <1>1, <2>1, <2>2, FindEffect
<1>2. CASE ReadOldMaster(t)
  <2>1. UNCHANGED <<wallet, config>>
    BY <1>2 DEF ReadOldMaster
  <2>2. Extended
    BY <1>0, <2>1, TablesAre DEF Extended
  <2>3. /\ Moves(t) /\ task[t].step = "old" /\ task'[t].chain = task[t].chain /\ task'[t].wallet = task[t].wallet
        /\ \/ task'[t].step = "flag"
           \/ /\ task'[t].step = "clear"
              /\ \E i \in DOMAIN config : config[i].chain = task[t].chain /\ config[i].wallet = task'[t].other
    BY <1>2, OldEffect
  <2> QED BY <1>0, <2>1, <2>2, <2>3, UseKept DEF Provisions
<1>3. CASE ClearOldMaster(t) \/ FlagMaster(t)
  <2>1. /\ Moves(t) /\ task[t].step \in Provisions
        /\ task'[t].step \in {"idle", "flag", "config"}
        /\ task'[t].step # "idle" => task'[t].chain = task[t].chain /\ task'[t].wallet = task[t].wallet
    BY <1>3, PlainEffects, IdleTyped DEF Ends, Goes, Keeps, Provisions
  <2>2. UNCHANGED config
    BY <1>3 DEF ClearOldMaster, FlagMaster
  <2>3. ASSUME Extended,
               \A w \in DOMAIN wallet' : wallet'[w].master =>
                  (w \in DOMAIN wallet /\ wallet[w].master) \/ wallet'[w].user = "_master"
        PROVE  UseInv'
    BY <1>0, <2>1, <2>2, <2>3, UseKept DEF Provisions
  <2>4. CASE UNCHANGED wallet
    <3>1. Extended
      BY <1>0, <2>2, <2>4, TablesAre DEF Extended
    <3> QED BY <2>3, <2>4, <3>1
  <2>5. ASSUME NEW w \in DOMAIN wallet, NEW b \in BOOLEAN, wallet' = [wallet EXCEPT ![w].master = b],
               wallet[w].user = "_master"
        PROVE  UseInv'
    <3>1. /\ Extended /\ DOMAIN wallet' = DOMAIN wallet /\ wallet'[w].user = wallet[w].user
          /\ \A v \in DOMAIN wallet : v # w => wallet'[v] = wallet[v]
      BY <1>0, <2>2, <2>5, WalletFlagged
    <3> QED BY <2>3, <2>5, <3>1
  <2>6. ClearOldMaster(t) => task[t].other \in DOMAIN wallet /\ wallet[task[t].other].user = "_master"
    BY DEF ClearOldMaster, UseInv, MadeFor
  <2>7. FlagMaster(t) => task[t].wallet \in DOMAIN wallet /\ wallet[task[t].wallet].user = "_master"
    BY DEF FlagMaster, UseInv, MadeFor, At, Provisions
  <2> QED BY <1>3, <2>4, <2>5, <2>6, <2>7 DEF ClearOldMaster, FlagMaster
<1>4. CASE UpsertSweepConfig(t)
  <2>1. UNCHANGED wallet /\ Moves(t) /\ task[t].step = "config" /\ task'[t].step = "idle"
    BY <1>4, PlainEffects, IdleTyped DEF UpsertSweepConfig, Ends
  <2>2. /\ DOMAIN config \subseteq DOMAIN config'
        /\ \A i \in DOMAIN config' :
              \/ config'[i].chain = task[t].chain /\ config'[i].wallet = task[t].wallet
              \/ i \in DOMAIN config /\ config'[i].chain = config[i].chain /\ config'[i].wallet = config[i].wallet
    BY <1>4, ConfigEffect
  <2>3. Extended
    BY <1>0, <2>1, <2>2, TablesAre DEF Extended
  <2> QED BY <1>0, <2>1, <2>2, <2>3, UseKept DEF Provisions
<1> QED BY <1>1, <1>2, <1>3, <1>4

LEMMA RegistrationUse ==
  ASSUME Typed, UseInv, NEW t \in Tasks, NEW c \in Chains, RegisterRelayer(t, c), UNCHANGED <<config, tokenVars>>
  PROVE  UseInv'
<1>1. /\ Arrives(t, "relayer", c, Len(wallet) + 1)
      /\ wallet' = NewWallet(c, "_relayer") /\ UNCHANGED <<relayer, token, cache>>
  BY RelayersTyped
<1>2. /\ Extended /\ DOMAIN wallet' = 1..(Len(wallet) + 1)
      /\ wallet'[Len(wallet) + 1] = [chain |-> c, user |-> "_relayer", master |-> FALSE]
      /\ \A w \in DOMAIN wallet : wallet'[w] = wallet[w]
  BY <1>1, WalletAdded
<1>3. PICK m : m = Len(wallet) + 1 /\ m \in DOMAIN wallet' /\ DOMAIN wallet' = DOMAIN wallet \cup {m}
  BY <1>2, TablesAre
<1>4. wallet'[m].chain = c /\ wallet'[m].user = "_relayer" /\ ~wallet'[m].master
  BY <1>2, <1>3
<1>5. \A w \in DOMAIN wallet' : wallet'[w].master => (w \in DOMAIN wallet /\ wallet[w].master)
  BY <1>2, <1>3, <1>4
<1>6. Moves(t) /\ task'[t].step = "relayer" /\ task'[t].wallet = m /\ task'[t].chain = c
  BY <1>1, <1>3 DEF Arrives
<1> QED BY <1>1, <1>2, <1>3, <1>4, <1>5, <1>6, UseKept DEF Provisions

LEMMA UseNext == Typed /\ UseInv /\ [Next]_vars => UseInv'
<1> SUFFICES ASSUME Typed, UseInv, [Next]_vars PROVE UseInv'
  OBVIOUS
<1>1. CASE RelayersNext /\ UNCHANGED <<config, tokenVars>>
  <2>1. ASSUME NEW t \in Tasks, CreateRelayerWallet(t) PROVE UseInv'
    <3>1. Quiet(t) /\ task[t].step = "relayer"
      BY <1>1, <2>1, RelayerQuiet DEF CreateRelayerWallet, At
    <3>2. \A i \in DOMAIN relayer' :
             \/ relayer'[i].chain = task[t].chain /\ relayer'[i].wallet = task[t].wallet
             \/ i \in DOMAIN relayer /\ relayer'[i] = relayer[i]
      BY <2>1, RelayerEffect
    <3> QED BY <3>1, <3>2, UseQuiet
  <2>2. ASSUME NEW i \in DOMAIN relayer, DeactivateRelayerWallet(i) PROVE UseInv'
    <3>1. UNCHANGED <<wallet, config, task>>
      BY <1>1, <2>2 DEF DeactivateRelayerWallet
    <3> QED BY <2>2, <3>1, RelayerEffect, UseStill
  <2>3. ASSUME NEW j \in job, RunJob(j) PROVE UseInv'
    <3>1. UNCHANGED <<wallet, config, task, relayer>>
      BY <1>1, <2>3 DEF RunJob, stateVars
    <3> QED BY <3>1, UseStill
  <2>4. ASSUME NEW w, NEW c, NEW g, SubmitSign(w, c, g) PROVE UseInv'
    <3>1. UNCHANGED <<wallet, config, task, relayer>>
      BY <1>1, <2>4 DEF SubmitSign, relayerVars
    <3> QED BY <3>1, UseStill
  <2> QED BY <1>1, <2>1, <2>2, <2>3, <2>4, RegistrationUse DEF RelayersNext, RelayerStep
<1>2. ASSUME NEW t \in Tasks, Arrival(t) PROVE UseInv'
  BY <1>2, ArrivalQuiet, UseQuiet
<1>3. ASSUME NEW t \in Tasks, SweepStep(t), UNCHANGED tokenVars PROVE UseInv'
  BY <1>3, SweepStepQuiet, UseQuiet, ProvisioningUse DEF SweepStep
<1>4. ASSUME NEW t \in Tasks, TokenStep(t) PROVE UseInv'
  BY <1>4, TokenStepQuiet, UseQuiet
<1>5. ASSUME NEW k \in Keys, ExpireEntry(k) PROVE UseInv'
  <2>1. UNCHANGED <<wallet, config, task, relayer>>
    BY <1>5 DEF ExpireEntry, stateVars, fundsVars, relayerVars
  <2> QED BY <2>1, UseStill
<1>6. CASE UNCHANGED vars
  <2>1. UNCHANGED <<wallet, config, task, relayer>>
    BY <1>6 DEF vars, stateVars, relayerVars
  <2> QED BY <2>1, UseStill
<1> QED BY <1>1, <1>2, <1>3, <1>4, <1>5, <1>6 DEF Next, SweepNext, TokenNext, Arrival

LEMMA UniqueNext == Typed /\ UniqueInv /\ [Next]_vars => UniqueInv'
<1> SUFFICES ASSUME Typed, UniqueInv, [Next]_vars PROVE UniqueInv'
  OBVIOUS
<1> USE DEF UniqueInv
<1>0. ASSUME UNCHANGED <<config, relayer, token>> PROVE UniqueInv'
  BY <1>0 DEF Unique
<1>1. CASE RelayersNext /\ UNCHANGED <<config, tokenVars>>
  <2>1. UNCHANGED <<config, token>>
    BY <1>1 DEF tokenVars
  <2>2. Unique(relayer')
    <3>1. CASE UNCHANGED relayer
      BY <3>1
    <3> QED BY <1>1, <3>1, RelayerEffect DEF RelayersNext, RelayerStep, RegisterRelayer, SubmitSign, RunJob, relayerVars
  <2> QED BY <2>1, <2>2 DEF Unique
<1>2. ASSUME NEW t \in Tasks, SweepStep(t), UNCHANGED tokenVars PROVE UniqueInv'
  <2>1. UNCHANGED <<token, relayer>>
    BY <1>2 DEF SweepStep, FindOrGenerate, ReadOldMaster, ClearOldMaster, FlagMaster, UpsertSweepConfig,
                WriteSweepConfig, SweepSource, SweepTarget, SweepFees, CreateSweepJob, relayerVars, tokenVars
  <2>2. Unique(config')
    <3>1. CASE UNCHANGED config
      BY <3>1
    <3> QED BY <1>2, <3>1, ConfigEffect DEF SweepStep, FindOrGenerate, ReadOldMaster, ClearOldMaster,
               FlagMaster, SweepSource, SweepTarget, SweepFees, CreateSweepJob
  <2> QED BY <2>1, <2>2 DEF Unique
<1>3. ASSUME NEW t \in Tasks, TokenStep(t) PROVE UniqueInv'
  <2>1. UNCHANGED <<config, relayer>>
    BY <1>3 DEF TokenStep, DisableStablecoinToken, Invalidate, CheckSender, CacheGet, ReadTable, SetCache,
                CheckRelayer, CheckBalance, CreateTransferJob, fundsVars, relayerVars
  <2>2. CASE UNCHANGED token
    BY <1>0, <2>1, <2>2
  <2>3. CASE DisableStablecoinToken(t)
    <3>1. PICK i \in DOMAIN token : i = task[t].other
      BY <2>3, DisableEffect
    <3>2. CASE token' = [token EXCEPT ![i].enabled = FALSE]
      <4>1. Unique(token')
        BY <3>2, TokenDisabled
      <4> QED BY <2>1, <4>1 DEF Unique
    <3> QED BY <2>2, <2>3, <3>1, <3>2 DEF DisableStablecoinToken
  <2> QED BY <1>3, <2>2, <2>3 DEF TokenStep, Invalidate, CheckSender, CacheGet, ReadTable, SetCache,
               CheckRelayer, CheckBalance, CreateTransferJob, tokenVars
<1>4. ASSUME NEW t \in Tasks, Arrival(t) PROVE UniqueInv'
  <2>1. CASE UNCHANGED token
    BY <1>0, <1>4, <2>1 DEF Arrival, ProvisionMasterWallet, TriggerSweep, UpdateSweepConfig, UpsertToken,
           DisableToken, ReadTokens, Transfer, fundsVars, relayerVars
  <2>2. ASSUME NEW c \in Chains, NEW v \in Versions, UpsertToken(t, c, v) PROVE UniqueInv'
    <3>1. Unique(token') /\ UNCHANGED <<config, relayer>>
      BY <2>2, TokenUpserted DEF UpsertToken, fundsVars, relayerVars
    <3> QED BY <3>1 DEF Unique
  <2> QED BY <1>4, <2>1, <2>2 DEF Arrival, DisableToken, ReadTokens, Transfer, tokenVars
<1>5. ASSUME NEW k \in Keys, ExpireEntry(k) PROVE UniqueInv'
  BY <1>0, <1>5 DEF ExpireEntry, fundsVars, relayerVars
<1>6. CASE UNCHANGED vars
  BY <1>0, <1>6 DEF vars, relayerVars, tokenVars
<1> QED BY <1>1, <1>2, <1>3, <1>4, <1>5, <1>6 DEF Next, SweepNext, TokenNext, Arrival

\* One sweep configuration, one relayer and one token row per chain with an id,
\* whatever upserts interleave; and a row never names another use's wallet.
THEOREM FundsTyped == Spec => []TypeOK
<1>1. Typed /\ UseInv /\ UniqueInv => TypeOK
  <2> SUFFICES ASSUME Typed, UseInv, UniqueInv PROVE TypeOK
    OBVIOUS
  <2>1. \A c \in Chains \ NullChains : /\ Cardinality(RowsOf(config, c)) <= 1
                                       /\ Cardinality(RowsOf(relayer, c)) <= 1
                                       /\ Cardinality(RowsOf(token, c)) <= 1
    BY UniqueCount DEF UniqueInv, Typed, TablesTyped
  <2> QED BY <2>1 DEF TypeOK, UseInv, MadeFor, Typed, TablesTyped
<1> QED BY <1>1, InitTyped, NextTyped, UseNext, UniqueNext, PTL DEF Spec
-----------------------------------------------------------------------------
(***************************************************************************)
(* Master wallets.                                                         *)
(***************************************************************************)

LEMMA DoubledStays ==
  ASSUME Extended, NEW c, Doubled(c)
  PROVE  Doubled(c)'
<1>1. Masters(c) \subseteq Masters(c)'
  BY DEF Masters, Extended
<1> QED BY <1>1 DEF Doubled

\* What the request t does to its wallet and to the rows that name wallets.
Owns(t) ==
    /\ \A i \in DOMAIN config' :
          \/ i \in DOMAIN config /\ config'[i].wallet = config[i].wallet
          \/ /\ task[t].step = "config" /\ task'[t].step \notin Provisions
             /\ config'[i].wallet = task[t].wallet
    /\ \/ task'[t].step \notin Provisions
       \/ task[t].step \in Provisions /\ task'[t].step \in Provisions /\ task'[t].wallet = task[t].wallet
       \/ task'[t].step = "old" /\ task'[t].wallet = Len(wallet) + 1
    /\ task'[t].step = "clear" =>
          \/ task[t].step = "old" /\ \E i \in DOMAIN config : task'[t].other = config[i].wallet
          \/ task[t].step = "clear" /\ task'[t].other = task[t].other

\* Which wallets requests provision after the step.
LEMMA Provisioning ==
  ASSUME Typed, UseInv, NEW t \in Tasks, Moves(t), Owns(t), NEW s \in Tasks, task'[s].step \in Provisions
  PROVE  \/ task[s].step \in Provisions /\ task'[s].wallet = task[s].wallet /\ task[s].wallet \in DOMAIN wallet
         \/ s = t /\ task'[s].wallet = Len(wallet) + 1 /\ Len(wallet) + 1 \notin DOMAIN wallet
<1>1. Len(wallet) + 1 \notin DOMAIN wallet
  BY TablesAre
<1>2. task[s].step \in Provisions => task[s].wallet \in DOMAIN wallet
  BY DEF UseInv, MadeFor, At
<1>3. s # t => task'[s] = task[s]
  BY DEF Moves
<1> QED BY <1>1, <1>2, <1>3 DEF Owns

LEMMA OwnKept ==
  ASSUME Typed, UseInv, OwnInv, NEW t \in Tasks, Moves(t), Owns(t)
  PROVE  OwnInv'
<1>1. \A s \in Tasks : s # t => task'[s] = task[s]
  BY DEF Moves
<1>2. \A i \in DOMAIN config : config[i].wallet \in DOMAIN wallet
  BY DEF UseInv, MadeFor
<1>3. \A s \in Tasks : task[s].step = "clear" => task[s].other \in DOMAIN wallet
  BY DEF UseInv, MadeFor, At
<1>4. ASSUME NEW s \in Tasks, NEW u \in Tasks, s # u, task'[s].step \in Provisions, task'[u].step \in Provisions
      PROVE  task'[u].wallet # task'[s].wallet
  BY <1>4, Provisioning DEF OwnInv, At
<1>5. ASSUME NEW i \in DOMAIN config', NEW s \in Tasks, task'[s].step \in Provisions
      PROVE  config'[i].wallet # task'[s].wallet
  <2>1. CASE i \in DOMAIN config /\ config'[i].wallet = config[i].wallet
    BY <1>2, <1>5, <2>1, Provisioning DEF OwnInv, At
  <2>2. CASE task[t].step = "config" /\ task'[t].step \notin Provisions /\ config'[i].wallet = task[t].wallet
    <3>1. s # t /\ task'[s] = task[s]
      BY <1>1, <1>5, <2>2
    <3> QED BY <1>5, <2>2, <3>1 DEF OwnInv, At, Provisions
  <2> QED BY <2>1, <2>2 DEF Owns
<1>6. ASSUME NEW s \in Tasks, NEW u \in Tasks, task'[s].step = "clear", task'[u].step \in Provisions
      PROVE  task'[s].other # task'[u].wallet
  <2>1. CASE task[s].step = "clear" /\ task'[s].other = task[s].other
    BY <1>3, <1>6, <2>1, Provisioning DEF OwnInv, At
  <2>2. ASSUME NEW i \in DOMAIN config, task'[s].other = config[i].wallet
        PROVE  task'[s].other # task'[u].wallet
    BY <1>2, <1>6, <2>2, Provisioning DEF OwnInv, At
  <2> QED BY <1>1, <1>6, <2>1, <2>2 DEF Owns
<1> QED BY <1>4, <1>5, <1>6 DEF OwnInv, At

\* A flag is set by the wallet's own provisioning, which goes on to configure it,
\* and taken off only a wallet that none provisions, where two were made.
Flags(t) ==
    /\ \A w \in DOMAIN wallet : wallet[w].master =>
          \/ wallet'[w].master
          \/ Doubled(wallet[w].chain) /\ \A s \in Tasks : task[s].step \in Provisions => task[s].wallet # w
    /\ \A w \in DOMAIN wallet : wallet'[w].master =>
          wallet[w].master \/ (task[t].step \in Provisions /\ task[t].wallet = w)
    /\ task'[t].step = "config" => task[t].step = "flag" /\ wallet'[task'[t].wallet].master

LEMMA FlagKept ==
  ASSUME UseInv, OwnInv, FlagInv, NEW t \in Tasks, Moves(t), Extended, Owns(t), Flags(t)
  PROVE  FlagInv'
<1>1. \A s \in Tasks : s # t => task'[s] = task[s]
  BY DEF Moves
<1>2. ASSUME NEW s \in Tasks, task[s].step = "config"
      PROVE  task[s].wallet \in DOMAIN wallet /\ wallet'[task[s].wallet].master
  <2>1. task[s].step \in Provisions /\ wallet[task[s].wallet].master /\ task[s].wallet \in DOMAIN wallet
    BY <1>2 DEF FlagInv, UseInv, MadeFor, At, Provisions
  <2> QED BY <2>1 DEF Flags
<1>3. ASSUME NEW s \in Tasks, task'[s].step = "config"
      PROVE  wallet'[task'[s].wallet].master
  BY <1>1, <1>2, <1>3 DEF Flags
<1>4. ASSUME NEW i \in DOMAIN config'
      PROVE  \E w, c : w = config'[i].wallet /\ c = wallet'[w].chain /\ (wallet'[w].master \/ Doubled(c)')
  <2>1. PICK w, c : w = config'[i].wallet /\ c = wallet'[w].chain
    OBVIOUS
  <2>2. CASE i \in DOMAIN config /\ w = config[i].wallet
    <3>1. w \in DOMAIN wallet /\ (wallet[w].master \/ Doubled(wallet[w].chain))
      BY <2>2 DEF FlagInv, UseInv, MadeFor
    <3>2. wallet[w].chain = c
      BY <2>1, <3>1 DEF Extended
    <3>3. wallet'[w].master \/ Doubled(c)
      BY <3>1, <3>2 DEF Flags
    <3> QED BY <2>1, <3>3, DoubledStays
  <2>3. CASE task[t].step = "config" /\ w = task[t].wallet
    BY <1>2, <2>1, <2>3
  <2> QED BY <2>1, <2>2, <2>3 DEF Owns
<1> QED BY <1>3, <1>4 DEF FlagInv, At, Doubled, Masters

LEMMA SettledStays ==
  ASSUME Typed, UseInv, NEW t \in Tasks, Moves(t), Extended, Owns(t), Flags(t),
         NEW w \in DOMAIN wallet, Settled(w)
  PROVE  Settled(w)'
<1>1. \A s \in Tasks : task[s].step \in Provisions => task[s].wallet # w
  BY DEF Settled, At
<1>2. \A s \in Tasks : task'[s].step \in Provisions => task'[s].wallet # w
  BY <1>1, Provisioning
<1>3. CASE ~wallet[w].master /\ Doubled(wallet[w].chain)
  <2>1. PICK c : c = wallet[w].chain /\ c = wallet'[w].chain
    BY DEF Extended
  <2>2. Doubled(c)'
    BY <1>3, <2>1, DoubledStays
  <2>3. ~wallet'[w].master
    BY <1>1, <1>3 DEF Flags
  <2> QED BY <1>2, <2>1, <2>2, <2>3 DEF Settled, At, Doubled, Masters
<1>4. CASE w \notin Destinations
  <2>1. \A i \in DOMAIN config' : config'[i].wallet # w
    BY <1>1, <1>4 DEF Owns, Destinations, Provisions
  <2>2. w \notin Destinations'
    BY <2>1 DEF Destinations
  <2> QED BY <1>2, <2>2 DEF Settled, At
<1> QED BY <1>3, <1>4 DEF Settled

LEMMA FineStays ==
  ASSUME Typed, UseInv, NEW t \in Tasks, Moves(t), Extended, Owns(t), Flags(t),
         NEW w, NEW e, Fine(w, e)
  PROVE  Fine(w, e)'
<1>1. w \in DOMAIN wallet /\ w \in DOMAIN wallet' /\ wallet'[w].user = wallet[w].user
  BY DEF Fine, Extended
<1>2. Settled(w) => Settled(w)'
  BY <1>1, SettledStays
<1> QED BY <1>1, <1>2 DEF Fine

\* A flag that is read as not set: the provisioning is still to set it, or nothing
\* will.
LEMMA AcceptedFine ==
  ASSUME OwnInv, FlagInv, NEW w \in DOMAIN wallet, ~wallet[w].master
  PROVE  Fine(w, w \in Unready)
<1> SUFFICES ASSUME w \notin Unready PROVE Settled(w)
  BY DEF Fine
<1>1. \A s \in Tasks : task[s].step \in {"old", "clear", "flag"} => task[s].wallet # w
  BY DEF Unready, At
<1>2. \A s \in Tasks : task[s].step = "config" => task[s].wallet # w
  BY DEF FlagInv, At
<1>3. \A s \in Tasks : At(s, Provisions) => task[s].wallet # w
  BY <1>1, <1>2 DEF At, Provisions
<1>4. w \in Destinations => Doubled(wallet[w].chain)
  BY DEF Destinations, FlagInv
<1> QED BY <1>3, <1>4 DEF Settled

LEMMA CheckedKept ==
  ASSUME Typed, UseInv, OwnInv, FlagInv, CheckedInv, NEW t \in Tasks, Moves(t), Extended, Owns(t), Flags(t), Checks(t)
  PROVE  CheckedInv'
<1>1. \A s \in Tasks : s # t => task'[s] = task[s]
  BY DEF Moves
<1>2. ASSUME NEW s \in Tasks, Checked(task'[s])
      PROVE  \E w, e : w = task'[s].wallet /\ e = task'[s].early /\ Fine(w, e)'
  <2>1. PICK w, e : w = task'[s].wallet /\ e = task'[s].early
    OBVIOUS
  <2>2. CASE s # t \/ (Checked(task[s]) /\ w = task[s].wallet /\ e = task[s].early)
    <3>1. Fine(w, e)
      BY <1>1, <1>2, <2>1, <2>2 DEF CheckedInv
    <3> QED BY <2>1, <3>1, FineStays
  <2>3. CASE w \in DOMAIN wallet /\ ~wallet[w].master /\ e = (w \in Unready)
    <3>1. Fine(w, e)
      BY <2>3, AcceptedFine
    <3> QED BY <2>1, <3>1, FineStays
  <2> QED BY <1>2, <2>1, <2>2, <2>3 DEF Checks
<1>3. ASSUME NEW j \in job', j.op # "sign"
      PROVE  \E w, e : w = j.from /\ e = j.early /\ Fine(w, e)'
  <2>1. PICK w, e : w = j.from /\ e = j.early
    OBVIOUS
  <2>2. Fine(w, e)
    BY <1>3, <2>1 DEF Checks, CheckedInv
  <2> QED BY <2>1, <2>2, FineStays
<1> QED BY <1>2, <1>3 DEF CheckedInv, Checked, Fine, Settled, Destinations, Doubled, Masters, At

LEMMA MasterKept ==
  ASSUME Typed, UseInv, MasterInv, NEW t \in Tasks, Moves(t), Extended, Owns(t), Flags(t), Checks(t)
  PROVE  MasterInv'
  BY OwnKept, FlagKept, CheckedKept DEF MasterInv

LEMMA MasterQuiet ==
  ASSUME Typed, UseInv, MasterInv, NEW t \in Tasks, Quiet(t)
  PROVE  MasterInv'
<1>1. Owns(t)
  BY DEF Quiet, Owns, Provisions
<1>2. Flags(t)
  BY DEF Quiet, Flags, Provisions
<1> QED BY <1>1, <1>2, MasterKept DEF Quiet

LEMMA MasterStill ==
  ASSUME MasterInv, UNCHANGED <<wallet, config, task>>, \A j \in job' : j \in job \/ j.op = "sign"
  PROVE  MasterInv'
<1>1. OwnInv' /\ FlagInv'
  BY DEF MasterInv, OwnInv, FlagInv, Doubled, Masters, At
<1>2. \A w, e : Fine(w, e) => Fine(w, e)'
  BY DEF Fine, Settled, Destinations, Doubled, Masters, At
<1>3. \A t \in Tasks : Checked(task[t]) => Fine(task[t].wallet, task[t].early)'
  BY <1>2 DEF MasterInv, CheckedInv
<1>4. \A j \in job' : j.op # "sign" => Fine(j.from, j.early)'
  BY <1>2 DEF MasterInv, CheckedInv
<1>5. CheckedInv'
  BY <1>3, <1>4 DEF CheckedInv, Checked, Fine, Settled, Destinations, Doubled, Masters, At
<1> QED BY <1>1, <1>5 DEF MasterInv

\* The wallet a registration or a provisioning has made.
LEMMA MadeWallet ==
  ASSUME Typed, NEW c \in Chains, NEW u \in {"_relayer", "_master"}, wallet' = NewWallet(c, u),
         UNCHANGED <<config, relayer, token, cache>>
  PROVE  \E m : /\ m = Len(wallet) + 1 /\ DOMAIN wallet' = DOMAIN wallet \cup {m}
                /\ wallet'[m].chain = c /\ wallet'[m].user = u /\ ~wallet'[m].master
                /\ \A w \in DOMAIN wallet : wallet'[w] = wallet[w]
<1>1. /\ DOMAIN wallet' = 1..(Len(wallet) + 1)
      /\ wallet'[Len(wallet) + 1] = [chain |-> c, user |-> u, master |-> FALSE]
      /\ \A w \in DOMAIN wallet : wallet'[w] = wallet[w]
  BY WalletAdded
<1>2. PICK m : m = Len(wallet) + 1 /\ DOMAIN wallet' = DOMAIN wallet \cup {m}
  BY <1>1, TablesAre
<1>3. wallet'[m].chain = c /\ wallet'[m].user = u /\ ~wallet'[m].master
  BY <1>1, <1>2
<1> QED BY <1>1, <1>2, <1>3

LEMMA RegistrationMaster ==
  ASSUME Typed, UseInv, MasterInv, NEW t \in Tasks, NEW c \in Chains, RegisterRelayer(t, c),
         UNCHANGED <<config, tokenVars>>
  PROVE  MasterInv'
<1>1. /\ Arrives(t, "relayer", c, Len(wallet) + 1)
      /\ wallet' = NewWallet(c, "_relayer") /\ UNCHANGED <<relayer, token, cache, job>>
  BY RelayersTyped DEF RegisterRelayer
<1>2. \A w \in DOMAIN wallet : wallet'[w] = wallet[w]
  BY <1>1, MadeWallet
<1>3. Moves(t) /\ task'[t].step = "relayer"
  BY <1>1 DEF Arrives
<1>4. Extended
  BY <1>1, WalletAdded
<1>5. Owns(t)
  BY <1>3 DEF Owns, Provisions
<1>6. Flags(t)
  BY <1>2, <1>3 DEF Flags
<1>7. Checks(t)
  BY <1>1, <1>3 DEF Checks, Checked, ReadSteps
<1> QED BY <1>3, <1>4, <1>5, <1>6, <1>7, MasterKept

LEMMA ProvisioningMaster ==
  ASSUME Typed, UseInv, MasterInv, NEW t \in Tasks, UNCHANGED tokenVars,
         \/ FindOrGenerate(t) \/ ReadOldMaster(t) \/ ClearOldMaster(t) \/ FlagMaster(t) \/ UpsertSweepConfig(t)
  PROVE  MasterInv'
<1>1. UNCHANGED <<relayer, token, cache, job>>
  BY DEF FindOrGenerate, ReadOldMaster, ClearOldMaster, FlagMaster, UpsertSweepConfig, relayerVars, tokenVars
<1>2. ASSUME task'[t].step \in Provisions \cup {"idle"} PROVE Checks(t)
  BY <1>1, <1>2 DEF Checks, Checked, ReadSteps, Provisions
<1>3. CASE FindOrGenerate(t)
  <2>0. UNCHANGED config
    BY <1>3 DEF FindOrGenerate
  <2>1. CASE Ends(t) /\ UNCHANGED wallet
    <3>1. Moves(t) /\ task'[t].step = "idle"
      BY <2>1, IdleTyped DEF Ends
    <3>2. Extended
      BY <1>1, <2>0, <2>1, TablesAre DEF Extended
    <3>3. Owns(t) /\ Flags(t)
      BY <2>0, <2>1, <3>1 DEF Owns, Flags, Provisions
    <3> QED BY <1>2, <3>1, <3>2, <3>3, MasterKept
  <2>2. CASE /\ Moves(t) /\ task'[t].step = "old" /\ wallet' = NewWallet(task[t].chain, "_master")
             /\ task'[t].wallet = Len(wallet) + 1
    <3>1. PICK c \in Chains : c = task[t].chain
      BY <1>3, FindEffect, TaskTyped DEF WellFormed, ChainSteps
    <3>2. \A w \in DOMAIN wallet : wallet'[w] = wallet[w]
      BY <1>1, <2>0, <2>2, <3>1, MadeWallet
    <3>3. Extended
      BY <1>1, <2>0, <2>2, <3>1, WalletAdded
    <3>4. Owns(t)
      BY <2>0, <2>2 DEF Owns
    <3>5. Flags(t)
      BY <2>2, <3>2 DEF Flags
    <3> QED BY <1>2, <2>2, <3>3, <3>4, <3>5, MasterKept DEF Provisions
  <2> QED BY <1>3, <2>1, <2>2, FindEffect
<1>4. CASE ReadOldMaster(t)
  <2>1. UNCHANGED <<wallet, config>>
    BY <1>4 DEF ReadOldMaster
  <2>2. Extended
    BY <1>1, <2>1, TablesAre DEF Extended
  <2>3. /\ Moves(t) /\ task[t].step = "old" /\ task'[t].wallet = task[t].wallet
        /\ \/ task'[t].step = "flag"
           \/ /\ task'[t].step = "clear"
              /\ \E i \in DOMAIN config : task'[t].other = config[i].wallet
    BY <1>4, OldEffect
  <2>4. Owns(t) /\ Flags(t)
    BY <2>1, <2>3 DEF Owns, Flags, Provisions
  <2> QED BY <1>2, <2>2, <2>3, <2>4, MasterKept DEF Provisions
<1>5. CASE ClearOldMaster(t)
  <2>1. UNCHANGED config /\ task[t].step = "clear" /\ Goes(t, "flag")
    BY <1>5, PlainEffects DEF ClearOldMaster
  <2>2. Moves(t) /\ task'[t].step = "flag" /\ task'[t].wallet = task[t].wallet
    BY <2>1 DEF Goes, Keeps
  <2>3. Owns(t)
    BY <2>1, <2>2 DEF Owns, Provisions
  <2>4. CASE UNCHANGED wallet
    <3>1. Extended /\ Flags(t)
      BY <1>1, <2>1, <2>2, <2>4, TablesAre DEF Extended, Flags
    <3> QED BY <1>2, <2>2, <2>3, <3>1, MasterKept DEF Provisions
  <2>5. CASE wallet' = [wallet EXCEPT ![task[t].other].master = FALSE]
    <3>1. PICK c, v, w : /\ c = task[t].chain /\ v = task[t].wallet /\ w = task[t].other
      OBVIOUS
    <3>2. /\ MadeFor(v, c, "_master") /\ MadeFor(w, c, "_master")
          /\ \A s \in Tasks : task[s].step \in Provisions => task[s].wallet # w
      BY <2>1, <3>1 DEF UseInv, MasterInv, OwnInv, At, Provisions
    <3>3. v # w /\ v \in Masters(c) /\ w \in Masters(c)
      BY <2>1, <3>1, <3>2 DEF MadeFor, Masters, Provisions
    <3>4. Doubled(c) /\ w \in DOMAIN wallet /\ wallet[w].chain = c
      BY <3>2, <3>3 DEF Doubled, MadeFor
    <3>5. /\ Extended /\ DOMAIN wallet' = DOMAIN wallet /\ wallet'[w].master = FALSE
          /\ \A x \in DOMAIN wallet : x # w => wallet'[x] = wallet[x]
      BY <1>1, <2>1, <2>5, <3>1, <3>4, WalletFlagged
    <3>6. Flags(t)
      BY <2>2, <3>2, <3>4, <3>5 DEF Flags
    <3> QED BY <1>2, <2>2, <2>3, <3>5, <3>6, MasterKept DEF Provisions
  <2> QED BY <1>5, <2>4, <2>5 DEF ClearOldMaster
<1>6. CASE FlagMaster(t)
  <2>1. UNCHANGED config /\ task[t].step = "flag" /\ TasksTyped
    BY <1>6, TaskTyped DEF FlagMaster, At
  <2>2. CASE Finish(t) /\ UNCHANGED wallet
    <3>1. Moves(t) /\ task'[t].step = "idle"
      BY <2>2, EndsTyped, IdleTyped DEF Ends
    <3>2. Owns(t)
      BY <2>1, <3>1 DEF Owns, Provisions
    <3>3. Extended /\ Flags(t)
      BY <1>1, <2>1, <2>2, <3>1, TablesAre DEF Extended, Flags
    <3> QED BY <1>2, <3>1, <3>2, <3>3, MasterKept
  <2>3. CASE wallet' = [wallet EXCEPT ![task[t].wallet].master = TRUE] /\ Goto(t, "config")
    <3>1. PICK w : w = task[t].wallet /\ w \in DOMAIN wallet
      BY <2>1 DEF UseInv, At, MadeFor, Provisions
    <3>2. /\ Extended /\ DOMAIN wallet' = DOMAIN wallet /\ wallet'[w].master = TRUE
          /\ \A x \in DOMAIN wallet : x # w => wallet'[x] = wallet[x]
      BY <1>1, <2>1, <2>3, <3>1, WalletFlagged
    <3>3. Moves(t) /\ task'[t].step = "config" /\ task'[t].wallet = task[t].wallet
      <4>1. task \in [Tasks -> Requests] /\ task[t] \in Requests
        BY <2>1 DEF TasksTyped
      <4>2. task'[t].step = "config" /\ task'[t].wallet = task[t].wallet
        BY <2>3, <4>1 DEF Goto, Requests
      <4> QED BY <2>3, <4>1, <4>2 DEF Goto, Moves
    <3>4. Owns(t)
      BY <2>1, <3>3 DEF Owns, Provisions
    <3>5. Flags(t)
      BY <2>1, <3>1, <3>2, <3>3 DEF Flags, Provisions
    <3> QED BY <1>2, <3>2, <3>3, <3>4, <3>5, MasterKept DEF Provisions
  <2> QED BY <1>6, <2>2, <2>3 DEF FlagMaster
<1>7. CASE UpsertSweepConfig(t)
  <2>1. UNCHANGED wallet /\ Moves(t) /\ task[t].step = "config" /\ task'[t].step = "idle"
    BY <1>7, PlainEffects, IdleTyped DEF UpsertSweepConfig, Ends
  <2>2. /\ DOMAIN config \subseteq DOMAIN config'
        /\ \A i \in DOMAIN config' :
              \/ config'[i].wallet = task[t].wallet
              \/ i \in DOMAIN config /\ config'[i].wallet = config[i].wallet
    BY <1>7, ConfigEffect
  <2>3. Extended
    BY <1>1, <2>1, <2>2, TablesAre DEF Extended
  <2>4. Owns(t) /\ Flags(t)
    BY <2>1, <2>2 DEF Owns, Flags, Provisions
  <2> QED BY <1>2, <2>1, <2>3, <2>4, MasterKept
<1> QED BY <1>3, <1>4, <1>5, <1>6, <1>7

LEMMA MasterNext == Typed /\ UseInv /\ MasterInv /\ [Next]_vars => MasterInv'
<1> SUFFICES ASSUME Typed, UseInv, MasterInv, [Next]_vars PROVE MasterInv'
  OBVIOUS
<1>1. CASE RelayersNext /\ UNCHANGED <<config, tokenVars>>
  <2>1. ASSUME NEW t \in Tasks, CreateRelayerWallet(t) PROVE MasterInv'
    BY <1>1, <2>1, RelayerQuiet, MasterQuiet
  <2>2. ASSUME NEW i \in DOMAIN relayer, DeactivateRelayerWallet(i) PROVE MasterInv'
    BY <1>1, <2>2, MasterStill DEF DeactivateRelayerWallet
  <2>3. ASSUME NEW j \in job, RunJob(j) PROVE MasterInv'
    BY <1>1, <2>3, MasterStill DEF RunJob, stateVars
  <2>4. ASSUME NEW w, NEW c, NEW g, SubmitSign(w, c, g) PROVE MasterInv'
    <3>1. \A j \in job' : j \in job \/ j.op = "sign"
      BY <2>4 DEF SubmitSign, CreateSigningJob
    <3> QED BY <1>1, <2>4, <3>1, MasterStill DEF SubmitSign
  <2> QED BY <1>1, <2>1, <2>2, <2>3, <2>4, RegistrationMaster DEF RelayersNext, RelayerStep
<1>2. ASSUME NEW t \in Tasks, Arrival(t) PROVE MasterInv'
  BY <1>2, ArrivalQuiet, MasterQuiet
<1>3. ASSUME NEW t \in Tasks, SweepStep(t), UNCHANGED tokenVars PROVE MasterInv'
  BY <1>3, SweepStepQuiet, MasterQuiet, ProvisioningMaster DEF SweepStep
<1>4. ASSUME NEW t \in Tasks, TokenStep(t) PROVE MasterInv'
  BY <1>4, TokenStepQuiet, MasterQuiet
<1>5. ASSUME NEW k \in Keys, ExpireEntry(k) PROVE MasterInv'
  BY <1>5, MasterStill DEF ExpireEntry, stateVars, fundsVars, relayerVars
<1>6. CASE UNCHANGED vars
  BY <1>6, MasterStill DEF vars, stateVars, relayerVars
<1> QED BY <1>1, <1>2, <1>3, <1>4, <1>5, <1>6 DEF Next, SweepNext, TokenNext, Arrival

LEMMA InitMaster == Init => MasterInv
<1> SUFFICES ASSUME Init PROVE MasterInv
  OBVIOUS
<1>1. \A t \in Tasks : task[t].step = "idle"
  BY IdleTyped DEF Init, StateInit
<1>2. job = {} /\ DOMAIN config = {}
  BY DEF Init, StateInit, MasterInit
<1> QED BY <1>1, <1>2 DEF MasterInv, OwnInv, FlagInv, CheckedInv, Checked, ReadSteps, At, Provisions

\* GET lists a master wallet before its flag is set, and two provisionings of one
\* chain that overlap can take the flag off the wallet funds are swept to; no
\* failing statement and nothing else makes such a wallet the source of a sweep or
\* a transfer (SweepSource, CheckSender), however many requests, sweeps and
\* transfers run between the check and the job.
THEOREM MastersNotSenders == Spec => []MasterNotSender
<1>1. Typed /\ UseInv /\ MasterInv => MasterNotSender
  <2> SUFFICES ASSUME Typed, UseInv, MasterInv, NEW j \in job, NEW c, c = wallet[j.from].chain,
                      j.op # "sign", j.from \in Destinations, ~j.early
               PROVE  ~wallet[j.from].master /\ Cardinality(Masters(c)) > 1
    BY DEF MasterNotSender
  <2>1. wallet[j.from].user = "_master"
    BY DEF Destinations, UseInv, MadeFor
  <2>2. Settled(j.from)
    BY <2>1 DEF MasterInv, CheckedInv, Fine
  <2>3. ~wallet[j.from].master /\ Doubled(c)
    BY <2>2 DEF Settled
  <2>4. PICK v, w \in Masters(c) : v # w
    BY <2>3 DEF Doubled
  <2>5. Masters(c) \subseteq 1..Len(wallet) /\ Len(wallet) \in Nat
    BY TablesAre DEF Masters
  <2>6. IsFiniteSet(Masters(c))
    <3>1. IsFiniteSet(1..Len(wallet))
      BY <2>5, FS_Interval
    <3> QED BY <2>5, <3>1, FS_Subset
  <2>7. IsFiniteSet({v, w}) /\ Cardinality({v, w}) = 2
    <3>1. IsFiniteSet({v}) /\ Cardinality({v}) = 1
      BY FS_Singleton
    <3>2. {v, w} = {v} \cup {w} /\ w \notin {v}
      BY <2>4
    <3>3. /\ IsFiniteSet({v} \cup {w})
          /\ Cardinality({v} \cup {w}) = IF w \in {v} THEN Cardinality({v}) ELSE Cardinality({v}) + 1
      BY <3>1, FS_AddElement
    <3>4. Cardinality({v} \cup {w}) = 2
      BY <3>1, <3>2, <3>3
    <3> QED BY <3>2, <3>3, <3>4
  <2>8. Cardinality({v, w}) <= Cardinality(Masters(c)) /\ Cardinality(Masters(c)) \in Nat
    BY <2>4, <2>6, FS_Subset, FS_CardinalityType
  <2> QED BY <2>3, <2>7, <2>8
<1> QED BY <1>1, InitTyped, InitMaster, NextTyped, UseNext, MasterNext, PTL DEF Spec
-----------------------------------------------------------------------------
(***************************************************************************)
(* The registry's cache.                                                   *)
(***************************************************************************)

LEMMA AnswersStay == UNCHANGED token => \A k \in Keys : Answers(k)' = Answers(k)
  BY DEF Answers, Enabled, RowsOf

\* A step of t that leaves the registry and its cache alone.
Aside(t) == Moves(t) /\ UNCHANGED <<token, cache, missed>> /\ task[t].step # "invalidate"

\* A step of t that reads nothing from the registry.
Apart(t) ==
    /\ Aside(t)
    /\ stirred \ {t} \subseteq stirred'
    /\ \/ task'[t].entries = <<>>
       \/ /\ task'[t].chain = task[t].chain /\ task'[t].wallet = task[t].wallet
          /\ task'[t].entries = task[t].entries /\ stirred \subseteq stirred'

LEMMA EntriesOf ==
  ASSUME NEW t \in Tasks,
         \/ Ends(t) \/ (\E s : Goes(t, s)) \/ (\E s, c, w : Arrives(t, s, c, w))
  PROVE  /\ Moves(t)
         /\ \/ task'[t].entries = <<>>
            \/ /\ task'[t].chain = task[t].chain /\ task'[t].wallet = task[t].wallet
               /\ task'[t].entries = task[t].entries
  BY IdleTyped DEF Ends, Goes, Keeps, Arrives

\* A request that has yet to read the registry has no answers.
LEMMA NoEntries ==
  ASSUME Typed, NEW t \in Tasks, task[t].step \notin ReadSteps \cup {"configured", "healthy", "covered", "transfer"}
  PROVE  task[t].entries = <<>>
<1>1. task[t] \in Requests /\ WellFormed(task[t])
  BY TaskTyped
<1>2. Len(task[t].entries) = 0
  BY <1>1 DEF WellFormed, Reads, ReadSteps
<1>3. task[t].entries \in Seq(Found)
  BY <1>1 DEF Requests
<1> QED BY <1>2, <1>3, EmptySeq

LEMMA SweepApart ==
  ASSUME Typed, NEW t \in Tasks, SweepStep(t), UNCHANGED tokenVars
  PROVE  Apart(t)
<1>1. UNCHANGED <<token, cache, missed, stirred>>
  BY DEF tokenVars, history
<1>2. task[t].step # "invalidate"
  BY DEF SweepStep, FindOrGenerate, ReadOldMaster, ClearOldMaster, FlagMaster, UpsertSweepConfig,
         WriteSweepConfig, SweepSource, SweepTarget, SweepFees, CreateSweepJob, At
<1>3. /\ Moves(t)
      /\ \/ task'[t].entries = <<>>
         \/ /\ task'[t].chain = task[t].chain /\ task'[t].wallet = task[t].wallet
            /\ task'[t].entries = task[t].entries
  <2>1. CASE FindOrGenerate(t)
    <3>1. task[t].entries = <<>>
      BY <2>1, FindEffect, NoEntries DEF ReadSteps
    <3> QED BY <2>1, <3>1, FindEffect, EntriesOf
  <2>2. CASE ReadOldMaster(t)
    BY <2>2, OldEffect
  <2>3. CASE SweepTarget(t)
    BY <2>3, TargetEffect, EntriesOf
  <2>4. CASE Ends(t) \/ \E s : Goes(t, s)
    BY <2>4, EntriesOf
  <2> QED BY <2>1, <2>2, <2>3, <2>4, PlainEffects DEF SweepStep
<1> QED BY <1>1, <1>2, <1>3 DEF Aside, Apart

LEMMA RelayerApart ==
  ASSUME Typed, NEW t \in Tasks, UNCHANGED <<config, tokenVars>>,
         CreateRelayerWallet(t) \/ \E c \in Chains : RegisterRelayer(t, c)
  PROVE  Apart(t)
<1>1. UNCHANGED <<token, cache, missed, stirred>>
  BY DEF tokenVars, history
<1>2. CASE CreateRelayerWallet(t)
  <2>1. task[t].step = "relayer" /\ Ends(t)
    BY <1>2, PlainEffects
  <2> QED BY <1>1, <2>1, EntriesOf DEF Aside, Apart
<1>3. ASSUME NEW c \in Chains, RegisterRelayer(t, c) PROVE Apart(t)
  <2>1. Arrives(t, "relayer", c, Len(wallet) + 1)
    BY <1>3, RelayersTyped
  <2>2. task[t].step = "idle"
    BY <2>1 DEF Arrives
  <2> QED BY <1>1, <2>1, <2>2, EntriesOf DEF Aside, Apart
<1> QED BY <1>2, <1>3

LEMMA ArrivalApart ==
  ASSUME Typed, NEW t \in Tasks, Arrival(t), \A c \in Chains, v \in Versions : ~UpsertToken(t, c, v)
  PROVE  Apart(t)
<1>1. UNCHANGED <<token, cache, missed>> /\ stirred \ {t} \subseteq stirred'
  BY DEF Arrival, ProvisionMasterWallet, TriggerSweep, UpdateSweepConfig, DisableToken,
         ReadTokens, Transfer, tokenVars, history
<1>2. \E s, c, w : Arrives(t, s, c, w)
  <2>1. ASSUME NEW c \in Chains, ProvisionMasterWallet(t, c) PROVE \E s, k, w : Arrives(t, s, k, w)
    BY <2>1, ChainArrives DEF ProvisionMasterWallet
  <2>2. ASSUME NEW c \in Chains, NEW w \in DOMAIN wallet, TriggerSweep(t, w, c)
        PROVE  \E s, k, x : Arrives(t, s, k, x)
    BY <2>2, WalletIds, WalletArrives DEF TriggerSweep
  <2>3. ASSUME NEW i \in DOMAIN config, NEW ask \in {{}, {TRUE}, {FALSE}}, UpdateSweepConfig(t, i, ask),
               UNCHANGED tokenVars
        PROVE  \E s, k, x : Arrives(t, s, k, x)
    BY <2>3, ArrivalTyped
  <2>4. ASSUME NEW i \in DOMAIN token, DisableToken(t, i) PROVE \E s, k, x : Arrives(t, s, k, x)
    BY <2>4, ArrivalTyped
  <2>5. ASSUME NEW k \in Keys, ReadTokens(t, k) PROVE \E s, c, x : Arrives(t, s, c, x)
    BY <2>5, ReadArrives
  <2>6. ASSUME NEW w \in DOMAIN wallet, NEW c \in Chains, NEW g \in BOOLEAN, Transfer(t, w, c, g)
        PROVE \E s, k, x : Arrives(t, s, k, x)
    BY <2>6, WalletIds, TransferArrives
  <2> QED BY <2>1, <2>2, <2>3, <2>4, <2>5, <2>6 DEF Arrival
<1>3. task[t].step = "idle" /\ Moves(t) /\ task'[t].entries = <<>>
  BY <1>2 DEF Arrives
<1> QED BY <1>1, <1>3 DEF Aside, Apart

LEMMA CheckApart ==
  ASSUME Typed, NEW t \in Tasks, CheckSender(t) \/ CheckRelayer(t) \/ CheckBalance(t) \/ CreateTransferJob(t)
  PROVE  Apart(t)
<1>1. /\ UNCHANGED <<token, cache, missed, stirred>>
      /\ task[t].step \in {"sender", "configured", "healthy", "covered", "transfer"}
  BY DEF CheckSender, CheckRelayer, CheckBalance, CreateTransferJob, tokenVars, history, At
<1>2. Ends(t) \/ \E s : Goes(t, s)
  BY CheckEffects, PlainEffects
<1> QED BY <1>1, <1>2, EntriesOf DEF Aside, Apart

\* What a step may do to the answer under k: nothing, and what excused it still
\* does; or it writes one read from the table; or an excuse holds after it.
Explains(t, k) ==
    \/ /\ cache'[k] = cache[k] /\ Answers(k)' = Answers(k)
       /\ k \in missed \/ (task[t].step = "invalidate" /\ k \in {task[t].chain, List}) => k \in missed'
    \/ cache'[k].late = (cache'[k].answer \notin Answers(k)) /\ Answers(k)' = Answers(k)
    \/ task'[t].step = "invalidate" /\ k \in {task'[t].chain, List}
    \/ k \in missed'

LEMMA StaleKept ==
  ASSUME StaleExplained, NEW t \in Tasks, Moves(t), \A k \in Keys : cache'[k] # NoEntry => Explains(t, k)
  PROVE  StaleExplained'
<1> SUFFICES ASSUME NEW k \in Keys, cache'[k] # NoEntry, cache'[k].answer \notin Answers(k)'
             PROVE  \/ cache'[k].late
                    \/ k \in missed'
                    \/ \E s \in Tasks : task'[s].step \in {"invalidate"} /\ k \in {task'[s].chain, List}
  BY DEF StaleExplained, Excused, At
<1>1. CASE /\ cache'[k] = cache[k] /\ Answers(k)' = Answers(k)
           /\ k \in missed \/ (task[t].step = "invalidate" /\ k \in {task[t].chain, List}) => k \in missed'
  <2>1. CASE cache[k].late \/ k \in missed
    BY <1>1, <2>1
  <2>2. ASSUME NEW s \in Tasks, task[s].step = "invalidate", k \in {task[s].chain, List}
        PROVE  k \in missed' \/ (task'[s].step = "invalidate" /\ k \in {task'[s].chain, List})
    BY <1>1, <2>2 DEF Moves
  <2>3. cache[k] # NoEntry /\ cache[k].answer \notin Answers(k)
    BY <1>1
  <2> QED BY <2>1, <2>2, <2>3 DEF StaleExplained, Excused, At
<1>2. CASE cache'[k].late = (cache'[k].answer \notin Answers(k)) /\ Answers(k)' = Answers(k)
  BY <1>2
<1> QED BY <1>1, <1>2 DEF Explains

LEMMA StaleAside ==
  ASSUME StaleExplained, NEW t \in Tasks, Aside(t)
  PROVE  StaleExplained'
<1>1. \A k \in Keys : Answers(k)' = Answers(k)
  BY AnswersStay DEF Aside
<1>2. \A k \in Keys : Explains(t, k)
  BY <1>1 DEF Explains, Aside
<1> QED BY <1>2, StaleKept DEF Aside

LEMMA StaleStill ==
  ASSUME StaleExplained, UNCHANGED <<token, task>>,
         \A k \in Keys : cache'[k] = NoEntry \/ (cache'[k] = cache[k] /\ (k \in missed => k \in missed'))
  PROVE  StaleExplained'
<1>1. \A k \in Keys : Answers(k)' = Answers(k)
  BY AnswersStay
<1> QED BY <1>1 DEF StaleExplained, Excused, At

\* A write of one chain's entry shows in the reads of that chain and of the list.
LEMMA UpsertElsewhere ==
  ASSUME Typed, NEW t \in Tasks, NEW c \in Chains, NEW v \in Versions, UpsertToken(t, c, v),
         NEW k \in Keys, k # List, k # c
  PROVE  Answers(k)' = Answers(k)
<1>1. \A i \in DOMAIN token' : token'[i].chain = k => i \in DOMAIN token /\ token'[i] = token[i]
  BY TokenUpserted
<1>2. \A i \in DOMAIN token : token[i].chain = k => i \in DOMAIN token' /\ token'[i] = token[i]
  BY TokenUpserted
<1>3. (RowsOf(token, k) \cap Enabled)' = RowsOf(token, k) \cap Enabled
  BY <1>1, <1>2 DEF RowsOf, Enabled
<1>4. \A i \in RowsOf(token, k) : token'[i].entry = token[i].entry
  BY <1>2 DEF RowsOf
<1> QED BY <1>3, <1>4 DEF Answers

LEMMA DisableElsewhere ==
  ASSUME Typed, NEW i \in DOMAIN token, token' = [token EXCEPT ![i].enabled = FALSE],
         NEW k \in Keys, ~token[i].enabled \/ (k # List /\ k # token[i].chain)
  PROVE  Answers(k)' = Answers(k)
<1>1. /\ DOMAIN token' = DOMAIN token /\ token'[i].chain = token[i].chain /\ token'[i].entry = token[i].entry
      /\ ~token'[i].enabled /\ \A x \in DOMAIN token : x # i => token'[x] = token[x]
  BY TokenDisabled
<1>2. \A x \in DOMAIN token : token'[x].chain = token[x].chain /\ token'[x].entry = token[x].entry
  BY <1>1
<1>3. RowsOf(token, k)' = RowsOf(token, k)
  BY <1>1, <1>2 DEF RowsOf
<1>4. CASE ~token[i].enabled
  <2>1. Enabled' = Enabled
    BY <1>1, <1>4 DEF Enabled
  <2>2. \A x \in Enabled : token'[x].entry = token[x].entry
    BY <1>2 DEF Enabled
  <2>3. {token[x].entry : x \in Enabled}' = {token[x].entry : x \in Enabled}
    BY <2>1, <2>2
  <2>4. {token[x].entry : x \in RowsOf(token, k) \cap Enabled}' = {token[x].entry : x \in RowsOf(token, k) \cap Enabled}
    BY <1>3, <2>1, <2>2
  <2> QED BY <2>3, <2>4 DEF Answers
<1>5. CASE k # List /\ k # token[i].chain
  <2>1. (RowsOf(token, k) \cap Enabled)' = RowsOf(token, k) \cap Enabled
    BY <1>1, <1>5 DEF RowsOf, Enabled
  <2>2. \A x \in RowsOf(token, k) \cap Enabled : token'[x].entry = token[x].entry
    BY <1>2 DEF RowsOf
  <2> QED BY <1>5, <2>1, <2>2 DEF Answers
<1> QED BY <1>4, <1>5

LEMMA UpsertStale ==
  ASSUME Typed, StaleExplained, NEW t \in Tasks, NEW c \in Chains, NEW v \in Versions, UpsertToken(t, c, v)
  PROVE  StaleExplained'
<1>1. UNCHANGED <<cache, missed>>
  BY DEF UpsertToken
<1>2. Moves(t) /\ task[t].step = "idle" /\ task'[t].step = "invalidate" /\ task'[t].chain = c
  <2>1. Arrives(t, "invalidate", c, 0)
    BY ChainArrives DEF UpsertToken
  <2> QED BY <2>1 DEF Arrives
<1>3. \A k \in Keys : Explains(t, k)
  BY <1>1, <1>2, UpsertElsewhere DEF Explains
<1> QED BY <1>2, <1>3, StaleKept

LEMMA DisableStale ==
  ASSUME Typed, StaleExplained, NEW t \in Tasks, DisableStablecoinToken(t)
  PROVE  StaleExplained'
<1>1. UNCHANGED cache /\ task[t].step = "disable" /\ Moves(t)
  BY DisableEffect DEF DisableStablecoinToken, Ends
<1>2. CASE UNCHANGED <<token, history>>
  BY <1>1, <1>2, StaleAside DEF Aside, history
<1>3. PICK i \in DOMAIN token : i = task[t].other
  BY DisableEffect
<1>4. CASE /\ token' = [token EXCEPT ![i].enabled = FALSE]
           /\ missed' = missed \cup {k \in {token[i].chain, List} :
                                        token[i].enabled /\ ~task[t].flag /\ cache[k] # NoEntry}
           /\ task[t].flag => task' = [task EXCEPT ![t] = [Idle EXCEPT !.step = "invalidate",
                                                                       !.chain = token[i].chain]]
  <2>1. ASSUME task[t].flag PROVE task'[t].step = "invalidate" /\ task'[t].chain = token[i].chain
    <3>1. task' = [task EXCEPT ![t] = [Idle EXCEPT !.step = "invalidate", !.chain = token[i].chain]]
      BY <1>4, <2>1
    <3>2. task'[t] = [Idle EXCEPT !.step = "invalidate", !.chain = token[i].chain]
      BY <3>1 DEF Typed, TasksTyped
    <3> QED BY <3>2 DEF Idle
  <2>2. ASSUME NEW k \in Keys, cache'[k] # NoEntry PROVE Explains(t, k)
    <3>1. CASE ~token[i].enabled \/ (k # List /\ k # token[i].chain)
      BY <1>1, <1>4, <3>1, DisableElsewhere DEF Explains
    <3>2. CASE task[t].flag /\ k \in {token[i].chain, List}
      BY <2>1, <3>2 DEF Explains
    <3>3. CASE token[i].enabled /\ ~task[t].flag /\ k \in {token[i].chain, List}
      BY <1>1, <1>4, <2>2, <3>3 DEF Explains
    <3> QED BY <3>1, <3>2, <3>3
  <2> QED BY <1>1, <2>2, StaleKept
<1> QED BY <1>2, <1>3, <1>4 DEF DisableStablecoinToken

LEMMA InvalidateStale ==
  ASSUME Typed, StaleExplained, NEW t \in Tasks, Invalidate(t)
  PROVE  StaleExplained'
<1>1. UNCHANGED token /\ Moves(t)
  BY PlainEffects DEF Invalidate, Ends
<1>2. \A k \in Keys : Answers(k)' = Answers(k)
  BY <1>1, AnswersStay
<1>3. CASE /\ UNCHANGED cache
           /\ missed' = missed \cup {k \in Dropped(task[t].chain) : cache[k] # NoEntry}
  <2>1. \A k \in Keys : cache'[k] # NoEntry => Explains(t, k)
    BY <1>2, <1>3 DEF Explains, Dropped
  <2> QED BY <1>1, <2>1, StaleKept
<1>4. CASE /\ cache' = [k \in Keys |-> IF k \in Dropped(task[t].chain) THEN NoEntry ELSE cache[k]]
           /\ missed' = missed \ Dropped(task[t].chain)
  <2>1. \A k \in Keys : cache'[k] # NoEntry => cache'[k] = cache[k] /\ k \notin Dropped(task[t].chain)
    BY <1>4
  <2>2. \A k \in Keys : cache'[k] # NoEntry => Explains(t, k)
    BY <1>2, <1>4, <2>1 DEF Explains, Dropped
  <2> QED BY <1>1, <2>2, StaleKept
<1> QED BY <1>3, <1>4 DEF Invalidate

LEMMA SetStale ==
  ASSUME Typed, StaleExplained, NEW t \in Tasks, SetCache(t)
  PROVE  StaleExplained'
<1>1. UNCHANGED token
  BY DEF SetCache
<1>2. task[t].step = "set" /\ Moves(t)
  BY SetEffect DEF Ends, Goes
<1>3. \A k \in Keys : Explains(t, k)
  BY <1>1, <1>2, AnswersStay, CacheEffect DEF Explains
<1> QED BY <1>2, <1>3, StaleKept

\* A request that reads the registry leaves it alone.
LEMMA ReadAside ==
  ASSUME Typed, NEW t \in Tasks, CacheGet(t) \/ ReadTable(t)
  PROVE  Aside(t)
<1>1. UNCHANGED <<token, cache, missed>> /\ task[t].step \in {"get", "db"}
  BY DEF CacheGet, ReadTable, tokenVars, history, At
<1>2. Moves(t)
  BY GetEffect, ReadEffect DEF Ends, Goes, Grows
<1> QED BY <1>1, <1>2 DEF Aside

LEMMA StaleNext == Typed /\ StaleExplained /\ [Next]_vars => StaleExplained'
<1> SUFFICES ASSUME Typed, StaleExplained, [Next]_vars PROVE StaleExplained'
  OBVIOUS
<1>0. ASSUME NEW t \in Tasks, Apart(t) PROVE StaleExplained'
  BY <1>0, StaleAside DEF Apart
<1>s. ASSUME UNCHANGED <<token, cache, missed, task>> PROVE StaleExplained'
  BY <1>s, StaleStill
<1>1. CASE RelayersNext /\ UNCHANGED <<config, tokenVars>>
  <2>1. ASSUME NEW t \in Tasks, CreateRelayerWallet(t) \/ \E c \in Chains : RegisterRelayer(t, c)
        PROVE  StaleExplained'
    BY <1>0, <1>1, <2>1, RelayerApart
  <2>2. ASSUME UNCHANGED task PROVE StaleExplained'
    BY <1>1, <1>s, <2>2 DEF tokenVars, history
  <2> QED BY <1>1, <2>1, <2>2
          DEF RelayersNext, RelayerStep, DeactivateRelayerWallet, SubmitSign, RunJob, stateVars
<1>2. ASSUME NEW t \in Tasks, Arrival(t) PROVE StaleExplained'
  BY <1>0, <1>2, ArrivalApart, UpsertStale
<1>3. ASSUME NEW t \in Tasks, SweepStep(t), UNCHANGED tokenVars PROVE StaleExplained'
  BY <1>0, <1>3, SweepApart
<1>4. ASSUME NEW t \in Tasks, TokenStep(t) PROVE StaleExplained'
  <2>1. CASE CheckSender(t) \/ CheckRelayer(t) \/ CheckBalance(t) \/ CreateTransferJob(t)
    BY <1>0, <2>1, CheckApart
  <2>2. CASE CacheGet(t) \/ ReadTable(t)
    BY <2>2, ReadAside, StaleAside
  <2> QED BY <1>4, <2>1, <2>2, DisableStale, InvalidateStale, SetStale DEF TokenStep
<1>5. ASSUME NEW k \in Keys, ExpireEntry(k) PROVE StaleExplained'
  <2>1. UNCHANGED <<token, task>> /\ missed' = missed \ {k} /\ cache' = [cache EXCEPT ![k] = NoEntry]
    BY <1>5 DEF ExpireEntry, stateVars
  <2>2. DOMAIN cache = Keys
    BY DEF Typed, TablesTyped
  <2> QED BY <2>1, <2>2, StaleStill
<1>6. CASE UNCHANGED vars
  BY <1>6, <1>s DEF vars, stateVars, tokenVars, history
<1> QED BY <1>1, <1>2, <1>3, <1>4, <1>5, <1>6 DEF Next, SweepNext, TokenNext, Arrival

\* For any interleaving of registry writes, disables, readers and expiries: an
\* answer in Redis that the table no longer gives has a DEL on its way, or was
\* written by a reader that came late, or its DEL failed, or a Disable that missed
\* its row left the DEL out.
THEOREM CacheExplained == Spec => []StaleExplained
<1>1. Init => StaleExplained
  BY DEF Init, TokenInit, StaleExplained
<1> QED BY <1>1, InitTyped, NextTyped, UseNext, StaleNext, PTL DEF Spec
-----------------------------------------------------------------------------
(***************************************************************************)
(* Transfers.                                                              *)
(***************************************************************************)

\* What a step may do to the answers that undisturbed transfers have.
Passes(t) ==
    /\ Moves(t) /\ stirred \ {t} \subseteq stirred'
    /\ \A s \in Tasks \ {t}, c \in Chains :
          task[s].wallet # 0 /\ task[s].entries # <<>> /\ c = task[s].chain /\ s \notin stirred' =>
             Answers(c)' = Answers(c)
    /\ \/ task'[t].wallet = 0 \/ task'[t].entries = <<>>
       \/ /\ UNCHANGED token /\ stirred \subseteq stirred'
          /\ task'[t].wallet = task[t].wallet /\ task'[t].chain = task[t].chain
          /\ \A i \in 1..Len(task'[t].entries) :
                \/ i \in 1..Len(task[t].entries) /\ task'[t].entries[i] = task[t].entries[i]
                \/ t \notin stirred' => task'[t].entries[i] \in Answers(task[t].chain)

\* A transfer reads the entry of a chain.
LEMMA TransferChain ==
  ASSUME Typed, NEW t \in Tasks, task[t].wallet # 0, task[t].entries # <<>>
  PROVE  task[t].chain \in Chains /\ task[t].chain \in Keys
<1>1. task[t].step \in ReadSteps \cup {"configured", "healthy", "covered", "transfer"}
  BY NoEntries
<1> QED BY <1>1, TaskTyped DEF WellFormed, ChainSteps, ReadSteps, Keys

LEMMA AnswerKept ==
  ASSUME Typed, AnswerInv, NEW t \in Tasks, Passes(t)
  PROVE  AnswerInv'
<1>1. ASSUME NEW s \in Tasks, NEW c \in Chains, task'[s].wallet # 0, s \notin stirred', c = task'[s].chain,
             NEW i \in 1..Len(task'[s].entries)
      PROVE  task'[s].entries[i] \in Answers(c)'
  <2>1. task'[s].entries # <<>>
    BY <1>1
  <2>2. CASE s # t
    <3>1. task'[s] = task[s] /\ s \notin stirred
      BY <1>1, <2>2 DEF Passes, Moves
    <3>2. Answers(c)' = Answers(c)
      BY <1>1, <2>1, <2>2, <3>1 DEF Passes
    <3> QED BY <1>1, <3>1, <3>2 DEF AnswerInv
  <2>3. CASE s = t
    <3>1. /\ UNCHANGED token /\ t \notin stirred /\ task[t].wallet # 0 /\ c = task[t].chain
          /\ \/ i \in 1..Len(task[t].entries) /\ task'[t].entries[i] = task[t].entries[i]
             \/ task'[t].entries[i] \in Answers(c)
      BY <1>1, <2>1, <2>3 DEF Passes
    <3>2. task'[t].entries[i] \in Answers(c)
      BY <3>1 DEF AnswerInv
    <3>3. Answers(c)' = Answers(c)
      BY <3>1, AnswersStay DEF Keys
    <3> QED BY <2>3, <3>2, <3>3
  <2> QED BY <2>2, <2>3
<1> QED BY <1>1 DEF AnswerInv

LEMMA AnswerApart ==
  ASSUME Typed, AnswerInv, NEW t \in Tasks, Apart(t)
  PROVE  AnswerInv'
<1>1. \A c \in Chains : Answers(c)' = Answers(c)
  BY AnswersStay DEF Apart, Aside, Keys
<1>2. Passes(t)
  BY <1>1 DEF Passes, Apart, Aside
<1> QED BY <1>2, AnswerKept

LEMMA AnswerStill ==
  ASSUME AnswerInv, UNCHANGED <<token, stirred, task>>
  PROVE  AnswerInv'
<1>1. \A c \in Chains : Answers(c)' = Answers(c)
  BY AnswersStay DEF Keys
<1> QED BY <1>1 DEF AnswerInv

\* One more answer, of the table unless the transfer is disturbed.
LEMMA GrowsPasses ==
  ASSUME Typed, NEW t \in Tasks, NEW e, NEW s, Grows(t, e, s), UNCHANGED token, stirred \subseteq stirred',
         t \notin stirred' => e \in Answers(task[t].chain)
  PROVE  Passes(t)
<1>1. task[t].entries \in Seq(Found)
  BY TaskTyped DEF Requests
<1>2. /\ Moves(t) /\ task'[t].chain = task[t].chain /\ task'[t].wallet = task[t].wallet
      /\ task'[t].entries = Append(task[t].entries, e)
  BY DEF Grows
<1>3. PICK n \in Nat : n = Len(task[t].entries)
  BY <1>1
<1>4. /\ Len(task'[t].entries) = n + 1 /\ task'[t].entries[n + 1] = e
      /\ \A i \in 1..n : task'[t].entries[i] = task[t].entries[i]
  BY <1>1, <1>2, <1>3, LenAppended
<1>5. \A i \in 1..Len(task'[t].entries) : i \in 1..n \/ i = n + 1
  BY <1>4
<1>6. \A i \in 1..Len(task'[t].entries) :
          \/ i \in 1..Len(task[t].entries) /\ task'[t].entries[i] = task[t].entries[i]
          \/ t \notin stirred' => task'[t].entries[i] \in Answers(task[t].chain)
  BY <1>3, <1>4, <1>5
<1>7. \A c \in Chains : Answers(c)' = Answers(c)
  BY AnswersStay DEF Keys
<1> QED BY <1>2, <1>6, <1>7 DEF Passes

\* A request that goes on with the answers it had, or ends.
LEMMA KeepsPasses ==
  ASSUME Typed, NEW t \in Tasks, Ends(t) \/ (\E s : Goes(t, s)), UNCHANGED token, stirred \subseteq stirred'
  PROVE  Passes(t)
<1>1. \A c \in Chains : Answers(c)' = Answers(c)
  BY AnswersStay DEF Keys
<1> QED BY <1>1, EntriesOf DEF Passes

\* A write of the registry disturbs every transfer that has read the entry.
LEMMA WriteAnswers ==
  ASSUME Typed, AnswerInv, NEW t \in Tasks, NEW c, Stirs(c), Moves(t), task'[t].entries = <<>>,
         \A k \in Chains : k # c => Answers(k)' = Answers(k)
  PROVE  AnswerInv'
<1>1. Passes(t)
  BY DEF Passes, Stirs
<1> QED BY <1>1, AnswerKept

LEMMA TokenStepAnswers ==
  ASSUME Typed, StaleExplained, AnswerInv, NEW t \in Tasks, TokenStep(t)
  PROVE  AnswerInv'
<1>1. CASE CheckSender(t) \/ CheckRelayer(t) \/ CheckBalance(t) \/ CreateTransferJob(t)
  BY <1>1, CheckApart, AnswerApart
<1>2. CASE CacheGet(t)
  <2>1. UNCHANGED token /\ stirred \subseteq stirred' /\ task[t].step = "get"
    BY <1>2 DEF CacheGet, At
  <2>2. CASE Ends(t) \/ Goes(t, "db")
    BY <2>1, <2>2, KeepsPasses, AnswerKept
  <2>3. ASSUME task[t].wallet # 0, cache[task[t].chain] # NoEntry,
               NEW s \in {"get", "configured", "covered", "transfer"}, Grows(t, cache[task[t].chain].answer, s)
        PROVE  AnswerInv'
    <3>1. task[t].chain \in Keys
      BY <2>1, ReadKey DEF ReadSteps
    <3>2. ~Goto(t, "db")
      BY <2>3, TaskTyped DEF Grows, Goto, TasksTyped, Requests
    <3>3. Excused(task[t].chain) => t \in stirred'
      BY <1>2, <3>2 DEF CacheGet, CacheKey
    <3>4. t \notin stirred' => cache[task[t].chain].answer \in Answers(task[t].chain)
      BY <2>3, <3>1, <3>3 DEF StaleExplained
    <3> QED BY <2>1, <2>3, <3>4, GrowsPasses, AnswerKept
  <2> QED BY <1>2, <2>2, <2>3, GetEffect
<1>3. CASE ReadTable(t)
  <2>1. UNCHANGED <<token, stirred>>
    BY <1>3 DEF ReadTable, tokenVars, history
  <2>2. CASE Ends(t)
    BY <2>1, <2>2, KeepsPasses, AnswerKept
  <2>3. ASSUME NEW e \in Answers(task[t].chain), Grows(t, e, "set") PROVE AnswerInv'
    BY <2>1, <2>3, GrowsPasses, AnswerKept
  <2> QED BY <1>3, <2>2, <2>3, ReadEffect
<1>4. CASE SetCache(t) \/ Invalidate(t)
  <2>1. UNCHANGED <<token, stirred>>
    BY <1>4 DEF SetCache, Invalidate
  <2>2. Ends(t) \/ \E s : Goes(t, s)
    BY <1>4, SetEffect, PlainEffects
  <2> QED BY <2>1, <2>2, KeepsPasses, AnswerKept
<1>5. CASE DisableStablecoinToken(t)
  <2>1. Moves(t) /\ task'[t].entries = <<>>
    BY <1>5, DisableEffect, IdleTyped DEF Ends
  <2>2. PICK i \in DOMAIN token : i = task[t].other
    BY <1>5, DisableEffect
  <2>3. CASE UNCHANGED <<token, history>>
    <3>1. \A k \in Chains : Answers(k)' = Answers(k)
      BY <2>3, AnswersStay DEF Keys
    <3>2. Passes(t)
      BY <2>1, <2>3, <3>1 DEF Passes, history
    <3> QED BY <3>2, AnswerKept
  <2>4. CASE token' = [token EXCEPT ![i].enabled = FALSE] /\ Stirs(token[i].chain)
    <3>1. PICK c : c = token[i].chain
      OBVIOUS
    <3>2. \A k \in Chains : k # c => Answers(k)' = Answers(k)
      BY <2>4, <3>1, DisableElsewhere, ListAssumption DEF Keys
    <3> QED BY <2>1, <2>4, <3>1, <3>2, WriteAnswers
  <2> QED BY <1>5, <2>2, <2>3, <2>4 DEF DisableStablecoinToken
<1> QED BY <1>1, <1>2, <1>3, <1>4, <1>5 DEF TokenStep

LEMMA UpsertAnswers ==
  ASSUME Typed, AnswerInv, NEW t \in Tasks, NEW c \in Chains, NEW v \in Versions, UpsertToken(t, c, v)
  PROVE  AnswerInv'
<1>1. Moves(t) /\ task'[t].entries = <<>>
  <2>1. Arrives(t, "invalidate", c, 0)
    BY ChainArrives DEF UpsertToken
  <2> QED BY <2>1 DEF Arrives
<1>2. \A k \in Chains : k # c => Answers(k)' = Answers(k)
  BY UpsertElsewhere, ListAssumption DEF Keys
<1> QED BY <1>1, <1>2, WriteAnswers DEF UpsertToken

LEMMA AnswerNext == Typed /\ StaleExplained /\ AnswerInv /\ [Next]_vars => AnswerInv'
<1> SUFFICES ASSUME Typed, StaleExplained, AnswerInv, [Next]_vars PROVE AnswerInv'
  OBVIOUS
<1>1. CASE RelayersNext /\ UNCHANGED <<config, tokenVars>>
  <2>1. ASSUME NEW t \in Tasks, CreateRelayerWallet(t) \/ \E c \in Chains : RegisterRelayer(t, c)
        PROVE  AnswerInv'
    BY <1>1, <2>1, RelayerApart, AnswerApart
  <2>2. ASSUME UNCHANGED task PROVE AnswerInv'
    BY <1>1, <2>2, AnswerStill DEF tokenVars, history
  <2> QED BY <1>1, <2>1, <2>2
          DEF RelayersNext, RelayerStep, DeactivateRelayerWallet, SubmitSign, RunJob, stateVars
<1>2. ASSUME NEW t \in Tasks, Arrival(t) PROVE AnswerInv'
  BY <1>2, ArrivalApart, AnswerApart, UpsertAnswers
<1>3. ASSUME NEW t \in Tasks, SweepStep(t), UNCHANGED tokenVars PROVE AnswerInv'
  BY <1>3, SweepApart, AnswerApart
<1>4. ASSUME NEW k \in Keys, ExpireEntry(k) PROVE AnswerInv'
  BY <1>4, AnswerStill DEF ExpireEntry, stateVars
<1>5. CASE UNCHANGED vars
  BY <1>5, AnswerStill DEF vars, stateVars, tokenVars, history
<1> QED BY <1>1, <1>2, <1>3, <1>4, <1>5, TokenStepAnswers DEF Next, SweepNext, TokenNext, Arrival

LEMMA InitAnswers == Init => AnswerInv
  BY IdleTyped DEF Init, StateInit, AnswerInv

\* Off Solana the table has one entry for a chain.
LEMMA OneAnswer ==
  ASSUME Unique(token), NEW c \in Chains \ NullChains
  PROVE  \A d, e \in Answers(c) : d = e
<1>1. c # List
  BY ListAssumption
<1> QED BY <1>1 DEF Answers, RowsOf, Unique

\* A transfer asks the registry three times, through a cache that others fill and
\* drop meanwhile (CacheGet, ReadTable, SetCache): whatever was written before it
\* began and whatever happens to other chains, the three entries are what the table
\* gives, and off Solana the same one, unless the operator wrote that entry between
\* its reads or it met a value the DEL had missed, was to come for, or came before.
THEOREM TransfersConsistent == Spec => []TransferConsistent
<1>1. Typed /\ UniqueInv /\ AnswerInv => TransferConsistent
  <2> SUFFICES ASSUME Typed, UniqueInv, AnswerInv, NEW t \in Tasks, task[t].step = "transfer",
                      t \notin stirred, NEW i \in 1..3
               PROVE  /\ task[t].entries[i] \in Answers(task[t].chain)
                      /\ task[t].chain \notin NullChains => task[t].entries[i] = task[t].entries[1]
    BY DEF TransferConsistent, At
  <2>1. task[t].chain \in Chains /\ task[t].wallet # 0 /\ Len(task[t].entries) = 3
    BY TaskTyped DEF WellFormed, ChainSteps, WalletSteps, Reads
  <2>2. task[t].entries[i] \in Answers(task[t].chain) /\ task[t].entries[1] \in Answers(task[t].chain)
    BY <2>1 DEF AnswerInv
  <2> QED BY <2>1, <2>2, OneAnswer DEF UniqueInv
<1>2. Init => StaleExplained
  BY DEF Init, TokenInit, StaleExplained
<1> QED BY <1>1, <1>2, InitTyped, InitAnswers, NextTyped, UseNext, UniqueNext, StaleNext, AnswerNext, PTL DEF Spec
=============================================================================
