------------------------------- MODULE Funds -------------------------------
(***************************************************************************)
(* One project's master wallets, relayers, sweeps and token transfers,     *)
(* together with the operator's changes of the token registry.             *)
(***************************************************************************)
EXTENDS TokenTransfers

vars == <<stateVars, relayerVars, config, tokenVars>>

Init == StateInit /\ RelayersInit /\ MasterInit /\ TokenInit

Next ==
    \/ RelayersNext /\ UNCHANGED <<config, tokenVars>>
    \/ SweepNext /\ UNCHANGED tokenVars
    \/ TokenNext

Spec == Init /\ [][Next]_vars

\* One row per chain that has an id (the UNIQUE constraints); what refers to a
\* wallet refers to one of its chain, made for that use.
TypeOK ==
    /\ \A table \in {config, relayer, token}, c \in Chains \ NullChains :
          Cardinality(RowsOf(table, c)) <= 1
    /\ \A i \in DOMAIN config :
          wallet[config[i].wallet].chain = config[i].chain /\ wallet[config[i].wallet].user = "_master"
    /\ \A i \in DOMAIN relayer :
          wallet[relayer[i].wallet].chain = relayer[i].chain /\ wallet[relayer[i].wallet].user = "_relayer"
    /\ \A w \in DOMAIN wallet : wallet[w].master => wallet[w].user = "_master"
    /\ requests \in 0..MaxRequests /\ faults \in 0..MaxFaults
=============================================================================
