-------------------------- MODULE MC_RelayerAndPool --------------------------
(***************************************************************************)
(* One instance for two components that share no state: the relayer and    *)
(* the lending pool.  A behaviour is one of either, and the other stays in *)
(* an initial state.                                                       *)
(***************************************************************************)
EXTENDS Relayer, MC_CredentialGatedPool

VARIABLE part    \* the one that runs

RelayerAndPoolInit ==
  /\ Init /\ PoolInit
  /\ \/ /\ part = "relayer"
        /\ requirement = CHOOSE r \in Requirements : TRUE
        /\ borrowCap = CHOOSE cap \in Caps : TRUE
     \/ part = "pool" /\ facet = "requests"

RelayerAndPoolNext ==
  \/ /\ part = "relayer"
     /\ Next
     /\ UNCHANGED <<part, poolVars>>
  \/ /\ part = "pool"
     /\ PoolNext
     /\ UNCHANGED <<part, vars>>

RelayerAndPoolSpec ==
  /\ RelayerAndPoolInit /\ [][RelayerAndPoolNext]_<<part, vars, poolVars>>
  /\ Fairness
=============================================================================
