------------------------- MODULE MC_RegistryAndLanes -------------------------
(***************************************************************************)
(* One instance for the registry, transaction by transaction, and for the  *)
(* programs that mirror many transactions into it, which see of it the     *)
(* retired queries only.  A behaviour is one of either.                    *)
(***************************************************************************)
EXTENDS MC_AttestationRegistry, MirrorLanes

LanesOff ==
  /\ program = "none" /\ N = 1 /\ cuts = {}
  /\ stage = "over" /\ pc = [l \in 1..Width |-> "free"] /\ item = [l \in 1..Width |-> 0]
  /\ nonce = [l \in 1..Width |-> NO_NONCE]
  /\ from = 1 /\ idx = 2 /\ limit = 1
  /\ result = <<"failed">> /\ lost = {}
  /\ WalletInit
  /\ disturbed = FALSE /\ kills = 0

RegistryAndLanesInit == Init /\ (LanesOff \/ LanesInit)

RegistryAndLanesNext ==
  \/ /\ program = "none"
     /\ Next
     /\ UNCHANGED lanesVars
  \/ /\ program # "none"
     /\ LanesNext
     /\ UNCHANGED vars

RegistryAndLanesSpec ==
  /\ RegistryAndLanesInit /\ [][RegistryAndLanesNext]_<<vars, lanesVars>>
  /\ LanesFairness
=============================================================================
