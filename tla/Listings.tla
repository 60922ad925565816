------------------------------ MODULE Listings ------------------------------
(***************************************************************************)
(* Finite sets of blocks as the lists that the clients read: every element *)
(* once, the newest first.                                                 *)
(***************************************************************************)
EXTENDS Integers, FiniteSets, SequencesExt

Falling(s) == \A i, j \in DOMAIN s : i < j => s[i] > s[j]

newestFirst(S) == CHOOSE s \in SetToSeqs(S) : Falling(s)
=============================================================================
