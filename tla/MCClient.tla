------------------------------ MODULE MCClient ------------------------------
(***************************************************************************)
(* Instances of ClientRunner for TLC.                                      *)
(***************************************************************************)
EXTENDS ClientRunner, TLC

\* Two tests, of one pair each.
OnePairEach == 1 :> 1 @@ 2 :> 2

\* One test of one pair.
OnePair == 1 :> 1

SymmetricSlots == Permutations(Slots)
=============================================================================
