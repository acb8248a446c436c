------------------------------- MODULE MCAlert --------------------------------
(* Instances of PriceAlert for TLC. *)
EXTENDS PriceAlert, TLC

\* No definition tells one run from another.
RunSymmetry == Permutations(Runs)
===============================================================================
