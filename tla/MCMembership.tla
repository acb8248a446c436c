----------------------------- MODULE MCMembership -----------------------------
(* Instances of MirrorMembership for TLC. *)
EXTENDS MirrorMembership, TLC

\* All but the founder start alike, and no definition tells them apart.
UserSymmetry == Permutations(Users \ {Founder})
=============================================================================
