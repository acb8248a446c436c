---------------------------- MODULE MCReplication ----------------------------
(* Instances of MirrorReplication for TLC. *)
EXTENDS MirrorReplication, TLC

\* No definition tells one transaction from another.
TxSymmetry == Permutations(Txs)

\* Every copy is another user's ...
OwnUsers == [c \in Copies |-> c]

\* ... or one of them is the copy the founder gets when they come back.
FounderReturns ==
  LET back == CHOOSE c \in Copies : c # Founder
  IN  [c \in Copies |-> IF c = back THEN Founder ELSE c]
=============================================================================
