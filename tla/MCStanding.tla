------------------------------ MODULE MCStanding ------------------------------
(* Instances of StandingOrders for TLC. *)
EXTENDS StandingOrders, TLC

\* No definition tells one scan or one request from another.
Symmetry == Permutations(Scans) \cup Permutations(Requests)

\* Bounds: scans and requests under way at once, fewer once the order is gone; and no
\* request beside a restore, whose rollback takes back a claim that the other one may
\* have relied on.
UnderWay ==
  Cardinality({s \in Scans : ~At(s, "idle")}) + Cardinality({q \in Requests : ~Ask(q, "idle")})
    <= IF status = "removed" THEN 1 ELSE 3
RestoresAlone ==
  \A q, r \in Requests : q # r /\ request'[q].pc \in {"restore", "open", "failed", "rollback"} =>
    request'[r].pc = "idle"
===============================================================================
