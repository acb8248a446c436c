------------------------------- MODULE MCOAuth -------------------------------
(* Instances of OAuthRefresh for TLC: two installs, each with a pair. *)
EXTENDS OAuthRefresh, TLC

CONSTANTS i1, i2

MCStart == i1 :> 1 @@ i2 :> 2
MCHome == i1 :> 1 @@ i2 :> 2

\* What differs where families are shared or missing is sign-out-everywhere, which
\* only an official app has.
MCInit == Init /\ (origin # "own" => firstParty)
MCSpec == MCInit /\ [][Next]_vars

\* No definition tells one request from another.
RequestSymmetry == Permutations(Requests)

\* Installs with a family each meet only in sign-out-everywhere, and one of them
\* acts.  Where they share one or have none both do, and are alike, so that it is the
\* first that signs out everywhere; neither is restored nor tagged, and no suspension,
\* which asks nothing of a family, is tried.
SignsOut(r) == request[r].pc = "signout"
OneActs ==
  IF origin = "own" THEN holds'[i2] = holds[i2] /\ \A r \in Requests : request'[r].by # i2
  ELSE /\ excused' = {} /\ instance' = instance /\ ~suspended'
       /\ \A r \in Requests : SignsOut(r)' => SignsOut(r) \/ request'[r].token = holds[i1]

\* Once the grant is gone, only the requests still under way are followed, and the
\* rest of a suspension ...
UnderWay(r) == request[r] # Idle
WhileGranted ==
  \/ granted \/ suspended' # suspended
  \/ \E r \in Requests : UnderWay(r) /\ request'[r] # request[r]

\* ... and no pair lives, so that of the rows only the envelopes matter.  Whether a
\* pair was used matters only to the grace of its predecessor, and whose instance
\* a family is only while it lives.
Stands(t) == token[t].fam = None \/ family[token[t].fam] # "dead"
Successors == {token[t].next : t \in Tokens}
Seen ==
  IF granted
  THEN <<firstParty, family, [f \in Families |-> IF family[f] = "live" THEN instance[f] ELSE None],
         [t \in Tokens |-> [token[t] EXCEPT !.used = @ \/ t \notin Successors]],
         holds, request, origin, chain, acted \cap Successors, excused>>
  ELSE <<request, suspended,
         [t \in Tokens |-> <<token[t].next, token[t].sealed, token[t].sealed /\ Stands(t)>>]>>
=============================================================================
