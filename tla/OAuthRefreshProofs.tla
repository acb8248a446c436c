-------------------------- MODULE OAuthRefreshProofs --------------------------
(***************************************************************************)
(* Token families, for any number of installs, pairs, families, requests   *)
(* and windows: chains do not fork, what is revoked stays so, and an app   *)
(* that behaves is served.                                                 *)
(***************************************************************************)
EXTENDS OAuthRefresh, TLAPS

-----------------------------------------------------------------------------
(* The inductive invariant. *)

Refreshes(r) == request[r].pc \in {"rotate", "check", "revoke", "served", "refused"}

\* A pair's successor, the root of its chain and its family are there.
RowsOK ==
  /\ \A t \in Tokens : token[t].born => token[chain[t]].born
  /\ \A t \in Tokens : token[t].next # None =>
       /\ token[t].born /\ token[token[t].next].born /\ token[t].next # t
       /\ chain[token[t].next] = chain[t]
  /\ \A t \in Tokens : token[t].born /\ token[t].fam # None => family[token[t].fam] # "unused"
  /\ \A t \in acted : token[t].born /\ token[t].used

\* Installs hold pairs of chains of their own.
HoldsOK ==
  /\ \A i \in Installs : token[holds[i]].born
  /\ \A i, j \in Installs : i # j => chain[holds[i]] # chain[holds[j]]

\* A request is about a pair of the chain its app holds.
AskedOK ==
  \A r \in Requests :
    /\ request[r].pc \in {"signout"} => request[r].token \in Tokens /\ token[request[r].token].born
    /\ Refreshes(r) =>
         /\ request[r].by \in Installs /\ request[r].token \in Tokens
         /\ token[request[r].token].born
         /\ chain[request[r].token] = chain[holds[request[r].by]]
         /\ request[r].fam # None => family[request[r].fam] # "unused"
         /\ request[r].pc \in {"check", "served"} => Consumed(request[r].token)

\* A chain that began with a sign-in is a family, and what a request has read of it is
\* still so.
KinOK ==
  \A t \in Tokens : token[t].born /\ ~Legacy(t) =>
    /\ token[t].fam # None
    /\ \A u \in Tokens : token[u].born => (chain[u] = chain[t] <=> token[u].fam = token[t].fam)
    /\ \A r \in Requests : Refreshes(r) =>
         (chain[request[r].token] = chain[t] <=> request[r].fam = token[t].fam)

\* What an app has not received nobody has used or refreshed.
AheadOK ==
  \A i \in Installs \ excused :
    LET u == token[holds[i]].next IN
    u # None => /\ ~Consumed(u) /\ ~token[u].used
                /\ \A r \in Requests : Refreshes(r) => request[r].token # u

\* A request that lost the race to rotate has lost it just now.
PromptOK ==
  \A r \in Requests :
    request[r].pc = "rotate" /\ Consumed(request[r].token) => Elapsed(request[r].token) = 0

\* The answer that may be given is kept.
KeptOK ==
  \A t \in Tokens :
    /\ Live(t) /\ ~Legacy(t) /\ Consumed(t)
    /\ ~Consumed(token[t].next) /\ Elapsed(t) <= ReplayWindow
    => token[t].sealed

Structure == RowsOK /\ HoldsOK /\ AskedOK /\ KinOK
Service == AheadOK /\ PromptOK /\ KeptOK /\ HonestIsServed
Safe == TypeOK /\ Structure /\ OneEnd /\ EnvelopesAreCurrent

-----------------------------------------------------------------------------
(* Types. *)

\* No request is a request.
LEMMA IdleIsOne == Idle \in Request /\ Idle.pc = "idle" /\ Idle.by = None
BY DEF Idle, Request

\* A pair just minted.
LEMMA FreshIsOne == \A f \in Families \cup {None} : Fresh(f) \in Pair
BY DEF Fresh, Unborn, Pair

\* What 0119 made of the first pairs.
LEMMA FirstFamilyIsOne ==
  \A o \in {"own", "shared", "null"}, i \in Installs : FirstFamily(o, i) \in Families \cup {None}
<1> SUFFICES ASSUME NEW o \in {"own", "shared", "null"}, NEW i \in Installs
             PROVE  FirstFamily(o, i) \in Families \cup {None}
  OBVIOUS
<1>1. (CHOOSE j \in Installs : TRUE) \in Installs OBVIOUS
<1>2. QED BY <1>1, OAuthAssumption DEF FirstFamily

\* Types hold at the start ...
LEMMA TypeInitially == Init => TypeOK
<1> SUFFICES ASSUME Init PROVE TypeOK OBVIOUS
<1>1. origin \in {"own", "shared", "null"} BY OAuthAssumption DEF Init
<1>2. family \in [Families -> {"unused", "live", "dead"}] BY DEF Init
<1>3. instance \in [Families -> Installs \cup {None}]
  <2>1. ASSUME NEW f \in Families, \E i \in Installs : Home[i] = f
        PROVE  (CHOOSE i \in Installs : Home[i] = f) \in Installs
    BY <2>1
  <2>2. QED BY <2>1 DEF Init
<1>4. token \in [Tokens -> Pair]
  <2>1. ASSUME NEW t \in Tokens, \E i \in Installs : Start[i] = t
        PROVE  [Fresh(FirstFamily(origin, CHOOSE i \in Installs : Start[i] = t)) EXCEPT !.used = TRUE]
                 \in Pair
    <3>1. (CHOOSE i \in Installs : Start[i] = t) \in Installs BY <2>1
    <3>2. FirstFamily(origin, CHOOSE i \in Installs : Start[i] = t) \in Families \cup {None}
      BY <1>1, <3>1, FirstFamilyIsOne
    <3>3. QED BY <3>2 DEF Fresh, Unborn, Pair
  <2>2. Unborn \in Pair BY DEF Unborn, Pair
  <2>3. QED BY <2>1, <2>2 DEF Init
<1>5. request \in [Requests -> Request] BY IdleIsOne DEF Init
<1>6. QED BY <1>1, <1>2, <1>3, <1>4, <1>5, OAuthAssumption DEF Init, TypeOK

\* What a request turns into.
LEMMA RequestTypes ==
  ASSUME TypeOK, NEW r \in Requests,
         NEW pc \in {"idle", "rotate", "check", "revoke", "served", "refused", "signout", "logout"}
  PROVE  /\ [request EXCEPT ![r].pc = pc] \in [Requests -> Request]
         /\ [request EXCEPT ![r] = Idle] \in [Requests -> Request]
         /\ \A l, m \in BOOLEAN :
              [request[r] EXCEPT !.lost = l, !.late = m, !.pc = pc] \in Request
<1>1. request \in [Requests -> Request] /\ request[r] \in Request BY DEF TypeOK
<1>2. [request[r] EXCEPT !.pc = pc] \in Request BY <1>1 DEF Request
<1>3. \A l, m \in BOOLEAN : [request[r] EXCEPT !.lost = l, !.late = m, !.pc = pc] \in Request
  BY <1>1 DEF Request
<1>4. QED BY <1>1, <1>2, <1>3, IdleIsOne

\* A verdict, and what it costs.
LEMMA VerdictIsOne ==
  /\ \A t \in Tokens : GraceVerdict(t) \in {"reuse", "unavailable", "check"}
  /\ \A v \in {"reuse", "unavailable", "check", "served"}, l \in BOOLEAN :
       After(v, l) \in {"check", "revoke", "refused"}
BY DEF GraceVerdict, After

\* Envelopes dropped and uses stamped keep the pairs.
LEMMA MarkedIsOne ==
  ASSUME TypeOK, NEW t \in Tokens, NEW b \in BOOLEAN
  PROVE  /\ [token EXCEPT ![t].sealed = @ /\ b] \in [Tokens -> Pair]
         /\ [token EXCEPT ![t].used = TRUE] \in [Tokens -> Pair]
         /\ \A x \in Tokens : [token[x] EXCEPT !.sealed = @ /\ b] \in Pair
<1>1. token \in [Tokens -> Pair] BY DEF TypeOK
<1>2. \A x \in Tokens : /\ [token[x] EXCEPT !.sealed = token[x].sealed /\ b] \in Pair
                        /\ [token[x] EXCEPT !.used = TRUE] \in Pair
  BY <1>1 DEF Pair
<1>3. QED BY <1>1, <1>2

\* ... and after a step of a request that mints nothing ...
LEMMA TypeRefresh ==
  ASSUME TypeOK, AskedOK, NEW r \in Requests,
         \/ \E i \in Installs : Lookup(r, i) \/ Logout(r, i) \/ SignOutStart(r, i)
         \/ RotateRefused(r) \/ Replayed(r) \/ Check(r) \/ RevokeTokenFamily(r)
         \/ Receive(r) \/ Gone(r)
  PROVE  TypeOK'
<1>1. /\ request \in [Requests -> Request] /\ request[r] \in Request
      /\ token \in [Tokens -> Pair] /\ holds \in [Installs -> Tokens]
      /\ acted \in SUBSET Tokens /\ excused \in SUBSET Installs
      /\ family \in [Families -> {"unused", "live", "dead"}] /\ granted \in BOOLEAN
  BY DEF TypeOK
<1>2. CASE \E i \in Installs : Lookup(r, i)
  <2>1. PICK i \in Installs : Lookup(r, i) BY <1>2
  <2>2. holds[i] \in Tokens /\ token[holds[i]] \in Pair BY <1>1
  <2>3. \A t \in Tokens : /\ After(GraceVerdict(t), FALSE) \in {"check", "revoke", "refused"}
                          /\ Consumed(t) \in BOOLEAN /\ ReadDrops(t) \in BOOLEAN
    BY VerdictIsOne DEF Consumed, ReadDrops
  <2>4. request' \in [Requests -> Request]
    BY <1>1, <2>1, <2>2, <2>3 DEF Lookup, Request, Pair
  <2>5. token' \in [Tokens -> Pair] BY <2>1, <2>2, <2>3, MarkedIsOne DEF Lookup
  <2>6. QED BY <1>1, <2>1, <2>4, <2>5 DEF Lookup, TypeOK
<1>3. CASE \E i \in Installs : Logout(r, i)
  <2>1. PICK i \in Installs : Logout(r, i) BY <1>3
  <2>2. token[holds[i]].fam \in Families \cup {None} BY <1>1 DEF Pair
  <2>3. request' \in [Requests -> Request] BY <1>1, <2>1, <2>2 DEF Logout, Request, Idle
  <2>4. QED BY <2>1, <2>3 DEF Logout, TypeOK, tables, history
<1>4. CASE \E i \in Installs : SignOutStart(r, i)
  <2>1. PICK i \in Installs : SignOutStart(r, i) BY <1>4
  <2>2. request' \in [Requests -> Request] BY <1>1, <2>1 DEF SignOutStart, Request, Idle
  <2>3. token' \in [Tokens -> Pair] BY <1>1, <2>1, MarkedIsOne DEF SignOutStart
  <2>4. QED BY <1>1, <2>1, <2>2, <2>3 DEF SignOutStart, TypeOK
<1>5. CASE RotateRefused(r) \/ Gone(r)
  <2>1. request' \in [Requests -> Request]
    <3>1. CASE RotateRefused(r) BY <3>1, RequestTypes DEF RotateRefused
    <3>2. CASE Gone(r) BY <3>2, RequestTypes DEF Gone
    <3>3. QED BY <1>5, <3>1, <3>2
  <2>2. UNCHANGED <<tables, holds, history>> BY <1>5 DEF RotateRefused, Gone
  <2>3. QED BY <2>1, <2>2 DEF TypeOK, tables, history
<1>6. CASE Replayed(r)
  <2>1. request[r].token \in Tokens BY <1>6 DEF Replayed, AskedOK, Refreshes
  <2>2. After(GraceVerdict(request[r].token), TRUE) \in {"check", "revoke", "refused"}
    BY <2>1, VerdictIsOne
  <2>3. (Elapsed(request[r].token) > Grace) \in BOOLEAN OBVIOUS
  <2>4. [request[r] EXCEPT !.lost = TRUE, !.late = Elapsed(request[r].token) > Grace,
                           !.pc = After(GraceVerdict(request[r].token), TRUE)] \in Request
    BY <2>2, <2>3, RequestTypes
  <2>5. request' \in [Requests -> Request] BY <1>1, <1>6, <2>4 DEF Replayed
  <2>6. token' \in [Tokens -> Pair]
    <3>1. ReadDrops(request[r].token) \in BOOLEAN BY DEF ReadDrops
    <3>2. QED BY <1>6, <2>1, <3>1, MarkedIsOne DEF Replayed
  <2>7. QED BY <1>6, <2>5, <2>6 DEF Replayed, TypeOK, history
<1>7. CASE Check(r)
  <2>1. CheckVerdict(r) \in {"reuse", "unavailable", "served"} BY DEF CheckVerdict
  <2>2. After(CheckVerdict(r), request[r].lost) \in {"check", "revoke", "refused"}
    BY <1>1, <2>1, VerdictIsOne DEF Request
  <2>3. request' \in [Requests -> Request] BY <1>7, <2>2, RequestTypes DEF Check
  <2>4. QED BY <1>7, <2>3 DEF Check, TypeOK, tables, history
<1>8. CASE RevokeTokenFamily(r)
  <2>1. request' \in [Requests -> Request]
    <3>1. [request[r] EXCEPT !.pc = "refused"] \in Request BY <1>1 DEF Request
    <3>2. QED BY <1>1, <1>8, <3>1, IdleIsOne DEF RevokeTokenFamily
  <2>2. token' \in [Tokens -> Pair] /\ family' \in [Families -> {"unused", "live", "dead"}]
        /\ granted' \in BOOLEAN
    <3>1. \A fs \in SUBSET Families, t \in Tokens : (token[t].fam \notin fs) \in BOOLEAN OBVIOUS
    <3>2. \A b \in BOOLEAN, t \in Tokens : [token[t] EXCEPT !.sealed = token[t].sealed /\ b] \in Pair
      BY MarkedIsOne
    <3>3. ASSUME NEW t \in Tokens PROVE [token[t] EXCEPT !.sealed = FALSE] \in Pair
      <4>1. token[t] \in Pair BY <1>1
      <4>2. QED BY <4>1 DEF Pair
    <3>4. CASE GrantRevoked /\ UNCHANGED family BY <1>1, <3>3, <3>4 DEF GrantRevoked, EnvelopesDropped
    <3>5. CASE Revoked({request[r].fam}) /\ UNCHANGED granted
      BY <1>1, <3>1, <3>2, <3>5 DEF Revoked
    <3>6. CASE UNCHANGED <<granted, family, token>> BY <1>1, <3>6
    <3>7. QED BY <1>8, <3>4, <3>5, <3>6 DEF RevokeTokenFamily
  <2>3. QED BY <1>8, <2>1, <2>2 DEF RevokeTokenFamily, TypeOK, history
<1>9. CASE Receive(r)
  <2>1. request[r].by \in Installs /\ request[r].token \in Tokens /\ Consumed(request[r].token)
    BY <1>9 DEF Receive, AskedOK, Refreshes
  <2>2. token[request[r].token].next \in Tokens BY <1>1, <2>1 DEF Consumed, Pair
  <2>3. holds' \in [Installs -> Tokens] BY <1>1, <1>9, <2>2 DEF Receive
  <2>4. QED BY <1>9, <2>3, RequestTypes DEF Receive, TypeOK, tables, history
<1>10. QED BY <1>2, <1>3, <1>4, <1>5, <1>6, <1>7, <1>8, <1>9

\* ... a rotation ...
LEMMA TypeMinting ==
  ASSUME TypeOK, AskedOK, NEW r \in Requests, Rotate(r)
  PROVE  TypeOK'
<1> DEFINE t == request[r].token
           u == CHOOSE v \in Unminted : TRUE
<1>1. token \in [Tokens -> Pair] /\ t \in Tokens /\ chain \in [Tokens -> Tokens]
  BY DEF TypeOK, Rotate, AskedOK, Refreshes
<1>2. u \in Tokens BY DEF Rotate, Unminted
<1>3. Successor(r) \in Pair BY FreshIsOne DEF Successor, TypeOK, Request
<1>4. \A v \in Tokens : /\ [token[v] EXCEPT !.next = u, !.sealed = TRUE] \in Pair
                        /\ [token[v] EXCEPT !.sealed = FALSE] \in Pair
  <2> HIDE DEF u
  <2>1. SUFFICES ASSUME NEW v \in Tokens
                 PROVE  /\ [token[v] EXCEPT !.next = u, !.sealed = TRUE] \in Pair
                        /\ [token[v] EXCEPT !.sealed = FALSE] \in Pair
    OBVIOUS
  <2>2. token[v] \in Pair BY <1>1
  <2>3. QED BY <1>2, <2>2 DEF Pair
<1>5. token' = [v \in Tokens |->
          CASE v = u -> Successor(r)
            [] v = t -> [token[t] EXCEPT !.next = u, !.sealed = TRUE]
            [] token[v].next = t -> [token[v] EXCEPT !.sealed = FALSE]
            [] OTHER -> token[v]]
  BY DEF Rotate
<1>6. token' \in [Tokens -> Pair] BY <1>1, <1>3, <1>4, <1>5
<1>7. chain' \in [Tokens -> Tokens] BY <1>1, <1>2 DEF Rotate
<1>8. request' \in [Requests -> Request] BY RequestTypes DEF Rotate
<1>9. QED BY <1>6, <1>7, <1>8 DEF Rotate, TypeOK

\* Only rows' envelopes, or their ages, change.
LEMMA TypeOfTheRows ==
  ASSUME TypeOK, RevokeGrant \/ Suspend \/ ClearEnvelopes \/ Sweep \/ Tick PROVE TypeOK'
<1>1. token \in [Tokens -> Pair] BY DEF TypeOK
<1>2. CASE RevokeGrant
  <2>1. \A t \in Tokens : [token[t] EXCEPT !.sealed = FALSE] \in Pair BY <1>1 DEF Pair
  <2>2. QED BY <1>2, <2>1 DEF RevokeGrant, GrantRevoked, EnvelopesDropped, TypeOK, history
<1>6. CASE Suspend BY <1>6 DEF Suspend, TypeOK, history
<1>7. CASE ClearEnvelopes
  <2>1. \A t \in Tokens : [token[t] EXCEPT !.sealed = FALSE] \in Pair BY <1>1 DEF Pair
  <2>2. QED BY <1>7, <2>1 DEF ClearEnvelopes, EnvelopesDropped, TypeOK, history
<1>3. CASE Sweep
  <2>1. \A t \in Tokens : (~ReadDrops(t)) \in BOOLEAN OBVIOUS
  <2>2. \A t \in Tokens : [token[t] EXCEPT !.sealed = token[t].sealed /\ ~ReadDrops(t)] \in Pair
    BY <2>1, MarkedIsOne
  <2>3. QED BY <1>3, <2>2 DEF Sweep, TypeOK, history
<1>4. CASE Tick
  <2>1. \A t \in Tokens :
          [token[t] EXCEPT !.age = IF token[t].born /\ token[t].age < Ripe(t)
                                   THEN token[t].age + 1 ELSE token[t].age] \in Pair
    BY <1>1 DEF Pair
  <2>2. QED BY <1>4, <2>1 DEF Tick, TypeOK, history
<1>5. QED BY <1>2, <1>3, <1>4, <1>6, <1>7

\* ... a step of an install ...
LEMMA TypeOfTheInstalls ==
  ASSUME TypeOK, NEW i \in Installs,
         Use(i) \/ Restore(i) \/ \E tagged \in BOOLEAN : SignIn(i, tagged)
  PROVE  TypeOK'
<1>1. token \in [Tokens -> Pair] /\ holds \in [Installs -> Tokens]
  BY DEF TypeOK
<1>2. CASE Use(i)
  <2>1. token' \in [Tokens -> Pair] BY <1>1, <1>2, MarkedIsOne DEF Use, Stamped
  <2>2. acted' \in SUBSET Tokens BY <1>1, <1>2 DEF Use, TypeOK
  <2>3. QED BY <1>2, <2>1, <2>2 DEF Use, TypeOK
<1>3. CASE Restore(i) BY <1>1, <1>3 DEF Restore, TypeOK, tables
<1>4. ASSUME NEW tagged \in BOOLEAN, SignIn(i, tagged) PROVE TypeOK'
  <2> DEFINE u == CHOOSE v \in Unminted : TRUE
             f == CHOOSE g \in Unused : TRUE
             gone == Retired(i, tagged)
  <2>1. u \in Tokens /\ f \in Families BY <1>4 DEF SignIn, Unminted, Unused
  <2>2. \A v \in Tokens : (token[v].fam \notin gone) \in BOOLEAN OBVIOUS
  <2>3. \A v \in Tokens : [token[v] EXCEPT !.sealed = token[v].sealed /\ token[v].fam \notin gone] \in Pair
    BY <2>2, MarkedIsOne
  <2>4. token' \in [Tokens -> Pair]
    <3>1. Fresh(f) \in Pair BY <2>1, FreshIsOne
    <3>2. token' = [v \in Tokens |-> IF v = u THEN Fresh(f)
                     ELSE [token[v] EXCEPT !.sealed = token[v].sealed /\ token[v].fam \notin gone]]
      BY <1>4 DEF SignIn
    <3>3. QED BY <2>3, <3>1, <3>2
  <2>5. family' \in [Families -> {"unused", "live", "dead"}] BY <1>4 DEF SignIn, TypeOK
  <2>6. instance' \in [Families -> Installs \cup {None}] BY <1>4, <2>1 DEF SignIn, TypeOK
  <2>7. chain' \in [Tokens -> Tokens] /\ holds' \in [Installs -> Tokens]
        /\ excused' \in SUBSET Installs
    BY <1>4, <2>1 DEF SignIn, TypeOK
  <2>8. QED BY <1>4, <2>4, <2>5, <2>6, <2>7 DEF SignIn, TypeOK
<1>5. QED BY <1>2, <1>3, <1>4

\* ... sign-out-everywhere ...
LEMMA TypeSignOut ==
  ASSUME TypeOK, NEW r \in Requests, EndSiblingInstalls(r)
  PROVE  TypeOK'
<1> DEFINE t == request[r].token
           f == token[t].fam
           mine == {x \in SameChain(t) : token[x].fam = f}
           moves == f = None \/ Shared(f, mine)
           orphans == {x \in Tokens \ mine : token[x].born /\ token[x].fam = None}
           fresh == CHOOSE g \in Unused : TRUE
           keep == IF moves THEN fresh ELSE f
           sweep == CHOOSE g \in Unused \ {keep} : TRUE
           ended == {g \in Families \ {keep} :
                      family[g] = "live" \/ (orphans # {} /\ g = sweep)}
<1>1. token \in [Tokens -> Pair] BY DEF TypeOK
<1>2. /\ moves => fresh \in Families
      /\ orphans # {} => sweep \in Families
  BY DEF EndSiblingInstalls, Unused
<1>3. token' = [x \in Tokens |->
          CASE moves /\ x \in mine -> [token[x] EXCEPT !.fam = fresh]
            [] x \in orphans -> [token[x] EXCEPT !.fam = sweep, !.sealed = FALSE]
            [] OTHER -> [token[x] EXCEPT !.sealed = token[x].sealed /\ token[x].fam \notin ended]]
  BY DEF EndSiblingInstalls
<1>4. token' \in [Tokens -> Pair]
  <2>1. ASSUME NEW x \in Tokens, moves PROVE [token[x] EXCEPT !.fam = fresh] \in Pair
    BY <1>1, <1>2, <2>1 DEF Pair
  <2>2. ASSUME NEW x \in orphans PROVE [token[x] EXCEPT !.fam = sweep, !.sealed = FALSE] \in Pair
    <3>1. orphans # {} /\ x \in Tokens BY <2>2
    <3>2. sweep \in Families BY <1>2, <3>1
    <3>3. token[x] \in Pair BY <1>1, <3>1
    <3> HIDE DEF sweep
    <3>4. QED BY <3>2, <3>3 DEF Pair
  <2>3. ASSUME NEW x \in Tokens
        PROVE  [token[x] EXCEPT !.sealed = token[x].sealed /\ token[x].fam \notin ended] \in Pair
    <3>1. (token[x].fam \notin ended) \in BOOLEAN OBVIOUS
    <3>2. QED BY <3>1, MarkedIsOne
  <2> HIDE DEF mine, moves, orphans, fresh, sweep, ended
  <2>4. QED BY <1>3, <2>1, <2>2, <2>3
<1>5. family' \in [Families -> {"unused", "live", "dead"}]
  BY DEF EndSiblingInstalls, TypeOK
<1>6. QED BY <1>4, <1>5, RequestTypes DEF EndSiblingInstalls, TypeOK, history

\* ... so after every step.
LEMMA TypeStep == ASSUME TypeOK, AskedOK, [Next]_vars PROVE TypeOK'
<1>1. CASE UNCHANGED vars BY <1>1 DEF vars, tables, history, TypeOK
<1>2. CASE Next
  BY <1>2, TypeRefresh, TypeMinting, TypeSignOut, TypeOfTheInstalls, TypeOfTheRows DEF Next
<1>3. QED BY <1>1, <1>2

-----------------------------------------------------------------------------
(* What a step may do to chains, families, requests and installs. *)

\* No pair is minted or moved; families and the grant only end.
Quiet ==
  /\ chain' = chain /\ origin' = origin
  /\ \A t \in Tokens : /\ token'[t].born = token[t].born /\ token'[t].next = token[t].next
                       /\ token'[t].fam = token[t].fam
                       /\ token[t].used => token'[t].used
  /\ \A f \in Families : /\ family'[f] = "unused" => family[f] = "unused"
                         /\ family[f] = "dead" => family'[f] = "dead"
                         /\ family[f] = "unused" => family'[f] = "unused"
  /\ granted' => granted

\* A request goes on with what it has read, or begins by reading.
Asking ==
  \A r \in Requests :
    /\ request'[r].pc = "signout" =>
         \/ request[r].pc = "signout" /\ request'[r].token = request[r].token
         \/ \E i \in Installs : request'[r].token = holds[i]
    /\ Refreshes(r)' =>
         \/ /\ Refreshes(r) /\ request'[r].by = request[r].by
            /\ request'[r].token = request[r].token /\ request'[r].fam = request[r].fam
            /\ \/ request'[r].pc \notin {"check", "served"}
               \/ request[r].pc \in {"check", "served"} \/ Consumed(request[r].token)
         \/ \E i \in Installs :
               /\ request'[r].by = i /\ request'[r].token = holds[i]
               /\ request'[r].fam = token[holds[i]].fam
               /\ request'[r].pc \in {"check", "served"} => Consumed(holds[i])

\* An install stays on its chain.
Holding ==
  \A i \in Installs : token[holds'[i]].born /\ chain[holds'[i]] = chain[holds[i]]

Acting == \A t \in acted' : t \in acted \/ (token[t].born /\ token'[t].used)

\* An envelope is never made, and does not outlive its family, nor its grant but for
\* a suspension.
Sealing ==
  \A t \in Tokens : token'[t].sealed =>
    /\ token[t].sealed /\ (granted \/ suspended => granted' \/ suspended')
    /\ token[t].fam # None => family'[token[t].fam] = family[token[t].fam]

\* Dropping envelopes is quiet.
LEMMA DroppingIsQuiet ==
  ASSUME TypeOK, NEW t \in Tokens, NEW b,
         token' = [token EXCEPT ![t].sealed = @ /\ b] \/ token' = [token EXCEPT ![t].used = TRUE]
  PROVE  \A x \in Tokens : /\ token'[x].born = token[x].born /\ token'[x].next = token[x].next
                           /\ token'[x].fam = token[x].fam /\ (token[x].used => token'[x].used)
BY DEF TypeOK, Pair

\* A request that ends, or is about something else than a refresh.
LEMMA OthersAsk ==
  ASSUME TypeOK, NEW r \in Requests, NEW q, request' = [request EXCEPT ![r] = q],
         q.pc \in {"idle", "logout"} \/ (q.pc = "signout" /\ \E i \in Installs : q.token = holds[i])
  PROVE  Asking
<1>1. request'[r] = q /\ \A x \in Requests : x # r => request'[x] = request[x] BY DEF TypeOK
<1>2. QED BY <1>1 DEF Asking, Refreshes

\* The steps of requests that mint nothing are quiet ...
LEMMA QuietRefresh ==
  ASSUME TypeOK, RowsOK, HoldsOK, AskedOK, NEW r \in Requests,
         \/ \E i \in Installs : Lookup(r, i) \/ Logout(r, i) \/ SignOutStart(r, i)
         \/ RotateRefused(r) \/ Replayed(r) \/ Check(r) \/ RevokeTokenFamily(r)
         \/ Receive(r) \/ Gone(r)
  PROVE  Quiet /\ Asking /\ Holding /\ Acting
<1>1. /\ request \in [Requests -> Request] /\ request[r] \in Request
      /\ token \in [Tokens -> Pair] /\ holds \in [Installs -> Tokens]
      /\ \A i \in Installs : holds[i] \in Tokens /\ token[holds[i]].born
  BY DEF TypeOK, HoldsOK
<1>2. UNCHANGED token => \A t \in Tokens :
        /\ token'[t].born = token[t].born /\ token'[t].next = token[t].next
        /\ token'[t].fam = token[t].fam /\ (token[t].used => token'[t].used)
  OBVIOUS
<1>3. CASE \E i \in Installs : Lookup(r, i)
  <2>1. PICK i \in Installs : Lookup(r, i) BY <1>3
  <2> DEFINE t == holds[i]
  <2>2. Quiet
    <3>1. token' = [token EXCEPT ![t].sealed = @ /\ ~ReadDrops(t)] BY <2>1 DEF Lookup
    <3>2. QED BY <1>1, <2>1, <3>1, DroppingIsQuiet DEF Lookup, Quiet
  <2>3. Asking
    <3>1. After(GraceVerdict(t), FALSE) # "signout" BY <1>1, VerdictIsOne
    <3>2. \A q \in Requests : q # r => request'[q] = request[q] BY <1>1, <2>1 DEF Lookup
    <3>3. /\ request'[r].by = i /\ request'[r].token = t /\ request'[r].fam = token[t].fam
          /\ request'[r].pc = IF ~Live(t) THEN "refused"
               ELSE IF ~Consumed(t) THEN "rotate" ELSE After(GraceVerdict(t), FALSE)
      BY <1>1, <2>1 DEF Lookup
    <3>4. request'[r].pc # "signout"
      BY <3>1, <3>3
    <3>5. QED BY <2>1, <3>2, <3>3, <3>4 DEF Asking, Refreshes
  <2>4. QED BY <1>1, <2>1, <2>2, <2>3 DEF Lookup, Holding, Acting
<1>4. CASE \E i \in Installs : Logout(r, i)
  <2>1. PICK i \in Installs : Logout(r, i) BY <1>4
  <2>2. Asking
    <3>1. [Idle EXCEPT !.pc = "logout", !.fam = token[holds[i]].fam].pc = "logout" BY DEF Idle
    <3>2. QED BY <2>1, <3>1, OthersAsk DEF Logout
  <2>3. QED BY <1>1, <1>2, <2>1, <2>2 DEF Logout, tables, history, Quiet, Holding, Acting
<1>5. CASE \E i \in Installs : SignOutStart(r, i)
  <2>1. PICK i \in Installs : SignOutStart(r, i) BY <1>5
  <2>2. Quiet
    <3>1. token' = [token EXCEPT ![holds[i]].used = TRUE] BY <2>1 DEF SignOutStart
    <3>2. QED BY <1>1, <2>1, <3>1, DroppingIsQuiet DEF SignOutStart, Quiet
  <2>3. Asking
    <3> DEFINE q == [Idle EXCEPT !.pc = "signout", !.token = holds[i]]
    <3>1. q.pc = "signout" /\ q.token = holds[i] BY DEF Idle
    <3>2. request' = [request EXCEPT ![r] = q] BY <2>1 DEF SignOutStart
    <3> HIDE DEF q
    <3>3. QED BY <3>1, <3>2, OthersAsk
  <2>4. token'[holds[i]].used
    <3>1. holds[i] \in Tokens /\ token[holds[i]] \in Pair BY <1>1
    <3>2. token'[holds[i]] = [token[holds[i]] EXCEPT !.used = TRUE] BY <1>1, <2>1 DEF SignOutStart
    <3>3. QED BY <3>1, <3>2 DEF Pair
  <2>5. QED BY <1>1, <2>1, <2>2, <2>3, <2>4 DEF SignOutStart, Holding, Acting
<1>6. CASE RotateRefused(r) \/ Gone(r)
  <2>1. Asking
    <3>1. CASE RotateRefused(r)
      BY <1>1, <3>1 DEF RotateRefused, Asking, Refreshes, Request
    <3>2. CASE Gone(r) BY <3>2, IdleIsOne, OthersAsk DEF Gone
    <3>3. QED BY <1>6, <3>1, <3>2
  <2>2. QED BY <1>1, <1>2, <1>6, <2>1
            DEF RotateRefused, Gone, tables, history, Quiet, Holding, Acting
<1>7. CASE Replayed(r)
  <2>1. request[r].token \in Tokens BY <1>7 DEF Replayed, AskedOK, Refreshes
  <2>2. Quiet BY <1>7, <2>1, DroppingIsQuiet DEF Replayed, Quiet, history
  <2>3. Asking
    <3>1. \A q \in Requests : q # r => request'[q] = request[q] BY <1>1, <1>7 DEF Replayed
    <3>2. /\ request'[r].by = request[r].by /\ request'[r].token = request[r].token
          /\ request'[r].fam = request[r].fam
          /\ request'[r].pc = After(GraceVerdict(request[r].token), TRUE)
      BY <1>1, <1>7 DEF Replayed, Request
    <3>3. Consumed(request[r].token) BY <1>7 DEF Replayed, Claims
    <3>4. request'[r].pc # "signout" BY <2>1, <3>2, VerdictIsOne
    <3>5. QED BY <1>7, <3>1, <3>2, <3>3, <3>4 DEF Asking, Refreshes, Replayed
  <2>4. QED BY <1>1, <1>7, <2>2, <2>3 DEF Replayed, Holding, Acting, history
<1>8. CASE Check(r)
  <2>1. CheckVerdict(r) \in {"reuse", "unavailable", "served"} BY DEF CheckVerdict
  <2>2. After(CheckVerdict(r), request[r].lost) \in {"check", "revoke", "refused"}
    BY <1>1, <2>1, VerdictIsOne DEF Request
  <2>3. Asking BY <1>1, <1>8, <2>2 DEF Check, Asking, Refreshes, Request
  <2>4. QED BY <1>1, <1>2, <1>8, <2>3 DEF Check, tables, history, Quiet, Holding, Acting
<1>9. CASE RevokeTokenFamily(r)
  <2>1. Quiet
    <3>1. CASE GrantRevoked /\ UNCHANGED family
      BY <1>1, <1>9, <3>1 DEF GrantRevoked, EnvelopesDropped, RevokeTokenFamily, Quiet, history, Pair
    <3>2. CASE granted /\ family[request[r].fam] = "live" /\ Revoked({request[r].fam}) /\ UNCHANGED granted
      BY <1>1, <1>9, <3>2 DEF Revoked, RevokeTokenFamily, Quiet, history, Pair
    <3>3. CASE UNCHANGED <<granted, family, token>>
      BY <1>1, <1>9, <3>3 DEF RevokeTokenFamily, Quiet, history
    <3>4. QED BY <1>9, <3>1, <3>2, <3>3 DEF RevokeTokenFamily
  <2>2. Asking BY <1>1, <1>9, IdleIsOne DEF RevokeTokenFamily, Asking, Refreshes, Request
  <2>3. QED BY <1>1, <1>9, <2>1, <2>2 DEF RevokeTokenFamily, Holding, Acting, history
<1>10. CASE Receive(r)
  <2>1. request[r].by \in Installs /\ request[r].token \in Tokens /\ Consumed(request[r].token)
    BY <1>10 DEF Receive, AskedOK, Refreshes
  <2>2. /\ token[token[request[r].token].next].born
        /\ chain[token[request[r].token].next] = chain[request[r].token]
    BY <2>1 DEF RowsOK, Consumed
  <2>3. Holding BY <1>1, <1>10, <2>1, <2>2 DEF Receive, Holding
  <2>4. Asking BY <1>1, <1>10, IdleIsOne DEF Receive, Asking, Refreshes
  <2>5. QED BY <1>1, <1>2, <1>10, <2>3, <2>4 DEF Receive, tables, history, Quiet, Acting
<1>11. QED BY <1>3, <1>4, <1>5, <1>6, <1>7, <1>8, <1>9, <1>10

\* ... those of the rows ...
LEMMA QuietRows ==
  ASSUME TypeOK, HoldsOK, RevokeGrant \/ Suspend \/ ClearEnvelopes \/ Sweep \/ Tick \/ UNCHANGED vars
  PROVE  Quiet /\ Asking /\ Holding /\ Acting
<1>1. /\ token \in [Tokens -> Pair] /\ \A i \in Installs : token[holds[i]].born
  BY DEF TypeOK, HoldsOK
<1>2. Asking /\ Holding /\ Acting /\ chain' = chain /\ origin' = origin /\ UNCHANGED family
      /\ (granted' => granted)
  BY <1>1 DEF RevokeGrant, GrantRevoked, Suspend, ClearEnvelopes, Sweep, Tick, vars, tables,
              history, Asking, Refreshes, Holding, Acting
<1>3. \A t \in Tokens : /\ token'[t].born = token[t].born /\ token'[t].next = token[t].next
                        /\ token'[t].fam = token[t].fam /\ (token[t].used => token'[t].used)
  <2>1. CASE RevokeGrant \/ ClearEnvelopes
    BY <1>1, <2>1 DEF RevokeGrant, GrantRevoked, ClearEnvelopes, EnvelopesDropped, Pair
  <2>2. CASE Sweep BY <1>1, <2>2 DEF Sweep, Pair
  <2>3. CASE Tick BY <1>1, <2>3 DEF Tick, Pair
  <2>4. CASE Suspend \/ UNCHANGED vars BY <2>4 DEF Suspend, vars, tables
  <2>5. QED BY <2>1, <2>2, <2>3, <2>4
<1>4. QED BY <1>2, <1>3 DEF Quiet

\* ... and those of installs but a sign-in.
LEMMA QuietInstalls ==
  ASSUME TypeOK, RowsOK, HoldsOK, NEW i \in Installs, Use(i) \/ Restore(i)
  PROVE  Quiet /\ Asking /\ Holding /\ Acting
<1>1. /\ token \in [Tokens -> Pair] /\ holds \in [Installs -> Tokens]
      /\ \A j \in Installs : token[holds[j]].born
  BY DEF TypeOK, HoldsOK
<1>2. CASE Use(i)
  <2>1. token' = [token EXCEPT ![holds[i]].used = TRUE] BY <1>2 DEF Use, Stamped
  <2>2. Quiet BY <1>1, <1>2, <2>1, DroppingIsQuiet DEF Use, Quiet
  <2>3. token'[holds[i]].used
    <3>1. holds[i] \in Tokens /\ token[holds[i]] \in Pair BY <1>1
    <3>2. token'[holds[i]] = [token[holds[i]] EXCEPT !.used = TRUE] BY <1>1, <2>1
    <3>3. QED BY <3>1, <3>2 DEF Pair
  <2>4. QED BY <1>1, <1>2, <2>2, <2>3 DEF Use, Asking, Refreshes, Holding, Acting
<1>3. CASE Restore(i)
  <2>1. PICK t \in Tokens : token[t].next = holds[i] /\ holds' = [holds EXCEPT ![i] = t]
    BY <1>3 DEF Restore
  <2>2. holds[i] # None BY <1>1, OAuthAssumption
  <2>3. token[t].born /\ chain[t] = chain[holds[i]] BY <2>1, <2>2 DEF RowsOK
  <2>4. Holding BY <1>1, <2>1, <2>3 DEF Holding
  <2>5. QED BY <1>1, <1>3, <2>4 DEF Restore, tables, Quiet, Asking, Refreshes, Acting
<1>4. QED BY <1>2, <1>3

\* What quiet steps keep.
LEMMA StructureInQuiet ==
  ASSUME TypeOK, TypeOK', Structure, Quiet, Asking, Holding, Acting PROVE Structure'
<1>1. /\ token \in [Tokens -> Pair] /\ chain \in [Tokens -> Tokens]
      /\ holds \in [Installs -> Tokens] /\ holds' \in [Installs -> Tokens]
  BY DEF TypeOK
<1>2. \A t \in Tokens : /\ (token'[t].born <=> token[t].born) /\ token'[t].next = token[t].next
                        /\ token'[t].fam = token[t].fam /\ chain'[t] = chain[t]
                        /\ token[t].used => token'[t].used
  BY DEF Quiet
<1>3. \A t \in Tokens : Consumed(t)' <=> Consumed(t) BY <1>2 DEF Consumed
<1>4. \A t \in Tokens : Legacy(t)' <=> Legacy(t) BY <1>2 DEF Legacy, Quiet
<1>5. \A t \in Tokens : /\ token[t].fam \in Families \cup {None} /\ token[t].next \in Tokens \cup {None}
                        /\ chain[t] \in Tokens
  BY <1>1 DEF Pair
<1>6. \A i \in Installs : /\ holds[i] \in Tokens /\ holds'[i] \in Tokens /\ token[holds'[i]].born
                          /\ chain[holds'[i]] = chain[holds[i]] /\ token[holds[i]].born
  BY <1>1 DEF Holding, Structure, HoldsOK
<1>7. RowsOK'
  <2>1. \A t \in Tokens : token'[t].born => token'[chain'[t]].born
    BY <1>2, <1>5 DEF Structure, RowsOK
  <2>2. \A t \in Tokens : token'[t].next # None =>
          /\ token'[t].born /\ token'[token'[t].next].born /\ token'[t].next # t
          /\ chain'[token'[t].next] = chain'[t]
    BY <1>2, <1>5 DEF Structure, RowsOK
  <2>3. \A t \in Tokens : token'[t].born /\ token'[t].fam # None => family'[token'[t].fam] # "unused"
    BY <1>2, <1>5 DEF Structure, RowsOK, Quiet
  <2>4. \A t \in acted' : token'[t].born /\ token'[t].used
    BY <1>2 DEF Structure, RowsOK, Acting, TypeOK
  <2>5. QED BY <2>1, <2>2, <2>3, <2>4 DEF RowsOK
<1>8. HoldsOK' BY <1>2, <1>6 DEF Structure, HoldsOK
<1>9. AskedOK'
  <2> SUFFICES ASSUME NEW r \in Requests
        PROVE  /\ request'[r].pc \in {"signout"} =>
                    request'[r].token \in Tokens /\ token'[request'[r].token].born
               /\ Refreshes(r)' =>
                    /\ request'[r].by \in Installs /\ request'[r].token \in Tokens
                    /\ token'[request'[r].token].born
                    /\ chain'[request'[r].token] = chain'[holds'[request'[r].by]]
                    /\ request'[r].fam # None => family'[request'[r].fam] # "unused"
                    /\ request'[r].pc \in {"check", "served"} => Consumed(request[r].token)'
    BY DEF AskedOK, Refreshes
  <2>1. request'[r].pc = "signout" => request'[r].token \in Tokens /\ token'[request'[r].token].born
    BY <1>2, <1>6 DEF Structure, AskedOK, Asking
  <2>2. CASE /\ Refreshes(r) /\ request'[r].by = request[r].by
             /\ request'[r].token = request[r].token /\ request'[r].fam = request[r].fam
             /\ \/ request'[r].pc \notin {"check", "served"}
                \/ request[r].pc \in {"check", "served"} \/ Consumed(request[r].token)
    <3>1. /\ request[r].by \in Installs /\ request[r].token \in Tokens
          /\ token[request[r].token].born
          /\ chain[request[r].token] = chain[holds[request[r].by]]
          /\ request[r].fam # None => family[request[r].fam] # "unused"
          /\ request[r].pc \in {"check", "served"} => Consumed(request[r].token)
          /\ request[r].fam \in Families \cup {None}
      BY <2>2 DEF Structure, AskedOK, TypeOK, Request
    <3>2. request[r].fam # None => family'[request[r].fam] # "unused" BY <3>1 DEF Quiet
    <3>3. QED BY <1>2, <1>6, <2>1, <2>2, <3>1, <3>2 DEF Consumed
  <2>3. ASSUME NEW i \in Installs,
               /\ request'[r].by = i /\ request'[r].token = holds[i]
               /\ request'[r].fam = token[holds[i]].fam
               /\ request'[r].pc \in {"check", "served"} => Consumed(holds[i])
        PROVE  /\ request'[r].by \in Installs /\ request'[r].token \in Tokens
               /\ token'[request'[r].token].born
               /\ chain'[request'[r].token] = chain'[holds'[request'[r].by]]
               /\ request'[r].fam # None => family'[request'[r].fam] # "unused"
               /\ request'[r].pc \in {"check", "served"} => Consumed(request[r].token)'
    BY <1>2, <1>5, <1>6, <2>3 DEF Structure, RowsOK, Quiet, Consumed
  <2>4. QED BY <2>1, <2>2, <2>3 DEF Asking
<1>10. KinOK'
  <2> SUFFICES ASSUME NEW t \in Tokens, token[t].born, ~Legacy(t)
        PROVE  /\ token[t].fam # None
               /\ \A u \in Tokens : token[u].born => (chain[u] = chain[t] <=> token[u].fam = token[t].fam)
               /\ \A r \in Requests : Refreshes(r)' =>
                    (chain'[request'[r].token] = chain'[t] <=> request'[r].fam = token'[t].fam)
    BY <1>2, <1>4 DEF KinOK, Refreshes
  <2>1. /\ token[t].fam # None
        /\ \A u \in Tokens : token[u].born => (chain[u] = chain[t] <=> token[u].fam = token[t].fam)
    BY DEF Structure, KinOK
  <2>2. ASSUME NEW r \in Requests, Refreshes(r)'
        PROVE  chain'[request'[r].token] = chain'[t] <=> request'[r].fam = token'[t].fam
    <3>1. CASE /\ Refreshes(r) /\ request'[r].by = request[r].by
               /\ request'[r].token = request[r].token /\ request'[r].fam = request[r].fam
      <4>1. chain[request[r].token] = chain[t] <=> request[r].fam = token[t].fam
        BY <3>1 DEF Structure, KinOK
      <4>2. request[r].token \in Tokens BY <3>1 DEF Structure, AskedOK
      <4>3. QED BY <1>2, <3>1, <4>1, <4>2
    <3>2. CASE \E i \in Installs :
                 request'[r].token = holds[i] /\ request'[r].fam = token[holds[i]].fam
      BY <1>2, <1>6, <2>1, <3>2
    <3>3. QED BY <2>2, <3>1, <3>2 DEF Asking
  <2>3. QED BY <2>1, <2>2
<1>11. QED BY <1>7, <1>8, <1>9, <1>10 DEF Structure

\* A rotation mints one pair, and consumes the one it was asked with.
RotatedInto(r, u) ==
  LET t == request[r].token IN
  /\ ~token[u].born /\ t # u
  /\ token'[u].born /\ token'[u].fam = request[r].fam /\ token'[u].next = None /\ ~token'[u].sealed
  /\ token'[u].age = 0 /\ ~token'[u].used
  /\ \A v \in Tokens : v # u =>
       /\ token'[v].born <=> token[v].born
       /\ token'[v].fam = token[v].fam
       /\ token'[v].used <=> token[v].used
       /\ token'[v].next = IF v = t THEN u ELSE token[v].next
       /\ token'[v].sealed <=> (v = t \/ (token[v].sealed /\ token[v].next # t))
       /\ token'[v].age = token[v].age
       /\ chain'[v] = chain[v]
  /\ chain'[u] = chain[t]

\* What rotateRefreshToken leaves behind.
LEMMA RotateMints ==
  ASSUME TypeOK, Structure, NEW r \in Requests, Rotate(r)
  PROVE  \E u \in Tokens : RotatedInto(r, u)
<1> DEFINE t == request[r].token
           f == request[r].fam
<1>1. /\ token \in [Tokens -> Pair] /\ chain \in [Tokens -> Tokens]
      /\ holds \in [Installs -> Tokens] /\ request \in [Requests -> Request]
      /\ acted \in SUBSET Tokens
  BY DEF TypeOK
<1>0. PICK u \in Unminted :
        /\ chain' = [chain EXCEPT ![u] = chain[t]]
        /\ token' = [v \in Tokens |->
             CASE v = u -> Fresh(f)
               [] v = t -> [token[t] EXCEPT !.next = u, !.sealed = TRUE]
               [] token[v].next = t -> [token[v] EXCEPT !.sealed = FALSE]
               [] OTHER -> token[v]]
  <2> DEFINE w == CHOOSE v \in Unminted : TRUE
  <2>1. w \in Unminted BY DEF Rotate
  <2>2. /\ chain' = [chain EXCEPT ![w] = chain[t]]
        /\ token' = [v \in Tokens |->
             CASE v = w -> Fresh(f)
               [] v = t -> [token[t] EXCEPT !.next = w, !.sealed = TRUE]
               [] token[v].next = t -> [token[v] EXCEPT !.sealed = FALSE]
               [] OTHER -> token[v]]
    BY DEF Rotate, Successor
  <2> HIDE DEF w
  <2>3. QED BY <2>1, <2>2
<1>2. u \in Tokens /\ ~token[u].born BY DEF Unminted
<1>3. /\ t \in Tokens /\ token[t].born /\ request[r].by \in Installs
      /\ chain[t] = chain[holds[request[r].by]]
      /\ f # None => family[f] # "unused"
      /\ Refreshes(r)
  BY DEF Structure, AskedOK, Rotate, Refreshes
<1>4. t # u /\ token[u].next # t /\ token[t].next # t
  <2>1. t # u /\ t # None BY <1>2, <1>3, OAuthAssumption
  <2>2. token[u].next = None BY <1>2 DEF Structure, RowsOK
  <2>3. token[t].next = None BY DEF Rotate, Claims, Consumed
  <2>4. QED BY <2>1, <2>2, <2>3
<1>5. /\ Fresh(f).born /\ Fresh(f).fam = f /\ Fresh(f).next = None /\ ~Fresh(f).sealed
      /\ Fresh(f).age = 0 /\ ~Fresh(f).used
  BY DEF Fresh, Unborn
<1>6. /\ token'[u].born /\ token'[u].fam = f /\ token'[u].next = None /\ ~token'[u].sealed
      /\ token'[u].age = 0 /\ ~token'[u].used
  <2>1. token'[u] = Fresh(f) BY <1>0, <1>2, <1>4
  <2>2. QED BY <1>5, <2>1
<1>7. ASSUME NEW v \in Tokens, v # u
      PROVE  /\ token'[v].born <=> token[v].born
             /\ token'[v].fam = token[v].fam
             /\ token'[v].used <=> token[v].used
             /\ token'[v].next = IF v = t THEN u ELSE token[v].next
             /\ token'[v].sealed <=> (v = t \/ (token[v].sealed /\ token[v].next # t))
             /\ token'[v].age = token[v].age
  <2>1. token[v] \in Pair BY <1>1
  <2>2. CASE v = t
    <3>1. token'[t] = [token[t] EXCEPT !.next = u, !.sealed = TRUE] BY <1>0, <1>3, <1>4
    <3>2. QED BY <2>1, <2>2, <3>1 DEF Pair
  <2>3. CASE v # t /\ token[v].next = t
    <3>1. token'[v] = [token[v] EXCEPT !.sealed = FALSE] BY <1>0, <1>7, <2>3
    <3>2. QED BY <2>1, <2>3, <3>1 DEF Pair
  <2>4. CASE v # t /\ token[v].next # t
    <3>1. token'[v] = token[v] BY <1>0, <1>7, <2>4
    <3>2. QED BY <2>1, <2>4, <3>1 DEF Pair
  <2>5. QED BY <2>2, <2>3, <2>4
<1>8. /\ \A v \in Tokens : v # u => chain'[v] = chain[v]
      /\ chain'[u] = chain[t]
  BY <1>0, <1>1, <1>2, <1>3
<1>9. RotatedInto(r, u) BY <1>2, <1>4, <1>6, <1>7, <1>8 DEF RotatedInto
<1>10. QED BY <1>2, <1>9

\* A rotation mints a successor into the chain and its family.
LEMMA StructureInRotate ==
  ASSUME TypeOK, TypeOK', Structure, NEW r \in Requests, Rotate(r) PROVE Structure'
<1> DEFINE t == request[r].token
           f == request[r].fam
<1>1. /\ token \in [Tokens -> Pair] /\ chain \in [Tokens -> Tokens]
      /\ holds \in [Installs -> Tokens] /\ request \in [Requests -> Request]
      /\ acted \in SUBSET Tokens
  BY DEF TypeOK
<1>2. PICK u \in Tokens : RotatedInto(r, u) BY RotateMints
<1>3. /\ t \in Tokens /\ token[t].born /\ request[r].by \in Installs
      /\ chain[t] = chain[holds[request[r].by]]
      /\ f # None => family[f] # "unused"
      /\ Refreshes(r)
  BY DEF Structure, AskedOK, Rotate, Refreshes
<1>4. /\ ~token[u].born /\ t # u BY <1>2 DEF RotatedInto
<1>6. token'[u].born /\ token'[u].fam = f /\ token'[u].next = None
  BY <1>2 DEF RotatedInto
<1>7. \A v \in Tokens : v # u =>
        /\ token'[v].born <=> token[v].born
        /\ token'[v].fam = token[v].fam
        /\ token'[v].used <=> token[v].used
        /\ token'[v].next = IF v = t THEN u ELSE token[v].next
  BY <1>2 DEF RotatedInto
<1>8. /\ \A v \in Tokens : v # u => chain'[v] = chain[v]
      /\ chain'[u] = chain[t] /\ chain[t] \in Tokens
      /\ UNCHANGED <<family, holds, origin, acted, granted>>
  BY <1>1, <1>2, <1>3 DEF Rotate, RotatedInto
<1>9. \A v \in Tokens : /\ token[v].born => chain[v] # u /\ chain[v] \in Tokens
                        /\ token[v].next # u
                        /\ token[v].next \in Tokens \cup {None}
                        /\ v \in acted => v # u
  BY <1>1, <1>4, OAuthAssumption DEF Structure, RowsOK, Pair
<1>10. /\ \A q \in Requests : q # r => request'[q] = request[q]
       /\ request'[r].pc = "served" /\ request'[r].by = request[r].by
       /\ request'[r].token = t /\ request'[r].fam = f
  BY <1>1 DEF Rotate, Request
<1>11. u # None BY <1>4, OAuthAssumption
<1>12. RowsOK'
  <2>1. \A v \in Tokens : token'[v].born => token'[chain'[v]].born
    BY <1>3, <1>4, <1>6, <1>7, <1>8, <1>9 DEF Structure, RowsOK
  <2>2. \A v \in Tokens : token'[v].next # None =>
          /\ token'[v].born /\ token'[token'[v].next].born /\ token'[v].next # v
          /\ chain'[token'[v].next] = chain'[v]
    <3>1. ASSUME NEW v \in Tokens, v # u, v # t, token[v].next # None
          PROVE  /\ token[v].born /\ token[token[v].next].born /\ token[v].next # v
                 /\ chain[token[v].next] = chain[v]
      BY <3>1 DEF Structure, RowsOK
    <3>2. QED BY <1>3, <1>4, <1>6, <1>7, <1>8, <1>9, <3>1
  <2>3. \A v \in Tokens : token'[v].born /\ token'[v].fam # None => family'[token'[v].fam] # "unused"
    BY <1>3, <1>6, <1>7, <1>8 DEF Structure, RowsOK
  <2>4. \A v \in acted' : token'[v].born /\ token'[v].used
    BY <1>1, <1>7, <1>8, <1>9 DEF Structure, RowsOK
  <2>5. QED BY <2>1, <2>2, <2>3, <2>4 DEF RowsOK
<1>13. \A i \in Installs : holds[i] \in Tokens /\ token[holds[i]].born /\ holds[i] # u
  BY <1>1, <1>4 DEF Structure, HoldsOK
<1>14. HoldsOK' BY <1>7, <1>8, <1>13 DEF Structure, HoldsOK
<1>15. AskedOK'
  <2>1. ASSUME NEW q \in Requests, q # r
        PROVE  /\ request[q].pc \in {"signout"} =>
                    request[q].token \in Tokens /\ token'[request[q].token].born
               /\ Refreshes(q) =>
                    /\ request[q].by \in Installs /\ request[q].token \in Tokens
                    /\ token'[request[q].token].born
                    /\ chain'[request[q].token] = chain'[holds[request[q].by]]
                    /\ request[q].fam # None => family[request[q].fam] # "unused"
                    /\ request[q].pc \in {"check", "served"} => token'[request[q].token].next # None
    <3>1. CASE request[q].pc = "signout" BY <1>4, <1>7, <3>1 DEF Structure, AskedOK, Refreshes
    <3>2. CASE Refreshes(q)
      <4>1. /\ request[q].by \in Installs /\ request[q].token \in Tokens
            /\ token[request[q].token].born
            /\ chain[request[q].token] = chain[holds[request[q].by]]
            /\ request[q].fam # None => family[request[q].fam] # "unused"
            /\ request[q].pc \in {"check", "served"} => token[request[q].token].next # None
        BY <3>2 DEF Structure, AskedOK, Consumed
      <4>2. request[q].token # u /\ request[q].pc # "signout" BY <1>4, <3>2, <4>1 DEF Refreshes
      <4>3. QED BY <1>7, <1>8, <1>11, <1>13, <4>1, <4>2
    <3>3. QED BY <3>1, <3>2
  <2>2. /\ token'[t].born /\ chain'[t] = chain'[holds[request[r].by]] /\ token'[t].next # None
    BY <1>3, <1>4, <1>7, <1>8, <1>11, <1>13
  <2>3. QED BY <1>3, <1>8, <1>10, <2>1, <2>2 DEF AskedOK, Refreshes, Consumed
<1>16. KinOK'
  <2>1. \A v \in Tokens : v # u => (Legacy(v)' <=> Legacy(v)) BY <1>8 DEF Legacy
  <2>2. Legacy(u)' <=> Legacy(t) BY <1>8 DEF Legacy
  <2>3. \A q \in Requests : Refreshes(q)' =>
          /\ Refreshes(q) /\ request'[q].token = request[q].token /\ request'[q].fam = request[q].fam
          /\ request[q].token \in Tokens /\ token[request[q].token].born /\ request[q].token # u
    BY <1>3, <1>4, <1>10 DEF Refreshes, Structure, AskedOK
  <2>4. ASSUME NEW x \in Tokens, token[x].born, ~Legacy(x)
        PROVE  /\ token[x].fam # None
               /\ \A v \in Tokens : token'[v].born => (chain'[v] = chain[x] <=> token'[v].fam = token[x].fam)
               /\ \A q \in Requests : Refreshes(q)' =>
                    (chain'[request'[q].token] = chain[x] <=> request'[q].fam = token[x].fam)
    <3>1. /\ token[x].fam # None
          /\ \A v \in Tokens : token[v].born => (chain[v] = chain[x] <=> token[v].fam = token[x].fam)
          /\ \A q \in Requests : Refreshes(q) =>
               (chain[request[q].token] = chain[x] <=> request[q].fam = token[x].fam)
      BY <2>4 DEF Structure, KinOK
    <3>2. QED BY <1>3, <1>6, <1>7, <1>8, <2>3, <3>1
  <2>5. ASSUME NEW x \in Tokens, token'[x].born, ~Legacy(x)'
        PROVE  /\ token'[x].fam # None
               /\ \A v \in Tokens : token'[v].born => (chain'[v] = chain'[x] <=> token'[v].fam = token'[x].fam)
               /\ \A q \in Requests : Refreshes(q)' =>
                    (chain'[request'[q].token] = chain'[x] <=> request'[q].fam = token'[x].fam)
    <3>1. CASE x # u BY <1>7, <1>8, <2>1, <2>4, <2>5, <3>1
    <3>2. CASE x = u
      <4>1. ~Legacy(t) BY <2>2, <2>5, <3>2
      <4>2. f = token[t].fam BY <1>3, <4>1 DEF Structure, KinOK
      <4>3. QED BY <1>3, <1>6, <1>8, <2>4, <3>2, <4>1, <4>2
    <3>3. QED BY <3>1, <3>2
  <2>6. QED BY <2>5 DEF KinOK, Refreshes
<1>17. QED BY <1>12, <1>14, <1>15, <1>16 DEF Structure

\* A sign-in begins a chain and a family, and may end families.
SignedInWith(i, u, f) ==
  /\ ~token[u].born /\ family[f] = "unused"
  /\ token'[u].born /\ token'[u].fam = f /\ token'[u].next = None /\ ~token'[u].sealed
  /\ \A v \in Tokens : v # u =>
       /\ token'[v].born <=> token[v].born
       /\ token'[v].fam = token[v].fam
       /\ token'[v].used <=> token[v].used
       /\ token'[v].next = token[v].next
       /\ token'[v].sealed => token[v].sealed
       /\ token'[v].sealed /\ token[v].fam \in Families /\ token[v].fam # f
            => family'[token[v].fam] = family[token[v].fam]
       /\ token[v].sealed =>
            token'[v].sealed \/ (token[v].fam \in Families /\ family'[token[v].fam] = "dead")
       /\ token'[v].age = token[v].age
       /\ chain'[v] = chain[v]
  /\ chain'[u] = u
  /\ family'[f] = "live"
  /\ \A g \in Families \ {f} : family'[g] = family[g] \/ (family[g] = "live" /\ family'[g] = "dead")
  /\ holds' = [holds EXCEPT ![i] = u]

\* What the code exchange leaves behind.
LEMMA SignInBegins ==
  ASSUME TypeOK, NEW i \in Installs, NEW tagged \in BOOLEAN, SignIn(i, tagged)
  PROVE  \E u \in Tokens, f \in Families : SignedInWith(i, u, f)
<1> DEFINE gone == Retired(i, tagged)
<1>1. /\ token \in [Tokens -> Pair] /\ chain \in [Tokens -> Tokens]
      /\ family \in [Families -> {"unused", "live", "dead"}]
  BY DEF TypeOK
<1>2. PICK u \in Unminted, f \in Unused :
        /\ family' = [g \in Families |->
             CASE g = f -> "live" [] g \in gone -> "dead" [] OTHER -> family[g]]
        /\ token' = [v \in Tokens |->
             IF v = u THEN Fresh(f)
             ELSE [token[v] EXCEPT !.sealed = token[v].sealed /\ token[v].fam \notin gone]]
        /\ chain' = [chain EXCEPT ![u] = u]
        /\ holds' = [holds EXCEPT ![i] = u]
  <2> DEFINE w == CHOOSE v \in Unminted : TRUE
             h == CHOOSE g \in Unused : TRUE
  <2>1. w \in Unminted /\ h \in Unused BY DEF SignIn
  <2>2. /\ family' = [g \in Families |->
             CASE g = h -> "live" [] g \in gone -> "dead" [] OTHER -> family[g]]
        /\ token' = [v \in Tokens |->
             IF v = w THEN Fresh(h)
             ELSE [token[v] EXCEPT !.sealed = token[v].sealed /\ token[v].fam \notin gone]]
        /\ chain' = [chain EXCEPT ![w] = w]
        /\ holds' = [holds EXCEPT ![i] = w]
    BY DEF SignIn
  <2> HIDE DEF w, h, gone
  <2>3. QED BY <2>1, <2>2
<1>3. u \in Tokens /\ ~token[u].born /\ f \in Families /\ family[f] = "unused"
  BY DEF Unminted, Unused
<1>4. \A g \in gone : g \in Families /\ family[g] = "live" BY DEF Retired
<1> HIDE DEF gone
<1>5. /\ token'[u].born /\ token'[u].fam = f /\ token'[u].next = None /\ ~token'[u].sealed
  <2>1. token'[u] = Fresh(f) BY <1>2, <1>3
  <2>2. QED BY <2>1 DEF Fresh, Unborn
<1>6. /\ family'[f] = "live"
      /\ \A g \in Families \ {f} : family'[g] = IF g \in gone THEN "dead" ELSE family[g]
  BY <1>2, <1>3, <1>4
<1>7. ASSUME NEW v \in Tokens, v # u
      PROVE  /\ token'[v].born <=> token[v].born
             /\ token'[v].fam = token[v].fam
             /\ token'[v].used <=> token[v].used
             /\ token'[v].next = token[v].next
             /\ token'[v].sealed <=> (token[v].sealed /\ token[v].fam \notin gone)
             /\ token'[v].age = token[v].age
             /\ chain'[v] = chain[v]
  <2>1. token[v] \in Pair BY <1>1
  <2>2. token'[v] = [token[v] EXCEPT !.sealed = token[v].sealed /\ token[v].fam \notin gone]
    BY <1>2, <1>7
  <2>3. chain'[v] = chain[v] BY <1>1, <1>2, <1>7
  <2>4. QED BY <2>1, <2>2, <2>3 DEF Pair
<1>8. SignedInWith(i, u, f)
  <2>1. ASSUME NEW v \in Tokens, v # u
        PROVE  /\ token'[v].sealed /\ token[v].fam \in Families /\ token[v].fam # f
                    => family'[token[v].fam] = family[token[v].fam]
               /\ token[v].sealed =>
                    \/ token'[v].sealed
                    \/ token[v].fam \in Families /\ family'[token[v].fam] = "dead"
    BY <1>3, <1>4, <1>6, <1>7, <2>1
  <2>2. \A g \in Families \ {f} :
          family'[g] = family[g] \/ (family[g] = "live" /\ family'[g] = "dead")
    BY <1>4, <1>6
  <2>3. chain'[u] = u /\ holds' = [holds EXCEPT ![i] = u] BY <1>1, <1>2, <1>3
  <2>4. QED BY <1>3, <1>5, <1>6, <1>7, <2>1, <2>2, <2>3 DEF SignedInWith
<1>9. QED BY <1>3, <1>8

\* A sign-in keeps chains and families apart.
LEMMA StructureInSignIn ==
  ASSUME TypeOK, TypeOK', Structure, NEW i \in Installs, NEW tagged \in BOOLEAN, SignIn(i, tagged)
  PROVE  Structure'
<1>1. /\ token \in [Tokens -> Pair] /\ chain \in [Tokens -> Tokens]
      /\ holds \in [Installs -> Tokens] /\ request \in [Requests -> Request]
      /\ acted \in SUBSET Tokens
  BY DEF TypeOK
<1>2. PICK u \in Tokens, f \in Families : SignedInWith(i, u, f) BY SignInBegins
<1>3. /\ ~token[u].born /\ family[f] = "unused" /\ f # None /\ u # None
      /\ token'[u].born /\ token'[u].fam = f /\ token'[u].next = None
      /\ chain'[u] = u /\ family'[f] = "live"
  BY <1>2, OAuthAssumption DEF SignedInWith
<1>4. \A v \in Tokens : v # u =>
        /\ token'[v].born <=> token[v].born
        /\ token'[v].fam = token[v].fam
        /\ token'[v].used <=> token[v].used
        /\ token'[v].next = token[v].next
        /\ chain'[v] = chain[v]
  BY <1>2 DEF SignedInWith
<1>5. /\ \A g \in Families : family[g] # "unused" => family'[g] # "unused" /\ g # f
      /\ holds'[i] = u /\ \A j \in Installs : j # i => holds'[j] = holds[j]
  BY <1>1, <1>2, <1>3 DEF SignedInWith
<1>6. UNCHANGED <<request, origin, acted>> /\ \A r \in Requests : request[r].by # i
  BY DEF SignIn
<1>7. \A v \in Tokens : /\ token[v].born => chain[v] # u
                        /\ chain[v] \in Tokens
                        /\ token[v].next # u
                        /\ token[v].next # None => token[v].next \in Tokens /\ v # u
                        /\ token[v].fam \in Families \cup {None}
                        /\ v \in acted => v # u
  BY <1>1, <1>3 DEF Structure, RowsOK, Pair
<1>8. RowsOK'
  <2>1. \A v \in Tokens : token'[v].born => token'[chain'[v]].born
    BY <1>3, <1>4, <1>7 DEF Structure, RowsOK
  <2>2. \A v \in Tokens : token'[v].next # None =>
          /\ token'[v].born /\ token'[token'[v].next].born /\ token'[v].next # v
          /\ chain'[token'[v].next] = chain'[v]
    BY <1>3, <1>4, <1>7 DEF Structure, RowsOK
  <2>3. \A v \in Tokens : token'[v].born /\ token'[v].fam # None => family'[token'[v].fam] # "unused"
    BY <1>3, <1>4, <1>5, <1>7 DEF Structure, RowsOK
  <2>4. \A v \in acted' : token'[v].born /\ token'[v].used
    BY <1>1, <1>4, <1>6, <1>7 DEF Structure, RowsOK
  <2>5. QED BY <2>1, <2>2, <2>3, <2>4 DEF RowsOK
<1>9. \A j \in Installs : holds[j] \in Tokens /\ token[holds[j]].born /\ holds[j] # u
  BY <1>1, <1>3 DEF Structure, HoldsOK
<1>10. HoldsOK' BY <1>3, <1>4, <1>5, <1>7, <1>9 DEF Structure, HoldsOK
<1>11. \A q \in Requests : Refreshes(q) =>
         /\ request[q].by \in Installs /\ request[q].token \in Tokens
         /\ token[request[q].token].born /\ request[q].token # u
         /\ chain[request[q].token] = chain[holds[request[q].by]]
         /\ request[q].fam # None => family[request[q].fam] # "unused"
         /\ request[q].pc \in {"check", "served"} => token[request[q].token].next # None
         /\ request[q].fam \in Families \cup {None}
  BY <1>1, <1>3 DEF Structure, AskedOK, Consumed, Request
<1>12. AskedOK'
  <2>1. \A q \in Requests : request[q].pc \in {"signout"} =>
          request[q].token \in Tokens /\ token'[request[q].token].born
    BY <1>3, <1>4 DEF Structure, AskedOK
  <2>2. \A q \in Requests : Refreshes(q) =>
         /\ token'[request[q].token].born
         /\ chain'[request[q].token] = chain'[holds'[request[q].by]]
         /\ request[q].fam # None => family'[request[q].fam] # "unused"
         /\ request[q].pc \in {"check", "served"} => token'[request[q].token].next # None
    BY <1>4, <1>5, <1>6, <1>9, <1>11
  <2>3. QED BY <1>6, <1>11, <2>1, <2>2 DEF AskedOK, Refreshes, Consumed
<1>13. KinOK'
  <2>1. \A v \in Tokens : v # u => (Legacy(v)' <=> Legacy(v)) BY <1>4, <1>6 DEF Legacy
  <2>2. ASSUME NEW x \in Tokens, token'[x].born, ~Legacy(x)'
        PROVE  /\ token'[x].fam # None
               /\ \A v \in Tokens : token'[v].born => (chain'[v] = chain'[x] <=> token'[v].fam = token'[x].fam)
               /\ \A q \in Requests : Refreshes(q) =>
                    (chain'[request[q].token] = chain'[x] <=> request[q].fam = token'[x].fam)
    <3>1. CASE x # u
      <4>1. /\ token[x].fam # None
            /\ \A v \in Tokens : token[v].born => (chain[v] = chain[x] <=> token[v].fam = token[x].fam)
            /\ \A q \in Requests : Refreshes(q) =>
                 (chain[request[q].token] = chain[x] <=> request[q].fam = token[x].fam)
        BY <1>4, <2>1, <2>2, <3>1 DEF Structure, KinOK
      <4>2. token[x].born /\ token[x].fam # f /\ chain[x] # u
        BY <1>3, <1>4, <1>7, <2>2, <3>1, <4>1 DEF Structure, RowsOK
      <4>3. QED BY <1>3, <1>4, <1>11, <3>1, <4>1, <4>2
    <3>2. CASE x = u
      <4>1. \A v \in Tokens : v # u /\ token[v].born => token[v].fam # f
        BY <1>3, <1>7 DEF Structure, RowsOK
      <4>2. \A q \in Requests : Refreshes(q) => request[q].fam # f BY <1>3, <1>11
      <4>3. QED BY <1>3, <1>4, <1>7, <1>11, <3>2, <4>1, <4>2
    <3>3. QED BY <3>1, <3>2
  <2>3. QED BY <1>6, <2>2 DEF KinOK, Refreshes
<1>14. QED BY <1>8, <1>10, <1>12, <1>13 DEF Structure

\* Sign-out-everywhere moves only pairs of installs that shared a family or had none, and
\* into families nobody had.
MovedApart ==
  /\ \A x \in Tokens :
       /\ token'[x].born <=> token[x].born
       /\ token'[x].next = token[x].next
       /\ token'[x].used <=> token[x].used
       /\ token'[x].age = token[x].age
       /\ token'[x].sealed => token[x].sealed
       /\ \/ token'[x].fam = token[x].fam
          \/ /\ token[x].born => Legacy(x)
             /\ token'[x].fam \in Families /\ family[token'[x].fam] = "unused"
             /\ family'[token'[x].fam] # "unused"
       /\ (token'[x].sealed /\ token'[x].fam = token[x].fam
           /\ token[x].fam \in Families /\ family[token[x].fam] # "unused")
            => family'[token[x].fam] = family[token[x].fam]
       /\ token[x].sealed /\ ~Legacy(x) =>
            token'[x].sealed \/ (token[x].fam \in Families /\ family'[token[x].fam] = "dead")
  /\ \A g \in Families : family[g] # "unused" =>
       family'[g] = family[g] \/ (family[g] = "live" /\ family'[g] = "dead")
  /\ UNCHANGED <<chain, granted, holds, history, firstParty>>

\* What endSiblingInstalls leaves behind.
LEMMA SignOutMoves ==
  ASSUME TypeOK, Structure, NEW r \in Requests, EndSiblingInstalls(r)
  PROVE  MovedApart
<1> DEFINE t == request[r].token
           f == token[t].fam
           mine == {x \in SameChain(t) : token[x].fam = f}
           moves == f = None \/ Shared(f, mine)
           orphans == {x \in Tokens \ mine : token[x].born /\ token[x].fam = None}
           fresh == CHOOSE g \in Unused : TRUE
           keep == IF moves THEN fresh ELSE f
           sweep == CHOOSE g \in Unused \ {keep} : TRUE
           ended == {g \in Families \ {keep} :
                      family[g] = "live" \/ (orphans # {} /\ g = sweep)}
<1>1. /\ token \in [Tokens -> Pair] /\ t \in Tokens /\ token[t].born
      /\ family \in [Families -> {"unused", "live", "dead"}]
  BY DEF TypeOK, Structure, AskedOK, EndSiblingInstalls
<1>2. /\ moves => fresh \in Families /\ family[fresh] = "unused"
      /\ orphans # {} => sweep \in Families /\ family[sweep] = "unused" /\ sweep # keep
  BY DEF EndSiblingInstalls, Unused
<1>3. /\ token' = [x \in Tokens |->
            CASE moves /\ x \in mine -> [token[x] EXCEPT !.fam = fresh]
              [] x \in orphans -> [token[x] EXCEPT !.fam = sweep, !.sealed = FALSE]
              [] OTHER -> [token[x] EXCEPT !.sealed = token[x].sealed /\ token[x].fam \notin ended]]
      /\ family' = [g \in Families |->
            CASE moves /\ g = fresh -> "live" [] g \in ended -> "dead" [] OTHER -> family[g]]
  BY DEF EndSiblingInstalls
<1>4. moves => \A x \in mine : token[x].born /\ Legacy(x)
  <2>1. ASSUME moves PROVE Legacy(t)
    <3> SUFFICES ASSUME ~Legacy(t) PROVE FALSE OBVIOUS
    <3>1. f # None /\ \A x \in Tokens : token[x].born => (chain[x] = chain[t] <=> token[x].fam = f)
      BY <1>1 DEF Structure, KinOK
    <3>2. PICK x \in Tokens \ mine : token[x].born /\ token[x].fam = f BY <2>1, <3>1 DEF Shared
    <3>3. QED BY <3>1, <3>2 DEF SameChain
  <2>2. \A x \in mine : token[x].born /\ chain[x] = chain[t] BY DEF SameChain
  <2>3. QED BY <2>1, <2>2 DEF Legacy
<1>5. \A x \in orphans : x \in Tokens /\ x \notin mine /\ Legacy(x) BY DEF Structure, KinOK
<1>6. /\ \A g \in ended : g \in Families /\ g # keep /\ (family[g] = "live" \/ (orphans # {} /\ g = sweep))
      /\ \A g \in Families : g # keep /\ (family[g] = "live" \/ (orphans # {} /\ g = sweep)) => g \in ended
      /\ moves => keep = fresh
  OBVIOUS
<1> HIDE DEF mine, moves, orphans, fresh, sweep, ended, keep
<1>7. /\ \A g \in Families : family[g] # "unused" =>
           family'[g] = IF g \in ended THEN "dead" ELSE family[g]
      /\ moves => family'[fresh] = "live"
      /\ orphans # {} => family'[sweep] = "dead"
  <2>1. \A g \in Families : ~(moves /\ g = fresh /\ g \in ended) BY <1>6
  <2>2. ASSUME NEW g \in Families, family[g] # "unused"
        PROVE  family'[g] = IF g \in ended THEN "dead" ELSE family[g]
    BY <1>2, <1>3, <2>2
  <2>3. ASSUME moves PROVE family'[fresh] = "live"
    <3>1. fresh \in Families /\ fresh \notin ended BY <1>2, <2>1, <2>3
    <3>2. QED BY <1>3, <2>3, <3>1
  <2>4. ASSUME orphans # {} PROVE family'[sweep] = "dead"
    <3>1. sweep \in Families /\ sweep \in ended /\ ~(moves /\ sweep = fresh) BY <1>2, <1>6, <2>4
    <3>2. QED BY <1>3, <3>1
  <2>5. QED BY <2>2, <2>3, <2>4
<1>8. ASSUME NEW x \in Tokens
      PROVE  /\ token'[x].born <=> token[x].born
             /\ token'[x].next = token[x].next
             /\ token'[x].used <=> token[x].used
             /\ token'[x].age = token[x].age
             /\ token'[x].sealed => token[x].sealed
             /\ \/ token'[x].fam = token[x].fam
                \/ /\ token[x].born => Legacy(x)
                   /\ token'[x].fam \in Families /\ family[token'[x].fam] = "unused"
                   /\ family'[token'[x].fam] # "unused"
             /\ token'[x].sealed /\ token[x].fam \in Families /\ family[token[x].fam] # "unused"
                  => token'[x].fam # token[x].fam \/ token[x].fam \notin ended
             /\ token[x].sealed /\ ~Legacy(x) => token'[x].sealed \/ token[x].fam \in ended
  <2>1. token[x] \in Pair BY <1>1
  <2>2. CASE moves /\ x \in mine
    <3>1. token'[x] = [token[x] EXCEPT !.fam = fresh] BY <1>3, <1>5, <2>2
    <3>2. QED BY <1>2, <1>4, <1>7, <2>1, <2>2, <3>1 DEF Pair
  <2>3. CASE x \in orphans
    <3>1. token'[x] = [token[x] EXCEPT !.fam = sweep, !.sealed = FALSE] BY <1>3, <1>5, <2>3
    <3>2. orphans # {} BY <2>3
    <3>3. QED BY <1>2, <1>5, <1>7, <2>1, <2>3, <3>1, <3>2 DEF Pair
  <2>4. CASE ~(moves /\ x \in mine) /\ x \notin orphans
    <3>1. token'[x] = [token[x] EXCEPT !.sealed = token[x].sealed /\ token[x].fam \notin ended]
      BY <1>3, <2>4
    <3>2. QED BY <2>1, <3>1 DEF Pair
  <2>5. QED BY <2>2, <2>3, <2>4
<1>9. UNCHANGED <<chain, granted, holds, history, firstParty>>
  BY DEF EndSiblingInstalls, history
<1>10. \A g \in Families : family[g] # "unused" =>
         family'[g] = family[g] \/ (family[g] = "live" /\ family'[g] = "dead")
  BY <1>2, <1>6, <1>7
<1>11. ASSUME NEW x \in Tokens,
             token'[x].sealed, token'[x].fam = token[x].fam,
             token[x].fam \in Families, family[token[x].fam] # "unused"
       PROVE family'[token[x].fam] = family[token[x].fam]
  BY <1>7, <1>8, <1>11
<1>12. ASSUME NEW x \in Tokens
       PROVE  /\ token'[x].born <=> token[x].born
              /\ token'[x].next = token[x].next
              /\ token'[x].used <=> token[x].used
              /\ token'[x].age = token[x].age
              /\ token'[x].sealed => token[x].sealed
              /\ \/ token'[x].fam = token[x].fam
                 \/ /\ token[x].born => Legacy(x)
                    /\ token'[x].fam \in Families /\ family[token'[x].fam] = "unused"
                    /\ family'[token'[x].fam] # "unused"
              /\ (token'[x].sealed /\ token'[x].fam = token[x].fam
                  /\ token[x].fam \in Families /\ family[token[x].fam] # "unused")
                   => family'[token[x].fam] = family[token[x].fam]
              /\ token[x].sealed /\ ~Legacy(x) =>
                   token'[x].sealed \/ (token[x].fam \in Families /\ family'[token[x].fam] = "dead")
  <2>1. \A g \in ended : g \in Families /\ family'[g] = "dead" BY <1>6, <1>7
  <2>2. token[x].sealed /\ ~Legacy(x) =>
          token'[x].sealed \/ (token[x].fam \in Families /\ family'[token[x].fam] = "dead")
    BY <1>8, <2>1
  <2>3. QED BY <1>8, <1>11, <2>2
<1>13. QED BY <1>9, <1>10, <1>12 DEF MovedApart

\* Moved pairs keep chains and families apart.
LEMMA StructureInSignOut ==
  ASSUME TypeOK, TypeOK', Structure, NEW r \in Requests, EndSiblingInstalls(r)
  PROVE  Structure'
<1>1. MovedApart BY SignOutMoves
<1>2. /\ token \in [Tokens -> Pair] /\ chain \in [Tokens -> Tokens]
      /\ holds \in [Installs -> Tokens] /\ request \in [Requests -> Request]
      /\ acted \in SUBSET Tokens
  BY DEF TypeOK
<1>3. UNCHANGED <<chain, holds, origin, acted>> BY <1>1 DEF MovedApart, history
<1>4. \A x \in Tokens : /\ token[x].fam \in Families \cup {None} /\ token[x].next \in Tokens \cup {None}
                        /\ chain[x] \in Tokens
  BY <1>2 DEF Pair
<1>5. \A x \in Tokens :
        /\ token'[x].born <=> token[x].born
        /\ token'[x].next = token[x].next
        /\ token'[x].used <=> token[x].used
        /\ \/ token'[x].fam = token[x].fam
           \/ /\ token[x].born => Legacy(x)
              /\ token'[x].fam \in Families /\ family[token'[x].fam] = "unused"
              /\ family'[token'[x].fam] # "unused"
  BY <1>1 DEF MovedApart
<1>6. \A g \in Families : family[g] # "unused" => family'[g] # "unused"
  BY <1>1 DEF MovedApart
<1>7. /\ \A q \in Requests : q # r => request'[q] = request[q]
      /\ request'[r].pc = "idle"
  BY <1>2, IdleIsOne DEF EndSiblingInstalls
<1>8. RowsOK'
  <2>1. \A v \in Tokens : token'[v].born => token'[chain'[v]].born
    BY <1>3, <1>4, <1>5 DEF Structure, RowsOK
  <2>2. \A v \in Tokens : token'[v].next # None =>
          /\ token'[v].born /\ token'[token'[v].next].born /\ token'[v].next # v
          /\ chain'[token'[v].next] = chain'[v]
    BY <1>3, <1>4, <1>5 DEF Structure, RowsOK
  <2>3. \A v \in Tokens : token'[v].born /\ token'[v].fam # None => family'[token'[v].fam] # "unused"
    BY <1>4, <1>5, <1>6 DEF Structure, RowsOK
  <2>4. \A v \in acted' : token'[v].born /\ token'[v].used
    BY <1>2, <1>3, <1>5 DEF Structure, RowsOK
  <2>5. QED BY <2>1, <2>2, <2>3, <2>4 DEF RowsOK
<1>9. HoldsOK' BY <1>2, <1>3, <1>5 DEF Structure, HoldsOK
<1>10. \A q \in Requests : Refreshes(q) =>
         /\ request[q].by \in Installs /\ request[q].token \in Tokens
         /\ token[request[q].token].born
         /\ chain[request[q].token] = chain[holds[request[q].by]]
         /\ request[q].fam # None => family[request[q].fam] # "unused"
         /\ request[q].pc \in {"check", "served"} => token[request[q].token].next # None
         /\ request[q].fam \in Families \cup {None}
  BY <1>2 DEF Structure, AskedOK, Consumed, Request
<1>11. AskedOK'
  <2>1. \A q \in Requests : request[q].pc \in {"signout"} =>
          request[q].token \in Tokens /\ token'[request[q].token].born
    BY <1>5 DEF Structure, AskedOK
  <2>2. \A q \in Requests : Refreshes(q) =>
         /\ token'[request[q].token].born
         /\ chain'[request[q].token] = chain'[holds'[request[q].by]]
         /\ request[q].fam # None => family'[request[q].fam] # "unused"
         /\ request[q].pc \in {"check", "served"} => token'[request[q].token].next # None
    BY <1>3, <1>5, <1>6, <1>10
  <2>3. QED BY <1>7, <1>10, <2>1, <2>2 DEF AskedOK, Refreshes, Consumed
<1>12. KinOK'
  <2>1. \A v \in Tokens : Legacy(v)' <=> Legacy(v) BY <1>3 DEF Legacy
  <2>2. ASSUME NEW x \in Tokens, token[x].born, ~Legacy(x)
        PROVE  /\ token'[x].fam # None
               /\ \A v \in Tokens : token[v].born => (chain[v] = chain[x] <=> token'[v].fam = token'[x].fam)
               /\ \A q \in Requests : Refreshes(q) =>
                    (chain[request[q].token] = chain[x] <=> request[q].fam = token'[x].fam)
    <3>1. /\ token[x].fam # None
          /\ \A v \in Tokens : token[v].born => (chain[v] = chain[x] <=> token[v].fam = token[x].fam)
          /\ \A q \in Requests : Refreshes(q) =>
               (chain[request[q].token] = chain[x] <=> request[q].fam = token[x].fam)
      BY <2>2 DEF Structure, KinOK
    <3>2. token'[x].fam = token[x].fam /\ family[token[x].fam] # "unused"
      BY <1>5, <2>2, <3>1 DEF Structure, RowsOK
    <3>3. ASSUME NEW v \in Tokens, token[v].born
          PROVE  chain[v] = chain[x] <=> token'[v].fam = token[x].fam
      <4>1. CASE token'[v].fam = token[v].fam BY <3>1, <3>3, <4>1
      <4>2. CASE token'[v].fam # token[v].fam
        <5>1. Legacy(v) /\ family[token'[v].fam] = "unused" BY <1>5, <3>3, <4>2
        <5>2. chain[v] # chain[x] BY <2>2, <5>1 DEF Legacy
        <5>3. QED BY <3>2, <5>1, <5>2
      <4>3. QED BY <4>1, <4>2
    <3>4. QED BY <3>1, <3>2, <3>3
  <2>3. \A q \in Requests : Refreshes(q)' => Refreshes(q) /\ request'[q] = request[q]
    BY <1>7 DEF Refreshes
  <2>4. ASSUME NEW x \in Tokens, token'[x].born, ~Legacy(x)'
        PROVE  /\ token'[x].fam # None
               /\ \A v \in Tokens : token'[v].born => (chain'[v] = chain'[x] <=> token'[v].fam = token'[x].fam)
               /\ \A q \in Requests : Refreshes(q)' =>
                    (chain'[request'[q].token] = chain'[x] <=> request'[q].fam = token'[x].fam)
    <3>1. token[x].born /\ ~Legacy(x) BY <1>5, <2>1, <2>4
    <3>2. QED BY <1>3, <1>5, <2>2, <2>3, <3>1
  <2>5. QED BY <2>4 DEF KinOK, Refreshes
<1>13. QED BY <1>8, <1>9, <1>11, <1>12 DEF Structure

\* Every step keeps the structure.
LEMMA StructureStep == ASSUME TypeOK, TypeOK', Structure, [Next]_vars PROVE Structure'
<1>1. CASE \E r \in Requests : Rotate(r) BY <1>1, StructureInRotate
<1>2. CASE \E r \in Requests : EndSiblingInstalls(r) BY <1>2, StructureInSignOut
<1>3. CASE \E i \in Installs, tagged \in BOOLEAN : SignIn(i, tagged) BY <1>3, StructureInSignIn
<1>4. CASE Quiet /\ Asking /\ Holding /\ Acting BY <1>4, StructureInQuiet
<1>5. RowsOK /\ HoldsOK /\ AskedOK BY DEF Structure
<1>6. QED BY <1>1, <1>2, <1>3, <1>4, <1>5, QuietRefresh, QuietInstalls, QuietRows DEF Next

\* At the start every pair is a chain, and with 0119 behind it a family.
LEMMA StructureInitially == ASSUME Init PROVE Structure
<1>1. TypeOK BY TypeInitially
<1>2. /\ \A t \in Tokens : token[t].born <=> \E i \in Installs : Start[i] = t
      /\ \A i \in Installs : /\ token[Start[i]].born /\ token[Start[i]].used
                             /\ token[Start[i]].fam = FirstFamily(origin, i)
      /\ \A t \in Tokens : token[t].next = None /\ ~token[t].sealed
  <2>1. \A i, j \in Installs : Start[i] = Start[j] => i = j BY OAuthAssumption
  <2>2. ASSUME NEW i \in Installs
        PROVE  token[Start[i]] = [Fresh(FirstFamily(origin, i)) EXCEPT !.used = TRUE]
    <3>1. (CHOOSE j \in Installs : Start[j] = Start[i]) = i BY <2>1
    <3>2. Start[i] \in Tokens BY OAuthAssumption
    <3>3. QED BY <3>1, <3>2 DEF Init
  <2>3. \A t \in Tokens : (\A i \in Installs : Start[i] # t) => token[t] = Unborn BY DEF Init
  <2>4. \A g : /\ [Fresh(g) EXCEPT !.used = TRUE].born /\ [Fresh(g) EXCEPT !.used = TRUE].used
               /\ [Fresh(g) EXCEPT !.used = TRUE].fam = g
               /\ [Fresh(g) EXCEPT !.used = TRUE].next = None
               /\ ~[Fresh(g) EXCEPT !.used = TRUE].sealed
    BY DEF Fresh, Unborn
  <2>5. ~Unborn.born /\ Unborn.next = None /\ ~Unborn.sealed BY DEF Unborn
  <2>6. \A i \in Installs : /\ token[Start[i]].born /\ token[Start[i]].used
                            /\ token[Start[i]].fam = FirstFamily(origin, i)
                            /\ token[Start[i]].next = None /\ ~token[Start[i]].sealed
    <3> SUFFICES ASSUME NEW i \in Installs
                 PROVE  /\ token[Start[i]].born /\ token[Start[i]].used
                        /\ token[Start[i]].fam = FirstFamily(origin, i)
                        /\ token[Start[i]].next = None /\ ~token[Start[i]].sealed
      OBVIOUS
    <3> DEFINE p == [Fresh(FirstFamily(origin, i)) EXCEPT !.used = TRUE]
    <3>1. token[Start[i]] = p BY <2>2
    <3>2. /\ p.born /\ p.used /\ p.fam = FirstFamily(origin, i) /\ p.next = None /\ ~p.sealed
      BY <2>4
    <3> HIDE DEF p
    <3>3. QED BY <3>1, <3>2
  <2>7. QED BY <2>3, <2>5, <2>6
<1>3. chain = [t \in Tokens |-> t] /\ holds = Start /\ acted = {t \in Tokens : token[t].used}
      /\ \A r \in Requests : request[r].pc = "idle"
  BY IdleIsOne DEF Init
<1>4. \A i \in Installs : FirstFamily(origin, i) # None => family[FirstFamily(origin, i)] # "unused"
  BY FirstFamilyIsOne, OAuthAssumption DEF Init
<1>5. RowsOK
  <2>1. \A t \in acted : token[t].born /\ token[t].used
    <3>1. \A t \in Tokens : (\A i \in Installs : Start[i] # t) => ~token[t].used
      BY DEF Init, Unborn
    <3>2. QED BY <1>2, <1>3, <3>1
  <2>2. QED BY <1>2, <1>3, <1>4, <2>1 DEF RowsOK
<1>6. HoldsOK BY <1>2, <1>3, OAuthAssumption DEF HoldsOK
<1>7. AskedOK BY <1>3 DEF AskedOK, Refreshes
<1>8. KinOK
  <2>1. ASSUME NEW t \in Tokens, token[t].born, ~Legacy(t)
        PROVE  /\ token[t].fam # None
               /\ \A u \in Tokens : token[u].born => (chain[u] = chain[t] <=> token[u].fam = token[t].fam)
    <3>1. PICK i \in Installs : Start[i] = t BY <1>2, <2>1
    <3>2. origin = "own" BY <1>3, <2>1, <3>1 DEF Legacy
    <3>3. \A j \in Installs : token[Start[j]].fam = Home[j] BY <1>2, <3>2 DEF FirstFamily
    <3>4. ASSUME NEW u \in Tokens, token[u].born
          PROVE  u = t <=> token[u].fam = token[t].fam
      <4>1. PICK j \in Installs : Start[j] = u BY <1>2, <3>4
      <4>2. QED BY <3>1, <3>3, <4>1, OAuthAssumption
    <3>5. QED BY <1>3, <3>1, <3>3, <3>4, OAuthAssumption
  <2>2. QED BY <1>3, <2>1 DEF KinOK, Refreshes
<1>9. QED BY <1>5, <1>6, <1>7, <1>8 DEF Structure

-----------------------------------------------------------------------------
(* Chains do not fork. *)

\* Only a rotation adds to a chain, and it consumes the end.
LEMMA OneEndStep ==
  ASSUME TypeOK, TypeOK', Structure, OneEnd, [Next]_vars PROVE OneEnd'
<1>1. SUFFICES ASSUME NEW x \in Tokens, NEW y \in Tokens,
                      token'[x].born, token'[y].born, chain'[x] = chain'[y],
                      token'[x].next = None, token'[y].next = None
               PROVE  x = y
  BY DEF OneEnd, Consumed
<1>2. \A a, b \in Tokens :
        token[a].born /\ token[b].born /\ chain[a] = chain[b] /\ token[a].next = None /\ token[b].next = None
          => a = b
  BY DEF OneEnd, Consumed
<1>3. RowsOK /\ HoldsOK /\ AskedOK BY DEF Structure
<1>4. ASSUME NEW r \in Requests, Rotate(r) PROVE x = y
  <2>1. PICK u \in Tokens : RotatedInto(r, u) BY <1>4, RotateMints
  <2>2. request[r].token \in Tokens /\ token[request[r].token].born /\ token[request[r].token].next = None
    BY <1>3, <1>4 DEF AskedOK, Rotate, Refreshes, Claims, Consumed
  <2>3. ASSUME NEW z \in Tokens, z # u, token'[z].born, chain'[z] = chain'[u], token'[z].next = None
        PROVE  FALSE
    <3>1. u # None BY OAuthAssumption
    <3>2. /\ z # request[r].token
          /\ token[z].born /\ chain[z] = chain[request[r].token] /\ token[z].next = None
      BY <2>1, <2>3, <3>1 DEF RotatedInto
    <3>3. QED BY <1>2, <2>2, <3>2
  <2>4. x # u /\ y # u => token[x].born /\ token[y].born /\ chain[x] = chain[y]
                          /\ token[x].next = None /\ token[y].next = None
    <3>1. u # None BY OAuthAssumption
    <3>2. QED BY <1>1, <2>1, <3>1 DEF RotatedInto
  <2>5. QED BY <1>1, <1>2, <2>3, <2>4
<1>5. ASSUME NEW r \in Requests, EndSiblingInstalls(r) PROVE x = y
  <2>1. MovedApart BY <1>5, SignOutMoves
  <2>2. QED BY <1>1, <1>2, <2>1 DEF MovedApart, history
<1>6. ASSUME NEW i \in Installs, NEW tagged \in BOOLEAN, SignIn(i, tagged) PROVE x = y
  <2>1. PICK u \in Tokens, f \in Families : SignedInWith(i, u, f) BY <1>6, SignInBegins
  <2>2. \A v \in Tokens : token[v].born => chain[v] # u
    BY <1>3, <2>1 DEF RowsOK, SignedInWith
  <2>3. QED BY <1>1, <1>2, <2>1, <2>2 DEF SignedInWith
<1>7. CASE Quiet BY <1>1, <1>2, <1>7 DEF Quiet
<1>8. QED BY <1>3, <1>4, <1>5, <1>6, <1>7, QuietRefresh, QuietInstalls, QuietRows DEF Next

-----------------------------------------------------------------------------
(* What is revoked stays so. *)

\* The pairs of a chain that began with a sign-in live and die together.
LEMMA KinLiveTogether ==
  ASSUME TypeOK, Structure, NEW t \in Tokens, token[t].born, ~Legacy(t)
  PROVE  /\ token[t].fam \in Families
         /\ Dead(t) <=> (~granted \/ family[token[t].fam] = "dead")
         /\ Live(t) <=> (granted /\ family[token[t].fam] # "dead")
<1>1. /\ token[t].fam # None
      /\ \A u \in Tokens : token[u].born => (chain[u] = chain[t] <=> token[u].fam = token[t].fam)
  BY DEF Structure, KinOK
<1>2. token[t].fam \in Families BY <1>1 DEF TypeOK, Pair
<1>3. \A u \in SameChain(t) : u \in Tokens /\ token[u].born /\ token[u].fam = token[t].fam
  BY <1>1 DEF SameChain
<1>4. t \in SameChain(t) BY DEF SameChain
<1>5. Live(t) <=> (granted /\ family[token[t].fam] # "dead") BY <1>1 DEF Live, Alive
<1>6. \A u \in SameChain(t) : Live(u) <=> Live(t) BY <1>3 DEF Live, Alive
<1>7. Dead(t) <=> ~Live(t) BY <1>4, <1>6 DEF Dead, SameChain, Live
<1>8. QED BY <1>2, <1>5, <1>7

\* A step keeps a signed-in chain in its family, and ends families for good.
LEMMA KinStay ==
  ASSUME TypeOK, Structure, [Next]_vars, NEW t \in Tokens, token[t].born, ~Legacy(t)
  PROVE  /\ token'[t].born /\ (~Legacy(t))' /\ token'[t].fam = token[t].fam
         /\ granted' => granted
         /\ family[token[t].fam] = "dead" => family'[token[t].fam] = "dead"
<1>1. /\ token[t].fam \in Families /\ family[token[t].fam] # "unused"
  BY KinLiveTogether, OAuthAssumption DEF Structure, RowsOK
<1>2. RowsOK /\ HoldsOK /\ AskedOK BY DEF Structure
<1>3. ASSUME NEW r \in Requests, Rotate(r)
      PROVE  /\ token'[t].born /\ (~Legacy(t))' /\ token'[t].fam = token[t].fam
             /\ granted' => granted
             /\ family[token[t].fam] = "dead" => family'[token[t].fam] = "dead"
  <2>1. PICK u \in Tokens : RotatedInto(r, u) BY <1>3, RotateMints
  <2>2. t # u BY <2>1 DEF RotatedInto
  <2>3. token'[t].born /\ token'[t].fam = token[t].fam /\ chain'[t] = chain[t]
    BY <2>1, <2>2 DEF RotatedInto
  <2>4. QED BY <1>3, <2>3 DEF Rotate, Legacy
<1>4. ASSUME NEW r \in Requests, EndSiblingInstalls(r)
      PROVE  /\ token'[t].born /\ (~Legacy(t))' /\ token'[t].fam = token[t].fam
             /\ granted' => granted
             /\ family[token[t].fam] = "dead" => family'[token[t].fam] = "dead"
  <2>1. MovedApart BY <1>4, SignOutMoves
  <2>2. QED BY <1>1, <2>1 DEF MovedApart, history, Legacy
<1>5. ASSUME NEW i \in Installs, NEW tagged \in BOOLEAN, SignIn(i, tagged)
      PROVE  /\ token'[t].born /\ (~Legacy(t))' /\ token'[t].fam = token[t].fam
             /\ granted' => granted
             /\ family[token[t].fam] = "dead" => family'[token[t].fam] = "dead"
  <2>1. PICK u \in Tokens, f \in Families : SignedInWith(i, u, f) BY <1>5, SignInBegins
  <2>2. t # u /\ token[t].fam # f BY <1>1, <2>1 DEF SignedInWith
  <2>3. token'[t].born /\ token'[t].fam = token[t].fam /\ chain'[t] = chain[t]
    BY <2>1, <2>2 DEF SignedInWith
  <2>4. family[token[t].fam] = "dead" => family'[token[t].fam] = "dead"
    BY <1>1, <2>1, <2>2 DEF SignedInWith
  <2>5. QED BY <1>5, <2>3, <2>4 DEF SignIn, Legacy
<1>6. CASE Quiet BY <1>1, <1>6 DEF Quiet, Legacy
<1>7. QED BY <1>2, <1>3, <1>4, <1>5, <1>6, QuietRefresh, QuietInstalls, QuietRows DEF Next

\* So a dead chain stays dead.
LEMMA DeadStays ==
  ASSUME TypeOK, TypeOK', Structure, Structure', [Next]_vars,
         NEW t \in Tokens, token[t].born, ~Legacy(t), Dead(t)
  PROVE  Dead(t)'
<1>1. ~granted \/ family[token[t].fam] = "dead" BY KinLiveTogether
<1>2. /\ token'[t].born /\ (~Legacy(t))' /\ token'[t].fam = token[t].fam
      /\ ~granted' \/ family'[token[t].fam] = "dead"
  BY <1>1, KinStay DEF TypeOK
<1>3. (TypeOK /\ Structure /\ t \in Tokens /\ token[t].born /\ ~Legacy(t)
        => (Dead(t) <=> (~granted \/ family[token[t].fam] = "dead")))'
  BY KinLiveTogether, PTL
<1>4. QED BY <1>2, <1>3

\* A step mints into a chain only by rotating a pair of it that lives.
LEMMA ChainGrows ==
  ASSUME TypeOK, Structure, [Next]_vars, NEW t \in Tokens, token[t].born, ~Legacy(t), Dead(t)
  PROVE  SameChain(t)' = SameChain(t)
<1>1. RowsOK /\ HoldsOK /\ AskedOK /\ KinOK BY DEF Structure
<1>2. SUFFICES /\ chain'[t] = chain[t]
               /\ \A x \in Tokens : token'[x].born /\ chain'[x] = chain[t]
                                     <=> token[x].born /\ chain[x] = chain[t]
  BY DEF SameChain
<1>3. ASSUME NEW r \in Requests, Rotate(r)
      PROVE  /\ chain'[t] = chain[t]
             /\ \A x \in Tokens : token'[x].born /\ chain'[x] = chain[t]
                                   <=> token[x].born /\ chain[x] = chain[t]
  <2> DEFINE s == request[r].token
  <2>1. PICK u \in Tokens : RotatedInto(r, u) BY <1>3, RotateMints
  <2>2. s \in Tokens /\ token[s].born /\ Alive(request[r].fam) /\ Refreshes(r)
    BY <1>1, <1>3 DEF AskedOK, Rotate, Refreshes, StillAlive
  <2>3. chain[s] # chain[t]
    <3>1. SUFFICES ASSUME chain[s] = chain[t] PROVE FALSE OBVIOUS
    <3>2. request[r].fam = token[t].fam BY <1>1, <2>2, <3>1 DEF KinOK
    <3>3. Live(t) BY <2>2, <3>2 DEF Live
    <3>4. QED BY <3>3, KinLiveTogether
  <2>4. QED BY <2>1, <2>3 DEF RotatedInto
<1>4. ASSUME NEW r \in Requests, EndSiblingInstalls(r)
      PROVE  /\ chain'[t] = chain[t]
             /\ \A x \in Tokens : token'[x].born /\ chain'[x] = chain[t]
                                   <=> token[x].born /\ chain[x] = chain[t]
  <2>1. MovedApart BY <1>4, SignOutMoves
  <2>2. QED BY <2>1 DEF MovedApart, history
<1>5. ASSUME NEW i \in Installs, NEW tagged \in BOOLEAN, SignIn(i, tagged)
      PROVE  /\ chain'[t] = chain[t]
             /\ \A x \in Tokens : token'[x].born /\ chain'[x] = chain[t]
                                   <=> token[x].born /\ chain[x] = chain[t]
  <2>1. PICK u \in Tokens, f \in Families : SignedInWith(i, u, f) BY <1>5, SignInBegins
  <2>2. chain[t] # u BY <1>1, <2>1 DEF RowsOK, SignedInWith
  <2>3. QED BY <2>1, <2>2 DEF SignedInWith
<1>6. CASE Quiet BY <1>6 DEF Quiet
<1>7. QED BY <1>1, <1>3, <1>4, <1>5, <1>6, QuietRefresh, QuietInstalls, QuietRows DEF Next

-----------------------------------------------------------------------------
(* Envelopes. *)

\* Requests that rotate nothing seal nothing ...
LEMMA SealingRefresh ==
  ASSUME TypeOK, Structure, NEW r \in Requests,
         \/ \E i \in Installs : Lookup(r, i) \/ Logout(r, i) \/ SignOutStart(r, i)
         \/ RotateRefused(r) \/ Replayed(r) \/ Check(r) \/ RevokeTokenFamily(r)
         \/ Receive(r) \/ Gone(r)
  PROVE  Sealing
<1>1. token \in [Tokens -> Pair] /\ holds \in [Installs -> Tokens] BY DEF TypeOK
<1>2. ASSUME NEW t \in Tokens, NEW b \in BOOLEAN, token' = [token EXCEPT ![t].sealed = @ /\ b],
             UNCHANGED <<granted, suspended, family>>
      PROVE  Sealing
  <2>1. \A x \in Tokens : token'[x].sealed => token[x].sealed
    <3> SUFFICES ASSUME NEW x \in Tokens, token'[x].sealed PROVE token[x].sealed OBVIOUS
    <3>1. token[x] \in Pair BY <1>1
    <3>2. CASE x # t BY <1>1, <1>2, <3>2
    <3>3. CASE x = t
      <4>1. token'[t] = [token[t] EXCEPT !.sealed = token[t].sealed /\ b] BY <1>1, <1>2
      <4>2. QED BY <3>1, <3>3, <4>1 DEF Pair
    <3>4. QED BY <3>2, <3>3
  <2>2. QED BY <1>2, <2>1 DEF Sealing
<1>3. CASE UNCHANGED <<token, granted, suspended, family>> BY <1>3 DEF Sealing
<1>4. CASE \E i \in Installs : Lookup(r, i)
  <2>1. PICK i \in Installs : Lookup(r, i) BY <1>4
  <2>2. holds[i] \in Tokens /\ (~ReadDrops(holds[i])) \in BOOLEAN BY <1>1
  <2>3. token' = [token EXCEPT ![holds[i]].sealed = @ /\ ~ReadDrops(holds[i])]
        /\ UNCHANGED <<granted, suspended, family>>
    BY <2>1 DEF Lookup
  <2>4. QED BY <1>2, <2>2, <2>3
<1>5. CASE \E i \in Installs : SignOutStart(r, i)
  <2>1. PICK i \in Installs : SignOutStart(r, i) BY <1>5
  <2>2. \A x \in Tokens : token'[x].sealed = token[x].sealed BY <1>1, <2>1 DEF SignOutStart, Pair
  <2>3. QED BY <2>1, <2>2 DEF SignOutStart, Sealing
<1>6. CASE Replayed(r)
  <2>1. request[r].token \in Tokens BY <1>6 DEF Replayed, Structure, AskedOK, Refreshes
  <2>2. (~ReadDrops(request[r].token)) \in BOOLEAN OBVIOUS
  <2>3. token' = [token EXCEPT ![request[r].token].sealed = @ /\ ~ReadDrops(request[r].token)]
        /\ UNCHANGED <<granted, suspended, family>>
    BY <1>6 DEF Replayed
  <2>4. QED BY <1>2, <2>1, <2>2, <2>3
<1>7. CASE RevokeTokenFamily(r)
  <2>1. CASE GrantRevoked BY <1>1, <2>1 DEF GrantRevoked, EnvelopesDropped, Sealing, Pair
  <2>2. ASSUME NEW f \in Families, Revoked({f}), UNCHANGED <<granted, suspended>> PROVE Sealing
    <3>1. ASSUME NEW x \in Tokens PROVE token'[x].sealed => token[x].sealed /\ token[x].fam # f
      <4>1. token[x] \in Pair BY <1>1
      <4>2. token'[x] = [token[x] EXCEPT !.sealed = token[x].sealed /\ token[x].fam \notin {f}]
        BY <2>2 DEF Revoked
      <4>3. QED BY <4>1, <4>2 DEF Pair
    <3>2. \A g \in Families : g # f => family'[g] = family[g] BY <2>2 DEF Revoked
    <3>3. QED BY <1>1, <2>2, <3>1, <3>2 DEF Sealing, Pair
  <2>3. request[r].fam \in Families \cup {None} BY DEF TypeOK, Request
  <2>4. QED BY <1>3, <1>7, <2>1, <2>2, <2>3 DEF RevokeTokenFamily
<1>8. CASE Check(r) \/ RotateRefused(r) \/ Receive(r) \/ Gone(r) \/ \E i \in Installs : Logout(r, i)
  BY <1>3, <1>8 DEF Check, RotateRefused, Receive, Gone, Logout, tables
<1>9. QED BY <1>4, <1>5, <1>6, <1>7, <1>8

\* ... nor does anything else.
LEMMA SealingElsewhere ==
  ASSUME TypeOK, RevokeGrant \/ Suspend \/ ClearEnvelopes \/ Sweep \/ Tick \/ UNCHANGED vars \/ \E i \in Installs : Use(i) \/ Restore(i)
  PROVE  Sealing
<1>1. token \in [Tokens -> Pair] /\ holds \in [Installs -> Tokens] BY DEF TypeOK
<1>2. CASE RevokeGrant \/ ClearEnvelopes
  BY <1>1, <1>2 DEF RevokeGrant, GrantRevoked, ClearEnvelopes, EnvelopesDropped, Sealing, Pair
<1>8. CASE Suspend BY <1>8 DEF Suspend, Sealing
<1>3. CASE Sweep
  <2>1. ASSUME NEW x \in Tokens PROVE token'[x].sealed => token[x].sealed
    <3>1. token[x] \in Pair BY <1>1
    <3>2. token'[x] = [token[x] EXCEPT !.sealed = token[x].sealed /\ ~ReadDrops(x)] BY <1>3 DEF Sweep
    <3>3. QED BY <3>1, <3>2 DEF Pair
  <2>2. QED BY <1>3, <2>1 DEF Sweep, Sealing
<1>4. CASE Tick BY <1>1, <1>4 DEF Tick, Sealing, Pair
<1>5. ASSUME NEW i \in Installs, Use(i) PROVE Sealing
  <2>1. \A x \in Tokens : token'[x].sealed = token[x].sealed
    BY <1>1, <1>5 DEF Use, Stamped, Pair
  <2>2. QED BY <1>5, <2>1 DEF Use, Sealing
<1>6. CASE UNCHANGED vars \/ \E i \in Installs : Restore(i)
  BY <1>6 DEF Restore, Sealing, vars, tables
<1>7. QED BY <1>2, <1>3, <1>4, <1>5, <1>6, <1>8

\* A rotation, sign-out-everywhere and a sign-in find the grant unrevoked.
LEMMA SealedUnderGrant ==
  ASSUME TypeOK, Structure, EnvelopesAreCurrent, [Next]_vars, NEW t \in Tokens, token'[t].sealed
  PROVE  granted' \/ suspended'
<1>1. RowsOK /\ HoldsOK /\ AskedOK BY DEF Structure
<1>2. token[t].sealed => granted \/ suspended BY DEF EnvelopesAreCurrent
<1>3. ASSUME NEW r \in Requests, Rotate(r) PROVE granted'
  BY <1>3 DEF Rotate, StillAlive, Alive
<1>7. ASSUME NEW r \in Requests, EndSiblingInstalls(r) PROVE granted'
  <2>1. MovedApart BY <1>7, SignOutMoves
  <2>2. granted BY <1>7 DEF EndSiblingInstalls
  <2>3. QED BY <2>1, <2>2 DEF MovedApart
<1>4. ASSUME NEW i \in Installs, NEW tagged \in BOOLEAN, SignIn(i, tagged) PROVE granted'
  BY <1>4 DEF SignIn
<1>5. CASE Sealing BY <1>2, <1>5 DEF Sealing
<1>6. QED BY <1>1, <1>3, <1>4, <1>5, <1>7, SealingRefresh, SealingElsewhere DEF Next

\* Envelopes stay current.
LEMMA EnvelopesStep ==
  ASSUME TypeOK, TypeOK', Structure, Structure', EnvelopesAreCurrent, [Next]_vars
  PROVE  EnvelopesAreCurrent'
<1>1. RowsOK /\ HoldsOK /\ AskedOK /\ token \in [Tokens -> Pair] BY DEF Structure, TypeOK
<1>2. SUFFICES ASSUME NEW t \in Tokens, token'[t].sealed, (~Legacy(t))'
               PROVE  /\ (token'[t].fam # None => family'[token'[t].fam] # "dead")
                      /\ token'[t].next # None /\ token'[token'[t].next].next = None
  BY SealedUnderGrant DEF EnvelopesAreCurrent, Consumed
<1>3. token[t].sealed /\ ~Legacy(t) =>
        /\ token[t].born /\ (token[t].fam # None => family[token[t].fam] # "dead")
        /\ token[t].next # None /\ token[token[t].next].next = None
        /\ token[t].next \in Tokens
  BY <1>1 DEF EnvelopesAreCurrent, Consumed, Pair, RowsOK
<1>4. ASSUME NEW r \in Requests, Rotate(r)
      PROVE  /\ (token'[t].fam # None => family'[token'[t].fam] # "dead")
             /\ token'[t].next # None /\ token'[token'[t].next].next = None
  <2> DEFINE s == request[r].token
  <2>1. PICK u \in Tokens : RotatedInto(r, u) BY <1>4, RotateMints
  <2>2. /\ s \in Tokens /\ token[s].born /\ Alive(request[r].fam) /\ Refreshes(r)
        /\ UNCHANGED <<granted, family, origin>>
    BY <1>1, <1>4 DEF AskedOK, Rotate, Refreshes, StillAlive
  <2>3. t # u BY <1>2, <2>1 DEF RotatedInto
  <2>4. ~Legacy(t) BY <1>2, <2>1, <2>2, <2>3 DEF Legacy, RotatedInto
  <2>5. CASE t = s
    <3>1. request[r].fam = token[t].fam BY <2>2, <2>4, <2>5 DEF Structure, KinOK
    <3>2. token'[t].born /\ token'[t].fam = token[t].fam /\ token'[t].next = u
          /\ token'[u].next = None /\ u # None
      BY <2>1, <2>2, <2>3, <2>5, OAuthAssumption DEF RotatedInto
    <3>3. QED BY <2>2, <3>1, <3>2 DEF Alive
  <2>6. CASE t # s
    <3>1. token[t].sealed /\ token[t].next # s BY <1>2, <2>1, <2>3, <2>6 DEF RotatedInto
    <3>2. token[t].next # u BY <1>3, <2>1, <2>4, <3>1, <1>1 DEF RotatedInto, RowsOK
    <3>3. token'[t].born /\ token'[t].fam = token[t].fam /\ token'[t].next = token[t].next
      BY <1>3, <2>1, <2>3, <2>4, <2>6, <3>1 DEF RotatedInto
    <3>4. token'[token[t].next].next = None BY <1>3, <2>1, <2>4, <3>1, <3>2 DEF RotatedInto
    <3>5. QED BY <1>3, <2>2, <2>4, <3>1, <3>3, <3>4
  <2>7. QED BY <2>5, <2>6
<1>5. ASSUME NEW r \in Requests, EndSiblingInstalls(r)
      PROVE  /\ (token'[t].fam # None => family'[token'[t].fam] # "dead")
             /\ token'[t].next # None /\ token'[token'[t].next].next = None
  <2>1. MovedApart BY <1>5, SignOutMoves
  <2>2. ~Legacy(t) /\ token[t].sealed BY <1>2, <2>1 DEF MovedApart, history, Legacy
  <2>3. token[t].fam \in Families /\ family[token[t].fam] # "unused"
    BY <1>1, <1>3, <2>2, KinLiveTogether, OAuthAssumption DEF RowsOK
  <2>4. token'[t].fam = token[t].fam BY <1>3, <2>1, <2>2 DEF MovedApart
  <2>5. family'[token[t].fam] = family[token[t].fam] BY <1>2, <2>1, <2>3, <2>4 DEF MovedApart
  <2>6. /\ token'[t].born /\ token'[t].next = token[t].next
        /\ token'[token[t].next].next = None
    BY <1>3, <2>1, <2>2 DEF MovedApart
  <2>7. QED BY <1>3, <2>2, <2>4, <2>5, <2>6
<1>6. ASSUME NEW i \in Installs, NEW tagged \in BOOLEAN, SignIn(i, tagged)
      PROVE  /\ (token'[t].fam # None => family'[token'[t].fam] # "dead")
             /\ token'[t].next # None /\ token'[token'[t].next].next = None
  <2>1. PICK u \in Tokens, f \in Families : SignedInWith(i, u, f) BY <1>6, SignInBegins
  <2>2. t # u /\ token[t].sealed BY <1>2, <2>1 DEF SignedInWith
  <2>3. ~Legacy(t) BY <1>2, <1>6, <2>1, <2>2 DEF Legacy, SignedInWith, SignIn
  <2>4. token[t].fam \in Families /\ family[token[t].fam] # "unused"
    BY <1>1, <1>3, <2>2, <2>3, KinLiveTogether, OAuthAssumption DEF RowsOK
  <2>5. token[t].fam # f BY <2>1, <2>4 DEF SignedInWith
  <2>6. family'[token[t].fam] = family[token[t].fam] BY <1>2, <2>1, <2>2, <2>4, <2>5 DEF SignedInWith
  <2>7. token[t].next # u BY <1>1, <1>3, <2>1, <2>2, <2>3 DEF RowsOK, SignedInWith
  <2>8. /\ token'[t].born /\ token'[t].next = token[t].next /\ token'[t].fam = token[t].fam
        /\ token'[token[t].next].next = None
    BY <1>3, <1>6, <2>1, <2>2, <2>3, <2>7 DEF SignedInWith, SignIn
  <2>9. QED BY <1>3, <2>2, <2>3, <2>6, <2>8
<1>7. CASE Quiet /\ Sealing
  <2>1. ~Legacy(t) /\ token[t].sealed BY <1>2, <1>7 DEF Quiet, Legacy, Sealing
  <2>2. /\ token'[t].born /\ token'[t].fam = token[t].fam /\ token'[t].next = token[t].next
        /\ token'[token[t].next].next = None
    BY <1>3, <1>7, <2>1 DEF Quiet
  <2>3. QED BY <1>2, <1>3, <1>7, <2>1, <2>2 DEF Sealing
<1>8. QED BY <1>1, <1>4, <1>5, <1>6, <1>7, QuietRefresh, QuietInstalls, QuietRows,
             SealingRefresh, SealingElsewhere DEF Next

-----------------------------------------------------------------------------
(* Answers. *)

\* A request is answered by its own steps.
LEMMA WhoAnswers ==
  ASSUME TypeOK, [Next]_vars, NEW r \in Requests
  PROVE  /\ request[r].pc = "check" /\ request'[r].pc = "served" => Check(r)
         /\ request[r].pc = "revoke" /\ request'[r].pc = "refused" => RevokeTokenFamily(r)
<1>1. request \in [Requests -> Request] BY DEF TypeOK
<1>2. ASSUME NEW q \in Requests, NEW i \in Installs,
             Lookup(q, i) \/ Logout(q, i) \/ SignOutStart(q, i)
      PROVE  /\ request[r].pc # "idle" => request'[r] = request[r]
  BY <1>1, <1>2 DEF Lookup, Logout, SignOutStart
<1>3. ASSUME NEW q \in Requests,
             \/ RotateRefused(q) \/ Rotate(q) \/ Replayed(q) \/ Check(q)
             \/ RevokeTokenFamily(q) \/ EndSiblingInstalls(q) \/ Receive(q) \/ Gone(q)
      PROVE  q # r => request'[r] = request[r]
  BY <1>1, <1>3 DEF RotateRefused, Rotate, Replayed, Check, RevokeTokenFamily, EndSiblingInstalls,
                    Receive, Gone
<1>4. ASSUME RotateRefused(r) \/ Rotate(r) \/ Replayed(r) \/ EndSiblingInstalls(r) \/ Receive(r)
      PROVE  request[r].pc \notin {"check", "revoke"}
  BY <1>4 DEF RotateRefused, Rotate, Replayed, EndSiblingInstalls, Receive
<1>5. Gone(r) => request'[r].pc = "idle" BY <1>1, IdleIsOne DEF Gone
<1>6. Check(r) => request[r].pc = "check" BY DEF Check
<1>7. RevokeTokenFamily(r) => request'[r].pc \in {"idle", "refused"}
  BY <1>1, IdleIsOne DEF RevokeTokenFamily, Request
<1>8. ASSUME RevokeGrant \/ Suspend \/ ClearEnvelopes \/ Sweep \/ Tick \/ UNCHANGED vars \/ \E i \in Installs :
               Use(i) \/ Restore(i) \/ \E tagged \in BOOLEAN : SignIn(i, tagged)
      PROVE  request' = request
  BY <1>8 DEF RevokeGrant, Suspend, ClearEnvelopes, Sweep, Tick, vars, Use, Restore, SignIn
<1>9. QED BY <1>2, <1>3, <1>4, <1>5, <1>6, <1>7, <1>8 DEF Next

\* A late answer is for a pair that has not been used.
LEMMA LateIsUnused ==
  ASSUME TypeOK, Structure, [Next]_vars, NEW r \in Requests,
         request[r].pc = "check", request'[r].pc = "served", request[r].late
  PROVE  token[request[r].token].next \notin acted
<1> DEFINE u == token[request[r].token].next
<1>1. Check(r) BY WhoAnswers
<1>2. CheckVerdict(r) = "served"
  <2>1. CheckVerdict(r) \in {"reuse", "unavailable", "served"} BY DEF CheckVerdict
  <2>2. CheckVerdict(r) # "served" => request'[r].pc = After(CheckVerdict(r), request[r].lost)
    BY <1>1 DEF Check, TypeOK
  <2>3. \A v \in {"reuse", "unavailable"}, l \in BOOLEAN : After(v, l) # "served" BY DEF After
  <2>4. request[r].lost \in BOOLEAN BY DEF TypeOK, Request
  <2>5. QED BY <2>1, <2>2, <2>3, <2>4
<1>3. ~token[u].used BY <1>2 DEF CheckVerdict
<1>4. QED BY <1>3 DEF Structure, RowsOK

\* The family a request has read is still the chain it revokes.
LEMMA RevokeEnds ==
  ASSUME TypeOK, TypeOK', Structure, Structure', [Next]_vars, NEW r \in Requests,
         request[r].pc = "revoke", request'[r].pc = "refused", ~Legacy(request[r].token)
  PROVE  Dead(request[r].token)'
<1> DEFINE f == request[r].fam
<1>1. RevokeTokenFamily(r) BY WhoAnswers
<1>2. PICK t \in Tokens : t = request[r].token /\ token[t].born /\ f = token[t].fam
  BY DEF Structure, AskedOK, Refreshes, KinOK
<1>3. ~Legacy(t) BY <1>2
<1>4. f \in Families BY <1>2, <1>3, KinLiveTogether
<1>5. f # None BY <1>4, OAuthAssumption
<1>6. ~granted' \/ family'[f] = "dead"
  <2>1. CASE granted /\ family[f] = "live" /\ Revoked({f}) BY <1>4, <2>1 DEF Revoked
  <2>2. CASE (~granted \/ family[f] = "dead") /\ UNCHANGED <<granted, family, token>>
    BY <2>2
  <2>3. QED BY <1>1, <1>5, <2>1, <2>2 DEF RevokeTokenFamily
<1>7. /\ token'[t].born /\ (~Legacy(t))' /\ token'[t].fam = f
  BY <1>2, <1>3, KinStay
<1>8. (TypeOK /\ Structure /\ t \in Tokens /\ token[t].born /\ ~Legacy(t)
        => (Dead(t) <=> (~granted \/ family[token[t].fam] = "dead")))'
  BY KinLiveTogether, PTL
<1>9. Dead(t)' BY <1>6, <1>7, <1>8 DEF TypeOK
<1>10. request'[r].token = request[r].token
  BY <1>1 DEF RevokeTokenFamily, TypeOK, Request
<1>11. (Dead(request[r].token))' BY <1>2, <1>9, <1>10 DEF Dead, SameChain
<1>12. QED BY <1>11

-----------------------------------------------------------------------------
(* An app that behaves is served. *)

\* A pair is used by the install that holds it; an envelope goes when its window passes
\* or its family ends; an app that behaves moves on to the successor.
Serving ==
  /\ firstParty' = firstParty /\ excused \subseteq excused'
  /\ \A t \in Tokens :
       /\ token'[t].used => token[t].used \/ \E j \in Installs : t = holds[j]
       /\ token[t].sealed =>
            \/ token'[t].sealed \/ ReadDrops(t) \/ ~granted'
            \/ token[t].fam # None /\ family'[token[t].fam] = "dead"
       /\ token'[t].age >= token[t].age
  /\ \A i \in Installs \ excused' :
       \/ holds'[i] = holds[i]
       \/ token[holds[i]].next # None /\ holds'[i] = token[holds[i]].next

\* Time passes only between requests; who goes on to rotate found nothing consumed.
Prompt ==
  /\ (\A t \in Tokens : token'[t].age = token[t].age) \/ \A r \in Requests : request'[r].pc = "idle"
  /\ \A r \in Requests : request'[r].pc = "rotate" =>
       \/ request[r].pc = "rotate" /\ request'[r].token = request[r].token
       \/ token[request'[r].token].next = None

\* Who is newly refused, in spite of a live chain, has stayed away too long.
Refusing ==
  \A r \in Requests : request'[r].pc \in {"refused", "revoke"} =>
    \/ /\ request[r].pc \in {"refused", "revoke"}
       /\ request'[r].by = request[r].by /\ request'[r].token = request[r].token
    \/ /\ holds' = holds
       /\ request'[r].token \in Tokens /\ token[request'[r].token].born
       /\ holds[request'[r].by] = request'[r].token /\ ~Legacy(request'[r].token)
          /\ Live(request'[r].token) => request'[r].by \in excused'

\* Rows that only lose an envelope.
LEMMA DroppingServes ==
  ASSUME TypeOK, NEW t \in Tokens, token' = [token EXCEPT ![t].sealed = @ /\ ~ReadDrops(t)]
  PROVE  \A x \in Tokens : /\ token'[x].used => token[x].used
                           /\ token[x].sealed => token'[x].sealed \/ ReadDrops(x)
                           /\ token'[x].age = token[x].age /\ token[x].age \in Nat
<1> SUFFICES ASSUME NEW x \in Tokens
             PROVE  /\ token'[x].used => token[x].used
                    /\ token[x].sealed => token'[x].sealed \/ ReadDrops(x)
                    /\ token'[x].age = token[x].age /\ token[x].age \in Nat
  OBVIOUS
<1>1. token \in [Tokens -> Pair] /\ token[x] \in Pair BY DEF TypeOK
<1>2. CASE x # t BY <1>1, <1>2 DEF Pair
<1>3. CASE x = t
  <2>1. token'[x] = [token[x] EXCEPT !.sealed = token[x].sealed /\ ~ReadDrops(x)] BY <1>1, <1>3
  <2>2. QED BY <1>1, <2>1 DEF Pair
<1>4. QED BY <1>2, <1>3

\* Rows that have been used.
LEMMA StampingServes ==
  ASSUME TypeOK, NEW i \in Installs, token' = [token EXCEPT ![holds[i]].used = TRUE]
  PROVE  \A x \in Tokens : /\ token'[x].used => token[x].used \/ \E j \in Installs : x = holds[j]
                           /\ token[x].sealed => token'[x].sealed
                           /\ token'[x].age = token[x].age /\ token[x].age \in Nat
<1> SUFFICES ASSUME NEW x \in Tokens
             PROVE  /\ token'[x].used => token[x].used \/ \E j \in Installs : x = holds[j]
                    /\ token[x].sealed => token'[x].sealed
                    /\ token'[x].age = token[x].age /\ token[x].age \in Nat
  OBVIOUS
<1>1. token \in [Tokens -> Pair] /\ token[x] \in Pair BY DEF TypeOK
<1>2. CASE x # holds[i] BY <1>1, <1>2 DEF Pair
<1>3. CASE x = holds[i]
  <2>1. token'[x] = [token[x] EXCEPT !.used = TRUE] BY <1>1, <1>3
  <2>2. QED BY <1>1, <1>3, <2>1 DEF Pair
<1>4. QED BY <1>2, <1>3

\* Requests that rotate nothing serve ...
LEMMA ServingRefresh ==
  ASSUME TypeOK, Structure, NEW r \in Requests,
         \/ \E i \in Installs : Lookup(r, i) \/ Logout(r, i) \/ SignOutStart(r, i)
         \/ RotateRefused(r) \/ Replayed(r) \/ Check(r) \/ RevokeTokenFamily(r)
         \/ Receive(r) \/ Gone(r)
  PROVE  Serving /\ \A t \in Tokens : token'[t].age = token[t].age
<1>1. /\ token \in [Tokens -> Pair] /\ holds \in [Installs -> Tokens]
      /\ \A t \in Tokens : token[t] \in Pair /\ token[t].age \in Nat
  BY DEF TypeOK, Pair
<1>2. CASE UNCHANGED <<token, firstParty, excused, holds>> BY <1>1, <1>2 DEF Serving
<1>3. CASE \E i \in Installs : Lookup(r, i)
  <2>1. PICK i \in Installs : Lookup(r, i) BY <1>3
  <2>2. token' = [token EXCEPT ![holds[i]].sealed = @ /\ ~ReadDrops(holds[i])] BY <2>1 DEF Lookup
  <2>3. UNCHANGED <<firstParty, holds>> /\ excused \subseteq excused' BY <2>1 DEF Lookup
  <2>4. holds[i] \in Tokens BY <1>1
  <2>5. \A x \in Tokens : /\ token'[x].used => token[x].used
                          /\ token[x].sealed => token'[x].sealed \/ ReadDrops(x)
                          /\ token'[x].age = token[x].age /\ token[x].age \in Nat
    BY <2>2, <2>4, DroppingServes
  <2>6. QED BY <2>3, <2>5 DEF Serving
<1>4. CASE \E i \in Installs : SignOutStart(r, i)
  <2>1. PICK i \in Installs : SignOutStart(r, i) BY <1>4
  <2>2. token' = [token EXCEPT ![holds[i]].used = TRUE] BY <2>1 DEF SignOutStart
  <2>3. UNCHANGED <<firstParty, holds, excused>> BY <2>1 DEF SignOutStart
  <2>4. \A x \in Tokens : /\ token'[x].used => token[x].used \/ \E j \in Installs : x = holds[j]
                          /\ token[x].sealed => token'[x].sealed
                          /\ token'[x].age = token[x].age /\ token[x].age \in Nat
    BY <2>2, StampingServes
  <2>5. QED BY <2>3, <2>4 DEF Serving
<1>5. CASE Replayed(r)
  <2>1. request[r].token \in Tokens BY <1>5 DEF Replayed, Structure, AskedOK, Refreshes
  <2>2. token' = [token EXCEPT ![request[r].token].sealed = @ /\ ~ReadDrops(request[r].token)]
    BY <1>5 DEF Replayed
  <2>3. UNCHANGED <<firstParty, holds, excused>> BY <1>5 DEF Replayed, history
  <2>4. \A x \in Tokens : /\ token'[x].used => token[x].used
                          /\ token[x].sealed => token'[x].sealed \/ ReadDrops(x)
                          /\ token'[x].age = token[x].age /\ token[x].age \in Nat
    BY <2>1, <2>2, DroppingServes
  <2>5. QED BY <2>3, <2>4 DEF Serving
<1>6. CASE RevokeTokenFamily(r)
  <2>1. UNCHANGED <<firstParty, holds, excused>> BY <1>6 DEF RevokeTokenFamily, history
  <2>2. CASE GrantRevoked
    <3>1. \A x \in Tokens : token'[x].used = token[x].used /\ token'[x].age = token[x].age
      BY <1>1, <2>2 DEF GrantRevoked, EnvelopesDropped, Pair
    <3>2. QED BY <1>1, <2>1, <2>2, <3>1 DEF GrantRevoked, Serving
  <2>3. ASSUME NEW f \in Families, Revoked({f})
        PROVE  Serving /\ \A t \in Tokens : token'[t].age = token[t].age
    <3>1. ASSUME NEW x \in Tokens
          PROVE  /\ token'[x].used => token[x].used
                 /\ token[x].sealed => token'[x].sealed \/ token[x].fam = f
                 /\ token'[x].age = token[x].age
      <4>1. token'[x] = [token[x] EXCEPT !.sealed = token[x].sealed /\ token[x].fam \notin {f}]
        BY <2>3 DEF Revoked
      <4>2. QED BY <1>1, <4>1 DEF Pair
    <3>2. family'[f] = "dead" /\ f # None BY <2>3, OAuthAssumption DEF Revoked
    <3>3. QED BY <1>1, <2>1, <3>1, <3>2 DEF Serving
  <2>4. request[r].fam \in Families \cup {None} BY DEF TypeOK, Request
  <2>5. QED BY <1>2, <1>6, <2>1, <2>2, <2>3, <2>4 DEF RevokeTokenFamily
<1>7. CASE Receive(r)
  <2>1. /\ request[r].by \in Installs /\ request[r].token \in Tokens /\ Consumed(request[r].token)
    BY <1>7 DEF Receive, Structure, AskedOK, Refreshes
  <2>2. UNCHANGED <<firstParty, token, excused>> BY <1>7 DEF Receive, tables, history
  <2>3. \A i \in Installs : holds'[i] = holds[i]
          \/ (token[holds[i]].next # None /\ holds'[i] = token[holds[i]].next)
    BY <1>1, <1>7, <2>1 DEF Receive, Consumed
  <2>4. QED BY <1>1, <2>2, <2>3 DEF Serving
<1>8. CASE Check(r) \/ RotateRefused(r) \/ Gone(r) \/ \E i \in Installs : Logout(r, i)
  BY <1>2, <1>8 DEF Check, RotateRefused, Gone, Logout, tables, history
<1>9. QED BY <1>3, <1>4, <1>5, <1>6, <1>7, <1>8

\* ... and so does the rest.
LEMMA ServingElsewhere ==
  ASSUME TypeOK, RevokeGrant \/ Suspend \/ ClearEnvelopes \/ Sweep \/ Tick \/ UNCHANGED vars \/ \E i \in Installs : Use(i) \/ Restore(i)
  PROVE  Serving /\ Prompt /\ Refusing
<1>1. /\ token \in [Tokens -> Pair] /\ holds \in [Installs -> Tokens]
      /\ \A t \in Tokens : token[t] \in Pair /\ token[t].age \in Nat
  BY DEF TypeOK, Pair
<1>2. UNCHANGED <<request, firstParty>>
  BY DEF RevokeGrant, Suspend, ClearEnvelopes, Sweep, Tick, vars, tables, history, Use, Restore
<1>3. Refusing BY <1>2 DEF Refusing
<1>4. CASE RevokeGrant \/ ClearEnvelopes
  <2>1. \A x \in Tokens : token'[x].used = token[x].used /\ token'[x].age = token[x].age
    BY <1>1, <1>4 DEF RevokeGrant, GrantRevoked, ClearEnvelopes, EnvelopesDropped, Pair
  <2>2. QED
    BY <1>1, <1>2, <1>3, <1>4, <2>1
    DEF RevokeGrant, GrantRevoked, ClearEnvelopes, history, Serving, Prompt
<1>11. CASE Suspend BY <1>1, <1>2, <1>3, <1>11 DEF Suspend, history, Serving, Prompt
<1>5. CASE Sweep
  <2>1. ASSUME NEW x \in Tokens
        PROVE  /\ token'[x].used => token[x].used
               /\ token[x].sealed => token'[x].sealed \/ ReadDrops(x)
               /\ token'[x].age = token[x].age
    <3>1. token'[x] = [token[x] EXCEPT !.sealed = token[x].sealed /\ ~ReadDrops(x)] BY <1>5 DEF Sweep
    <3>2. QED BY <1>1, <3>1 DEF Pair
  <2>2. UNCHANGED <<holds, excused>> BY <1>5 DEF Sweep, history
  <2>3. QED BY <1>1, <1>2, <1>3, <2>1, <2>2 DEF Serving, Prompt
<1>6. CASE Tick
  <2>1. ASSUME NEW x \in Tokens
        PROVE  /\ token'[x].used = token[x].used /\ token'[x].sealed = token[x].sealed
               /\ token'[x].age >= token[x].age
    <3>1. token'[x] = [token[x] EXCEPT !.age = IF token[x].born /\ token[x].age < Ripe(x)
                                               THEN token[x].age + 1 ELSE token[x].age]
      BY <1>6 DEF Tick
    <3>2. QED BY <1>1, <3>1 DEF Pair
  <2>2. \A r \in Requests : request[r].pc = "idle" BY <1>6, IdleIsOne DEF Tick
  <2>3. QED BY <1>2, <1>3, <1>6, <2>1, <2>2 DEF Tick, history, Serving, Prompt
<1>7. ASSUME NEW i \in Installs, Use(i) PROVE Serving /\ Prompt
  <2>1. token' = [token EXCEPT ![holds[i]].used = TRUE] BY <1>7 DEF Use, Stamped
  <2>2. \A x \in Tokens : /\ token'[x].used => token[x].used \/ \E j \in Installs : x = holds[j]
                          /\ token[x].sealed => token'[x].sealed
                          /\ token'[x].age = token[x].age /\ token[x].age \in Nat
    BY <2>1, StampingServes
  <2>3. UNCHANGED <<firstParty, holds, excused, request>> BY <1>7 DEF Use
  <2>4. QED BY <2>2, <2>3 DEF Serving, Prompt
<1>8. ASSUME NEW i \in Installs, Restore(i) PROVE Serving /\ Prompt
  BY <1>1, <1>2, <1>8 DEF Restore, tables, Serving, Prompt
<1>9. CASE UNCHANGED vars BY <1>1, <1>3, <1>9 DEF vars, tables, history, Serving, Prompt
<1>10. QED BY <1>3, <1>4, <1>5, <1>6, <1>7, <1>8, <1>9, <1>11

\* An app that comes back in time with its newest pair can be answered again.
LEMMA InTime ==
  ASSUME TypeOK, Structure, AheadOK, KeptOK, NEW i \in Installs \ excused,
         Live(holds[i]), ~Legacy(holds[i]), Consumed(holds[i]), Elapsed(holds[i]) <= ReplayWindow
  PROVE  /\ GraceVerdict(holds[i]) = "check"
         /\ ~token[token[holds[i]].next].used /\ Live(token[holds[i]].next)
<1> DEFINE t == holds[i]
<1>1. t \in Tokens /\ token[t].born /\ token[t].next # None BY DEF TypeOK, Structure, HoldsOK, Consumed
<1>2. ~Consumed(token[t].next) /\ ~token[token[t].next].used BY <1>1 DEF AheadOK
<1>3. token[t].sealed BY <1>1, <1>2 DEF KeptOK
<1>4. GraceVerdict(t) = "check"
  <2>1. ReplayWindow \in Nat BY OAuthAssumption DEF ReplayWindow
  <2>2. Elapsed(t) \in Nat BY <1>1 DEF Elapsed, TypeOK, Pair
  <2>3. ~(Elapsed(t) > ReplayWindow) BY <2>1, <2>2
  <2>4. QED BY <1>2, <1>3, <2>3 DEF GraceVerdict
<1>5. Live(token[t].next)
  <2>1. /\ token[t].next \in Tokens /\ token[token[t].next].born
        /\ chain[token[t].next] = chain[t]
    BY <1>1 DEF Structure, RowsOK, TypeOK, Pair
  <2>2. token[token[t].next].fam = token[t].fam BY <1>1, <2>1 DEF Structure, KinOK
  <2>3. QED BY <2>1, <2>2 DEF Live
<1>6. QED BY <1>2, <1>4, <1>5

\* A request goes on to rotate only what it found unconsumed.
LEMMA PromptRefresh ==
  ASSUME TypeOK, Structure, NEW r \in Requests,
         \/ \E i \in Installs : Lookup(r, i) \/ Logout(r, i) \/ SignOutStart(r, i)
         \/ RotateRefused(r) \/ Replayed(r) \/ Check(r) \/ RevokeTokenFamily(r)
         \/ Receive(r) \/ Gone(r)
  PROVE  Prompt
<1>1. \A t \in Tokens : token'[t].age = token[t].age BY ServingRefresh
<1>2. request \in [Requests -> Request] /\ holds \in [Installs -> Tokens] BY DEF TypeOK
<1>3. ASSUME NEW q \in Requests, request'[q].pc = "rotate", request'[q] # request[q]
      PROVE  token[request'[q].token].next = None
  <2>1. CASE \E i \in Installs : Lookup(r, i)
    <3>1. PICK i \in Installs : Lookup(r, i) BY <2>1
    <3>2. /\ q = r /\ request'[r].token = holds[i]
          /\ request'[r].pc = IF ~Live(holds[i]) THEN "refused"
               ELSE IF ~Consumed(holds[i]) THEN "rotate" ELSE After(GraceVerdict(holds[i]), FALSE)
      BY <1>2, <1>3, <3>1 DEF Lookup
    <3>3. After(GraceVerdict(holds[i]), FALSE) # "rotate" BY DEF After
    <3>4. QED BY <1>3, <3>2, <3>3 DEF Consumed
  <2>2. CASE \E i \in Installs : Logout(r, i) \/ SignOutStart(r, i)
    <3>1. PICK i \in Installs : Logout(r, i) \/ SignOutStart(r, i) BY <2>2
    <3>2. request'[r].pc \in {"logout", "signout"}
      <4>1. CASE Logout(r, i) BY <1>2, <4>1 DEF Logout, Idle
      <4>2. CASE SignOutStart(r, i) BY <1>2, <4>2 DEF SignOutStart, Idle
      <4>3. QED BY <3>1, <4>1, <4>2
    <3>3. q = r BY <1>2, <1>3, <2>2 DEF Logout, SignOutStart
    <3>4. QED BY <1>3, <3>2, <3>3
  <2>3. CASE RotateRefused(r) \/ Receive(r) \/ Gone(r)
    BY <1>2, <1>3, <2>3, IdleIsOne DEF RotateRefused, Receive, Gone, Request
  <2>4. CASE Replayed(r)
    <3>1. After(GraceVerdict(request[r].token), TRUE) # "rotate" BY DEF After
    <3>2. request'[r].pc # "rotate" BY <1>2, <2>4, <3>1 DEF Replayed, Request
    <3>3. QED BY <1>2, <1>3, <2>4, <3>2 DEF Replayed
  <2>5. CASE Check(r)
    <3>1. After(CheckVerdict(r), request[r].lost) # "rotate" BY DEF After
    <3>2. request'[r].pc # "rotate" BY <1>2, <2>5, <3>1 DEF Check, Request
    <3>3. QED BY <1>2, <1>3, <2>5, <3>2 DEF Check
  <2>6. CASE RevokeTokenFamily(r)
    <3>1. request'[r].pc # "rotate" BY <1>2, <2>6, IdleIsOne DEF RevokeTokenFamily, Request
    <3>2. QED BY <1>2, <1>3, <2>6, <3>1 DEF RevokeTokenFamily
  <2>7. QED BY <2>1, <2>2, <2>3, <2>4, <2>5, <2>6
<1>4. QED BY <1>1, <1>3 DEF Prompt

\* A request is refused for a reason.
LEMMA RefusingRefresh ==
  ASSUME TypeOK, Structure, AheadOK, PromptOK, KeptOK, NEW r \in Requests,
         \/ \E i \in Installs : Lookup(r, i) \/ Logout(r, i) \/ SignOutStart(r, i)
         \/ RotateRefused(r) \/ Replayed(r) \/ Check(r) \/ RevokeTokenFamily(r)
         \/ Receive(r) \/ Gone(r)
  PROVE  Refusing
<1> DEFINE t == request[r].token
           i == request[r].by
<1>1. /\ request \in [Requests -> Request] /\ request[r] \in Request
      /\ holds \in [Installs -> Tokens] /\ token \in [Tokens -> Pair]
  BY DEF TypeOK
<1>2. Refreshes(r) =>
        /\ i \in Installs /\ t \in Tokens /\ token[t].born
        /\ chain[t] = chain[holds[i]]
        /\ request[r].pc \in {"check", "served"} => Consumed(t)
        /\ ~Legacy(t) => request[r].fam = token[t].fam
  BY DEF Structure, AskedOK, KinOK
<1>3. ASSUME \A q \in Requests : q # r => request'[q] = request[q],
             request'[r].pc \notin {"refused", "revoke"} \/ request[r].pc = "revoke",
             request'[r].pc = "idle" \/ (request'[r].by = i /\ request'[r].token = t)
      PROVE  Refusing
  BY <1>3 DEF Refusing
<1>4. ASSUME \A q \in Requests : q # r => request'[q] = request[q],
             holds' = holds, Refreshes(r),
             request'[r].by = i /\ request'[r].token = t,
             request'[r].pc \in {"refused", "revoke"} /\ holds[i] = t /\ ~Legacy(t) /\ Live(t)
               => i \in excused'
      PROVE  Refusing
  BY <1>2, <1>4 DEF Refusing
<1>5. CASE \E j \in Installs : Lookup(r, j)
  <2>1. PICK j \in Installs : Lookup(r, j) BY <1>5
  <2> DEFINE h == holds[j]
  <2>2. /\ \A q \in Requests : q # r => request'[q] = request[q]
        /\ request'[r].by = j /\ request'[r].token = h
        /\ request'[r].pc = IF ~Live(h) THEN "refused"
               ELSE IF ~Consumed(h) THEN "rotate" ELSE After(GraceVerdict(h), FALSE)
        /\ holds' = holds
    BY <1>1, <2>1 DEF Lookup
  <2>3. h \in Tokens /\ token[h].born BY <1>1 DEF Structure, HoldsOK
  <2>4. ASSUME request'[r].pc \in {"refused", "revoke"}, ~Legacy(h), Live(h) PROVE j \in excused'
    <3>1. Consumed(h) /\ After(GraceVerdict(h), FALSE) \in {"refused", "revoke"} BY <2>2, <2>4
    <3>2. CASE Elapsed(h) > ReplayWindow BY <2>1, <3>1, <3>2 DEF Lookup
    <3>3. CASE ~(Elapsed(h) > ReplayWindow) /\ j \notin excused
      <4>1. ReplayWindow \in Nat BY OAuthAssumption DEF ReplayWindow
      <4>2. Elapsed(h) \in Nat BY <1>1, <2>3, <3>1 DEF Elapsed, Consumed, Pair
      <4>3. GraceVerdict(h) = "check" BY <2>4, <3>1, <3>3, <4>1, <4>2, InTime
      <4>4. QED BY <3>1, <4>3 DEF After
    <3>4. CASE j \in excused BY <2>1, <3>4 DEF Lookup
    <3>5. QED BY <3>2, <3>3, <3>4
  <2>5. QED BY <2>2, <2>3, <2>4 DEF Refusing
<1>6. CASE \E j \in Installs : Logout(r, j) \/ SignOutStart(r, j)
  <2>1. PICK j \in Installs : Logout(r, j) \/ SignOutStart(r, j) BY <1>6
  <2>2. \A x : /\ [Idle EXCEPT !.pc = "logout", !.fam = x].pc = "logout"
               /\ [Idle EXCEPT !.pc = "signout", !.token = x].pc = "signout"
    BY DEF Idle
  <2>3. /\ \A q \in Requests : q # r => request'[q] = request[q]
        /\ request'[r].pc \in {"logout", "signout"}
    <3>1. ASSUME NEW q, request' = [request EXCEPT ![r] = q], q.pc \in {"logout", "signout"}
          PROVE  /\ \A x \in Requests : x # r => request'[x] = request[x]
                 /\ request'[r].pc \in {"logout", "signout"}
      BY <1>1, <3>1
    <3>2. CASE Logout(r, j)
      <4> DEFINE q == [Idle EXCEPT !.pc = "logout", !.fam = token[holds[j]].fam]
      <4>1. q.pc = "logout" BY <2>2
      <4>2. request' = [request EXCEPT ![r] = q] BY <3>2 DEF Logout
      <4> HIDE DEF q
      <4>3. QED BY <3>1, <4>1, <4>2
    <3>3. CASE SignOutStart(r, j)
      <4> DEFINE q == [Idle EXCEPT !.pc = "signout", !.token = holds[j]]
      <4>1. q.pc = "signout" BY <2>2
      <4>2. request' = [request EXCEPT ![r] = q] BY <3>3 DEF SignOutStart
      <4> HIDE DEF q
      <4>3. QED BY <3>1, <4>1, <4>2
    <3>4. QED BY <2>1, <3>2, <3>3
  <2>4. QED BY <2>3 DEF Refusing
<1>7. CASE RotateRefused(r)
  <2>1. Refreshes(r) /\ request[r].pc = "rotate" /\ ~Alive(request[r].fam) /\ holds' = holds
    BY <1>7 DEF RotateRefused, Refreshes, StillAlive
  <2>2. ~Legacy(t) => ~Live(t) BY <1>2, <2>1 DEF Live
  <2>3. /\ \A q \in Requests : q # r => request'[q] = request[q]
        /\ request'[r].by = i /\ request'[r].token = t
    BY <1>1, <1>7 DEF RotateRefused, Request
  <2>4. QED BY <1>4, <2>1, <2>2, <2>3
<1>8. CASE Replayed(r)
  <2>1. Refreshes(r) /\ request[r].pc = "rotate" /\ Consumed(t) /\ holds' = holds
    BY <1>8 DEF Replayed, Refreshes, Claims
  <2>2. /\ \A q \in Requests : q # r => request'[q] = request[q]
        /\ request'[r].by = i /\ request'[r].token = t
        /\ request'[r].pc = After(GraceVerdict(t), TRUE)
        /\ excused' = excused
    BY <1>1, <1>8 DEF Replayed, Request, history
  <2>3. ASSUME holds[i] = t, ~Legacy(t), Live(t), i \notin excused
        PROVE  request'[r].pc = "check"
    <3>1. Elapsed(t) = 0 BY <2>1 DEF PromptOK
    <3>2. Elapsed(t) <= ReplayWindow BY <3>1, OAuthAssumption DEF ReplayWindow
    <3>3. GraceVerdict(t) = "check" BY <1>2, <2>1, <2>3, <3>2, InTime
    <3>4. QED BY <2>2, <3>3 DEF After
  <2>4. QED BY <1>4, <2>1, <2>2, <2>3
<1>9. CASE Check(r)
  <2>1. Refreshes(r) /\ request[r].pc = "check" /\ holds' = holds /\ excused' = excused
    BY <1>9 DEF Check, Refreshes, history
  <2>2. /\ \A q \in Requests : q # r => request'[q] = request[q]
        /\ request'[r].by = i /\ request'[r].token = t
        /\ CheckVerdict(r) = "served" => request'[r].pc = "served"
    BY <1>1, <1>9 DEF Check, Request
  <2>3. ASSUME holds[i] = t, ~Legacy(t), Live(t), i \notin excused
        PROVE  CheckVerdict(r) = "served"
    <3>1. Consumed(t) /\ t \in Tokens /\ i \in Installs BY <1>2, <2>1
    <3>2. ~token[token[t].next].used BY <2>3, <3>1 DEF AheadOK, Consumed
    <3>3. /\ token[t].next \in Tokens /\ token[token[t].next].born
          /\ chain[token[t].next] = chain[t]
      BY <1>1, <3>1 DEF Structure, RowsOK, Consumed, Pair
    <3>4. token[token[t].next].fam = token[t].fam BY <1>2, <2>1, <2>3, <3>3 DEF Structure, KinOK
    <3>5. Live(token[t].next) BY <2>3, <3>3, <3>4 DEF Live
    <3>6. QED BY <3>2, <3>5 DEF CheckVerdict
  <2>4. QED BY <1>4, <2>1, <2>2, <2>3
<1>10. CASE RevokeTokenFamily(r)
  <2>1. /\ \A q \in Requests : q # r => request'[q] = request[q]
        /\ \/ request'[r].pc = "idle"
           \/ request[r].pc = "revoke" /\ request'[r].by = i /\ request'[r].token = t
    BY <1>1, <1>10, IdleIsOne DEF RevokeTokenFamily, Request
  <2>2. QED BY <1>3, <2>1
<1>11. CASE Receive(r) \/ Gone(r)
  <2>1. /\ \A q \in Requests : q # r => request'[q] = request[q]
        /\ request'[r].pc = "idle"
    BY <1>1, <1>11, IdleIsOne DEF Receive, Gone
  <2>2. QED BY <1>3, <2>1
<1>12. QED BY <1>5, <1>6, <1>7, <1>8, <1>9, <1>10, <1>11

\* Steps that mint and move nothing.
LEMMA ServiceInQuiet ==
  ASSUME TypeOK, TypeOK', Structure, Structure', Quiet, Asking, Holding, Serving, Prompt, Refusing,
         AheadOK, PromptOK, KeptOK, HonestIsServed, [Next]_vars
  PROVE  (AheadOK /\ PromptOK /\ KeptOK /\ HonestIsServed)'
<1>1. /\ token \in [Tokens -> Pair] /\ token' \in [Tokens -> Pair]
      /\ holds \in [Installs -> Tokens] /\ holds' \in [Installs -> Tokens]
      /\ \A t \in Tokens : /\ token[t].next \in Tokens \cup {None}
                           /\ token[t].age \in Nat /\ token'[t].age \in Nat
  BY DEF TypeOK, Pair
<1>2. \A t \in Tokens : /\ token'[t].born = token[t].born /\ token'[t].next = token[t].next
                        /\ token'[t].fam = token[t].fam /\ chain'[t] = chain[t]
  BY DEF Quiet
<1>3. \A t \in Tokens : Legacy(t)' <=> Legacy(t) BY <1>2 DEF Legacy, Quiet
<1>4. \A i \in Installs : i \notin excused' => i \notin excused BY DEF Serving
<1>5. \A t \in Tokens : token[t].next # None =>
        token[t].born /\ token[token[t].next].born /\ token[t].next # t /\ chain[token[t].next] = chain[t]
        /\ token[t].next \in Tokens
  BY <1>1 DEF Structure, RowsOK
<1>6. \A i \in Installs \ excused : token[holds[i]].next # None =>
        /\ token[token[holds[i]].next].next = None /\ ~token[token[holds[i]].next].used
        /\ \A r \in Requests : Refreshes(r) => request[r].token # token[holds[i]].next
  BY DEF AheadOK, Consumed
<1>7. \A i, j \in Installs : token[holds[i]].next # None => token[holds[i]].next # holds[j]
  <2>1. SUFFICES ASSUME NEW i \in Installs, NEW j \in Installs,
                        token[holds[i]].next # None, token[holds[i]].next = holds[j]
                 PROVE  FALSE
    OBVIOUS
  <2>2. holds[i] \in Tokens BY <1>1
  <2>3. chain[holds[j]] = chain[holds[i]] /\ holds[j] # holds[i] BY <1>5, <2>1, <2>2
  <2>4. QED BY <2>3 DEF Structure, HoldsOK
<1>8. AheadOK'
  <2> SUFFICES ASSUME NEW i \in Installs, i \notin excused', token'[holds'[i]].next # None
               PROVE  /\ token'[token'[holds'[i]].next].next = None
                      /\ ~token'[token'[holds'[i]].next].used
                      /\ \A r \in Requests : Refreshes(r)' => request'[r].token # token'[holds'[i]].next
    BY DEF AheadOK, Consumed, Refreshes
  <2>1. i \notin excused /\ holds[i] \in Tokens /\ holds'[i] \in Tokens BY <1>1, <1>4
  <2>2. holds'[i] = holds[i]
    <3>1. ASSUME token[holds[i]].next # None, holds'[i] = token[holds[i]].next PROVE FALSE
      BY <1>2, <1>6, <2>1, <3>1
    <3>2. QED BY <3>1 DEF Serving
  <2> DEFINE u == token[holds[i]].next
  <2>3. u # None /\ u \in Tokens /\ token'[holds'[i]].next = u BY <1>1, <1>2, <2>1, <2>2
  <2>4. token'[u].next = None /\ ~token'[u].used
    BY <1>2, <1>6, <1>7, <2>1, <2>3 DEF Serving
  <2>5. ASSUME NEW r \in Requests, Refreshes(r)' PROVE request'[r].token # u
    BY <1>6, <1>7, <2>1, <2>3, <2>5 DEF Asking
  <2>6. QED BY <2>3, <2>4, <2>5
<1>9. PromptOK'
  <2> SUFFICES ASSUME NEW r \in Requests, request'[r].pc = "rotate",
                      token'[request'[r].token].next # None
               PROVE  token'[token'[request'[r].token].next].age = 0
    BY DEF PromptOK, Consumed, Elapsed
  <2>1. request'[r].token \in Tokens BY DEF Structure, AskedOK, Refreshes
  <2>2. token[request'[r].token].next # None BY <1>2, <2>1
  <2>3. request[r].pc = "rotate" /\ request'[r].token = request[r].token BY <2>2 DEF Prompt
  <2>4. token[token[request[r].token].next].age = 0 BY <2>2, <2>3 DEF PromptOK, Consumed, Elapsed
  <2>5. \A t \in Tokens : token'[t].age = token[t].age BY DEF Prompt
  <2>6. QED BY <1>1, <1>2, <2>1, <2>2, <2>3, <2>4, <2>5
<1>10. KeptOK'
  <2> SUFFICES ASSUME NEW t \in Tokens, Live(t)', (~Legacy(t))', token'[t].next # None,
                      token'[token'[t].next].next = None,
                      token'[token'[t].next].age <= ReplayWindow'
               PROVE  token'[t].sealed
    BY DEF KeptOK, Consumed, Elapsed
  <2>1. ~Legacy(t) /\ token[t].born /\ token[t].next \in Tokens /\ token[t].next # None
    BY <1>2, <1>3, <1>5 DEF Live
  <2>2. granted' /\ (token[t].fam # None => family'[token[t].fam] # "dead")
    BY <1>2 DEF Live, Alive
  <2>3. Live(t)
    <3>1. token[t].fam \in Families /\ granted BY <2>1, <2>2, KinLiveTogether DEF Quiet
    <3>2. family[token[t].fam] # "dead" BY <2>2, <3>1, OAuthAssumption DEF Quiet
    <3>3. QED BY <2>1, <3>1, <3>2 DEF Live, Alive
  <2>4. ReplayWindow' = ReplayWindow /\ ReplayWindow \in Nat
    BY OAuthAssumption DEF ReplayWindow, Serving
  <2>5. token[token[t].next].age <= ReplayWindow
    <3>1. token[token[t].next].age \in Nat /\ token'[token[t].next].age \in Nat BY <1>1, <2>1
    <3>2. token'[token[t].next].age >= token[token[t].next].age BY <2>1 DEF Serving
    <3>3. QED BY <1>2, <2>4, <3>1, <3>2
  <2>6. token[token[t].next].next = None BY <1>2, <2>1
  <2>7. token[t].sealed BY <2>1, <2>3, <2>5, <2>6 DEF KeptOK, Consumed, Elapsed
  <2>8. ~ReadDrops(t)
    <3>1. token[token[t].next].age \in Nat BY <1>1, <2>1
    <3>2. QED BY <2>4, <2>5, <3>1 DEF ReadDrops, Elapsed
  <2>9. QED BY <2>2, <2>7, <2>8 DEF Serving
<1>11. HonestIsServed'
  <2> SUFFICES ASSUME NEW r \in Requests, request'[r].pc \in {"refused", "revoke"},
                      holds'[request'[r].by] = request'[r].token,
                      (~Legacy(request[r].token))', request'[r].by \notin excused',
                      (~Dead(request[r].token))'
               PROVE  FALSE
    BY DEF HonestIsServed, Honest
  <2>1. PICK i \in Installs, t \in Tokens :
          i = request'[r].by /\ t = request'[r].token /\ token'[t].born
    BY DEF Structure, AskedOK, Refreshes
  <2>2. ~Legacy(t) /\ token[t].born /\ i \notin excused /\ i \notin excused' /\ holds'[i] = t
    <3>1. (~Legacy(t))' BY <2>1 DEF Legacy
    <3>2. QED BY <1>2, <1>3, <1>4, <2>1, <3>1
  <2>3. ~Dead(t)
    <3>1. (~Dead(t))' BY <2>1 DEF Dead, SameChain
    <3>2. QED BY <2>2, <3>1, DeadStays
  <2>4. Live(t) BY <2>2, <2>3, KinLiveTogether
  <2>5. CASE /\ request[r].pc \in {"refused", "revoke"}
             /\ request'[r].by = request[r].by /\ request'[r].token = request[r].token
    <3>1. holds[i] # t BY <2>1, <2>2, <2>3, <2>5 DEF HonestIsServed, Honest
    <3>2. token[holds[i]].next # None /\ t = token[holds[i]].next BY <2>2, <3>1 DEF Serving
    <3>3. QED BY <1>6, <2>1, <2>2, <2>5, <3>2 DEF Refreshes
  <2>6. CASE /\ holds' = holds
             /\ holds[request'[r].by] = request'[r].token /\ ~Legacy(request'[r].token)
                /\ Live(request'[r].token) => request'[r].by \in excused'
    BY <2>1, <2>2, <2>4, <2>6
  <2>7. QED BY <2>5, <2>6 DEF Refusing
<1>12. QED BY <1>8, <1>9, <1>10, <1>11

\* A rotation serves the app that asked for it.
LEMMA ServiceInRotate ==
  ASSUME TypeOK, TypeOK', Structure, Structure', NEW r \in Requests, Rotate(r), [Next]_vars,
         AheadOK, PromptOK, KeptOK, HonestIsServed
  PROVE  (AheadOK /\ PromptOK /\ KeptOK /\ HonestIsServed)'
<1> DEFINE s == request[r].token
<1>1. /\ token \in [Tokens -> Pair] /\ holds \in [Installs -> Tokens]
      /\ request \in [Requests -> Request]
      /\ \A t \in Tokens : token[t].next \in Tokens \cup {None}
  BY DEF TypeOK, Pair
<1>2. PICK u \in Tokens : RotatedInto(r, u) BY RotateMints
<1>3. /\ s \in Tokens /\ token[s].born /\ token[s].next = None /\ Refreshes(r)
      /\ UNCHANGED <<firstParty, granted, family, holds, origin, excused>>
  BY DEF Structure, AskedOK, Rotate, Refreshes, Claims, Consumed
<1>4. /\ ~token[u].born /\ s # u /\ token'[u].next = None /\ token'[u].age = 0 /\ ~token'[u].used
      /\ token'[s].next = u /\ token'[s].sealed
      /\ u # None
  BY <1>2, <1>3, OAuthAssumption DEF RotatedInto
<1>5. \A v \in Tokens : v # u =>
       /\ token'[v].born <=> token[v].born
       /\ token'[v].fam = token[v].fam
       /\ token'[v].used <=> token[v].used
       /\ v # s => token'[v].next = token[v].next
       /\ token'[v].sealed <=> (v = s \/ (token[v].sealed /\ token[v].next # s))
       /\ token'[v].age = token[v].age
       /\ chain'[v] = chain[v]
  BY <1>2 DEF RotatedInto
<1>6. \A v \in Tokens : /\ token[v].next # u
                        /\ token[v].next # None => v # u /\ v # s /\ token[v].next \in Tokens
  BY <1>1, <1>3, <1>4 DEF Structure, RowsOK
<1>7. /\ \A q \in Requests : q # r => request'[q] = request[q]
      /\ request'[r].pc = "served" /\ request'[r].by = request[r].by
      /\ request'[r].token = s
  BY <1>1 DEF Rotate, Request
<1>8. \A q \in Requests : Refreshes(q)' =>
        /\ Refreshes(q) /\ request'[q].token = request[q].token
        /\ request[q].token \in Tokens /\ request[q].token # u
  BY <1>3, <1>4, <1>7 DEF Refreshes, Structure, AskedOK
<1>9. \A i \in Installs : holds[i] \in Tokens /\ holds[i] # u
  BY <1>1, <1>4 DEF Structure, HoldsOK
<1>10. \A v \in Tokens : v # u => (Legacy(v)' <=> Legacy(v)) BY <1>3, <1>5 DEF Legacy
<1>11. AheadOK'
  <2> SUFFICES ASSUME NEW i \in Installs, i \notin excused, token'[holds[i]].next # None
               PROVE  /\ token'[token'[holds[i]].next].next = None
                      /\ ~token'[token'[holds[i]].next].used
                      /\ \A q \in Requests : Refreshes(q)' => request'[q].token # token'[holds[i]].next
    BY <1>3 DEF AheadOK, Consumed, Refreshes
  <2>1. CASE holds[i] = s BY <1>4, <1>8, <2>1
  <2>2. CASE holds[i] # s
    <3> DEFINE w == token[holds[i]].next
    <3>1. token'[holds[i]].next = w /\ w # None BY <1>5, <1>9, <2>2
    <3>2. w \in Tokens /\ w # u BY <1>6, <1>9, <3>1
    <3>3. /\ token[w].next = None /\ ~token[w].used
          /\ \A q \in Requests : Refreshes(q) => request[q].token # w
      BY <3>1 DEF AheadOK, Consumed
    <3>4. w # s BY <1>3, <3>3
    <3>5. QED BY <1>5, <1>8, <3>1, <3>2, <3>3, <3>4
  <2>3. QED BY <2>1, <2>2
<1>12. PromptOK'
  <2> SUFFICES ASSUME NEW q \in Requests, request'[q].pc = "rotate",
                      token'[request'[q].token].next # None
               PROVE  token'[token'[request'[q].token].next].age = 0
    BY DEF PromptOK, Consumed, Elapsed
  <2>1. /\ request[q].pc = "rotate" /\ request'[q].token = request[q].token
        /\ request[q].token \in Tokens /\ request[q].token # u
    BY <1>7, <1>8 DEF Refreshes
  <2>2. CASE request[q].token = s BY <1>4, <2>1, <2>2
  <2>3. CASE request[q].token # s
    <3>1. token'[request[q].token].next = token[request[q].token].next
          /\ token[request[q].token].next # None
      BY <1>5, <2>1, <2>3
    <3>2. token[token[request[q].token].next].age = 0 BY <2>1, <3>1 DEF PromptOK, Consumed, Elapsed
    <3>3. QED BY <1>5, <1>6, <2>1, <3>1, <3>2
  <2>4. QED BY <2>2, <2>3
<1>13. KeptOK'
  <2> SUFFICES ASSUME NEW t \in Tokens, Live(t)', (~Legacy(t))', token'[t].next # None,
                      token'[token'[t].next].next = None,
                      token'[token'[t].next].age <= ReplayWindow'
               PROVE  token'[t].sealed
    BY DEF KeptOK, Consumed, Elapsed
  <2>1. t # u BY <1>4
  <2>2. CASE t = s BY <1>4, <2>2
  <2>3. CASE t # s
    <3>1. /\ token'[t].next = token[t].next /\ token[t].next # None
          /\ token[t].next \in Tokens /\ token[t].next # u
      BY <1>5, <1>6, <2>1, <2>3
    <3>2. token[t].next # s BY <1>4, <3>1
    <3>3. token[token[t].next].next = None /\ token[token[t].next].age <= ReplayWindow
      BY <1>3, <1>5, <3>1, <3>2 DEF ReplayWindow
    <3>4. ~Legacy(t) BY <1>10, <2>1
    <3>5. Live(t)
      <4>1. token'[t].born /\ granted' /\ (token'[t].fam # None => family'[token'[t].fam] # "dead")
        BY DEF Live, Alive
      <4>2. QED BY <1>3, <1>5, <2>1, <4>1 DEF Live, Alive
    <3>6. QED BY <1>5, <2>1, <3>1, <3>2, <3>3, <3>4, <3>5 DEF KeptOK, Consumed, Elapsed
  <2>4. QED BY <2>2, <2>3
<1>14. HonestIsServed'
  <2> SUFFICES ASSUME NEW q \in Requests, request'[q].pc \in {"refused", "revoke"},
                      holds'[request'[q].by] = request'[q].token,
                      (~Legacy(request[q].token))', request'[q].by \notin excused',
                      (~Dead(request[q].token))'
               PROVE  FALSE
    BY DEF HonestIsServed, Honest
  <2>1. PICK t \in Tokens : /\ t = request'[q].token /\ token[t].born /\ t # u
                            /\ request'[q] = request[q]
    BY <1>7, <1>8 DEF Structure, AskedOK, Refreshes
  <2>2. (~Legacy(t))' /\ (~Dead(t))' BY <2>1 DEF Legacy, Dead, SameChain
  <2>3. ~Legacy(t) BY <1>10, <2>1, <2>2
  <2>4. ~Dead(t) BY <2>1, <2>2, <2>3, DeadStays
  <2>5. QED BY <1>3, <2>1, <2>3, <2>4 DEF HonestIsServed, Honest
<1>15. QED BY <1>11, <1>12, <1>13, <1>14

\* A sign-in leaves the chains of the others as they are.
LEMMA ServiceInSignIn ==
  ASSUME TypeOK, TypeOK', Structure, Structure', [Next]_vars,
         NEW i \in Installs, NEW tagged \in BOOLEAN, SignIn(i, tagged),
         AheadOK, PromptOK, KeptOK, HonestIsServed
  PROVE  (AheadOK /\ PromptOK /\ KeptOK /\ HonestIsServed)'
<1>1. /\ token \in [Tokens -> Pair] /\ holds \in [Installs -> Tokens]
      /\ \A t \in Tokens : token[t].next \in Tokens \cup {None}
  BY DEF TypeOK, Pair
<1>2. PICK u \in Tokens, f \in Families : SignedInWith(i, u, f) BY SignInBegins
<1>3. /\ ~token[u].born /\ family[f] = "unused" /\ token'[u].next = None
      /\ holds'[i] = u /\ \A j \in Installs : j # i => holds'[j] = holds[j]
  BY <1>1, <1>2 DEF SignedInWith
<1>4. \A v \in Tokens : v # u =>
       /\ token'[v].born <=> token[v].born
       /\ token'[v].fam = token[v].fam
       /\ token'[v].used <=> token[v].used
       /\ token'[v].next = token[v].next
       /\ token[v].sealed =>
            token'[v].sealed \/ (token[v].fam \in Families /\ family'[token[v].fam] = "dead")
       /\ token'[v].age = token[v].age
       /\ chain'[v] = chain[v]
  BY <1>2 DEF SignedInWith
<1>5. /\ UNCHANGED <<request, origin, granted, firstParty>> /\ excused' = excused \ {i}
      /\ \A q \in Requests : request[q].by # i
  BY DEF SignIn
<1>6. \A v \in Tokens : /\ token[v].next # u
                        /\ token[v].next # None => v # u /\ token[v].next \in Tokens
  BY <1>1, <1>3, OAuthAssumption DEF Structure, RowsOK
<1>7. \A q \in Requests : Refreshes(q) =>
        /\ request[q].token \in Tokens /\ token[request[q].token].born /\ request[q].token # u
        /\ request[q].by \in Installs
  BY <1>3 DEF Structure, AskedOK
<1>8. \A j \in Installs : holds[j] \in Tokens /\ holds[j] # u
  BY <1>1, <1>3 DEF Structure, HoldsOK
<1>9. \A v \in Tokens : v # u => (Legacy(v)' <=> Legacy(v)) BY <1>4, <1>5 DEF Legacy
<1>10. AheadOK'
  <2> SUFFICES ASSUME NEW j \in Installs, j \notin excused', token'[holds'[j]].next # None
               PROVE  /\ token'[token'[holds'[j]].next].next = None
                      /\ ~token'[token'[holds'[j]].next].used
                      /\ \A q \in Requests : Refreshes(q) => request[q].token # token'[holds'[j]].next
    BY <1>5 DEF AheadOK, Consumed, Refreshes
  <2>1. j # i BY <1>3
  <2> DEFINE w == token[holds[j]].next
  <2>2. j \notin excused /\ holds'[j] = holds[j] /\ token'[holds[j]].next = w /\ w # None
    BY <1>3, <1>4, <1>5, <1>8, <2>1
  <2>3. w \in Tokens /\ w # u BY <1>6, <1>8, <2>2
  <2>4. /\ token[w].next = None /\ ~token[w].used
        /\ \A q \in Requests : Refreshes(q) => request[q].token # w
    BY <2>2 DEF AheadOK, Consumed
  <2>5. QED BY <1>4, <2>2, <2>3, <2>4
<1>11. PromptOK'
  <2> SUFFICES ASSUME NEW q \in Requests, request[q].pc = "rotate",
                      token'[request[q].token].next # None
               PROVE  token'[token'[request[q].token].next].age = 0
    BY <1>5 DEF PromptOK, Consumed, Elapsed
  <2>1. request[q].token \in Tokens /\ request[q].token # u BY <1>7 DEF Refreshes
  <2>2. token[token[request[q].token].next].age = 0
        /\ token'[request[q].token].next = token[request[q].token].next
    BY <1>4, <2>1 DEF PromptOK, Consumed, Elapsed
  <2>3. QED BY <1>4, <1>6, <2>1, <2>2
<1>12. KeptOK'
  <2> SUFFICES ASSUME NEW t \in Tokens, Live(t)', (~Legacy(t))', token'[t].next # None,
                      token'[token'[t].next].next = None,
                      token'[token'[t].next].age <= ReplayWindow'
               PROVE  token'[t].sealed
    BY DEF KeptOK, Consumed, Elapsed
  <2>1. t # u BY <1>3
  <2>2. token'[t].next = token[t].next /\ token[t].next \in Tokens /\ token[t].next # u
    BY <1>4, <1>6, <2>1
  <2>3. token[t].next # None /\ token[token[t].next].next = None
        /\ token[token[t].next].age <= ReplayWindow
    BY <1>4, <1>5, <2>2 DEF ReplayWindow
  <2>4. ~Legacy(t) /\ token[t].born BY <1>4, <1>9, <2>1 DEF Live
  <2>5. granted' /\ (token[t].fam # None => family'[token[t].fam] # "dead")
    BY <1>4, <2>1 DEF Live, Alive
  <2>6. Live(t)
    <3>1. token[t].fam \in Families BY <2>4, KinLiveTogether
    <3>2. family[token[t].fam] # "dead" BY <2>4, <2>5, <3>1, KinStay, OAuthAssumption
    <3>3. QED BY <1>5, <2>4, <2>5, <3>2 DEF Live, Alive
  <2>7. token[t].sealed BY <2>3, <2>4, <2>6 DEF KeptOK, Consumed, Elapsed
  <2>8. QED BY <1>4, <2>1, <2>5, <2>7, OAuthAssumption
<1>13. HonestIsServed'
  <2> SUFFICES ASSUME NEW q \in Requests, request'[q].pc \in {"refused", "revoke"},
                      holds'[request'[q].by] = request'[q].token,
                      (~Legacy(request[q].token))', request'[q].by \notin excused',
                      (~Dead(request[q].token))'
               PROVE  FALSE
    BY DEF HonestIsServed, Honest
  <2>1. PICK t \in Tokens : t = request'[q].token /\ token[t].born /\ t # u /\ request'[q] = request[q]
    BY <1>5, <1>7 DEF Refreshes
  <2>2. (~Legacy(t))' /\ (~Dead(t))' BY <2>1 DEF Legacy, Dead, SameChain
  <2>3. ~Legacy(t) BY <1>9, <2>1, <2>2
  <2>4. ~Dead(t) BY <2>1, <2>2, <2>3, DeadStays
  <2>5. request[q].by \in Installs /\ request[q].by # i BY <1>5, <1>7, <2>1 DEF Refreshes
  <2>6. QED BY <1>3, <1>5, <2>1, <2>3, <2>4, <2>5 DEF HonestIsServed, Honest
<1>14. QED BY <1>10, <1>11, <1>12, <1>13

\* Sign-out-everywhere leaves the other live chains, if any, as they are.
LEMMA ServiceInSignOut ==
  ASSUME TypeOK, TypeOK', Structure, Structure', [Next]_vars,
         NEW r \in Requests, EndSiblingInstalls(r),
         AheadOK, PromptOK, KeptOK, HonestIsServed
  PROVE  (AheadOK /\ PromptOK /\ KeptOK /\ HonestIsServed)'
<1>1. /\ token \in [Tokens -> Pair] /\ holds \in [Installs -> Tokens]
      /\ request \in [Requests -> Request]
      /\ \A t \in Tokens : token[t].next \in Tokens \cup {None}
  BY DEF TypeOK, Pair
<1>2. MovedApart BY SignOutMoves
<1>3. \A x \in Tokens :
       /\ token'[x].born <=> token[x].born
       /\ token'[x].next = token[x].next
       /\ token'[x].used <=> token[x].used
       /\ token'[x].age = token[x].age
       /\ token[x].sealed /\ ~Legacy(x) =>
            token'[x].sealed \/ (token[x].fam \in Families /\ family'[token[x].fam] = "dead")
  BY <1>2 DEF MovedApart
<1>4. UNCHANGED <<chain, origin, granted, holds, excused, firstParty>>
  BY <1>2 DEF MovedApart, history
<1>5. /\ \A q \in Requests : q # r => request'[q] = request[q]
      /\ request'[r].pc = "idle"
  BY <1>1, IdleIsOne DEF EndSiblingInstalls
<1>6. \A q \in Requests : request'[q].pc # "idle" => request'[q] = request[q] BY <1>5
<1>7. \A q \in Requests : Refreshes(q) => request[q].token \in Tokens /\ token[request[q].token].born
  BY DEF Structure, AskedOK
<1>8. \A v \in Tokens : Legacy(v)' <=> Legacy(v) BY <1>4 DEF Legacy
<1>9. AheadOK'
  <2> SUFFICES ASSUME NEW j \in Installs, j \notin excused, token'[holds[j]].next # None
               PROVE  /\ token'[token'[holds[j]].next].next = None
                      /\ ~token'[token'[holds[j]].next].used
                      /\ \A q \in Requests : Refreshes(q)' => request'[q].token # token'[holds[j]].next
    BY <1>4 DEF AheadOK, Consumed, Refreshes
  <2> DEFINE w == token[holds[j]].next
  <2>1. token'[holds[j]].next = w /\ w # None /\ w \in Tokens BY <1>1, <1>3
  <2>2. /\ token[w].next = None /\ ~token[w].used
        /\ \A q \in Requests : Refreshes(q) => request[q].token # w
    BY <2>1 DEF AheadOK, Consumed
  <2>3. QED BY <1>3, <1>6, <2>1, <2>2 DEF Refreshes
<1>10. PromptOK'
  <2> SUFFICES ASSUME NEW q \in Requests, request'[q].pc = "rotate",
                      token'[request'[q].token].next # None
               PROVE  token'[token'[request'[q].token].next].age = 0
    BY DEF PromptOK, Consumed, Elapsed
  <2>1. request'[q] = request[q] /\ request[q].token \in Tokens BY <1>6, <1>7 DEF Refreshes
  <2>2. token'[request[q].token].next = token[request[q].token].next
        /\ token[request[q].token].next \in Tokens
    BY <1>1, <1>3, <2>1
  <2>3. token[token[request[q].token].next].age = 0 BY <2>1, <2>2 DEF PromptOK, Consumed, Elapsed
  <2>4. QED BY <1>3, <2>1, <2>2, <2>3
<1>11. KeptOK'
  <2> SUFFICES ASSUME NEW t \in Tokens, Live(t)', (~Legacy(t))', token'[t].next # None,
                      token'[token'[t].next].next = None,
                      token'[token'[t].next].age <= ReplayWindow'
               PROVE  token'[t].sealed
    BY DEF KeptOK, Consumed, Elapsed
  <2>1. token'[t].next = token[t].next /\ token[t].next \in Tokens BY <1>1, <1>3
  <2>2. token[t].next # None /\ token[token[t].next].next = None
        /\ token[token[t].next].age <= ReplayWindow
    BY <1>3, <1>4, <2>1 DEF ReplayWindow
  <2>3. ~Legacy(t) /\ token[t].born BY <1>3, <1>8 DEF Live
  <2>4. token'[t].fam = token[t].fam /\ token[t].fam \in Families BY <2>3, KinStay, KinLiveTogether
  <2>5. granted' /\ family'[token[t].fam] # "dead" BY <2>4, OAuthAssumption DEF Live, Alive
  <2>6. Live(t)
    <3>1. family[token[t].fam] # "dead" BY <2>3, <2>4, <2>5, KinStay
    <3>2. QED BY <1>4, <2>3, <2>5, <3>1 DEF Live, Alive
  <2>7. token[t].sealed BY <2>2, <2>3, <2>6 DEF KeptOK, Consumed, Elapsed
  <2>8. QED BY <1>3, <2>3, <2>5, <2>7
<1>12. HonestIsServed'
  <2> SUFFICES ASSUME NEW q \in Requests, request'[q].pc \in {"refused", "revoke"},
                      holds'[request'[q].by] = request'[q].token,
                      (~Legacy(request[q].token))', request'[q].by \notin excused',
                      (~Dead(request[q].token))'
               PROVE  FALSE
    BY DEF HonestIsServed, Honest
  <2>1. PICK t \in Tokens : t = request'[q].token /\ token[t].born /\ request'[q] = request[q]
    BY <1>6, <1>7 DEF Refreshes
  <2>2. (~Legacy(t))' /\ (~Dead(t))' BY <2>1 DEF Legacy, Dead, SameChain
  <2>3. ~Legacy(t) BY <1>8, <2>1, <2>2
  <2>4. ~Dead(t) BY <2>1, <2>2, <2>3, DeadStays
  <2>5. QED BY <1>4, <2>1, <2>3, <2>4 DEF HonestIsServed, Honest
<1>13. QED BY <1>9, <1>10, <1>11, <1>12

-----------------------------------------------------------------------------
(* Theorems. *)

\* The invariant holds at the start ...
LEMMA SafeInitially == Init => Safe
<1>1. ASSUME Init PROVE OneEnd
  BY <1>1 DEF Init, OneEnd
<1>2. ASSUME Init, NEW t \in Tokens PROVE ~token[t].sealed
  <2>1. \A g : ~[Fresh(g) EXCEPT !.used = TRUE].sealed BY DEF Fresh, Unborn
  <2>2. ~Unborn.sealed BY DEF Unborn
  <2>3. QED BY <1>2, <2>1, <2>2 DEF Init
<1>3. Init => EnvelopesAreCurrent BY <1>2 DEF EnvelopesAreCurrent
<1>4. QED BY <1>1, <1>3, TypeInitially, StructureInitially DEF Safe

\* ... and after every step ...
LEMMA SafeStep == Safe /\ [Next]_vars => Safe'
<1> SUFFICES ASSUME Safe, [Next]_vars PROVE Safe' OBVIOUS
<1>1. TypeOK /\ Structure /\ AskedOK /\ OneEnd /\ EnvelopesAreCurrent BY DEF Safe, Structure
<1>2. TypeOK' BY <1>1, TypeStep
<1>3. Structure' BY <1>1, <1>2, StructureStep
<1>4. OneEnd' BY <1>1, <1>2, OneEndStep
<1>5. EnvelopesAreCurrent' BY <1>1, <1>2, <1>3, EnvelopesStep
<1>6. QED BY <1>2, <1>3, <1>4, <1>5 DEF Safe

\* ... and so always.
LEMMA Safety == Spec => []Safe
BY SafeInitially, SafeStep, PTL DEF Spec

\* The variables have their types.
THEOREM TypeCorrect == Spec => []TypeOK
<1>1. Safe => TypeOK BY DEF Safe
<1>2. QED BY <1>1, Safety, PTL

\* Chains do not fork (rotateRefreshToken's claim and the locks before it).
THEOREM OneEndPerChain == Spec => []OneEnd
<1>1. Safe => OneEnd BY DEF Safe
<1>2. QED BY <1>1, Safety, PTL

\* What is kept sealed may still be given (revokeFamilies, rotateRefreshToken).
THEOREM EnvelopesCurrent == Spec => []EnvelopesAreCurrent
<1>1. Safe => EnvelopesAreCurrent BY DEF Safe
<1>2. QED BY <1>1, Safety, PTL

\* No request under way revives what was revoked (the locks of rotateRefreshToken, the
\* families of endSiblingInstalls).
THEOREM RevokedForGood == Spec => RevokedStaysRevoked
<1>1. ASSUME Safe, Safe', [Next]_vars
      PROVE  [\A t \in Tokens : token[t].born /\ ~Legacy(t) /\ Dead(t)
                => Dead(t)' /\ SameChain(t)' = SameChain(t)]_vars
  <2>1. ASSUME NEW t \in Tokens, token[t].born, ~Legacy(t), Dead(t)
        PROVE  Dead(t)' /\ SameChain(t)' = SameChain(t)
    BY <1>1, <2>1, DeadStays, ChainGrows DEF Safe
  <2>2. QED BY <2>1
<1>2. QED BY <1>1, Safety, PTL DEF Spec, RevokedStaysRevoked

\* The answer past the strict window is for a pair nobody has used (replayWithinGrace).
THEOREM LateAnswerIsUnused == Spec => OnlyUnusedIsServedLate
<1>1. ASSUME Safe, [Next]_vars
      PROVE  [ \A r \in Requests :
                 (request[r].pc = "check" /\ request'[r].pc = "served" /\ request[r].late)
                   => token[request[r].token].next \notin acted ]_vars
  <2>1. ASSUME NEW r \in Requests,
               request[r].pc = "check", request'[r].pc = "served", request[r].late
        PROVE  token[request[r].token].next \notin acted
    BY <1>1, <2>1, LateIsUnused DEF Safe
  <2>2. QED BY <2>1
<1>2. QED BY <1>1, Safety, PTL DEF Spec, OnlyUnusedIsServedLate

\* Reuse ends the chain (revokeTokenFamily with the family the request has read).
THEOREM ReuseIsFinal == Spec => ReuseEndsTheChain
<1>1. ASSUME Safe, Safe', [Next]_vars
      PROVE  [ \A r \in Requests :
                 (request[r].pc = "revoke" /\ request'[r].pc = "refused" /\ ~Legacy(request[r].token))
                   => Dead(request[r].token)' ]_vars
  <2>1. ASSUME NEW r \in Requests,
               request[r].pc = "revoke", request'[r].pc = "refused", ~Legacy(request[r].token)
        PROVE  Dead(request[r].token)'
    BY <1>1, <2>1, RevokeEnds DEF Safe
  <2>2. QED BY <2>1
<1>2. QED BY <1>1, Safety, PTL DEF Spec, ReuseEndsTheChain

\* An app that refreshes the newest pair it has received is served: after lost answers,
\* beside its own duplicates, and past the strict window (the grace of 0105 and its
\* replay window).
THEOREM HonestServed == Spec => []HonestIsServed
<1>1. Init => Service
  <2> SUFFICES ASSUME Init PROVE Service OBVIOUS
  <2>1. Safe BY SafeInitially
  <2>2. \A t \in Tokens : token[t].next = None
    <3>1. \A g : [Fresh(g) EXCEPT !.used = TRUE].next = None BY DEF Fresh, Unborn
    <3>2. Unborn.next = None BY DEF Unborn
    <3>3. QED BY <3>1, <3>2 DEF Init
  <2>3. \A r \in Requests : request[r].pc = "idle" BY IdleIsOne DEF Init
  <2>4. \A i \in Installs : holds[i] \in Tokens BY <2>1 DEF Safe, TypeOK
  <2>5. QED BY <2>2, <2>3, <2>4 DEF Service, AheadOK, PromptOK, KeptOK, HonestIsServed, Consumed
<1>2. Safe /\ Safe' /\ Service /\ [Next]_vars => Service'
  <2> SUFFICES ASSUME Safe, Safe', Service, [Next]_vars PROVE Service' OBVIOUS
  <2>1. /\ TypeOK /\ TypeOK' /\ Structure /\ Structure' /\ RowsOK /\ HoldsOK /\ AskedOK
        /\ AheadOK /\ PromptOK /\ KeptOK /\ HonestIsServed
    BY DEF Safe, Service, Structure
  <2>2. CASE Quiet /\ Asking /\ Holding /\ Serving /\ Prompt /\ Refusing
    BY <2>1, <2>2, ServiceInQuiet DEF Service
  <2>3. ASSUME NEW r \in Requests,
               \/ \E i \in Installs : Lookup(r, i) \/ Logout(r, i) \/ SignOutStart(r, i)
               \/ RotateRefused(r) \/ Replayed(r) \/ Check(r) \/ RevokeTokenFamily(r)
               \/ Receive(r) \/ Gone(r)
        PROVE  Service'
    <3>1. Quiet /\ Asking /\ Holding BY <2>1, <2>3, QuietRefresh
    <3>2. Serving /\ Prompt /\ Refusing
      BY <2>1, <2>3, ServingRefresh, PromptRefresh, RefusingRefresh
    <3>3. QED BY <2>2, <3>1, <3>2
  <2>4. ASSUME RevokeGrant \/ Suspend \/ ClearEnvelopes \/ Sweep \/ Tick \/ UNCHANGED vars
               \/ \E i \in Installs : Use(i) \/ Restore(i)
        PROVE  Service'
    <3>1. Quiet /\ Asking /\ Holding BY <2>1, <2>4, QuietRows, QuietInstalls
    <3>2. Serving /\ Prompt /\ Refusing BY <2>1, <2>4, ServingElsewhere
    <3>3. QED BY <2>2, <3>1, <3>2
  <2>5. ASSUME NEW r \in Requests, Rotate(r) PROVE Service'
    BY <2>1, <2>5, ServiceInRotate DEF Service
  <2>6. ASSUME NEW r \in Requests, EndSiblingInstalls(r) PROVE Service'
    BY <2>1, <2>6, ServiceInSignOut DEF Service
  <2>7. ASSUME NEW i \in Installs, NEW tagged \in BOOLEAN, SignIn(i, tagged) PROVE Service'
    BY <2>1, <2>7, ServiceInSignIn DEF Service
  <2>8. QED BY <2>3, <2>4, <2>5, <2>6, <2>7 DEF Next
<1>3. Service => HonestIsServed BY DEF Service
<1>4. QED BY <1>1, <1>2, <1>3, Safety, PTL DEF Spec

-----------------------------------------------------------------------------
(* Sign-out-everywhere is exact. *)

\* What a request has read of its family is so until the family ends.
ReadOK ==
  \A r \in Requests :
    Refreshes(r) /\ request[r].fam # None /\ family[request[r].fam] # "dead"
      => token[request[r].token].fam = request[r].fam

\* Every chain has a pair that can be refreshed.
EndsOK ==
  \A t \in Tokens : token[t].born =>
    \E u \in Tokens : token[u].born /\ chain[u] = chain[t] /\ token[u].next = None

\* A chain that shares a family which has not ended is in it as a whole, and so is what is
\* about to be minted.
SharedOK ==
  \A t, u \in Tokens :
    /\ token[t].born /\ token[u].born /\ chain[t] # chain[u]
    /\ token[t].fam = token[u].fam /\ token[t].fam # None /\ family[token[t].fam] # "dead"
    => /\ \A v \in Tokens : token[v].born /\ chain[v] = chain[t] => token[v].fam = token[t].fam
       /\ \A r \in Requests : Refreshes(r) /\ chain[request[r].token] = chain[t] =>
            request[r].fam = token[t].fam

Sharing == ReadOK /\ EndsOK /\ SharedOK

\* The caller keeps family k, which is new and only the caller's, or the one it had.
SignedOut(r, k) ==
  LET t == request[r].token
      f == token[t].fam
      mine == {x \in SameChain(t) : token[x].fam = f}
  IN /\ \A g \in Families \ {k} : family'[g] # "live"
     /\ \A x \in Tokens : token[x].born => token'[x].fam \in Families
     /\ \/ /\ family[k] = "unused" /\ family'[k] = "live"
           /\ \A x \in Tokens : token[x].born => (token'[x].fam = k <=> x \in mine)
        \/ /\ k = f /\ ~Shared(f, mine) /\ family'[k] = family[k]
           /\ \A x \in Tokens : token[x].born => (token'[x].fam = k <=> token[x].fam = k)

\* Which families endSiblingInstalls leaves.
LEMMA SignOutKeeps ==
  ASSUME TypeOK, Structure, NEW r \in Requests, EndSiblingInstalls(r)
  PROVE  \E k \in Families : SignedOut(r, k)
<1> DEFINE t == request[r].token
           f == token[t].fam
           mine == {x \in SameChain(t) : token[x].fam = f}
           moves == f = None \/ Shared(f, mine)
           orphans == {x \in Tokens \ mine : token[x].born /\ token[x].fam = None}
           fresh == CHOOSE g \in Unused : TRUE
           keep == IF moves THEN fresh ELSE f
           sweep == CHOOSE g \in Unused \ {keep} : TRUE
           ended == {g \in Families \ {keep} :
                      family[g] = "live" \/ (orphans # {} /\ g = sweep)}
<1>1. /\ token \in [Tokens -> Pair] /\ t \in Tokens /\ token[t].born
      /\ family \in [Families -> {"unused", "live", "dead"}]
      /\ \A x \in Tokens : token[x].fam \in Families \cup {None}
  BY DEF TypeOK, Pair, Structure, AskedOK, EndSiblingInstalls
<1>2. /\ moves => fresh \in Families /\ family[fresh] = "unused"
      /\ orphans # {} => sweep \in Families /\ family[sweep] = "unused" /\ sweep # keep
  BY DEF EndSiblingInstalls, Unused
<1>3. /\ token' = [x \in Tokens |->
            CASE moves /\ x \in mine -> [token[x] EXCEPT !.fam = fresh]
              [] x \in orphans -> [token[x] EXCEPT !.fam = sweep, !.sealed = FALSE]
              [] OTHER -> [token[x] EXCEPT !.sealed = token[x].sealed /\ token[x].fam \notin ended]]
      /\ family' = [g \in Families |->
            CASE moves /\ g = fresh -> "live" [] g \in ended -> "dead" [] OTHER -> family[g]]
  BY DEF EndSiblingInstalls
<1>4. /\ \A g \in ended : g \in Families /\ g # keep /\ (family[g] = "live" \/ (orphans # {} /\ g = sweep))
      /\ \A g \in Families : g # keep /\ (family[g] = "live" \/ (orphans # {} /\ g = sweep)) => g \in ended
      /\ moves => keep = fresh
      /\ ~moves => keep = f /\ f # None /\ ~Shared(f, mine)
      /\ \A x \in Tokens : x \in orphans <=> x \notin mine /\ token[x].born /\ token[x].fam = None
      /\ \A x \in mine : x \in Tokens /\ token[x].fam = f
  BY DEF SameChain
<1>5. \A x \in Tokens : token[x].born /\ token[x].fam # None => family[token[x].fam] # "unused"
  BY DEF Structure, RowsOK
<1>6. SignedOut(r, keep) <=>
        /\ \A g \in Families \ {keep} : family'[g] # "live"
        /\ \A x \in Tokens : token[x].born => token'[x].fam \in Families
        /\ \/ /\ family[keep] = "unused" /\ family'[keep] = "live"
              /\ \A x \in Tokens : token[x].born => (token'[x].fam = keep <=> x \in mine)
           \/ /\ keep = f /\ ~Shared(f, mine) /\ family'[keep] = family[keep]
              /\ \A x \in Tokens : token[x].born => (token'[x].fam = keep <=> token[x].fam = keep)
  BY DEF SignedOut
<1> HIDE DEF mine, moves, orphans, fresh, keep, sweep, ended
<1>7. keep \in Families BY <1>1, <1>2, <1>4
<1>8. ASSUME NEW g \in Families \ {keep} PROVE family'[g] # "live"
  <2>1. ~(moves /\ g = fresh) BY <1>4
  <2>2. CASE g \in ended BY <1>3, <2>1, <2>2
  <2>3. CASE g \notin ended BY <1>3, <1>4, <2>1, <2>3
  <2>4. QED BY <2>2, <2>3
<1>9. \A x \in Tokens :
        token'[x].fam = IF moves /\ x \in mine THEN fresh
                        ELSE IF x \in orphans THEN sweep ELSE token[x].fam
  <2> SUFFICES ASSUME NEW x \in Tokens
               PROVE  token'[x].fam = IF moves /\ x \in mine THEN fresh
                                      ELSE IF x \in orphans THEN sweep ELSE token[x].fam
    OBVIOUS
  <2>1. token[x] \in Pair BY <1>1
  <2>2. CASE moves /\ x \in mine
    <3>1. token'[x] = [token[x] EXCEPT !.fam = fresh] BY <1>3, <1>4, <2>2
    <3>2. QED BY <2>1, <2>2, <3>1 DEF Pair
  <2>3. CASE ~(moves /\ x \in mine) /\ x \in orphans
    <3>1. token'[x] = [token[x] EXCEPT !.fam = sweep, !.sealed = FALSE] BY <1>3, <2>3
    <3>2. QED BY <2>1, <2>3, <3>1 DEF Pair
  <2>4. CASE ~(moves /\ x \in mine) /\ x \notin orphans
    <3>1. token'[x] = [token[x] EXCEPT !.sealed = token[x].sealed /\ token[x].fam \notin ended]
      BY <1>3, <2>4
    <3>2. QED BY <2>1, <2>4, <3>1 DEF Pair
  <2>5. QED BY <2>2, <2>3, <2>4
<1>10. \A x \in Tokens : token[x].born => token'[x].fam \in Families
  <2> SUFFICES ASSUME NEW x \in Tokens, token[x].born PROVE token'[x].fam \in Families OBVIOUS
  <2>1. CASE moves /\ x \in mine BY <1>2, <1>9, <2>1
  <2>2. CASE ~(moves /\ x \in mine) /\ x \in orphans BY <1>2, <1>9, <2>2
  <2>3. CASE ~(moves /\ x \in mine) /\ x \notin orphans
    <3>1. token[x].fam # None BY <1>4, <2>3
    <3>2. QED BY <1>1, <1>9, <2>3, <3>1
  <2>4. QED BY <2>1, <2>2, <2>3
<1>11. CASE moves
  <2>1. keep = fresh /\ family[keep] = "unused" /\ family'[keep] = "live"
    BY <1>2, <1>3, <1>4, <1>11
  <2>2. ASSUME NEW x \in Tokens, token[x].born PROVE token'[x].fam = keep <=> x \in mine
    <3>1. CASE x \in mine BY <1>9, <1>11, <2>1, <3>1
    <3>2. CASE x \notin mine /\ x \in orphans BY <1>2, <1>9, <2>1, <3>2
    <3>3. CASE x \notin mine /\ x \notin orphans
      <4>1. token[x].fam # None BY <1>4, <2>2, <3>3
      <4>2. QED BY <1>5, <1>9, <2>1, <2>2, <3>3, <4>1
    <3>4. QED BY <3>1, <3>2, <3>3
  <2>3. QED BY <1>6, <1>7, <1>8, <1>10, <2>1, <2>2
<1>12. CASE ~moves
  <2>1. keep = f /\ f # None /\ ~Shared(f, mine) /\ f \in Families BY <1>1, <1>4, <1>12
  <2>2. f \notin ended BY <1>4, <2>1
  <2>3. family'[f] = family[f] BY <1>3, <1>12, <2>1, <2>2
  <2>4. ASSUME NEW x \in Tokens, token[x].born PROVE token'[x].fam = keep <=> token[x].fam = keep
    <3>1. CASE x \in orphans BY <1>2, <1>4, <1>9, <1>12, <2>1, <3>1
    <3>2. CASE x \notin orphans BY <1>9, <1>12, <3>2
    <3>3. QED BY <3>1, <3>2
  <2>5. QED BY <1>6, <1>7, <1>8, <1>10, <2>1, <2>3, <2>4
<1>13. QED BY <1>11, <1>12

\* What is shared stays shared by whole chains, or ends.
LEMMA SharingInQuiet ==
  ASSUME TypeOK, TypeOK', Structure, Structure', Sharing, Quiet, Asking
  PROVE  Sharing'
<1>1. /\ \A x \in Tokens : chain[x] \in Tokens /\ token[x].fam \in Families \cup {None}
      /\ \A r \in Requests : request[r].fam \in Families \cup {None}
      /\ holds \in [Installs -> Tokens]
      /\ \A i \in Installs : token[holds[i]].born
  BY DEF TypeOK, Pair, Request, Structure, HoldsOK
<1>2. /\ chain' = chain
      /\ \A x \in Tokens : /\ token'[x].born = token[x].born /\ token'[x].next = token[x].next
                           /\ token'[x].fam = token[x].fam
      /\ \A g \in Families : family'[g] # "dead" => family[g] # "dead"
  BY DEF Quiet
<1>3. \A r \in Requests : Refreshes(r)' =>
        \/ /\ Refreshes(r) /\ request[r].token \in Tokens
           /\ request'[r].token = request[r].token /\ request'[r].fam = request[r].fam
        \/ /\ request'[r].token \in Tokens /\ token[request'[r].token].born
           /\ request'[r].fam = token[request'[r].token].fam
  BY <1>1 DEF Asking, Structure, AskedOK
<1>4. ReadOK'
  <2> SUFFICES ASSUME NEW r \in Requests, Refreshes(r)', request'[r].fam # None,
                      family'[request'[r].fam] # "dead"
               PROVE  token'[request'[r].token].fam = request'[r].fam
    BY DEF ReadOK, Refreshes
  <2>1. CASE /\ Refreshes(r) /\ request[r].token \in Tokens
             /\ request'[r].token = request[r].token /\ request'[r].fam = request[r].fam
    BY <1>1, <1>2, <2>1 DEF Sharing, ReadOK
  <2>2. CASE /\ request'[r].token \in Tokens
             /\ request'[r].fam = token[request'[r].token].fam
    BY <1>2, <2>2
  <2>3. QED BY <1>3, <2>1, <2>2
<1>5. EndsOK' BY <1>2 DEF Sharing, EndsOK
<1>6. SharedOK'
  <2> SUFFICES ASSUME NEW t \in Tokens, NEW u \in Tokens,
                      token'[t].born, token'[u].born, chain'[t] # chain'[u],
                      token'[t].fam = token'[u].fam, token'[t].fam # None,
                      family'[token'[t].fam] # "dead"
               PROVE  /\ \A v \in Tokens : token'[v].born /\ chain'[v] = chain'[t] =>
                           token'[v].fam = token'[t].fam
                      /\ \A r \in Requests : Refreshes(r)' /\ chain'[request'[r].token] = chain'[t] =>
                           request'[r].fam = token'[t].fam
    BY DEF SharedOK, Refreshes
  <2>1. /\ \A v \in Tokens : token[v].born /\ chain[v] = chain[t] => token[v].fam = token[t].fam
        /\ \A r \in Requests : Refreshes(r) /\ chain[request[r].token] = chain[t] =>
             request[r].fam = token[t].fam
    BY <1>1, <1>2 DEF Sharing, SharedOK
  <2>2. \A r \in Requests : Refreshes(r)' /\ chain[request'[r].token] = chain[t] =>
          request'[r].fam = token[t].fam
    BY <1>3, <2>1
  <2>3. QED BY <1>2, <2>1, <2>2
<1>7. QED BY <1>4, <1>5, <1>6 DEF Sharing

\* A successor is minted where its whole chain is.
LEMMA SharingInRotate ==
  ASSUME TypeOK, TypeOK', Structure, Structure', Sharing, NEW r \in Requests, Rotate(r)
  PROVE  Sharing'
<1> DEFINE x == request[r].token
           f == request[r].fam
<1>1. /\ chain \in [Tokens -> Tokens] /\ request \in [Requests -> Request]
      /\ x \in Tokens /\ token[x].born /\ Refreshes(r)
      /\ \A q \in Requests : Refreshes(q) =>
           request[q].token \in Tokens /\ token[request[q].token].born
      /\ \A t \in Tokens : token[t].born => token[chain[t]].born
  BY DEF TypeOK, Structure, AskedOK, RowsOK, Rotate, Refreshes
<1>2. PICK u \in Tokens : RotatedInto(r, u) BY RotateMints
<1>3. /\ ~token[u].born /\ x # u /\ u # None
      /\ token'[u].born /\ token'[u].fam = f /\ token'[u].next = None
      /\ chain'[u] = chain[x]
      /\ \A v \in Tokens : v # u =>
           /\ token'[v].born <=> token[v].born
           /\ token'[v].fam = token[v].fam
           /\ token'[v].next = IF v = x THEN u ELSE token[v].next
           /\ chain'[v] = chain[v]
  BY <1>2, OAuthAssumption DEF RotatedInto
<1>4. family' = family /\ (f # None => family[f] # "dead") BY DEF Rotate, StillAlive, Alive
<1>5. \A q \in Requests :
        /\ request'[q].token = request[q].token /\ request'[q].fam = request[q].fam
        /\ Refreshes(q)' => Refreshes(q)
  <2>1. request' = [request EXCEPT ![r].pc = "served"] BY DEF Rotate
  <2>2. QED BY <1>1, <2>1 DEF Request, Refreshes
<1>6. f # None => token[x].fam = f BY <1>1, <1>4 DEF Sharing, ReadOK
<1>7. ReadOK'
  <2> SUFFICES ASSUME NEW q \in Requests, Refreshes(q)', request'[q].fam # None,
                      family'[request'[q].fam] # "dead"
               PROVE  token'[request'[q].token].fam = request'[q].fam
    BY DEF ReadOK, Refreshes
  <2>1. Refreshes(q) /\ request[q].token \in Tokens /\ request[q].token # u
    BY <1>1, <1>3, <1>5
  <2>2. token[request[q].token].fam = request[q].fam BY <1>4, <1>5, <2>1 DEF Sharing, ReadOK
  <2>3. QED BY <1>3, <1>5, <2>1, <2>2
<1>8. EndsOK'
  <2> SUFFICES ASSUME NEW t \in Tokens, token'[t].born
               PROVE  \E e \in Tokens : /\ token'[e].born /\ chain'[e] = chain'[t]
                                        /\ token'[e].next = None
    BY DEF EndsOK
  <2>1. CASE chain'[t] = chain[x] BY <1>3, <2>1
  <2>2. CASE chain'[t] # chain[x]
    <3>1. t # u /\ token[t].born /\ chain'[t] = chain[t] BY <1>3, <2>2
    <3>2. PICK e \in Tokens : token[e].born /\ chain[e] = chain[t] /\ token[e].next = None
      BY <3>1 DEF Sharing, EndsOK
    <3>3. e # u /\ e # x BY <1>3, <2>2, <3>1, <3>2
    <3>4. QED BY <1>3, <3>1, <3>2, <3>3
  <2>3. QED BY <2>1, <2>2
<1>9. SharedOK'
  <2> SUFFICES ASSUME NEW t \in Tokens, NEW w \in Tokens,
                      token'[t].born, token'[w].born, chain'[t] # chain'[w],
                      token'[t].fam = token'[w].fam, token'[t].fam # None,
                      family'[token'[t].fam] # "dead"
               PROVE  /\ \A v \in Tokens : token'[v].born /\ chain'[v] = chain'[t] =>
                           token'[v].fam = token'[t].fam
                      /\ \A q \in Requests : Refreshes(q)' /\ chain'[request'[q].token] = chain'[t] =>
                           request'[q].fam = token'[t].fam
    BY DEF SharedOK, Refreshes
  \* The minted pair stands for the one it was asked with.
  <2> DEFINE Old(y) == IF y = u THEN x ELSE y
  <2>1. /\ Old(t) \in Tokens /\ token[Old(t)].born /\ chain[Old(t)] = chain'[t]
        /\ token[Old(t)].fam = token'[t].fam
    <3>1. CASE t = u BY <1>1, <1>3, <1>6, <3>1
    <3>2. CASE t # u BY <1>3, <3>2
    <3>3. QED BY <3>1, <3>2
  <2>2. /\ Old(w) \in Tokens /\ token[Old(w)].born /\ chain[Old(w)] = chain'[w]
        /\ token[Old(w)].fam = token'[w].fam
    <3>1. CASE w = u BY <1>1, <1>3, <1>6, <3>1
    <3>2. CASE w # u BY <1>3, <3>2
    <3>3. QED BY <3>1, <3>2
  <2> HIDE DEF Old
  <2>3. /\ \A v \in Tokens : token[v].born /\ chain[v] = chain'[t] => token[v].fam = token'[t].fam
        /\ \A q \in Requests : Refreshes(q) /\ chain[request[q].token] = chain'[t] =>
             request[q].fam = token'[t].fam
    BY <1>4, <2>1, <2>2 DEF Sharing, SharedOK
  <2>4. ASSUME NEW v \in Tokens, token'[v].born, chain'[v] = chain'[t]
        PROVE  token'[v].fam = token'[t].fam
    <3>1. CASE v = u
      <4>1. f = token'[t].fam BY <1>1, <1>3, <2>3, <2>4, <3>1
      <4>2. QED BY <1>3, <3>1, <4>1
    <3>2. CASE v # u BY <1>3, <2>3, <2>4, <3>2
    <3>3. QED BY <3>1, <3>2
  <2>5. ASSUME NEW q \in Requests, Refreshes(q)', chain'[request'[q].token] = chain'[t]
        PROVE  request'[q].fam = token'[t].fam
    <3>1. Refreshes(q) /\ request[q].token \in Tokens /\ request[q].token # u
      BY <1>1, <1>3, <1>5, <2>5
    <3>2. chain[request[q].token] = chain'[t] BY <1>3, <1>5, <2>5, <3>1
    <3>3. QED BY <1>5, <2>3, <3>1, <3>2
  <2>6. QED BY <2>4, <2>5
<1>10. QED BY <1>7, <1>8, <1>9 DEF Sharing

\* A sign-in shares nothing.
LEMMA SharingInSignIn ==
  ASSUME TypeOK, TypeOK', Structure, Structure', Sharing,
         NEW i \in Installs, NEW tagged \in BOOLEAN, SignIn(i, tagged)
  PROVE  Sharing'
<1>1. /\ \A x \in Tokens : chain[x] \in Tokens /\ token[x].fam \in Families \cup {None}
      /\ \A r \in Requests : request[r].fam \in Families \cup {None}
      /\ \A q \in Requests : Refreshes(q) =>
           request[q].token \in Tokens /\ token[request[q].token].born
      /\ \A q \in Requests : Refreshes(q) /\ request[q].fam # None =>
           family[request[q].fam] # "unused"
      /\ \A t \in Tokens : token[t].born => token[chain[t]].born
      /\ \A t \in Tokens : token[t].born /\ token[t].fam # None => family[token[t].fam] # "unused"
  BY DEF TypeOK, Pair, Request, Structure, AskedOK, RowsOK
<1>2. PICK u \in Tokens, f \in Families : SignedInWith(i, u, f) BY SignInBegins
<1>3. /\ ~token[u].born /\ family[f] = "unused"
      /\ token'[u].born /\ token'[u].fam = f /\ token'[u].next = None /\ chain'[u] = u
      /\ \A v \in Tokens : v # u =>
           /\ token'[v].born <=> token[v].born
           /\ token'[v].fam = token[v].fam
           /\ token'[v].next = token[v].next
           /\ chain'[v] = chain[v]
      /\ \A g \in Families : g # f /\ family'[g] # "dead" => family[g] # "dead"
  BY <1>2 DEF SignedInWith
<1>4. request' = request BY DEF SignIn
<1>5. /\ \A v \in Tokens : token[v].born => chain[v] # u /\ token[v].fam # f
      /\ \A q \in Requests : Refreshes(q) => request[q].token # u /\ request[q].fam # f
  BY <1>1, <1>3, OAuthAssumption
<1>6. ReadOK'
  <2> SUFFICES ASSUME NEW q \in Requests, Refreshes(q), request[q].fam # None,
                      family'[request[q].fam] # "dead"
               PROVE  token'[request[q].token].fam = request[q].fam
    BY <1>4 DEF ReadOK, Refreshes
  <2>1. family[request[q].fam] # "dead" BY <1>1, <1>3, <1>5
  <2>2. token[request[q].token].fam = request[q].fam BY <2>1 DEF Sharing, ReadOK
  <2>3. QED BY <1>1, <1>3, <1>5, <2>2
<1>7. EndsOK'
  <2> SUFFICES ASSUME NEW t \in Tokens, token'[t].born
               PROVE  \E e \in Tokens : /\ token'[e].born /\ chain'[e] = chain'[t]
                                        /\ token'[e].next = None
    BY DEF EndsOK
  <2>1. CASE t = u BY <1>3, <2>1
  <2>2. CASE t # u
    <3>1. PICK e \in Tokens : token[e].born /\ chain[e] = chain[t] /\ token[e].next = None
      BY <1>3, <2>2 DEF Sharing, EndsOK
    <3>2. e # u BY <1>3, <3>1
    <3>3. QED BY <1>3, <2>2, <3>1, <3>2
  <2>3. QED BY <2>1, <2>2
<1>8. SharedOK'
  <2> SUFFICES ASSUME NEW t \in Tokens, NEW w \in Tokens,
                      token'[t].born, token'[w].born, chain'[t] # chain'[w],
                      token'[t].fam = token'[w].fam, token'[t].fam # None,
                      family'[token'[t].fam] # "dead"
               PROVE  /\ \A v \in Tokens : token'[v].born /\ chain'[v] = chain'[t] =>
                           token'[v].fam = token'[t].fam
                      /\ \A q \in Requests : Refreshes(q) /\ chain'[request[q].token] = chain'[t] =>
                           request[q].fam = token'[t].fam
    BY <1>4 DEF SharedOK, Refreshes
  <2>1. t # u /\ w # u BY <1>3, <1>5
  <2>2. /\ \A v \in Tokens : token[v].born /\ chain[v] = chain[t] => token[v].fam = token[t].fam
        /\ \A q \in Requests : Refreshes(q) /\ chain[request[q].token] = chain[t] =>
             request[q].fam = token[t].fam
    <3>1. family[token[t].fam] # "dead" BY <1>1, <1>3, <1>5, <2>1
    <3>2. QED BY <1>3, <2>1, <3>1 DEF Sharing, SharedOK
  <2>3. QED BY <1>1, <1>3, <1>5, <2>1, <2>2
<1>9. QED BY <1>6, <1>7, <1>8 DEF Sharing

\* What lives after a sign-out-everywhere lives in the family the caller keeps.
LEMMA SharingInSignOut ==
  ASSUME TypeOK, TypeOK', Structure, Structure', Sharing,
         NEW r \in Requests, EndSiblingInstalls(r)
  PROVE  Sharing'
<1> DEFINE f == token[request[r].token].fam
           mine == {x \in SameChain(request[r].token) : token[x].fam = f}
<1>1. /\ \A x \in Tokens : token'[x].fam \in Families \cup {None}
      /\ \A q \in Requests : request[q].fam \in Families \cup {None}
      /\ \A q \in Requests : Refreshes(q) =>
           request[q].token \in Tokens /\ token[request[q].token].born
      /\ \A q \in Requests : Refreshes(q) /\ request[q].fam # None =>
           family[request[q].fam] # "unused"
      /\ \A t \in Tokens : token'[t].born /\ token'[t].fam # None => family'[token'[t].fam] # "unused"
      /\ \A g \in Families : family'[g] \in {"unused", "live", "dead"}
      /\ None \notin Families
  BY OAuthAssumption DEF TypeOK, Pair, Request, Structure, AskedOK, RowsOK
<1>2. PICK k \in Families : SignedOut(r, k) BY SignOutKeeps
<1>3. /\ \A g \in Families \ {k} : family'[g] # "live"
      /\ \/ /\ family[k] = "unused" /\ family'[k] = "live"
            /\ \A x \in Tokens : token[x].born => (token'[x].fam = k <=> x \in mine)
         \/ /\ family'[k] = family[k]
            /\ \A x \in Tokens : token[x].born => (token'[x].fam = k <=> token[x].fam = k)
  BY <1>2 DEF SignedOut
<1>4. /\ \A x \in mine : chain[x] = chain[request[r].token]
      /\ TRUE
  BY DEF SameChain
<1>5. /\ chain' = chain
      /\ \A x \in Tokens : (token'[x].born <=> token[x].born) /\ token'[x].next = token[x].next
      /\ \A g \in Families : family[g] # "unused" =>
           family'[g] = family[g] \/ (family[g] = "live" /\ family'[g] = "dead")
  BY SignOutMoves DEF MovedApart
<1>6. \A q \in Requests : Refreshes(q)' => Refreshes(q) /\ request'[q] = request[q]
  <2>1. request' = [request EXCEPT ![r] = Idle] BY DEF EndSiblingInstalls
  <2>2. QED BY <2>1, IdleIsOne DEF TypeOK, Refreshes
<1> HIDE DEF mine, f
<1>7. ReadOK'
  <2> SUFFICES ASSUME NEW q \in Requests, Refreshes(q), request'[q] = request[q],
                      request[q].fam # None, family'[request[q].fam] # "dead"
               PROVE  token'[request[q].token].fam = request[q].fam
    BY <1>6 DEF ReadOK, Refreshes
  <2>1. request[q].fam \in Families /\ family[request[q].fam] # "unused" BY <1>1
  <2>2. family'[request[q].fam] = "live" /\ family[request[q].fam] = "live"
    BY <1>1, <1>5, <2>1
  <2>3. request[q].fam = k BY <1>3, <2>1, <2>2
  <2>4. token[request[q].token].fam = k BY <2>2, <2>3 DEF Sharing, ReadOK
  <2>5. QED BY <1>1, <1>3, <2>1, <2>3, <2>4
<1>8. EndsOK' BY <1>5 DEF Sharing, EndsOK
<1>9. SharedOK'
  <2> SUFFICES ASSUME NEW t \in Tokens, NEW w \in Tokens,
                      token[t].born, token[w].born, chain[t] # chain[w],
                      token'[t].fam = token'[w].fam, token'[t].fam # None,
                      family'[token'[t].fam] # "dead"
               PROVE  /\ \A v \in Tokens : token[v].born /\ chain[v] = chain[t] =>
                           token'[v].fam = token'[t].fam
                      /\ \A q \in Requests :
                           /\ Refreshes(q) /\ request'[q] = request[q]
                           /\ chain[request[q].token] = chain[t]
                           => request[q].fam = token'[t].fam
    BY <1>5, <1>6 DEF SharedOK, Refreshes
  <2>1. token'[t].fam \in Families /\ family'[token'[t].fam] = "live" BY <1>1, <1>5
  <2>2. token'[t].fam = k /\ token'[w].fam = k BY <1>3, <2>1
  <2>3. ~(t \in mine /\ w \in mine) BY <1>4
  <2>4. /\ family'[k] = family[k]
        /\ \A x \in Tokens : token[x].born => (token'[x].fam = k <=> token[x].fam = k)
    BY <1>3, <2>2, <2>3
  <2>5. token[t].fam = k /\ token[w].fam = k /\ family[k] # "dead" /\ k # None
    BY <1>1, <2>1, <2>2, <2>4
  <2>6. /\ \A v \in Tokens : token[v].born /\ chain[v] = chain[t] => token[v].fam = k
        /\ \A q \in Requests : Refreshes(q) /\ chain[request[q].token] = chain[t] =>
             request[q].fam = k
    BY <2>5 DEF Sharing, SharedOK
  <2>7. QED BY <2>2, <2>4, <2>6
<1>10. QED BY <1>7, <1>8, <1>9 DEF Sharing

LEMMA SharingInitially == ASSUME Init PROVE Sharing
<1>1. TypeOK /\ Structure BY TypeInitially, StructureInitially
<1>2. chain = [t \in Tokens |-> t] /\ \A r \in Requests : ~Refreshes(r)
  BY IdleIsOne DEF Init, Refreshes
<1>3. \A t \in Tokens : token[t].next = None
  <2>1. \A g : [Fresh(g) EXCEPT !.used = TRUE].next = None BY DEF Fresh, Unborn
  <2>2. Unborn.next = None BY DEF Unborn
  <2>3. QED BY <2>1, <2>2 DEF Init
<1>4. QED BY <1>2, <1>3 DEF Sharing, ReadOK, EndsOK, SharedOK

LEMMA SharingStep ==
  ASSUME TypeOK, TypeOK', Structure, Structure', Sharing, [Next]_vars PROVE Sharing'
<1>1. ASSUME NEW r \in Requests, Rotate(r) PROVE Sharing' BY <1>1, SharingInRotate
<1>2. ASSUME NEW r \in Requests, EndSiblingInstalls(r) PROVE Sharing' BY <1>2, SharingInSignOut
<1>3. ASSUME NEW i \in Installs, NEW tagged \in BOOLEAN, SignIn(i, tagged) PROVE Sharing'
  BY <1>3, SharingInSignIn
<1>4. CASE Quiet /\ Asking BY <1>4, SharingInQuiet
<1>5. RowsOK /\ HoldsOK /\ AskedOK BY DEF Structure
<1>6. QED BY <1>1, <1>2, <1>3, <1>4, <1>5, QuietRefresh, QuietInstalls, QuietRows DEF Next

\* A pair beside the caller's chain lives on only in the caller's family, and then its chain
\* could still be refreshed there: but the caller would have moved out.
LEMMA OnlyMineLive ==
  ASSUME TypeOK, Structure, Structure', Sharing, NEW r \in Requests, EndSiblingInstalls(r)
  PROVE  LET t == request[r].token
             mine == {u \in SameChain(t) : token[u].fam = token[t].fam}
         IN /\ \A u \in Tokens \ mine : ~Live(u)'
            /\ \A u \in mine : Live(u) => Live(u)'
<1> DEFINE t == request[r].token
           f == token[t].fam
           mine == {u \in SameChain(t) : token[u].fam = f}
<1>1. t \in Tokens /\ token[t].born BY DEF Structure, AskedOK, EndSiblingInstalls
<1>2. /\ \A x \in Tokens : token'[x].born /\ token'[x].fam # None => family'[token'[x].fam] # "unused"
      /\ None \notin Families
  BY OAuthAssumption DEF Structure, RowsOK
<1>3. PICK k \in Families : SignedOut(r, k) BY SignOutKeeps
<1>4. /\ \A g \in Families \ {k} : family'[g] # "live"
      /\ \A x \in Tokens : token[x].born => token'[x].fam \in Families
      /\ \/ /\ family[k] = "unused" /\ family'[k] = "live"
            /\ \A x \in Tokens : token[x].born => (token'[x].fam = k <=> x \in mine)
         \/ /\ k = f /\ ~Shared(f, mine) /\ family'[k] = family[k]
            /\ \A x \in Tokens : token[x].born => (token'[x].fam = k <=> token[x].fam = k)
  BY <1>3 DEF SignedOut
<1>5. /\ granted /\ granted' = granted
      /\ \A x \in Tokens : token'[x].born <=> token[x].born
  BY SignOutMoves DEF MovedApart, EndSiblingInstalls
<1>6. /\ \A x \in mine : x \in Tokens /\ token[x].born /\ chain[x] = chain[t] /\ token[x].fam = f
      /\ \A x \in Tokens : token[x].born /\ chain[x] = chain[t] /\ token[x].fam = f => x \in mine
  BY DEF SameChain
<1>7. \A x \in Tokens : Live(x)' <=>
        token'[x].born /\ granted' /\ (token'[x].fam # None => family'[token'[x].fam] # "dead")
  BY DEF Live, Alive
<1>8. \A g \in Families : family'[g] \in {"unused", "live", "dead"}
  BY TypeSignOut DEF TypeOK
<1> HIDE DEF mine
<1>9. ASSUME NEW u \in Tokens, u \notin mine, Live(u)' PROVE FALSE
  <2>1. token[u].born /\ token'[u].fam \in Families /\ family'[token'[u].fam] = "live"
    BY <1>2, <1>4, <1>5, <1>7, <1>8, <1>9
  <2>2. token'[u].fam = k BY <1>4, <2>1
  <2>3. /\ k = f /\ ~Shared(f, mine) /\ family[k] = "live" /\ token[u].fam = k
    BY <1>4, <1>9, <2>1, <2>2
  <2>4. chain[u] # chain[t] BY <1>6, <1>9, <2>1, <2>3
  <2>5. \A v \in Tokens : token[v].born /\ chain[v] = chain[u] => token[v].fam = f
    BY <1>1, <1>2, <2>1, <2>3, <2>4 DEF Sharing, SharedOK
  <2>6. PICK e \in Tokens : token[e].born /\ chain[e] = chain[u] /\ token[e].next = None
    BY <2>1 DEF Sharing, EndsOK
  <2>7. e \notin mine BY <1>6, <2>4, <2>6
  <2>8. QED BY <2>3, <2>5, <2>6, <2>7 DEF Shared, Consumed
<1>10. ASSUME NEW u \in mine, Live(u) PROVE Live(u)'
  <2>1. u \in Tokens /\ token[u].born /\ token[u].fam = f BY <1>6
  <2>2. f # None => family[f] # "dead" BY <1>10, <2>1 DEF Live, Alive
  <2>3. token'[u].fam = k /\ family'[k] # "dead" BY <1>2, <1>4, <2>1, <2>2
  <2>4. QED BY <1>5, <1>7, <2>1, <2>3
<1>11. QED BY <1>9, <1>10 DEF mine

\* After a sign-out-everywhere exactly the caller's install is signed in, also where installs
\* shared a family or had none (endSiblingInstalls).
THEOREM SignOutEverywhere == Spec => SignOutIsExact
<1> DEFINE A == \A r \in Requests : EndSiblingInstalls(r) =>
                  LET t == request[r].token
                      mine == {u \in SameChain(t) : token[u].fam = token[t].fam}
                  IN /\ \A u \in Tokens \ mine : ~Live(u)'
                     /\ \A u \in mine : Live(u) => Live(u)'
<1>1. Init => Sharing BY SharingInitially
<1>2. Safe /\ Safe' /\ Sharing /\ [Next]_vars => Sharing' BY SharingStep DEF Safe
<1>3. Safe /\ Safe' /\ Sharing /\ [Next]_vars => [A]_vars BY OnlyMineLive DEF Safe
<1>4. QED BY <1>1, <1>2, <1>3, Safety, PTL DEF Spec, SignOutIsExact
=============================================================================
