----------------------------- MODULE OAuthRefresh -----------------------------
(***************************************************************************)
(* The token families of one OAuth grant: sign-in, refresh with rotation,  *)
(* the grace in which a rotated token is answered again, the detection of  *)
(* reuse, logout, revocation of the grant and sign-out-everywhere.         *)
(*                                                                         *)
(* A token stands for a pair, a refresh token and the access token minted  *)
(* with it.  The pairs of one install form a chain.  One action is one     *)
(* database transaction of oauthRepository.ts (or one read); a request     *)
(* keeps what it has read and acts on it later.                            *)
(*                                                                         *)
(* Time passes in ticks longer than any request: a pair's age says which   *)
(* of the windows it is still in.                                          *)
(***************************************************************************)
EXTENDS Integers

CONSTANTS
  Installs,  \* installs of the app, each one client of the grant
  Tokens,    \* bound: pairs that can be minted
  Families,  \* bound: token families
  Requests,  \* bound: requests under way at once
  Start,     \* the pair each install begins with
  Home,      \* the family a pair of Start begins in
  Origins,   \* where those families come from: own, shared, null
  Grace,     \* OAUTH_REFRESH_TOKEN_GRACE_SECONDS
  AccessTtl, \* OAUTH_ACCESS_TOKEN_TTL_SECONDS
  Window,    \* OAUTH_FIRST_PARTY_REFRESH_REPLAY_MAX_SECONDS
  None

ASSUME OAuthAssumption ==
  /\ Start \in [Installs -> Tokens] /\ Home \in [Installs -> Families]
  /\ \A i, j \in Installs : i # j => Start[i] # Start[j] /\ Home[i] # Home[j]
  /\ Origins \subseteq {"own", "shared", "null"} /\ Origins # {}
  /\ Grace \in Nat /\ AccessTtl \in Nat /\ Window \in Nat
  /\ Grace < AccessTtl /\ Grace < Window
  /\ None \notin Installs \cup Tokens \cup Families

VARIABLES
  firstParty, \* oauth_clients.is_first_party
  granted,    \* the grant is not revoked
  suspended,  \* a suspension has revoked it and not dropped its envelopes yet
  family,     \* unused (no such row), live, dead
  instance,   \* instance_id of a family
  token,      \* the pairs
  holds,      \* the newest pair an install has received
  request,    \* requests under way
  origin,     \* history: what 0119 and the rollout made of the pairs of Start
  chain,      \* history: the first pair of the chain a pair belongs to
  acted,      \* history: pairs whose access token got a request through
  excused     \* history: installs that did not behave as the grace expects

tables == <<firstParty, suspended, granted, family, instance, token>>
history == <<origin, chain, acted, excused>>
vars == <<tables, holds, request, history>>

\* next: the successor, set with consumed_at and never without it.
\* sealed: the successor's answer is kept on this row.
\* used: the access token's first_used_at.
\* fam: None is the NULL family of rows the previous release minted.
Pair == [born : BOOLEAN, fam : Families \cup {None}, next : Tokens \cup {None},
         sealed : BOOLEAN, used : BOOLEAN, age : Nat]

\* fam is what the request read and has since relied on; late and lost: its
\* answer would come after the strict window, it lost the race to rotate.
Request == [pc : {"idle", "rotate", "check", "revoke", "served", "refused",
                  "signout", "logout"},
            by : Installs \cup {None}, token : Tokens \cup {None},
            fam : Families \cup {None}, late : BOOLEAN, lost : BOOLEAN]

Idle == [pc |-> "idle", by |-> None, token |-> None, fam |-> None,
         late |-> FALSE, lost |-> FALSE]

TypeOK ==
  /\ firstParty \in BOOLEAN /\ granted \in BOOLEAN /\ suspended \in BOOLEAN
  /\ family \in [Families -> {"unused", "live", "dead"}]
  /\ instance \in [Families -> Installs \cup {None}]
  /\ token \in [Tokens -> Pair]
  /\ holds \in [Installs -> Tokens]
  /\ request \in [Requests -> Request]
  /\ origin \in {"own", "shared", "null"}
  /\ chain \in [Tokens -> Tokens]
  /\ acted \in SUBSET Tokens
  /\ excused \in SUBSET Installs

Unborn == [born |-> FALSE, fam |-> None, next |-> None, sealed |-> FALSE,
           used |-> FALSE, age |-> 0]
Fresh(f) == [Unborn EXCEPT !.born = TRUE, !.fam = f]

\* The backfill of 0119 gave every existing grant one family, which all its
\* installs share; rows minted beside it have none.
FirstFamily(o, i) ==
  CASE o = "own" -> Home[i]
    [] o = "shared" -> Home[CHOOSE j \in Installs : TRUE]
    [] o = "null" -> None

Init ==
  /\ firstParty \in BOOLEAN /\ granted = TRUE /\ suspended = FALSE
  /\ origin \in Origins
  /\ family = [f \in Families |->
                IF \E i \in Installs : FirstFamily(origin, i) = f THEN "live" ELSE "unused"]
  /\ instance = [f \in Families |->
                  IF origin = "own" /\ \E i \in Installs : Home[i] = f
                  THEN CHOOSE i \in Installs : Home[i] = f ELSE None]
  /\ token = [t \in Tokens |->
               IF \E i \in Installs : Start[i] = t
               THEN [Fresh(FirstFamily(origin, CHOOSE i \in Installs : Start[i] = t))
                       EXCEPT !.used = TRUE]
               ELSE Unborn]
  /\ holds = Start
  /\ request = [r \in Requests |-> Idle]
  /\ chain = [t \in Tokens |-> t]
  /\ acted = {t \in Tokens : token[t].used} /\ excused = {}

-----------------------------------------------------------------------------
(* Reading the rows. *)

Consumed(t) == token[t].next # None

\* Every lookup joins the grant, and the family where there is one.
Alive(f) == granted /\ (f # None => family[f] # "dead")
Live(t) == token[t].born /\ Alive(token[t].fam)

\* The access token authenticates: findAccessTokenByHash and its expiry.
Authenticates(t) == Live(t) /\ token[t].age < AccessTtl

\* A successor is as old as its predecessor's consumption.
Elapsed(t) == token[token[t].next].age

\* oauthRefreshReplayWindowSeconds
ReplayWindow == IF firstParty THEN Window ELSE Grace

SameChain(t) == {u \in Tokens : token[u].born /\ chain[u] = chain[t]}
Dead(t) == \A u \in Tokens : chain[u] = chain[t] => ~Live(u)

Unminted == {t \in Tokens : ~token[t].born}
Unused == {f \in Families : family[f] = "unused"}

\* Nobody else shares the family of a chain unless it was there before families.
Legacy(t) == origin # "own" /\ \E i \in Installs : Start[i] = chain[t]

-----------------------------------------------------------------------------
(* A refresh: look the token up; then rotate it, or answer again, or revoke. *)

\* replayWithinGrace up to its read of the access token, for a consumed token.
GraceVerdict(t) ==
  CASE Elapsed(t) > ReplayWindow -> "reuse"
    [] Elapsed(t) <= ReplayWindow /\ Consumed(token[t].next) -> "reuse"
    [] Elapsed(t) <= ReplayWindow /\ ~Consumed(token[t].next) /\ ~token[t].sealed ->
         IF Elapsed(t) > Grace THEN "reuse" ELSE "unavailable"
    [] OTHER -> "check"

AfterUnhandled(verdict, lost) ==
  CASE verdict = "check" \/ lost -> verdict
    [] verdict = "reuse" /\ ~lost -> "revoke"
    [] OTHER -> "refused"

\* What a verdict costs: only a token that was consumed when it was presented
\* may revoke; the loser of a race is refused.
After(verdict, lost) ==
  CASE verdict = "check" -> "check"
    [] verdict = "reuse" /\ ~lost -> "revoke"
    [] OTHER -> "refused"

ReadDropsEarly(t) == Consumed(t) /\ Elapsed(t) > Grace

\* readRefreshToken drops an envelope whose window has passed.
ReadDrops(t) == Consumed(t) /\ Elapsed(t) > ReplayWindow

\* An app refreshes the pair it holds whenever it likes, and again as long as it has
\* no answer.
Lookup(r, i) ==
  LET t == holds[i] IN
  /\ request[r].pc = "idle"
  /\ request' = [request EXCEPT ![r] =
       [pc |-> IF ~Live(t) THEN "refused"
               ELSE IF ~Consumed(t) THEN "rotate" ELSE After(GraceVerdict(t), FALSE),
        by |-> i, token |-> t, fam |-> token[t].fam,
        late |-> Consumed(t) /\ Elapsed(t) > Grace, lost |-> FALSE]]
  /\ token' = [token EXCEPT ![t].sealed = @ /\ ~ReadDrops(t)]
  \* The window has passed before the app came back.
  /\ excused' = IF Consumed(t) /\ Elapsed(t) > ReplayWindow THEN excused \cup {i} ELSE excused
  /\ UNCHANGED <<firstParty, suspended, granted, family, instance, holds, origin, chain, acted>>

StillAliveUnread(r) == TRUE

\* The locks that rotateRefreshToken takes first re-read the grant, and the family
\* the request knows of.
StillAlive(r) == Alive(request[r].fam)

ClaimsBlindly(t) == TRUE

\* The claim: consumed_at IS NULL.
Claims(t) == ~Consumed(t)

RotateRefused(r) ==
  /\ request[r].pc = "rotate" /\ ~StillAlive(r)
  /\ request' = [request EXCEPT ![r].pc = "refused"]
  /\ UNCHANGED <<tables, holds, history>>

SuccessorWithoutFamily(r) == Fresh(None)

\* The successor is minted into the family the request has read.
Successor(r) == Fresh(request[r].fam)

\* The pair is sealed on the row of the consumed token, and the envelope
\* that would answer the consumed token's predecessor goes.
Rotate(r) ==
  LET t == request[r].token
      u == CHOOSE v \in Unminted : TRUE
  IN /\ request[r].pc = "rotate" /\ StillAlive(r) /\ Claims(t) /\ Unminted # {}
     /\ token' = [v \in Tokens |->
          CASE v = u -> Successor(r)
            [] v = t -> [token[t] EXCEPT !.next = u, !.sealed = TRUE]
            [] token[v].next = t -> [token[v] EXCEPT !.sealed = FALSE]
            [] OTHER -> token[v]]
     /\ chain' = [chain EXCEPT ![u] = chain[t]]
     /\ request' = [request EXCEPT ![r].pc = "served"]
     /\ UNCHANGED <<firstParty, suspended, granted, family, instance, holds, origin, acted, excused>>

\* The claim was lost to another request: read again, and apply the grace rule.
Replayed(r) ==
  LET t == request[r].token IN
  /\ request[r].pc = "rotate" /\ StillAlive(r) /\ ~Claims(t)
  /\ request' = [request EXCEPT ![r] =
       [@ EXCEPT !.lost = TRUE, !.late = Elapsed(t) > Grace, !.pc = After(GraceVerdict(t), TRUE)]]
  /\ token' = [token EXCEPT ![t].sealed = @ /\ ~ReadDrops(t)]
  /\ UNCHANGED <<firstParty, suspended, granted, family, instance, holds, history>>

\* Past the strict window the pair must not have been used by anyone.
CheckVerdict(r) ==
  LET u == token[request[r].token].next IN
  CASE ~Live(u) -> "unavailable"
    [] Live(u) /\ request[r].late /\ token[u].used -> "reuse"
    [] OTHER -> "served"

Check(r) ==
  /\ request[r].pc = "check"
  /\ request' = [request EXCEPT ![r].pc =
       IF CheckVerdict(r) = "served" THEN "served" ELSE After(CheckVerdict(r), request[r].lost)]
  /\ UNCHANGED <<tables, holds, history>>

-----------------------------------------------------------------------------
(* Revocation. *)

\* revokeFamilies: the families and the envelopes of their rows.
Revoked(fs) ==
  /\ family' = [f \in Families |-> IF f \in fs THEN "dead" ELSE family[f]]
  /\ token' = [t \in Tokens |->
                [token[t] EXCEPT !.sealed = @ /\ token[t].fam \notin fs]]

\* clearGrantEnvelopes
EnvelopesDropped == token' = [t \in Tokens |-> [token[t] EXCEPT !.sealed = FALSE]]

\* revokeGrant
GrantRevoked == granted' = FALSE /\ EnvelopesDropped

\* revokeTokenFamily: the family the request has read; no family is the grant.
RevokeTokenFamily(r) ==
  LET f == request[r].fam IN
  /\ request[r].pc \in {"revoke", "logout"}
  /\ \/ /\ f = None /\ granted
        /\ GrantRevoked /\ UNCHANGED family
     \/ /\ f # None /\ granted /\ family[f] = "live"
        /\ Revoked({f}) /\ UNCHANGED granted
     \/ /\ ~granted \/ (f # None /\ family[f] = "dead")
        /\ UNCHANGED <<granted, family, token>>
  /\ request' = [request EXCEPT ![r] = IF @.pc = "logout" THEN Idle ELSE [@ EXCEPT !.pc = "refused"]]
  /\ UNCHANGED <<firstParty, suspended, instance, holds, history>>

\* A bearer's logout, or the revocation endpoint, which finds a token in any state.
Logout(r, i) ==
  /\ request[r].pc = "idle"
  /\ request' = [request EXCEPT ![r] =
       [Idle EXCEPT !.pc = "logout", !.fam = token[holds[i]].fam]]
  /\ UNCHANGED <<tables, holds, history>>

\* Settings, a password change or reset, an emptied scope ceiling: one transaction.
RevokeGrant ==
  /\ granted /\ GrantRevoked
  /\ UNCHANGED <<firstParty, suspended, family, instance, holds, request, history>>

\* An account's suspension revokes the grant in one statement and drops the envelopes
\* in a later one, which a crash between the two leaves to a repair, if there is one.
Suspend ==
  /\ granted /\ granted' = FALSE /\ suspended' = TRUE
  /\ UNCHANGED <<firstParty, family, instance, token, holds, request, history>>

ClearEnvelopes ==
  /\ suspended /\ ~granted /\ suspended' = FALSE /\ EnvelopesDropped
  /\ UNCHANGED <<firstParty, granted, family, instance, holds, request, history>>

\* Sign-out-everywhere from an official app: authenticated first ...
SignOutStart(r, i) ==
  /\ request[r].pc = "idle" /\ firstParty /\ Authenticates(holds[i])
  /\ request' = [request EXCEPT ![r] =
       [Idle EXCEPT !.pc = "signout", !.token = holds[i]]]
  /\ token' = [token EXCEPT ![holds[i]].used = TRUE]
  /\ acted' = acted \cup {holds[i]}
  /\ UNCHANGED <<firstParty, suspended, granted, family, instance, holds, origin, chain, excused>>

SharedNever(f, mine) == FALSE
SharedAlways(f, mine) == TRUE

\* Somebody else's chain can still be refreshed in family f.
Shared(f, mine) ==
  \E u \in Tokens \ mine : token[u].born /\ token[u].fam = f /\ ~Consumed(u)

\* ... then, in one transaction, endSiblingInstalls: the caller's chain moves to a
\* family of its own if it shares one or has none, what is left without a family
\* goes into another, and every family but the caller's is revoked.
EndSiblingInstalls(r) ==
  LET t == request[r].token
      f == token[t].fam
      mine == {u \in SameChain(t) : token[u].fam = f}
      moves == f = None \/ Shared(f, mine)
      orphans == {u \in Tokens \ mine : token[u].born /\ token[u].fam = None}
      fresh == CHOOSE g \in Unused : TRUE
      keep == IF moves THEN fresh ELSE f
      sweep == CHOOSE g \in Unused \ {keep} : TRUE
      ended == {g \in Families \ {keep} :
                 family[g] = "live" \/ (orphans # {} /\ g = sweep)}
  IN /\ request[r].pc = "signout" /\ granted
     /\ moves => Unused # {}
     /\ orphans # {} => Unused \ {keep} # {}
     /\ family' = [g \in Families |->
          CASE moves /\ g = fresh -> "live" [] g \in ended -> "dead" [] OTHER -> family[g]]
     /\ token' = [u \in Tokens |->
          CASE moves /\ u \in mine -> [token[u] EXCEPT !.fam = fresh]
            [] u \in orphans -> [token[u] EXCEPT !.fam = sweep, !.sealed = FALSE]
            [] OTHER -> [token[u] EXCEPT !.sealed = @ /\ token[u].fam \notin ended]]
     /\ request' = [request EXCEPT ![r] = Idle]
     /\ UNCHANGED <<firstParty, suspended, granted, instance, holds, history>>

-----------------------------------------------------------------------------
(* The installs. *)

\* The answer arrives.  An app that has a newer pair by now keeps it.
Receive(r) ==
  LET i == request[r].by IN
  /\ request[r].pc = "served"
  /\ holds' = IF holds[i] = request[r].token
              THEN [holds EXCEPT ![i] = token[request[r].token].next] ELSE holds
  /\ request' = [request EXCEPT ![r] = Idle]
  /\ UNCHANGED <<tables, history>>

\* The request, its process or its answer is lost; or the app was refused.
Gone(r) ==
  /\ request[r].pc # "idle"
  /\ request' = [request EXCEPT ![r] = Idle]
  /\ UNCHANGED <<tables, holds, history>>

StampedNever(t) == token

\* authenticateToken stamps the first use before it lets the request through.
Stamped(t) == [token EXCEPT ![t].used = TRUE]

Use(i) ==
  /\ Authenticates(holds[i])
  /\ token' = Stamped(holds[i])
  /\ acted' = acted \cup {holds[i]}
  /\ UNCHANGED <<firstParty, suspended, granted, family, instance, holds, request, origin, chain,
                 excused>>

\* A sign-in: the code exchange retires the live families of the same instance and
\* starts one.  (Without a grant it would create one, which is another story.)
Retired(i, tagged) ==
  {f \in Families : tagged /\ family[f] = "live" /\ instance[f] = i}
SignIn(i, tagged) ==
  LET u == CHOOSE v \in Unminted : TRUE
      f == CHOOSE g \in Unused : TRUE
      gone == Retired(i, tagged)
  IN /\ granted /\ Unminted # {} /\ Unused # {}
     /\ \A r \in Requests : request[r].by # i
     /\ family' = [g \in Families |->
          CASE g = f -> "live" [] g \in gone -> "dead" [] OTHER -> family[g]]
     /\ instance' = [instance EXCEPT ![f] = IF tagged THEN i ELSE None]
     /\ token' = [v \in Tokens |->
          IF v = u THEN Fresh(f)
          ELSE [token[v] EXCEPT !.sealed = @ /\ token[v].fam \notin gone]]
     /\ chain' = [chain EXCEPT ![u] = u]
     /\ holds' = [holds EXCEPT ![i] = u]
     /\ excused' = excused \ {i}
     /\ UNCHANGED <<firstParty, suspended, granted, request, origin, acted>>

\* The device is restored from a backup that holds the pair before (bound: one
\* install at a time, until it signs in).
Restore(i) ==
  /\ excused = {}
  /\ \E t \in Tokens : token[t].next = holds[i] /\ holds' = [holds EXCEPT ![i] = t]
  /\ excused' = excused \cup {i}
  /\ UNCHANGED <<tables, request, origin, chain, acted>>

\* clearExpiredSuccessorEnvelopes, after a rotation or daily.
Sweep ==
  /\ \E t \in Tokens : token[t].sealed /\ ReadDrops(t)
  /\ token' = [t \in Tokens |-> [token[t] EXCEPT !.sealed = @ /\ ~ReadDrops(t)]]
  /\ UNCHANGED <<firstParty, suspended, granted, family, instance, holds, request, history>>

\* A pair ages until nothing depends on it: the windows of its predecessor, if it
\* has one, or else the life of its access token.
Ripe(t) == IF \E u \in Tokens : token[u].next = t THEN Window + 1 ELSE AccessTtl
Tick ==
  /\ \A r \in Requests : request[r] = Idle
  /\ token' = [t \in Tokens |->
                [token[t] EXCEPT !.age = IF token[t].born /\ @ < Ripe(t) THEN @ + 1 ELSE @]]
  /\ token' # token
  /\ UNCHANGED <<firstParty, suspended, granted, family, instance, holds, request, history>>

Next ==
  \/ \E r \in Requests, i \in Installs : Lookup(r, i) \/ Logout(r, i) \/ SignOutStart(r, i)
  \/ \E r \in Requests :
       \/ RotateRefused(r) \/ Rotate(r) \/ Replayed(r) \/ Check(r)
       \/ RevokeTokenFamily(r) \/ EndSiblingInstalls(r) \/ Receive(r) \/ Gone(r)
  \/ \E i \in Installs : Use(i) \/ Restore(i) \/ \E tagged \in BOOLEAN : SignIn(i, tagged)
  \/ RevokeGrant \/ Suspend \/ ClearEnvelopes \/ Sweep \/ Tick

Spec == Init /\ [][Next]_vars

-----------------------------------------------------------------------------
(* Properties. *)

\* A chain never forks: however many requests present a token, and whatever is
\* lost, one pair of each chain can be refreshed, and no other.
OneEnd ==
  \A t, u \in Tokens :
    token[t].born /\ token[u].born /\ chain[t] = chain[u] /\ ~Consumed(t) /\ ~Consumed(u)
      => t = u

\* A chain that was revoked, by logout, reuse, a new sign-in or with its grant,
\* stays so: no request already under way mints into it, be the pair dead from the
\* start, or moves it elsewhere.
RevokedStaysRevoked ==
  [][ \A t \in Tokens : token[t].born /\ ~Legacy(t) /\ Dead(t)
        => Dead(t)' /\ SameChain(t)' = SameChain(t) ]_vars

\* Nobody revoked the chain, and the app came back in time with its newest pair.
Honest(q) == ~Legacy(q.token) /\ q.by \notin excused /\ ~Dead(q.token)

\* An app that refreshes the newest pair it has received, twice at once or again
\* after a lost answer, is served as long as it comes back in time.
HonestIsServed ==
  \A r \in Requests :
    LET q == request[r] IN
    q.pc \in {"refused", "revoke"} /\ holds[q.by] = q.token => ~Honest(q)

\* Past the strict window a pair is handed out again only if nobody ever got a
\* request through with it.
OnlyUnusedIsServedLate ==
  [][ \A r \in Requests :
        (request[r].pc = "check" /\ request'[r].pc = "served" /\ request[r].late)
          => token[request[r].token].next \notin acted ]_vars

\* A token that is presented although a newer one of its chain has been refreshed
\* ends the chain, by the time its request is answered.
ReuseEndsTheChain ==
  [][ \A r \in Requests :
        (request[r].pc = "revoke" /\ request'[r].pc = "refused" /\ ~Legacy(request[r].token))
          => Dead(request[r].token)' ]_vars

\* A sealed answer is kept only as long as it may be given: not for a revoked chain,
\* nor when the pair in it has been refreshed; and under a revoked grant only until a
\* suspension's own clean-up, never because a request sealed it late.
EnvelopesAreCurrent ==
  \A t \in Tokens : token[t].sealed =>
    /\ granted \/ suspended
    /\ ~Legacy(t) => /\ token[t].fam # None => family[token[t].fam] # "dead"
                     /\ Consumed(t) /\ ~Consumed(token[t].next)

\* Sign-out-everywhere from an app leaves exactly its own install signed in, also
\* where installs share a family or have none: of its chain, what is in its family.
SignOutIsExact ==
  [][ \A r \in Requests : EndSiblingInstalls(r) =>
        LET t == request[r].token
            mine == {u \in SameChain(t) : token[u].fam = token[t].fam}
        IN /\ \A u \in Tokens \ mine : ~Live(u)'
           /\ \A u \in mine : Live(u) => Live(u)' ]_vars

-----------------------------------------------------------------------------
(* What the code says and does not keep. *)

\* "a lost answer retried hours later (a killed process, a dead network) never signs
\* the phone out"; "A concurrent loser never revokes".
NeverSignsThePhoneOut ==
  \A r \in Requests : request[r].pc = "revoke" => ~Honest(request[r])
===============================================================================
