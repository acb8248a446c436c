--------------------------- MODULE MirrorMembership ---------------------------
(***************************************************************************)
(* Who belongs to one MIRRORCHAIN group portfolio, and with which role:    *)
(* invitations, joins, kicks, departures, ownership and its succession,    *)
(* dissolution, account deletion and the repair sweep.                     *)
(*                                                                         *)
(* Every operation runs under the chain lock, so at most one is under way  *)
(* (`task'); each of its steps is one statement of mirrorService.ts, and a *)
(* crash may leave the rest undone.  MirrorReplication says what the lock  *)
(* is worth, and what membership means for the copies.                     *)
(***************************************************************************)
EXTENDS Integers, FiniteSets

CONSTANTS
  Users,
  Founder,      \* who created the group
  MaxMembers,   \* MIRROR_MAX_MEMBERS
  None,
  LateAccepts,  \* may a request outlive the sessions of a closing account?
  MaxJoins,     \* bound: joins
  MaxCrashes    \* bound: crashes and failed statements

ASSUME MembershipAssumption ==
  /\ Founder \in Users /\ None \notin Users
  /\ MaxMembers \in Nat \ {0} /\ MaxJoins \in Nat /\ MaxCrashes \in Nat
  /\ LateAccepts \in BOOLEAN

VARIABLES
  chain,     \* mirror_chains.status: active, dissolved
  announced, \* chain.dissolved is in the op log
  active,    \* users with an active membership row
  role,      \* role of that row
  rank,      \* joined_at of that row
  joins,     \* joins so far, the clock of joined_at
  invite,    \* the pending invite to each user, None if there is none
  account,   \* live, closing (handed off, row not yet deleted), gone
  task,      \* the operation that holds the chain lock
  crashes

roster == <<active, role, rank>>
vars == <<chain, announced, roster, joins, invite, account, task, crashes>>

Roles == {"owner", "manager", "member"}
\* None: the sender's account is gone.
Invite == [from : Users \cup {None}]

\* `todo' are the memberships that the loop at hand has yet to end.
Task == [kind : {"none", "accept", "transfer", "depart", "close", "dissolve", "sweep"},
         pc : {"idle", "insert", "consume", "crown", "succeed", "end", "announce",
               "mark", "handed"},
         user : Users \cup {None}, todo : SUBSET Users]

NoTask == [kind |-> "none", pc |-> "idle", user |-> None, todo |-> {}]
Begins(kind, pc, user, todo) ==
  task' = [kind |-> kind, pc |-> pc, user |-> user, todo |-> todo]
Free == task = NoTask

TypeOK ==
  /\ chain \in {"active", "dissolved"} /\ announced \in BOOLEAN
  /\ active \in SUBSET Users
  /\ role \in [Users -> Roles] /\ rank \in [Users -> Nat] /\ joins \in Nat
  /\ invite \in [Users -> Invite \cup {None}]
  /\ account \in [Users -> {"live", "closing", "gone"}]
  /\ task \in Task
  /\ crashes \in Nat

Init ==
  /\ chain = "active" /\ announced = FALSE
  /\ active = {Founder}
  /\ role = [u \in Users |-> IF u = Founder THEN "owner" ELSE "member"]
  /\ rank = [u \in Users |-> 0] /\ joins = 0
  /\ invite = [u \in Users |-> None]
  /\ account = [u \in Users |-> "live"]
  /\ task = NoTask
  /\ crashes = 0

-----------------------------------------------------------------------------
(* Authority. *)

Owners == {u \in active : role[u] = "owner"}
Managers == {u \in active : role[u] = "manager"}

\* roleCan: stewards invite, revoke and kick plain members; the rest is the owner's.
Steward(u) == u \in active /\ role[u] \in {"owner", "manager"}
Owner(u) == u \in active /\ role[u] = "owner"
MayKick(a, u) == IF role[u] = "member" THEN Steward(a) ELSE Owner(a) /\ role[u] = "manager"

\* listActiveMembers is ordered by joined_at.
Earliest(S) == CHOOSE u \in S : \A v \in S : rank[u] <= rank[v]

Live(u) == account[u] = "live"
Exists(u) == account[u] # "gone"

\* endMembership; a row that is not active keeps neither role nor rank here.
EndsMembership(u) ==
  /\ active' = active \ {u}
  /\ role' = [role EXCEPT ![u] = "member"]
  /\ rank' = [rank EXCEPT ![u] = 0]

\* A lifecycle operation: the lock, and an active chain under it.
Opens == Free /\ chain = "active"

-----------------------------------------------------------------------------
(* Invitations. *)

\* Friendship is the social service's and comes and goes: an invite is sent to a
\* friend, and at redemption the two may or may not be friends any more.
InviteMember(a, u) ==
  /\ Opens /\ Live(a) /\ Exists(u) /\ a # u
  /\ Steward(a) /\ u \notin active /\ invite[u] = None
  /\ Cardinality(active) < MaxMembers
  /\ invite' = [invite EXCEPT ![u] = [from |-> a]]
  /\ UNCHANGED <<chain, announced, roster, joins, account, task, crashes>>

Withdraws(u) ==
  /\ invite[u] # None
  /\ invite' = [invite EXCEPT ![u] = None]
  /\ UNCHANGED <<chain, announced, roster, joins, account, task, crashes>>

\* Thirty days pass: an expired row is refused, and replaced by the next invite,
\* long before inviteCleanup retires it, so it is as good as gone.
Expire(u) == Withdraws(u)
Decline(u) == Free /\ Live(u) /\ Withdraws(u)
Revoke(a, u) == Free /\ Live(a) /\ Steward(a) /\ Withdraws(u)

\* A request that passed authentication may still be running while the account
\* that sent it is being deleted.
MayAccept(u) == Live(u) \/ (LateAccepts /\ account[u] = "closing")

AuthorizedAtSend(u) == TRUE

\* Authority is checked at redemption, on the roster of that moment.
Authorized(u) == invite[u].from # None /\ Steward(invite[u].from)

\* acceptInvite retires an invite that is worth nothing any more (the last case
\* is the end of a friendship), and one whose earlier redemption was cut off
\* before it was marked.
AcceptVoid(u) ==
  /\ Free /\ MayAccept(u)
  /\ Withdraws(u)
  /\ \/ chain # "active"
     \/ u \in active
     \/ ~Authorized(u)
     \/ invite[u].from # None

CapRoomAtSend == TRUE
CapRoom == Cardinality(active) < MaxMembers

AcceptInvite(u) ==
  /\ Opens /\ MayAccept(u) /\ joins < MaxJoins
  /\ invite[u] # None /\ invite[u].from # None
  /\ u \notin active /\ Authorized(u) /\ CapRoom
  /\ Begins("accept", "insert", u, {})
  /\ UNCHANGED <<chain, announced, roster, joins, invite, account, crashes>>

JoinedAtBackdated == joins - 1

\* joined_at is the clock of the insert.
JoinedAt == joins + 1

\* attachMemberCopyUnderLock.
Insert ==
  /\ task.pc = "insert"
  /\ active' = active \cup {task.user}
  /\ role' = [role EXCEPT ![task.user] = "member"]
  /\ joins' = joins + 1
  /\ rank' = [rank EXCEPT ![task.user] = JoinedAt]
  /\ task' = [task EXCEPT !.pc = "consume"]
  /\ UNCHANGED <<chain, announced, invite, account, crashes>>

Consume ==
  /\ task.pc = "consume"
  /\ invite' = [invite EXCEPT ![task.user] = None]
  /\ task' = NoTask
  /\ UNCHANGED <<chain, announced, roster, joins, account, crashes>>

-----------------------------------------------------------------------------
(* Roles, kicks, plain departures: one statement each, and an op. *)

SetMemberRole(a, u, r) ==
  /\ Opens /\ Live(a) /\ Owner(a) /\ u \in active \ {a} /\ Exists(u)
  /\ role[u] # "owner" /\ role[u] # r
  /\ role' = [role EXCEPT ![u] = r]
  /\ UNCHANGED <<chain, announced, active, rank, joins, invite, account, task, crashes>>

RemoveMember(a, u) ==
  /\ Opens /\ Live(a) /\ a \in active /\ u \in active \ {a} /\ Exists(u) /\ MayKick(a, u)
  /\ EndsMembership(u)
  /\ UNCHANGED <<chain, announced, joins, invite, account, task, crashes>>

NeedsHeirUnlessManaged(u) == role[u] = "owner" /\ Managers = {}

NeedsHeir(u) == role[u] = "owner"

\* Leaving, or the account's deletion: its hand-off precedes the row's delete.
Departs(u, kind) ==
  /\ Opens /\ Live(u) /\ u \in active
  /\ EndsMembership(u)
  /\ IF NeedsHeir(u) THEN Begins(kind, "succeed", u, {})
     ELSE IF kind = "close" THEN Begins(kind, "handed", u, {}) ELSE UNCHANGED task
  /\ UNCHANGED <<chain, announced, joins, invite, account, crashes>>

LeaveChain(u) == Departs(u, "depart")
CloseMember(u) == Departs(u, "close")

CloseOutsider(u) ==
  /\ Free /\ Live(u) /\ (u \notin active \/ chain # "active")
  /\ account' = [account EXCEPT ![u] = "closing"]
  /\ UNCHANGED <<chain, announced, roster, joins, invite, task, crashes>>

\* handleAccountDeletion is through; the account service goes on.
Handed ==
  /\ task.pc = "handed"
  /\ account' = [account EXCEPT ![task.user] = "closing"]
  /\ task' = NoTask
  /\ UNCHANGED <<chain, announced, roster, joins, invite, crashes>>

\* The principal guards: a KEY SHARE lock on the row of everyone concerned, which
\* a delete of the row waits for.  The deletion's own hand-off takes none.
Held(u) ==
  /\ task.kind \in {"accept", "transfer", "depart", "dissolve", "sweep"}
  /\ u = task.user \/ u \in active

\* userRepo.remove: invites to the user go, invites by the user lose their sender,
\* and a membership row that is active by then stays, of nobody.
RemoveUser(u) ==
  /\ account[u] = "closing" /\ ~Held(u)
  /\ account' = [account EXCEPT ![u] = "gone"]
  /\ invite' = [v \in Users |->
       IF v = u \/ invite[v] = None THEN None
       ELSE [invite[v] EXCEPT !.from = IF @ = u THEN None ELSE @]]
  /\ UNCHANGED <<chain, announced, roster, joins, task, crashes>>

-----------------------------------------------------------------------------
(* Ownership: transfer, succession, dissolution. *)

\* The old owner is demoted first: the index allows no second owner even briefly.
TransferOwnership(a, u) ==
  /\ Opens /\ Live(a) /\ Owner(a) /\ u \in active \ {a} /\ Exists(u)
  /\ role' = [role EXCEPT ![a] = "member"]
  /\ Begins("transfer", "crown", u, {})
  /\ UNCHANGED <<chain, announced, active, rank, joins, invite, account, crashes>>

Crown ==
  /\ task.pc = "crown"
  /\ role' = [role EXCEPT ![task.user] = "owner"]
  /\ task' = NoTask
  /\ UNCHANGED <<chain, announced, active, rank, joins, invite, account, crashes>>

\* What follows the hand-over of a departing owner, or of the sweep.
Ends(kind) == IF kind = "close" THEN [task EXCEPT !.pc = "handed"] ELSE NoTask

\* runOwnerSuccession: the earliest manager is crowned, or everyone is released.
Succeed ==
  /\ task.pc = "succeed"
  /\ IF Managers # {}
     THEN /\ role' = [role EXCEPT ![Earliest(Managers)] = "owner"]
          /\ task' = Ends(task.kind)
     ELSE /\ task' = [task EXCEPT !.pc = "end", !.todo = active]
          /\ UNCHANGED role
  /\ UNCHANGED <<chain, announced, active, rank, joins, invite, account, crashes>>

\* The owner's dissolution announces first and then ends the memberships.
DissolveChain(a) ==
  /\ Opens /\ Live(a) /\ Owner(a)
  /\ announced' = TRUE
  /\ Begins("dissolve", "end", a, active)
  /\ UNCHANGED <<chain, roster, joins, invite, account, crashes>>

AllEndedButOne == Cardinality(task.todo) <= 1
AllEnded == task.todo = {}

\* One membership after the other, in the order they joined.
End ==
  /\ task.pc = "end"
  /\ IF AllEnded
     THEN /\ task' = [task EXCEPT !.pc = IF task.kind = "dissolve" THEN "mark" ELSE "announce",
                                  !.todo = {}]
          /\ UNCHANGED roster
     ELSE /\ EndsMembership(Earliest(task.todo))
          /\ task' = [task EXCEPT !.todo = @ \ {Earliest(task.todo)}]
  /\ UNCHANGED <<chain, announced, joins, invite, account, crashes>>

Announce ==
  /\ task.pc = "announce"
  /\ announced' = TRUE
  /\ task' = [task EXCEPT !.pc = "mark"]
  /\ UNCHANGED <<chain, roster, joins, invite, account, crashes>>

Mark ==
  /\ task.pc = "mark"
  /\ chain' = "dissolved"
  /\ task' = Ends(task.kind)
  /\ UNCHANGED <<announced, roster, joins, invite, account, crashes>>

OwnedUnread == FALSE
OwnedOrManaged == Owners \cup Managers # {}

\* Under the lock the sweep looks again whether somebody is the owner.
Owned == Owners # {}

\* runConsistencySweep's scan found the chain ownerless some time ago.
Sweep ==
  /\ Opens /\ ~Owned
  /\ Begins("sweep", "succeed", None, {})
  /\ UNCHANGED <<chain, announced, roster, joins, invite, account, crashes>>

\* The rest of the operation is lost.  A deletion that fails is tried again.
Crash ==
  /\ ~Free /\ crashes < MaxCrashes
  /\ crashes' = crashes + 1
  /\ task' = NoTask
  /\ UNCHANGED <<chain, announced, roster, joins, invite, account>>

-----------------------------------------------------------------------------
Goes == Insert \/ Consume \/ Handed \/ Crown \/ Succeed \/ End \/ Announce \/ Mark

Next ==
  \/ Goes \/ Sweep \/ Crash
  \/ \E u \in Users :
       \/ Expire(u) \/ Decline(u) \/ AcceptVoid(u) \/ AcceptInvite(u)
       \/ LeaveChain(u) \/ CloseMember(u) \/ CloseOutsider(u) \/ RemoveUser(u)
       \/ DissolveChain(u)
       \/ \E v \in Users :
            \/ InviteMember(u, v) \/ Revoke(u, v) \/ RemoveMember(u, v)
            \/ TransferOwnership(u, v)
            \/ \E r \in {"manager", "member"} : SetMemberRole(u, v, r)

Spec == Init /\ [][Next]_vars

\* An operation that was begun goes on, and the sweep runs every day.
FairSpec == Spec /\ WF_vars(Goes) /\ WF_vars(Sweep)

-----------------------------------------------------------------------------
(* Properties. *)

\* Never two owners, not even between the statements of a transfer that crashes
\* and the sweep that repairs it: the unique index is never what stops one.
OneOwner == \A u, v \in Owners : u = v

\* Every operation that runs to its end leaves an active group with an owner.
OwnedAtRest == chain = "active" /\ Free /\ crashes = 0 => Owners # {}

\* A dissolved group has no members, and the log told them.
DissolvedIsEmpty == chain = "dissolved" => active = {} /\ announced

\* The cap binds at redemption, whatever number of invites is out.
WithinCap == Cardinality(active) <= MaxMembers

\* Whoever becomes a member was invited by someone who still is a steward when
\* the membership row is written: a kick, a demotion or a transfer voids invites.
AuthorizedJoins ==
  [][ \A u \in active' \ active : invite[u] # None => Steward(invite[u].from) ]_active

\* A group that lost its owner to a crash gets one again, or is dissolved.
OwnerlessIsRepaired ==
  (chain = "active" /\ Owners = {}) ~> (chain = "dissolved" \/ Owners # {})
=============================================================================
