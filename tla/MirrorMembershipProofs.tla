------------------------ MODULE MirrorMembershipProofs ------------------------
(***************************************************************************)
(* Ownership, the cap and dissolution of a group, for any number of users  *)
(* and joins, and with a crash after any statement.                        *)
(***************************************************************************)
EXTENDS MirrorMembership, FiniteSetTheorems, WellFoundedInduction, TLAPS

-----------------------------------------------------------------------------
(* The inductive invariant. *)

\* What a task that was begun may rely on when it goes on.
InsertOK ==
  task.pc = "insert" =>
    /\ task.kind = "accept" /\ task.user \in Users \ active /\ chain = "active"
    /\ Cardinality(active) < MaxMembers
    /\ invite[task.user] # None => Steward(invite[task.user].from)

HeirOK ==
  /\ task.pc \in {"crown", "succeed"} => Owners = {} /\ task.kind # "dissolve"
  /\ task.pc = "crown" => task.user \in active

EndOK ==
  /\ task.pc = "end" => active \subseteq task.todo /\ (task.kind = "dissolve" => announced)
  /\ task.pc \in {"announce", "mark"} => active = {}
  /\ task.pc = "mark" => announced

\* An active group has an owner, unless a task is about to give it one or to end it, or
\* something crashed.
OwnedOK ==
  chain = "active" /\ crashes = 0 /\ task.pc \in {"idle", "insert", "consume", "handed"} =>
    Owners # {}

CapOK == IsFiniteSet(active) /\ WithinCap

Safe == OneOwner /\ DissolvedIsEmpty /\ CapOK /\ InsertOK /\ HeirOK /\ EndOK /\ OwnedOK
IInv == TypeOK /\ Safe

-----------------------------------------------------------------------------
(* The earliest member. *)

LEMMA EarliestIsOne ==
  ASSUME TypeOK, NEW S \in SUBSET Users, S # {}
  PROVE  Earliest(S) \in S
<1> DEFINE N == {rank[u] : u \in S}
<1>1. N \subseteq Nat /\ N # {} BY DEF TypeOK
<1>2. PICK n \in N : \A m \in N : ~(<<m, n>> \in OpToRel(<, Nat))
  BY <1>1, NatLessThanWellFounded, WFMin
<1>3. \A m \in N : ~(m < n) BY <1>1, <1>2 DEF OpToRel
<1>4. PICK u \in S : rank[u] = n BY <1>2
<1>5. ASSUME NEW v \in S PROVE rank[u] <= rank[v]
  <2>1. rank[v] \in N /\ n \in N OBVIOUS
  <2>2. rank[v] \in Nat /\ n \in Nat /\ ~(rank[v] < n) BY <1>1, <1>3, <2>1
  <2> HIDE DEF N
  <2>3. QED BY <1>4, <2>2
<1>6. QED BY <1>4, <1>5 DEF Earliest

-----------------------------------------------------------------------------
(* Types. *)

LEMMA NoTaskIsOne == NoTask \in Task /\ NoTask.pc = "idle" /\ NoTask.todo = {}
BY DEF NoTask, Task

LEMMA TypeInitially == Init => TypeOK
<1> SUFFICES ASSUME Init PROVE TypeOK OBVIOUS
<1>1. chain \in {"active", "dissolved"} /\ announced \in BOOLEAN BY DEF Init
<1>2. active \in SUBSET Users BY MembershipAssumption DEF MembershipAssumption, Init
<1>3. role \in [Users -> Roles] BY DEF Init, Roles
<1>4. rank \in [Users -> Nat] /\ joins \in Nat /\ crashes \in Nat BY DEF Init
<1>5. invite \in [Users -> Invite \cup {None}] BY DEF Init
<1>6. account \in [Users -> {"live", "closing", "gone"}] BY DEF Init
<1>7. task \in Task BY NoTaskIsOne DEF Init
<1>8. QED BY <1>1, <1>2, <1>3, <1>4, <1>5, <1>6, <1>7 DEF TypeOK

\* The record of a task.
LEMMA TaskIsOne ==
  ASSUME NEW kind \in {"accept", "transfer", "depart", "close", "dissolve", "sweep"},
         NEW pc \in {"insert", "crown", "succeed", "end", "handed"},
         NEW user \in Users \cup {None}, NEW todo \in SUBSET Users, Begins(kind, pc, user, todo)
  PROVE  /\ task' \in Task
         /\ task'.kind = kind /\ task'.pc = pc /\ task'.user = user /\ task'.todo = todo
BY DEF Begins, Task

\* A task that goes on is the same task at another statement.
LEMMA MovesOn ==
  ASSUME TypeOK, NEW pc \in {"consume", "end", "announce", "mark", "handed"},
         NEW todo \in SUBSET Users, task' = [task EXCEPT !.pc = pc, !.todo = todo]
  PROVE  /\ task' \in Task
         /\ task'.kind = task.kind /\ task'.pc = pc
         /\ task'.user = task.user /\ task'.todo = todo
BY DEF TypeOK, Task

LEMMA EndsIsOne ==
  ASSUME TypeOK, task' = Ends(task.kind)
  PROVE  task' \in Task /\ task'.pc \in {"idle", "handed"}
<1>1. CASE task.kind = "close" BY <1>1 DEF TypeOK, Task, Ends
<1>2. CASE task.kind # "close"
  <2>1. task' = NoTask BY <1>2 DEF Ends
  <2>2. QED BY <2>1, NoTaskIsOne
<1>3. QED BY <1>1, <1>2

LEMMA EndsType ==
  ASSUME TypeOK, NEW u, EndsMembership(u)
  PROVE  active' \in SUBSET Users /\ role' \in [Users -> Roles] /\ rank' \in [Users -> Nat]
BY DEF TypeOK, EndsMembership, Roles

\* An invite of nobody's is an invite, whoever it was from.
LEMMA InviteIsOne ==
  ASSUME NEW u \in Users, NEW i \in Invite
  PROVE  /\ [from |-> u] \in Invite
         /\ [i EXCEPT !.from = IF i.from = u THEN None ELSE i.from] \in Invite
BY DEF Invite

-----------------------------------------------------------------------------
(* Types: one lemma per group of actions. *)

LEMMA TypeOfInvites ==
  ASSUME TypeOK, NEW u \in Users
  PROVE  /\ Withdraws(u) => TypeOK'
         /\ \A a \in Users : InviteMember(a, u) => TypeOK'
         /\ RemoveUser(u) => TypeOK'
<1>1. ASSUME Withdraws(u) PROVE TypeOK'
  <2>1. invite' \in [Users -> Invite \cup {None}] BY <1>1 DEF Withdraws, TypeOK
  <2>2. QED BY <1>1, <2>1 DEF Withdraws, TypeOK, roster
<1>2. ASSUME NEW a \in Users, InviteMember(a, u) PROVE TypeOK'
  <2>1. [from |-> a] \in Invite BY DEF Invite
  <2>2. invite' \in [Users -> Invite \cup {None}] BY <1>2, <2>1 DEF InviteMember, TypeOK
  <2>3. QED BY <1>2, <2>2 DEF InviteMember, TypeOK, roster
<1>3. ASSUME RemoveUser(u) PROVE TypeOK'
  <2>1. \A v \in Users : invite[v] # None =>
          [invite[v] EXCEPT !.from = IF @ = u THEN None ELSE @] \in Invite
    BY DEF TypeOK, Invite
  <2>2. invite' \in [Users -> Invite \cup {None}] BY <1>3, <2>1 DEF RemoveUser, TypeOK
  <2>3. account' \in [Users -> {"live", "closing", "gone"}] BY <1>3 DEF RemoveUser, TypeOK
  <2>4. QED BY <1>3, <2>2, <2>3 DEF RemoveUser, TypeOK, roster
<1>4. QED BY <1>1, <1>2, <1>3

LEMMA TypeOfStatements == TypeOK /\ InsertOK /\ Goes => TypeOK'
<1> SUFFICES ASSUME TypeOK, InsertOK, Goes PROVE TypeOK' OBVIOUS
<1>1. CASE Insert
  <2>1. task' = [task EXCEPT !.pc = "consume", !.todo = task.todo] BY <1>1 DEF Insert, TypeOK, Task
  <2>2. task' \in Task BY <2>1, MovesOn DEF TypeOK, Task
  <2>3. task.user \in Users BY <1>1 DEF Insert, InsertOK
  <2>4. QED BY <1>1, <2>2, <2>3 DEF Insert, JoinedAt, TypeOK, Roles
<1>2. CASE Consume
  <2>1. invite' \in [Users -> Invite \cup {None}] BY <1>2 DEF Consume, TypeOK
  <2>2. QED BY <1>2, <2>1, NoTaskIsOne DEF Consume, TypeOK, roster
<1>3. CASE Handed
  <2>1. account' \in [Users -> {"live", "closing", "gone"}] BY <1>3 DEF Handed, TypeOK
  <2>2. QED BY <1>3, <2>1, NoTaskIsOne DEF Handed, TypeOK, roster
<1>4. CASE Crown
  <2>1. role' \in [Users -> Roles] BY <1>4 DEF Crown, TypeOK, Roles
  <2>2. QED BY <1>4, <2>1, NoTaskIsOne DEF Crown, TypeOK
<1>5. CASE Succeed
  <2>1. role' \in [Users -> Roles] BY <1>5 DEF Succeed, TypeOK, Roles
  <2>2. CASE Managers # {}
    <3>1. task' \in Task BY <1>5, <2>2, EndsIsOne DEF Succeed
    <3>2. QED BY <1>5, <2>1, <3>1 DEF Succeed, TypeOK
  <2>3. CASE Managers = {}
    <3>1. task' \in Task BY <1>5, <2>3, MovesOn DEF Succeed, TypeOK
    <3>2. QED BY <1>5, <2>1, <3>1 DEF Succeed, TypeOK
  <2>4. QED BY <2>2, <2>3
<1>6. CASE End
  <2>1. CASE AllEnded
    <3>1. task' \in Task BY <1>6, <2>1, MovesOn DEF End
    <3>2. QED BY <1>6, <2>1, <3>1 DEF End, TypeOK, roster
  <2>2. CASE ~AllEnded
    <3>1. task' = [task EXCEPT !.pc = "end", !.todo = task.todo \ {Earliest(task.todo)}]
      BY <1>6, <2>2 DEF End, TypeOK, Task
    <3>2. task' \in Task BY <3>1, MovesOn DEF TypeOK, Task
    <3>3. EndsMembership(Earliest(task.todo)) BY <1>6, <2>2 DEF End
    <3>4. QED BY <1>6, <3>2, <3>3, EndsType DEF End, TypeOK
  <2>3. QED BY <2>1, <2>2
<1>7. CASE Announce
  <2>1. task' = [task EXCEPT !.pc = "mark", !.todo = task.todo] BY <1>7 DEF Announce, TypeOK, Task
  <2>2. task' \in Task BY <2>1, MovesOn DEF TypeOK, Task
  <2>3. QED BY <1>7, <2>2 DEF Announce, TypeOK, roster
<1>8. CASE Mark
  <2>1. task' \in Task BY <1>8, EndsIsOne DEF Mark
  <2>2. QED BY <1>8, <2>1 DEF Mark, TypeOK, roster
<1>9. QED BY <1>1, <1>2, <1>3, <1>4, <1>5, <1>6, <1>7, <1>8 DEF Goes
LEMMA TypeOfTasks ==
  ASSUME TypeOK, NEW u \in Users,
         \/ AcceptInvite(u) \/ LeaveChain(u) \/ CloseMember(u) \/ DissolveChain(u) \/ Sweep
         \/ \E v \in Users : TransferOwnership(u, v)
  PROVE  TypeOK'
<1>1. CASE AcceptInvite(u)
  <2>1. task' \in Task BY <1>1, TaskIsOne DEF AcceptInvite
  <2>2. QED BY <1>1, <2>1 DEF AcceptInvite, TypeOK, roster
<1>2. ASSUME NEW kind \in {"depart", "close"}, Departs(u, kind) PROVE TypeOK'
  <2>1. task' \in Task
    <3>1. CASE NeedsHeir(u) BY <1>2, <3>1, TaskIsOne DEF Departs
    <3>2. CASE ~NeedsHeir(u) /\ kind = "close" BY <1>2, <3>2, TaskIsOne DEF Departs
    <3>3. CASE ~NeedsHeir(u) /\ kind # "close" BY <1>2, <3>3 DEF Departs, TypeOK
    <3>4. QED BY <3>1, <3>2, <3>3
  <2>2. QED BY <1>2, <2>1, EndsType DEF Departs, TypeOK
<1>3. CASE DissolveChain(u)
  <2>1. task' \in Task BY <1>3, TaskIsOne DEF DissolveChain, TypeOK
  <2>2. QED BY <1>3, <2>1 DEF DissolveChain, TypeOK, roster
<1>4. CASE Sweep
  <2>1. task' \in Task BY <1>4, TaskIsOne DEF Sweep
  <2>2. QED BY <1>4, <2>1 DEF Sweep, TypeOK, roster
<1>5. ASSUME NEW v \in Users, TransferOwnership(u, v) PROVE TypeOK'
  <2>1. task' \in Task BY <1>5, TaskIsOne DEF TransferOwnership
  <2>2. role' \in [Users -> Roles] BY <1>5 DEF TransferOwnership, TypeOK, Roles
  <2>3. QED BY <1>5, <2>1, <2>2 DEF TransferOwnership, TypeOK
<1>6. QED BY <1>1, <1>2, <1>3, <1>4, <1>5 DEF LeaveChain, CloseMember

LEMMA TypeOfTheRest ==
  ASSUME TypeOK, NEW u \in Users, NEW v \in Users, NEW r \in {"manager", "member"},
         \/ CloseOutsider(u) \/ RemoveMember(u, v) \/ SetMemberRole(u, v, r) \/ Crash
  PROVE  TypeOK'
<1>1. CASE CloseOutsider(u)
  <2>1. account' \in [Users -> {"live", "closing", "gone"}] BY <1>1 DEF CloseOutsider, TypeOK
  <2>2. QED BY <1>1, <2>1 DEF CloseOutsider, TypeOK, roster
<1>2. CASE RemoveMember(u, v) BY <1>2, EndsType DEF RemoveMember, TypeOK
<1>3. CASE SetMemberRole(u, v, r)
  <2>1. role' \in [Users -> Roles] BY <1>3 DEF SetMemberRole, TypeOK, Roles
  <2>2. QED BY <1>3, <2>1 DEF SetMemberRole, TypeOK
<1>4. CASE Crash BY <1>4, NoTaskIsOne DEF Crash, TypeOK, roster
<1>5. QED BY <1>1, <1>2, <1>3, <1>4

LEMMA TypeStep == TypeOK /\ InsertOK /\ [Next]_vars => TypeOK'
<1> SUFFICES ASSUME TypeOK, InsertOK, [Next]_vars PROVE TypeOK' OBVIOUS
<1>1. CASE Goes BY <1>1, TypeOfStatements
<1>2. CASE Sweep BY <1>2, MembershipAssumption, TypeOfTasks DEF MembershipAssumption
<1>3. CASE Crash BY <1>3, MembershipAssumption, TypeOfTheRest DEF MembershipAssumption
<1>4. ASSUME NEW u \in Users,
             \/ Expire(u) \/ Decline(u) \/ AcceptVoid(u) \/ RemoveUser(u)
             \/ \E v \in Users : InviteMember(u, v) \/ Revoke(u, v)
      PROVE TypeOK'
  BY <1>4, TypeOfInvites DEF Expire, Decline, AcceptVoid, Revoke
<1>5. ASSUME NEW u \in Users,
             \/ AcceptInvite(u) \/ LeaveChain(u) \/ CloseMember(u) \/ DissolveChain(u)
             \/ \E v \in Users : TransferOwnership(u, v)
      PROVE TypeOK'
  BY <1>5, TypeOfTasks
<1>6. ASSUME NEW u \in Users,
             \/ CloseOutsider(u)
             \/ \E v \in Users : \/ RemoveMember(u, v)
                                 \/ \E r \in {"manager", "member"} : SetMemberRole(u, v, r)
      PROVE TypeOK'
  BY <1>6, TypeOfTheRest
<1>7. CASE UNCHANGED vars BY <1>7 DEF vars, roster, TypeOK
<1>8. QED BY <1>1, <1>2, <1>3, <1>4, <1>5, <1>6, <1>7 DEF Next
-----------------------------------------------------------------------------
(* The safety of a group: one lemma per action. *)

LEMMA SafeInitially == Init => IInv
<1> SUFFICES ASSUME Init PROVE IInv OBVIOUS
<1>1. TypeOK BY TypeInitially
<1>2. active = {Founder} /\ chain = "active" /\ task.pc = "idle" BY NoTaskIsOne DEF Init
<1>3. Owners = {Founder} BY <1>2, MembershipAssumption DEF Init, Owners, MembershipAssumption
<1>4. CapOK
  <2>1. IsFiniteSet(active) /\ Cardinality(active) = 1 BY <1>2, FS_Singleton
  <2>2. QED BY <2>1, MembershipAssumption DEF CapOK, WithinCap, MembershipAssumption
<1>5. QED BY <1>1, <1>2, <1>3, <1>4
      DEF IInv, Safe, OneOwner, DissolvedIsEmpty, InsertOK, HeirOK, EndOK, OwnedOK

\* Invites and accounts change nothing about the group, as long as the sender of the
\* invite that is being accepted stays what it was.
LEMMA Aside ==
  ASSUME IInv, UNCHANGED <<chain, announced, roster, task, crashes>>,
         task.pc = "insert" /\ invite'[task.user] # None =>
           /\ invite[task.user] # None
           /\ invite'[task.user].from = invite[task.user].from
  PROVE  Safe'
<1>1. UNCHANGED <<chain, announced, active, role, rank, task, crashes>> BY DEF roster
<1>2. Owners' = Owners BY <1>1 DEF Owners
<1>3. InsertOK' BY <1>1 DEF IInv, Safe, InsertOK, Steward
<1>4. QED BY <1>1, <1>2, <1>3
      DEF IInv, Safe, OneOwner, DissolvedIsEmpty, CapOK, WithinCap, HeirOK, EndOK, OwnedOK

\* While nothing is under way, what a task may rely on is vacuous.
LEMMA FreeIsIdle == Free => task.pc = "idle" /\ task.todo = {}
BY NoTaskIsOne DEF Free

LEMMA SafeInvites ==
  ASSUME IInv, NEW u \in Users, NEW a \in Users,
         InviteMember(a, u) \/ Withdraws(u) \/ RemoveUser(u) \/ CloseOutsider(u)
  PROVE  Safe'
<1>1. CASE InviteMember(a, u)
  <2>1. task.pc = "idle" BY <1>1, FreeIsIdle DEF InviteMember, Opens
  <2>2. QED BY <1>1, <2>1, Aside DEF InviteMember
<1>2. CASE Withdraws(u)
  <2>1. \A v \in Users : invite'[v] # None => invite'[v] = invite[v]
    BY <1>2 DEF Withdraws, IInv, TypeOK
  <2>2. task.pc = "insert" => task.user \in Users BY DEF IInv, Safe, InsertOK
  <2>3. QED BY <1>2, <2>1, <2>2, Aside DEF Withdraws
<1>3. CASE CloseOutsider(u)
  <2>1. task.pc = "idle" BY <1>3, FreeIsIdle DEF CloseOutsider
  <2>2. QED BY <1>3, <2>1, Aside DEF CloseOutsider
<1>4. CASE RemoveUser(u)
  <2>1. ASSUME task.pc = "insert", invite'[task.user] # None
        PROVE  /\ invite[task.user] # None
               /\ invite'[task.user].from = invite[task.user].from
    <3>1. task.kind = "accept" /\ task.user \in Users BY <2>1 DEF IInv, Safe, InsertOK
    <3>2. u # task.user /\ u \notin active BY <1>4, <3>1 DEF RemoveUser, Held
    <3>3. invite[task.user] # None BY <1>4, <2>1, <3>1 DEF RemoveUser
    <3>4. Steward(invite[task.user].from) BY <2>1, <3>3 DEF IInv, Safe, InsertOK
    <3>5. invite[task.user].from # u BY <3>2, <3>4 DEF Steward
    <3>6. invite'[task.user] =
            [invite[task.user] EXCEPT !.from =
               IF invite[task.user].from = u THEN None ELSE invite[task.user].from]
      BY <1>4, <3>1, <3>2, <3>3 DEF RemoveUser
    <3>7. invite[task.user] \in Invite BY <3>1, <3>3 DEF IInv, TypeOK
    <3>8. QED BY <3>3, <3>5, <3>6, <3>7 DEF Invite
  <2>2. QED BY <1>4, <2>1, Aside DEF RemoveUser
<1>5. QED BY <1>1, <1>2, <1>3, <1>4

LEMMA SafeAccept ==
  ASSUME IInv, NEW u \in Users, AcceptInvite(u)
  PROVE  Safe'
<1>1. /\ task'.pc = "insert" /\ task'.kind = "accept" /\ task'.user = u /\ task'.todo = {}
  BY TaskIsOne DEF AcceptInvite
<1>2. /\ UNCHANGED <<chain, announced, active, role, rank, invite, crashes>>
      /\ chain = "active" /\ task.pc = "idle" /\ u \in Users \ active
      /\ Cardinality(active) < MaxMembers /\ Steward(invite[u].from)
  BY FreeIsIdle DEF AcceptInvite, Opens, roster, Authorized, CapRoom
<1>3. Owners' = Owners BY <1>2 DEF Owners
<1>4. InsertOK' BY <1>1, <1>2 DEF InsertOK, Steward
<1>5. QED BY <1>1, <1>2, <1>3, <1>4
      DEF IInv, Safe, OneOwner, DissolvedIsEmpty, CapOK, WithinCap, HeirOK, EndOK, OwnedOK

\* The membership row is written: nobody is promoted, and the cap has room.
LEMMA SafeInsert ==
  ASSUME IInv, Insert
  PROVE  /\ Safe'
         /\ \A u \in active' \ active : invite[u] # None => Steward(invite[u].from)
<1>1. /\ task.kind = "accept" /\ task.user \in Users \ active /\ chain = "active"
      /\ Cardinality(active) < MaxMembers
      /\ invite[task.user] # None => Steward(invite[task.user].from)
  BY DEF Insert, IInv, Safe, InsertOK
<1>2. task'.pc = "consume" BY DEF Insert, IInv, TypeOK, Task
<1>3. /\ UNCHANGED <<chain, announced, crashes>> /\ active' = active \cup {task.user}
      /\ role' = [role EXCEPT ![task.user] = "member"]
  BY DEF Insert
<1>4. Owners' = Owners BY <1>1, <1>3 DEF Owners, IInv, TypeOK
<1>5. CapOK'
  <2>1. IsFiniteSet(active) BY DEF IInv, Safe, CapOK
  <2>2. IsFiniteSet(active \cup {task.user})
    BY <2>1, FS_AddElement
  <2>3. Cardinality(active \cup {task.user}) = Cardinality(active) + 1
    BY <1>1, <2>1, FS_AddElement
  <2>4. Cardinality(active) \in Nat BY <2>1, FS_CardinalityType
  <2>5. QED BY <1>1, <1>3, <2>2, <2>3, <2>4, MembershipAssumption
        DEF CapOK, WithinCap, MembershipAssumption
<1>6. OneOwner' BY <1>4 DEF IInv, Safe, OneOwner
<1>7. DissolvedIsEmpty' BY <1>1, <1>3 DEF DissolvedIsEmpty
<1>8. InsertOK' /\ HeirOK' /\ EndOK' BY <1>2 DEF InsertOK, HeirOK, EndOK
<1>9. OwnedOK' BY <1>2, <1>3, <1>4 DEF IInv, Safe, OwnedOK, Insert
<1>10. QED BY <1>1, <1>3, <1>5, <1>6, <1>7, <1>8, <1>9 DEF Safe

\* A member is gone: whoever else was an owner still is.
LEMMA Leaving ==
  ASSUME IInv, NEW u, EndsMembership(u)
  PROVE  /\ active' \subseteq active /\ Owners' = Owners \ {u} /\ CapOK'
         /\ (chain' = chain /\ announced' = announced => DissolvedIsEmpty') /\ OneOwner'
<1>1. active' = active \ {u} /\ role' = [role EXCEPT ![u] = "member"] BY DEF EndsMembership
<1>2. Owners' = Owners \ {u} BY <1>1 DEF Owners, IInv, TypeOK
<1>3. CapOK'
  <2>1. IsFiniteSet(active) BY DEF IInv, Safe, CapOK
  <2>2. IsFiniteSet(active') /\ Cardinality(active') <= Cardinality(active)
    BY <1>1, <2>1, FS_Subset
  <2>3. Cardinality(active) \in Nat /\ Cardinality(active') \in Nat
    BY <2>1, <2>2, FS_CardinalityType
  <2>4. QED BY <2>2, <2>3, MembershipAssumption
        DEF IInv, Safe, CapOK, WithinCap, MembershipAssumption
<1>4. OneOwner' BY <1>2 DEF IInv, Safe, OneOwner
<1>5. QED BY <1>1, <1>2, <1>3, <1>4 DEF IInv, Safe, DissolvedIsEmpty
LEMMA SafeKicksAndRoles ==
  ASSUME IInv, NEW a \in Users, NEW u \in Users, NEW r \in {"manager", "member"},
         RemoveMember(a, u) \/ SetMemberRole(a, u, r)
  PROVE  Safe'
<1>1. task.pc = "idle" /\ UNCHANGED <<chain, announced, invite, task, crashes>>
  BY FreeIsIdle DEF RemoveMember, SetMemberRole, Opens
<1>2. InsertOK' /\ HeirOK' /\ EndOK' BY <1>1 DEF InsertOK, HeirOK, EndOK
<1>3. CASE RemoveMember(a, u)
  <2>1. EndsMembership(u) /\ role[u] # "owner" BY <1>3 DEF RemoveMember, MayKick
  <2>2. Owners' = Owners BY <2>1, Leaving DEF Owners
  <2>3. CapOK' /\ DissolvedIsEmpty' /\ OneOwner' BY <1>1, <2>1, Leaving
  <2>4. QED BY <1>1, <1>2, <2>2, <2>3 DEF IInv, Safe, OwnedOK
<1>4. CASE SetMemberRole(a, u, r)
  <2>1. active' = active BY <1>4 DEF SetMemberRole
  <2>2. Owners' = Owners BY <1>4, <2>1 DEF SetMemberRole, Owners, IInv, TypeOK
  <2>3. QED BY <1>1, <1>2, <2>1, <2>2
        DEF IInv, Safe, OneOwner, DissolvedIsEmpty, CapOK, WithinCap, OwnedOK
<1>5. QED BY <1>3, <1>4

\* Who leaves as the owner leaves nobody in that role, and succession follows.
LEMMA SafeDeparts ==
  ASSUME IInv, NEW u \in Users, NEW kind \in {"depart", "close"}, Departs(u, kind)
  PROVE  Safe'
<1>1. /\ task.pc = "idle" /\ chain = "active" /\ u \in active
      /\ UNCHANGED <<chain, announced, invite, crashes>> /\ EndsMembership(u)
  BY FreeIsIdle DEF Departs, Opens
<1>2. CapOK' /\ DissolvedIsEmpty' /\ OneOwner' /\ Owners' = Owners \ {u} BY <1>1, Leaving
<1>3. CASE NeedsHeir(u)
  <2>1. task'.pc = "succeed" /\ task'.kind = kind BY <1>3, TaskIsOne DEF Departs
  <2>2. u \in Owners BY <1>1, <1>3 DEF NeedsHeir, Owners
  <2>3. Owners' = {} BY <1>2, <2>2 DEF IInv, Safe, OneOwner
  <2>4. QED BY <1>2, <2>1, <2>3 DEF Safe, InsertOK, HeirOK, EndOK, OwnedOK
<1>4. CASE ~NeedsHeir(u)
  <2>1. task'.pc \in {"idle", "handed"}
    <3>1. CASE kind = "close" BY <1>4, <3>1, TaskIsOne DEF Departs
    <3>2. CASE kind # "close" BY <1>1, <1>4, <3>2 DEF Departs
    <3>3. QED BY <3>1, <3>2
  <2>2. Owners' = Owners BY <1>2, <1>4 DEF NeedsHeir, Owners
  <2>3. QED BY <1>1, <1>2, <2>1, <2>2 DEF IInv, Safe, InsertOK, HeirOK, EndOK, OwnedOK
<1>5. QED BY <1>3, <1>4

\* The transfer demotes first: between its statements nobody is the owner.
LEMMA SafeTransfer ==
  ASSUME IInv, NEW a \in Users, NEW u \in Users, TransferOwnership(a, u)
  PROVE  Safe'
<1>1. /\ UNCHANGED <<chain, announced, active, crashes>> /\ chain = "active"
      /\ a \in Owners /\ u \in active
  BY DEF TransferOwnership, Opens, Owner, Owners
<1>2. task'.pc = "crown" /\ task'.user = u /\ task'.kind = "transfer"
  BY TaskIsOne DEF TransferOwnership
<1>3. Owners = {a} BY <1>1 DEF IInv, Safe, OneOwner
<1>4. role' = [role EXCEPT ![a] = "member"] BY DEF TransferOwnership
<1>5. Owners' = {} BY <1>1, <1>3, <1>4 DEF Owners, IInv, TypeOK
<1>6. QED BY <1>1, <1>2, <1>5
      DEF IInv, Safe, OneOwner, DissolvedIsEmpty, CapOK, WithinCap, InsertOK, HeirOK, EndOK,
          OwnedOK

LEMMA SafeCrown == IInv /\ Crown => Safe'
<1> SUFFICES ASSUME IInv, Crown PROVE Safe' OBVIOUS
<1>1. UNCHANGED <<chain, announced, active, crashes>> /\ task'.pc = "idle"
  BY NoTaskIsOne DEF Crown
<1>2. Owners = {} /\ task.user \in active BY DEF Crown, IInv, Safe, HeirOK
<1>3. role' = [role EXCEPT ![task.user] = "owner"] BY DEF Crown
<1>4. Owners' = {task.user} BY <1>1, <1>2, <1>3 DEF Owners, IInv, TypeOK
<1>5. QED BY <1>1, <1>4
      DEF IInv, Safe, OneOwner, DissolvedIsEmpty, CapOK, WithinCap, InsertOK, HeirOK, EndOK,
          OwnedOK

\* Succession crowns one manager where nobody was the owner, or begins to end the group.
LEMMA SafeSucceed == IInv /\ Succeed => Safe'
<1> SUFFICES ASSUME IInv, Succeed PROVE Safe' OBVIOUS
<1>1. UNCHANGED <<chain, announced, active, crashes>> BY DEF Succeed
<1>2. Owners = {} /\ task.kind # "dissolve" BY DEF Succeed, IInv, Safe, HeirOK
<1>3. CASE Managers # {}
  <2>1. task'.pc \in {"idle", "handed"} BY <1>3, EndsIsOne DEF Succeed, IInv
  <2>2. Managers \in SUBSET Users BY DEF Managers, IInv, TypeOK
  <2>3. Earliest(Managers) \in Managers BY <1>3, <2>2, EarliestIsOne DEF IInv
  <2>4. role' = [role EXCEPT ![Earliest(Managers)] = "owner"] BY <1>3 DEF Succeed
  <2>5. PICK h : h \in Managers /\ h = Earliest(Managers) BY <2>3
  <2>6. h \in active /\ role' = [role EXCEPT ![h] = "owner"] BY <2>4, <2>5 DEF Managers
  <2>7. Owners' = {h} BY <1>1, <1>2, <2>6 DEF Owners, IInv, TypeOK
  <2>8. QED BY <1>1, <2>1, <2>7
        DEF IInv, Safe, OneOwner, DissolvedIsEmpty, CapOK, WithinCap, InsertOK, HeirOK, EndOK,
            OwnedOK
<1>4. CASE Managers = {}
  <2>1. task' = [task EXCEPT !.pc = "end", !.todo = active] /\ role' = role
    BY <1>4 DEF Succeed
  <2>2. task'.pc = "end" /\ task'.todo = active /\ task'.kind = task.kind
    BY <2>1, MovesOn DEF IInv, TypeOK
  <2>3. Owners' = Owners BY <1>1, <2>1 DEF Owners
  <2>4. QED BY <1>1, <1>2, <2>2, <2>3
        DEF IInv, Safe, OneOwner, DissolvedIsEmpty, CapOK, WithinCap, InsertOK, HeirOK, EndOK,
            OwnedOK
<1>5. QED BY <1>3, <1>4
\* The memberships are ended one by one, and only the listed ones are left.
LEMMA SafeEnd == IInv /\ End => Safe'
<1> SUFFICES ASSUME IInv, End PROVE Safe' OBVIOUS
<1>1. /\ task.pc = "end" /\ UNCHANGED <<chain, announced, crashes>>
      /\ active \subseteq task.todo /\ (task.kind = "dissolve" => announced)
  BY DEF End, IInv, Safe, EndOK
<1>2. CASE AllEnded
  <2>0. {} \in SUBSET Users OBVIOUS
  <2>1. active = {} /\ active' = active /\ role' = role BY <1>1, <1>2 DEF End, AllEnded, roster
  <2>2. /\ task'.pc \in {"announce", "mark"}
        /\ task'.pc = "mark" => task.kind = "dissolve"
    <3>1. CASE task.kind = "dissolve"
      <4>1. task' = [task EXCEPT !.pc = "mark", !.todo = {}]
        BY <1>2, <3>1 DEF End
      <4>2. task'.pc = "mark" BY <2>0, <4>1, MovesOn DEF IInv
      <4>3. QED BY <3>1, <4>2
    <3>2. CASE task.kind # "dissolve"
      <4>1. task' = [task EXCEPT !.pc = "announce", !.todo = {}]
        BY <1>2, <3>2 DEF End
      <4>2. task'.pc = "announce" BY <2>0, <4>1, MovesOn DEF IInv
      <4>3. QED BY <4>2
    <3>3. QED BY <3>1, <3>2
  <2>3. Owners' = Owners BY <2>1 DEF Owners
  <2>4. QED BY <1>1, <2>1, <2>2, <2>3
        DEF IInv, Safe, OneOwner, DissolvedIsEmpty, CapOK, WithinCap, InsertOK, HeirOK, EndOK,
            OwnedOK
<1>3. CASE ~AllEnded
  <2>1. PICK u : u = Earliest(task.todo) OBVIOUS
  <2>2. EndsMembership(u) /\ task' = [task EXCEPT !.todo = task.todo \ {u}]
    BY <1>3, <2>1 DEF End
  <2>3. task'.pc = "end" /\ task'.kind = task.kind /\ task'.todo = task.todo \ {u}
    BY <1>1, <2>2 DEF IInv, TypeOK, Task
  <2>4. active' \subseteq task'.todo BY <1>1, <2>2, <2>3 DEF EndsMembership
  <2>5. CapOK' /\ DissolvedIsEmpty' /\ OneOwner' BY <1>1, <2>2, Leaving
  <2>6. QED BY <1>1, <2>3, <2>4, <2>5 DEF Safe, InsertOK, HeirOK, EndOK, OwnedOK
<1>4. QED BY <1>2, <1>3

LEMMA SafeAnnounceAndMark == IInv /\ (Announce \/ Mark) => Safe'
<1> SUFFICES ASSUME IInv, Announce \/ Mark PROVE Safe' OBVIOUS
<1>1. UNCHANGED <<active, role, crashes>> BY DEF Announce, Mark, roster
<1>2. active = {} BY DEF Announce, Mark, IInv, Safe, EndOK
<1>3. Owners' = Owners /\ Owners = {} BY <1>1, <1>2 DEF Owners
<1>4. CASE Announce
  <2>1. task'.pc = "mark" /\ announced' = TRUE BY <1>4 DEF Announce, IInv, TypeOK, Task
  <2>2. QED BY <1>1, <1>2, <1>3, <2>1
        DEF IInv, Safe, OneOwner, DissolvedIsEmpty, CapOK, WithinCap, InsertOK, HeirOK, EndOK,
            OwnedOK
<1>5. CASE Mark
  <2>1. announced BY <1>5 DEF Mark, IInv, Safe, EndOK
  <2>2. task'.pc \in {"idle", "handed"} BY <1>5, EndsIsOne DEF Mark, IInv
  <2>3. announced' = announced /\ chain' = "dissolved" BY <1>5 DEF Mark
  <2>4. QED BY <1>1, <1>2, <1>3, <2>1, <2>2, <2>3
        DEF IInv, Safe, OneOwner, DissolvedIsEmpty, CapOK, WithinCap, InsertOK, HeirOK, EndOK,
            OwnedOK
<1>6. QED BY <1>4, <1>5

\* What begins an end or a repair, and what leaves the roster alone.
LEMMA SafeRest ==
  ASSUME IInv, NEW u \in Users, DissolveChain(u) \/ Sweep \/ Crash \/ Consume \/ Handed
  PROVE  Safe'
<1>1. UNCHANGED <<chain, active, role>> BY DEF DissolveChain, Sweep, Crash, Consume, Handed, roster
<1>2. Owners' = Owners BY <1>1 DEF Owners
<1>3. OneOwner' /\ CapOK' BY <1>1, <1>2 DEF IInv, Safe, OneOwner, CapOK, WithinCap
<1>4. CASE DissolveChain(u)
  <2>1. task'.pc = "end" /\ task'.todo = active
    BY <1>4, TaskIsOne DEF DissolveChain, IInv, TypeOK
  <2>2. announced' = TRUE /\ chain = "active" BY <1>4 DEF DissolveChain, Opens
  <2>3. QED BY <1>1, <1>3, <2>1, <2>2
        DEF Safe, DissolvedIsEmpty, InsertOK, HeirOK, EndOK, OwnedOK
<1>5. CASE Sweep
  <2>1. task'.pc = "succeed" /\ task'.kind = "sweep" BY <1>5, TaskIsOne DEF Sweep
  <2>2. Owners = {} /\ chain = "active" BY <1>5 DEF Sweep, Owned, Opens
  <2>3. QED BY <1>1, <1>2, <1>3, <2>1, <2>2
        DEF Safe, DissolvedIsEmpty, InsertOK, HeirOK, EndOK, OwnedOK
<1>6. CASE Crash \/ Consume \/ Handed
  <2>1. task'.pc = "idle" /\ announced' = announced
    BY <1>6, NoTaskIsOne DEF Crash, Consume, Handed
  <2>2. crashes' = 0 => crashes = 0 /\ task.pc \in {"consume", "handed"}
    BY <1>6 DEF Crash, Consume, Handed, IInv, TypeOK
  <2>3. QED BY <1>1, <1>2, <1>3, <2>1, <2>2
        DEF IInv, Safe, DissolvedIsEmpty, InsertOK, HeirOK, EndOK, OwnedOK
<1>7. QED BY <1>4, <1>5, <1>6

LEMMA SafeStep == IInv /\ [Next]_vars => IInv'
<1> SUFFICES ASSUME IInv, [Next]_vars PROVE IInv' OBVIOUS
<1>1. SUFFICES Safe' BY TypeStep DEF IInv, Safe
<1>2. Founder \in Users BY MembershipAssumption DEF MembershipAssumption
<1>3. CASE Goes
  <2>1. CASE Insert BY <2>1, SafeInsert
  <2>2. CASE Consume \/ Handed BY <1>2, <2>2, SafeRest
  <2>3. CASE Crown \/ Succeed BY <2>3, SafeCrown, SafeSucceed
  <2>4. CASE End \/ Announce \/ Mark BY <2>4, SafeEnd, SafeAnnounceAndMark
  <2>5. QED BY <1>3, <2>1, <2>2, <2>3, <2>4 DEF Goes
<1>4. CASE Sweep \/ Crash BY <1>2, <1>4, SafeRest
<1>5. ASSUME NEW u \in Users,
             \/ Expire(u) \/ Decline(u) \/ AcceptVoid(u) \/ RemoveUser(u) \/ CloseOutsider(u)
             \/ \E v \in Users : InviteMember(u, v) \/ Revoke(u, v)
      PROVE Safe'
  BY <1>5, SafeInvites DEF Expire, Decline, AcceptVoid, Revoke
<1>6. ASSUME NEW u \in Users,
             \/ AcceptInvite(u) \/ LeaveChain(u) \/ CloseMember(u) \/ DissolveChain(u)
             \/ \E v \in Users : \/ TransferOwnership(u, v) \/ RemoveMember(u, v)
                                 \/ \E r \in {"manager", "member"} : SetMemberRole(u, v, r)
      PROVE Safe'
  BY <1>6, SafeAccept, SafeDeparts, SafeRest, SafeTransfer, SafeKicksAndRoles
     DEF LeaveChain, CloseMember
<1>7. CASE UNCHANGED vars
  <2>1. UNCHANGED <<chain, announced, roster, task, crashes, invite>> BY <1>7 DEF vars
  <2>2. UNCHANGED <<chain, announced, roster, task, crashes>> BY <2>1
  <2>3. task.pc = "insert" /\ invite'[task.user] # None =>
          invite[task.user] # None /\ invite'[task.user].from = invite[task.user].from
    BY <2>1
  <2>4. QED BY <2>2, <2>3, Aside
<1>8. QED
  <2>1. CASE Next BY <1>3, <1>4, <1>5, <1>6, <2>1 DEF Next
  <2>2. QED BY <1>7, <2>1

-----------------------------------------------------------------------------
(* The theorems. *)

LEMMA Always == Spec => []IInv
BY SafeInitially, SafeStep, PTL DEF Spec

\* The state of a group has its type: a task is one of the operations the service runs under
\* the chain lock, at one of its statements.
THEOREM TypeCorrect == Spec => []TypeOK
<1>1. IInv => TypeOK BY DEF IInv
<1>2. QED BY <1>1, Always, PTL

\* No group ever has two owners, whatever number of users joins, is promoted or leaves, and
\* wherever transferOwnership or runOwnerSuccession is cut off (the partial unique index on
\* the owner's row is never what refuses a statement).
THEOREM NeverTwoOwners == Spec => []OneOwner
<1>1. IInv => OneOwner BY DEF IInv, Safe
<1>2. QED BY <1>1, Always, PTL

\* Without a crash an active group between two operations has an owner: each of leave, kick,
\* transfer, account deletion and dissolution hands over what it takes away.
THEOREM OwnedBetweenOperations == Spec => []OwnedAtRest
<1>1. IInv => OwnedAtRest BY FreeIsIdle DEF IInv, Safe, OwnedAtRest, OwnedOK
<1>2. QED BY <1>1, Always, PTL

\* The status is set to dissolved only when no membership is left and the op log has said so,
\* and nobody joins afterwards.
THEOREM DissolvedForGood == Spec => []DissolvedIsEmpty
<1>1. IInv => DissolvedIsEmpty BY DEF IInv, Safe
<1>2. QED BY <1>1, Always, PTL

\* The cap holds for every number of outstanding invites and every cap.
THEOREM CapHolds == Spec => []WithinCap
<1>1. IInv => WithinCap BY DEF IInv, Safe, CapOK
<1>2. QED BY <1>1, Always, PTL

\* Only attachMemberCopyUnderLock adds a member, and whoever sent the invite is a steward at
\* that moment: no kick, demotion, transfer or deletion of the sender comes in between.
LEMMA JoinStep ==
  ASSUME IInv, Next
  PROVE  \A u \in active' \ active : invite[u] # None => Steward(invite[u].from)
<1>1. CASE Insert BY <1>1, SafeInsert
<1>2. CASE ~Insert
  <2>1. active' \subseteq active
    <3>1. CASE Goes
      <4>1. CASE End BY <4>1 DEF End, EndsMembership, roster
      <4>2. CASE Goes /\ ~End
        BY <1>2, <4>2 DEF Goes, Consume, Handed, Crown, Succeed, Announce, Mark, roster
      <4>3. QED BY <3>1, <4>1, <4>2
    <3>2. CASE Sweep \/ Crash BY <3>2 DEF Sweep, Crash, roster
    <3>3. ASSUME NEW u \in Users, NEW v \in Users, NEW r \in {"manager", "member"},
                 \/ Expire(u) \/ Decline(u) \/ AcceptVoid(u) \/ RemoveUser(u)
                 \/ CloseOutsider(u) \/ InviteMember(u, v) \/ Revoke(u, v)
                 \/ AcceptInvite(u) \/ DissolveChain(u) \/ TransferOwnership(u, v)
                 \/ SetMemberRole(u, v, r)
          PROVE active' = active
      BY <3>3 DEF Expire, Decline, AcceptVoid, Withdraws, RemoveUser, CloseOutsider, InviteMember,
                  Revoke, AcceptInvite, DissolveChain, TransferOwnership, SetMemberRole, roster
    <3>4. ASSUME NEW u \in Users, NEW v \in Users,
                 LeaveChain(u) \/ CloseMember(u) \/ RemoveMember(u, v)
          PROVE active' \subseteq active
      BY <3>4 DEF LeaveChain, CloseMember, Departs, RemoveMember, EndsMembership
    <3>5. QED BY <3>1, <3>2, <3>3, <3>4 DEF Next
  <2>2. QED BY <2>1
<1>3. QED BY <1>1, <1>2

\* Whoever joins, joins on the invitation of someone who may invite at that moment, for
\* every number of users and every order of the operations.
THEOREM JoinsAreAuthorized == Spec => AuthorizedJoins
<1> DEFINE A == \A u \in active' \ active : invite[u] # None => Steward(invite[u].from)
<1>1. ASSUME IInv, [Next]_vars PROVE [A]_active
  <2>1. CASE Next BY <1>1, <2>1, JoinStep
  <2>2. CASE UNCHANGED vars BY <2>2 DEF vars, roster
  <2>3. QED BY <1>1, <2>1, <2>2
<1>2. QED BY <1>1, Always, PTL DEF Spec, AuthorizedJoins
=============================================================================
