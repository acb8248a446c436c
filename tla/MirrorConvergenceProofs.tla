----------------------- MODULE MirrorConvergenceProofs -----------------------
(***************************************************************************)
(* While the lock of a group portfolio is kept, its copies converge.       *)
(***************************************************************************)
EXTENDS MirrorRefinementProofs, WellFoundedInduction

-----------------------------------------------------------------------------
(* The state of a row in a log. *)

\* A nonempty set of indices has a last one.
LEMMA LastIndex ==
  ASSUME NEW n \in Nat, NEW T \in SUBSET (1 .. n), T # {}
  PROVE  \E k \in T : \A i \in T : i <= k
<1> DEFINE Above == {m \in Nat : \A i \in T : i <= m}
<1>1. n \in Above OBVIOUS
<1>2. PICK m \in Above : \A l \in Above : <<l, m>> \notin OpToRel(<, Nat)
  BY <1>1, NatLessThanWellFounded, WFMin
<1>3. m \in Nat /\ \A i \in T : i <= m OBVIOUS
<1>4. m \in T
  <2> SUFFICES ASSUME m \notin T PROVE FALSE
    OBVIOUS
  <2>1. \A i \in T : i <= m - 1 /\ i \in Nat BY <1>3
  <2>2. m - 1 \in Nat
    <3>1. PICK i \in T : TRUE OBVIOUS
    <3>2. i \in 1 .. n /\ i <= m BY <1>3, <3>1
    <3>3. QED BY <1>3, <3>2
  <2>3. m - 1 \in Above BY <2>1, <2>2
  <2>4. <<m - 1, m>> \in OpToRel(<, Nat) BY <1>3, <2>2 DEF OpToRel
  <2>5. QED BY <1>2, <2>3, <2>4
<1>5. QED BY <1>3, <1>4

\* A row that no op touches has no state.
LEMMA StateAtNone ==
  ASSUME NEW log, NEW n \in Nat, NEW r, \A i \in 1 .. n : log[i].row # r
  PROVE  StateAt(log, n, r) = None
BY DEF StateAt

\* A row has the state its latest op leaves.
LEMMA StateAtLatest ==
  ASSUME NEW log, NEW n \in Nat, NEW r, NEW k \in 1 .. n, log[k].row = r,
         \A i \in k + 1 .. n : log[i].row # r
  PROVE  StateAt(log, n, r) = log[k].val
<1> DEFINE touching == {i \in 1 .. n : log[i].row = r}
           Last(i) == \A j \in touching : j <= i
<1>1. k \in touching /\ Last(k) OBVIOUS
<1>2. \A i \in touching : Last(i) => i = k BY <1>1
<1>3. (CHOOSE i \in touching : Last(i)) = k BY <1>1, <1>2
<1>4. QED BY <1>1, <1>3 DEF StateAt

\* Ops on other rows leave it.
LEMMA StateAtQuiet ==
  ASSUME NEW log, NEW m \in Nat, NEW n \in Nat, m <= n, NEW r,
         \A i \in m + 1 .. n : log[i].row # r
  PROVE  StateAt(log, n, r) = StateAt(log, m, r)
<1> DEFINE Upto(l) == {k \in 1 .. l : log[k].row = r}
           Leaves(S) == IF S = {} THEN None
                        ELSE log[CHOOSE k \in S : \A i \in S : i <= k].val
<1>1. Upto(n) = Upto(m) OBVIOUS
<1>2. StateAt(log, n, r) = Leaves(Upto(n)) /\ StateAt(log, m, r) = Leaves(Upto(m))
  BY DEF StateAt
<1> HIDE DEF Upto, Leaves
<1>3. QED BY <1>1, <1>2

\* Later ops do not change what the first n say.
LEMMA StateAtPrefix ==
  ASSUME NEW log, NEW longer, NEW n \in Nat, \A i \in 1 .. n : longer[i] = log[i], NEW r
  PROVE  StateAt(longer, n, r) = StateAt(log, n, r)
<1> DEFINE touching == {i \in 1 .. n : log[i].row = r}
<1>1. CASE touching = {} BY <1>1, StateAtNone
<1>2. CASE touching # {}
  <2>1. PICK k \in touching : \A i \in touching : i <= k BY <1>2, LastIndex
  <2>2. k \in 1 .. n /\ log[k].row = r /\ longer[k].row = r OBVIOUS
  <2>3. \A i \in k + 1 .. n : log[i].row # r /\ longer[i].row # r
    <3>1. SUFFICES ASSUME NEW i \in k + 1 .. n PROVE log[i].row # r
      BY <2>2
    <3>2. i \in 1 .. n /\ ~(i <= k) BY <2>2
    <3>3. i \notin touching BY <2>1, <3>2
    <3>4. QED BY <3>2, <3>3
  <2> HIDE DEF touching
  <2>4. StateAt(log, n, r) = log[k].val BY <2>2, <2>3, StateAtLatest
  <2>5. StateAt(longer, n, r) = longer[k].val BY <2>2, <2>3, StateAtLatest
  <2>6. QED BY <2>2, <2>4, <2>5
<1>3. QED BY <1>1, <1>2

-----------------------------------------------------------------------------
(* What a copy should hold, and what it holds. *)

\* The state of a row in a copy that has applied the first n ops.  A copy that
\* joined has its Main from birth, under the default name, and skips its create.
Held(log, c, r, n) ==
  IF r = Main /\ c # Founder /\ \A j \in 3 .. n : log[j].row # Main
  THEN DefaultName
  ELSE StateAt(log, n, r)

\* The copy has the row just as the first n ops say.
Holds(c, r, n) ==
  book[c][r] = Held(oplog, c, r, n) /\ (r \in linked[c] <=> book[c][r] # None)

\* The copy is beyond its watermark on one row: it has that row's next op, which
\* is the next of all or its own, or has begun with it.
Begun(c, r) ==
  \E n \in applied[c] + 1 .. Len(oplog) :
    /\ oplog[n].row = r /\ \A j \in applied[c] + 1 .. n - 1 : oplog[j].row # r
    /\ \/ Holds(c, r, n) /\ (n = applied[c] + 1 \/ oplog[n].by = c)
       \/ n = applied[c] + 1 /\ book[c][r] = None /\ r \in linked[c] /\ Guarded(oplog[n])

Copied(c, r) == Holds(c, r, applied[c]) \/ Begun(c, r)

\* A submit has changed the row, or is about to, and has not appended its op.
InFlight(c, r) ==
  \E p \in Procs :
    /\ Uncommitted(work[p]) /\ work[p].copy = c
    /\ \E i \in 1 .. Len(work[p].ops) : work[p].ops[i].row = r

RowsOK ==
  \A c \in Copies \ tainted : status[c] # "out" =>
    \A r \in Rows : Born(r) => Copied(c, r) \/ InFlight(c, r)

\* The copy's row is in the state the op leaves it in.
Reached(c, op) == book[c][op.row] = op.val /\ (op.row \in linked[c] <=> op.val # None)

\* How far a process has come with the op, or the creates, in hand.
Reaches(w) ==
  /\ w.pc = "link" =>
       \A i \in 1 .. w.done : Born(w.ops[i].row) => Reached(w.copy, w.ops[i])
  /\ w.pc \in {"recreate", "repoint"} =>
       w.ops[1].kind = "update" /\ w.ops[1].row \in linked[w.copy]
  /\ w.pc = "unlink" => w.ops[1].kind = "delete"
  /\ w.pc = "append" /\ w.job = "submit" =>
       \A i \in 1 .. Len(w.ops) : Born(w.ops[i].row) => Reached(w.copy, w.ops[i])
  /\ w.pc = "bump" =>
       LET r == oplog[w.at + 1].row IN r \in Rows /\ Born(r) => Holds(w.copy, r, w.at + 1)
  /\ w.pc = "ack" => \A r \in Rows : Born(r) => Holds(w.copy, r, Len(oplog))

ReachesOK ==
  \A p \in Procs : Inside(work[p]) /\ work[p].copy \notin tainted => Reaches(work[p])

Faithful == lapses = 0 => RowsOK /\ ReachesOK

\* A copy that nobody joined yet is empty, and the founder has the first two ops.
RosterOK == lapses = 0 =>
  /\ \A c \in Copies : status[c] = "out" =>
       /\ c # Founder /\ applied[c] = 0 /\ linked[c] = {}
       /\ \A r \in Rows : book[c][r] = None
  /\ applied[Founder] >= 2

-----------------------------------------------------------------------------
(* How these change with the log. *)

\* An op leaves its row in the state it carries, but for Main's create.
LEMMA HeldNext ==
  ASSUME NEW log, NEW c, NEW n \in Nat \ {0},
         log[n].row # Main \/ c = Founder \/ n >= 3
  PROVE  Held(log, c, log[n].row, n) = log[n].val
<1>1. StateAt(log, n, log[n].row) = log[n].val BY StateAtLatest
<1>2. log[n].row = Main /\ c # Founder => n \in 3 .. n OBVIOUS
<1>3. QED BY <1>1, <1>2 DEF Held

\* Ops on other rows leave a row.
LEMMA HeldQuiet ==
  ASSUME NEW log, NEW c, NEW m \in Nat, NEW n \in Nat, m <= n, NEW r,
         \A i \in m + 1 .. n : log[i].row # r
  PROVE  Held(log, c, r, n) = Held(log, c, r, m)
<1>1. r = Main =>
        ((\A j \in 3 .. n : log[j].row # Main) <=> (\A j \in 3 .. m : log[j].row # Main))
  OBVIOUS
<1>2. StateAt(log, n, r) = StateAt(log, m, r) BY StateAtQuiet
<1>3. QED BY <1>1, <1>2 DEF Held

\* Later ops do not change what a copy should hold after the first n.
LEMMA HeldPrefix ==
  ASSUME NEW log, NEW longer, NEW c, NEW n \in Nat,
         \A i \in 1 .. n : longer[i] = log[i], NEW r
  PROVE  Held(longer, c, r, n) = Held(log, c, r, n)
<1>1. \A j \in 3 .. n : longer[j] = log[j] OBVIOUS
<1>2. QED BY <1>1, StateAtPrefix DEF Held

\* What makes a row born does not come later.
LEMMA BornBefore ==
  ASSUME Len(oplog) \in Nat, Len(oplog') \in Nat, Len(oplog) <= Len(oplog'),
         \A i \in 1 .. Len(oplog) : oplog'[i] = oplog[i], NEW r, Born(r)'
  PROVE  Born(r)
<1> SUFFICES ASSUME NEW i \in 1 .. Len(oplog), oplog[i].row = r
             PROVE  CreatedFirst(oplog, r)
  BY DEF Born
<1>1. CreatedFirst(oplog', r) BY DEF Born
<1>2. PICK k \in 1 .. Len(oplog') :
        /\ oplog'[k].row = r /\ oplog'[k].kind = "create"
        /\ \A j \in 1 .. k - 1 : oplog'[j].row # r
  BY <1>1 DEF CreatedFirst
<1>3. k <= i
  <2> SUFFICES ASSUME i < k PROVE FALSE
    OBVIOUS
  <2>1. i \in 1 .. k - 1 /\ oplog'[i].row = r OBVIOUS
  <2>2. QED BY <1>2, <2>1
<1>4. k \in 1 .. Len(oplog) /\ \A j \in 1 .. k - 1 : j \in 1 .. Len(oplog) BY <1>3
<1>5. QED BY <1>2, <1>4 DEF CreatedFirst

\* An edit in the log found its row alive.
LEMMA LiveBeforeEdit ==
  ASSUME IInv, Shape, NoLostUpdate, NEW k \in 1 .. Len(oplog), Guarded(oplog[k]),
         Born(oplog[k].row)
  PROVE  StateAt(oplog, k - 1, oplog[k].row) \in Values
<1> DEFINE r == oplog[k].row
           b == oplog[k].base
<1>1. /\ oplog \in Seq(Op) /\ Len(oplog) \in Nat /\ oplog[k].kind # "chain"
      /\ r \in Rows /\ oplog[k].kind # "create"
  BY LenProperties DEF IInv, TypeOK, LogOK, Guarded
<1>2. /\ b \in 0 .. k - 1
      /\ b > 0 => oplog[b].row = r /\ oplog[b].kind # "delete"
      /\ \A i \in 1 .. k - 1 : i > b => oplog[i].row # r
  BY DEF NoLostUpdate, LatestAmong
<1>3. PICK i \in 1 .. Len(oplog) :
        /\ oplog[i].row = r /\ oplog[i].kind = "create"
        /\ \A j \in 1 .. i - 1 : oplog[j].row # r
  BY DEF Born, CreatedFirst
<1>4. i < k
  <2> SUFFICES ASSUME k < i PROVE FALSE
    BY <1>1, <1>3
  <2>1. k \in 1 .. i - 1 OBVIOUS
  <2>2. QED BY <1>3, <2>1
<1>5. b > 0
  <2> SUFFICES ASSUME b = 0 PROVE FALSE
    BY <1>2
  <2>1. i \in 1 .. k - 1 /\ i > b BY <1>4
  <2>2. QED BY <1>2, <1>3, <2>1
<1>6. b \in 1 .. k - 1 /\ b \in 1 .. Len(oplog) BY <1>1, <1>2, <1>5
<1>7. oplog[b].val \in Values
  <2>1. WellMade(oplog[b]) /\ oplog[b] \in Op BY <1>1, <1>6 DEF Shape, LogMade
  <2>2. oplog[b].kind # "chain"
    BY <1>1, <1>2, <1>5, <2>1, RowsAssumption DEF WellMade, Rows
  <2>3. QED BY <1>2, <1>5, <2>1, <2>2 DEF WellMade, Op, Kinds
<1>8. \A j \in b + 1 .. k - 1 : oplog[j].row # r BY <1>2
<1>9. k - 1 \in Nat OBVIOUS
<1> HIDE DEF r, b
<1>10. StateAt(oplog, k - 1, r) = oplog[b].val
  BY <1>2, <1>5, <1>6, <1>8, <1>9, StateAtLatest
<1>11. QED BY <1>7, <1>10 DEF r

\* A create in the log found no state, and Main's is the second op.
LEMMA NothingBeforeCreate ==
  ASSUME IInv, Shape, CreatesFirst, NEW k \in 1 .. Len(oplog), oplog[k].kind = "create"
  PROVE  /\ StateAt(oplog, k - 1, oplog[k].row) = None
         /\ oplog[k].row = Main => k = 2
<1>1. Len(oplog) \in Nat BY LenProperties DEF IInv, TypeOK
<1>2. \A j \in 1 .. k - 1 : oplog[j].row # oplog[k].row BY DEF CreatesFirst
<1>3. StateAt(oplog, k - 1, oplog[k].row) = None BY <1>2, StateAtNone
<1>4. ASSUME oplog[k].row = Main PROVE k = 2
  <2>1. /\ Len(oplog) >= 2 /\ oplog[1].kind = "chain" /\ oplog[2].row = Main
    BY DEF Shape, LogMade
  <2>2. k # 1 BY <2>1
  <2>3. ~(2 \in 1 .. k - 1) BY <1>2, <1>4, <2>1
  <2>4. QED BY <1>1, <2>2, <2>3
<1>5. QED BY <1>3, <1>4

-----------------------------------------------------------------------------
(* Who touches a copy. *)

\* A process that works under the lock touches its own copy only.
LEMMA TouchesOwn ==
  ASSUME IInv, LockKept, lapses = 0, NEW p \in Procs, Works(p), NEW d \in Copies, d # work[p].copy
  PROVE  /\ applied'[d] = applied[d] /\ linked'[d] = linked[d] /\ book'[d] = book[d]
         /\ status'[d] = status[d]
<1> DEFINE Same == /\ applied'[d] = applied[d] /\ linked'[d] = linked[d]
                   /\ book'[d] = book[d] /\ status'[d] = status[d]
<1>1. /\ applied \in [Copies -> Nat] /\ linked \in [Copies -> SUBSET Rows]
      /\ book \in [Copies -> [Rows -> Values \cup {None}]]
  BY DEF IInv, TypeOK
<1>2. \A r, v : book' = [book EXCEPT ![work[p].copy][r] = v] => book'[d] = book[d]
  BY <1>1
<1>3. ASSUME NEW ops, Apply(p, ops), Replaying(work[p]) \/ ops[1].by = work[p].copy
      PROVE  Same
  <2>1. UNCHANGED <<applied, linked, status>> BY <1>3 DEF Apply, copyVars
  <2>2. \/ UNCHANGED book
        \/ \E v : book' = [book EXCEPT ![work[p].copy][ops[1].row] = v]
        \/ /\ ~Replaying(work[p])
           /\ \E v : book' = [book EXCEPT ![ops[1].by][ops[1].row] = v]
    BY <1>3 DEF Apply, copyVars
  <2>3. book'[d] = book[d] BY <1>2, <1>3, <2>2
  <2>4. QED BY <2>1, <2>3
<1>4. ApplyNext(p) \/ Act(p) => Same
  <2>1. CASE ApplyNext(p) BY <1>3, <2>1 DEF ApplyNext
  <2>2. CASE Act(p)
    <3>1. work[p].ops[1].by = work[p].copy /\ Apply(p, work[p].ops)
      BY <2>2, ActsOnOwn DEF Act
    <3> HIDE DEF Same
    <3>2. QED BY <1>3, <3>1
  <2>3. QED BY <2>1, <2>2
<1>5. Recreate(p) => Same BY DEF Recreate
<1>6. Repoint(p) => Same BY <1>2 DEF Repoint
<1>7. Link(p) => Same
  <2>1. \A S : linked' = [linked EXCEPT ![work[p].copy] = S] => linked'[d] = linked[d]
    BY <1>1
  <2>2. QED BY <1>2, <2>1 DEF Link
<1>8. Unlink(p) => Same
  <2>1. \A S : linked' = [linked EXCEPT ![work[p].copy] = S] => linked'[d] = linked[d]
    BY <1>1
  <2>2. QED BY <1>2, <2>1 DEF Unlink
<1>9. Bump(p) \/ Ack(p) => Same
  <2>1. \A n : applied' = [applied EXCEPT ![work[p].copy] = n] => applied'[d] = applied[d]
    BY <1>1
  <2>2. Ack(p) => work[p].member = work[p].copy BY AcksOwn
  <2>3. QED BY <2>1, <2>2 DEF Bump, Ack
<1>10. Replicate(p) => Same
  BY DEF Replicate, JobPick, Visit, VisitDone, JobDone, copyVars
<1>11. CaughtUp(p) \/ ChooseRefused(p) \/ Finish(p) \/ AppendOps(p) => Same
  BY DEF CaughtUp, ChooseRefused, Finish, AppendOps, copyVars
<1>12. ChooseCreate(p) => Same BY DEF ChooseCreate, copyVars
<1>13. ChooseEdit(p) => Same BY DEF ChooseEdit, copyVars
<1> HIDE DEF Same
<1>14. Same
  BY <1>4, <1>5, <1>6, <1>7, <1>8, <1>9, <1>10, <1>11, <1>12, <1>13
     DEF Works, Applies, Submit
<1>15. QED BY <1>14 DEF Same

\* A member comes with a Main and nothing else, and touches no other copy.
LEMMA JoinTouches ==
  ASSUME IInv, NEW p \in Procs, Join(p)
  PROVE  /\ work'[p].copy \in Copies /\ status[work'[p].copy] = "out"
         /\ status'[work'[p].copy] = "active"
         /\ linked'[work'[p].copy] = {Main}
         /\ book'[work'[p].copy] = [book[work'[p].copy] EXCEPT ![Main] = DefaultName]
         /\ \A d \in Copies \ {work'[p].copy} :
              linked'[d] = linked[d] /\ book'[d] = book[d] /\ status'[d] = status[d]
<1>1. PICK c \in Copies :
        /\ status[c] = "out"
        /\ status' = [status EXCEPT ![c] = "active"]
        /\ linked' = [linked EXCEPT ![c] = {Main}]
        /\ book' = [book EXCEPT ![c][Main] = DefaultName]
        /\ work' = [work EXCEPT ![p] = [Idle EXCEPT !.job = "join", !.pc = "append",
                                           !.copy = c, !.ops = <<ChainOp(c)>>]]
  BY DEF Join
<1>2. work'[p].copy = c BY <1>1, Known DEF Idle
<1>3. QED BY <1>1, <1>2 DEF IInv, TypeOK

\* A departure changes a membership, and touches no copy.
LEMMA DepartTouches ==
  ASSUME IInv, NEW p \in Procs, Depart(p)
  PROVE  /\ UNCHANGED <<applied, linked, book>>
         /\ \A d \in Copies : status'[d] # "out" => status[d] # "out"
<1>1. PICK c \in Active : status' = [status EXCEPT ![c] = "ended"] BY DEF Depart
<1>2. QED BY <1>1 DEF Depart, Active, IInv, TypeOK

\* A copy that nobody joined stays empty.
LEMMA RosterKept ==
  ASSUME IInv, LockKept, Shape, RosterOK, [Next]_vars
  PROVE  RosterOK'
<1> SUFFICES ASSUME lapses' = 0 PROVE RosterOK'
  BY DEF RosterOK
<1>0. lapses = 0
  <2>1. ~Lapse BY DEF Lapse, IInv, TypeOK
  <2>2. QED BY <2>1, LapsesKept
<1>1. ASSUME NEW c \in Copies, status'[c] = "out"
      PROVE  /\ status[c] = "out" /\ applied'[c] = applied[c]
             /\ linked'[c] = linked[c] /\ book'[c] = book[c]
  <2>1. status[c] = "out" BY <1>1, NeverOutAgain
  <2>2. ASSUME NEW p \in Procs, Works(p)
        PROVE  applied'[c] = applied[c] /\ linked'[c] = linked[c] /\ book'[c] = book[c]
    <3>1. work[p].copy # c BY <2>1, RowsAssumption DEF Shape, Suits
    <3>2. QED BY <1>0, <2>2, <3>1, TouchesOwn
  <2>3. ASSUME NEW p \in Procs, Join(p)
        PROVE  applied'[c] = applied[c] /\ linked'[c] = linked[c] /\ book'[c] = book[c]
    <3>1. c # work'[p].copy BY <1>1, <2>3, JoinTouches
    <3>2. applied' = applied BY <2>3 DEF Join
    <3>3. linked'[c] = linked[c] /\ book'[c] = book[c] BY <2>3, <3>1, JoinTouches
    <3>4. QED BY <3>2, <3>3
  <2>4. ASSUME NEW p \in Procs, Depart(p) \/ SubmitStart(p) \/ Error(p) \/ Busy(p) \/ Crash(p)
        PROVE  UNCHANGED <<applied, linked, book>>
    BY <2>4 DEF Depart, SubmitStart, Error, Busy, Crash, copyVars
  <2>5. Lapse \/ UNCHANGED vars => UNCHANGED <<applied, linked, book>>
    BY DEF Lapse, vars, copyVars
  <2>6. QED BY <2>1, <2>2, <2>3, <2>4, <2>5 DEF Next
<1>2. applied'[Founder] >= 2
  <2>1. applied[Founder] <= applied'[Founder] BY WatermarkSteps, ReplicationAssumption
  <2>2. applied[Founder] \in Nat /\ applied'[Founder] \in Nat
    BY NextKeeps, ReplicationAssumption DEF IInv, TypeOK
  <2>3. QED BY <1>0, <2>1, <2>2 DEF RosterOK
<1>3. QED BY <1>0, <1>1, <1>2 DEF RosterOK

-----------------------------------------------------------------------------
(* Steps that leave most copies alone. *)

\* The log at most grows.
Grows ==
  /\ Len(oplog) \in Nat /\ Len(oplog') \in Nat /\ Len(oplog) <= Len(oplog')
  /\ \A i \in 1 .. Len(oplog) : oplog'[i] = oplog[i]

\* A copy that is left alone holds what it held,
LEMMA HoldsStays ==
  ASSUME Grows, NEW d, NEW r, NEW n \in 0 .. Len(oplog),
         linked'[d] = linked[d], book'[d] = book[d]
  PROVE  Holds(d, r, n)' <=> Holds(d, r, n)
<1>1. n \in Nat /\ \A i \in 1 .. n : oplog'[i] = oplog[i] BY DEF Grows
<1>2. Held(oplog', d, r, n) = Held(oplog, d, r, n) BY <1>1, HeldPrefix
<1>3. QED BY <1>2 DEF Holds

\* and is where it was with respect to the log.
LEMMA CopiedStays ==
  ASSUME Grows, NEW d, NEW r, applied[d] \in 0 .. Len(oplog),
         applied'[d] = applied[d], linked'[d] = linked[d], book'[d] = book[d],
         Copied(d, r)
  PROVE  Copied(d, r)'
<1>1. CASE Holds(d, r, applied[d]) BY <1>1, HoldsStays DEF Copied
<1>2. CASE Begun(d, r)
  <2>1. PICK n \in applied[d] + 1 .. Len(oplog) :
          /\ oplog[n].row = r /\ \A j \in applied[d] + 1 .. n - 1 : oplog[j].row # r
          /\ \/ Holds(d, r, n) /\ (n = applied[d] + 1 \/ oplog[n].by = d)
             \/ n = applied[d] + 1 /\ book[d][r] = None /\ r \in linked[d] /\ Guarded(oplog[n])
    BY <1>2 DEF Begun
  <2>2. /\ n \in applied'[d] + 1 .. Len(oplog') /\ oplog'[n] = oplog[n]
        /\ n \in 0 .. Len(oplog)
        /\ \A j \in applied[d] + 1 .. n - 1 : oplog'[j] = oplog[j]
    <3>1. applied[d] \in Nat /\ n \in 1 .. Len(oplog) BY DEF Grows
    <3>2. \A j \in applied[d] + 1 .. n - 1 : j \in 1 .. Len(oplog) BY <3>1 DEF Grows
    <3>3. QED BY <3>1, <3>2 DEF Grows
  <2>3. Holds(d, r, n)' <=> Holds(d, r, n) BY <2>2, HoldsStays
  <2>4. Begun(d, r)' BY <2>1, <2>2, <2>3 DEF Begun
  <2>5. QED BY <2>4 DEF Copied
<1>3. QED BY <1>1, <1>2 DEF Copied

\* A step of the process inside, or of one that gets in, on its copy c.
LEMMA FaithfulInside ==
  ASSUME IInv, LockKept, Faithful, lapses = 0, NEW p \in Procs, OthersStay(p),
         Inside(work[p]) \/ LockFree, Grows, NEW c \in Copies,
         Inside(work[p]) => work[p].copy = c,
         \A d \in Copies \ {c} :
           /\ applied'[d] = applied[d] /\ linked'[d] = linked[d] /\ book'[d] = book[d]
           /\ status'[d] # "out" => status[d] # "out",
         tainted \subseteq tainted',
         c \notin tainted' /\ status'[c] # "out" =>
           \A r \in Rows : Born(r)' => Copied(c, r)' \/ InFlight(c, r)',
         Inside(work'[p]) /\ work'[p].copy \notin tainted' => Reaches(work[p])'
  PROVE  RowsOK' /\ ReachesOK'
<1>1. \A q \in Procs \ {p} : ~Inside(work[q]) /\ work'[q] = work[q]
  BY NobodyElse DEF OthersStay
<1>2. ReachesOK' BY <1>1 DEF ReachesOK
<1>3. RowsOK'
  <2> SUFFICES ASSUME NEW d \in Copies \ tainted', status'[d] # "out",
                      NEW r \in Rows, Born(r)'
               PROVE  Copied(d, r)' \/ InFlight(d, r)'
    BY DEF RowsOK
  <2>1. CASE d = c BY <2>1
  <2>2. CASE d # c
    <3>1. ~InFlight(d, r)
      <4>1. \A q \in Procs : Uncommitted(work[q]) => q = p /\ work[q].copy = c
        BY <1>1 DEF Uncommitted, Inside
      <4>2. QED BY <2>2, <4>1 DEF InFlight
    <3>2. Born(r) BY BornBefore DEF Grows
    <3>3. Copied(d, r) BY <2>2, <3>1, <3>2 DEF Faithful, RowsOK
    <3>4. applied[d] \in 0 .. Len(oplog) BY DEF IInv, TypeOK, LogOK, Grows
    <3>5. QED BY <2>2, <3>3, <3>4, CopiedStays
  <2>3. QED BY <2>1, <2>2
<1>4. QED BY <1>2, <1>3

\* A step that leaves the log and all copies alone.
LEMMA FaithfulQuiet ==
  ASSUME IInv, Faithful, lapses = 0, NEW p \in Procs, OthersStay(p),
         UNCHANGED <<oplog, applied, linked, book>>, tainted \subseteq tainted',
         \A d \in Copies : status'[d] # "out" => status[d] # "out",
         Uncommitted(work[p]) =>
           \/ work[p].copy \in tainted'
           \/ Uncommitted(work'[p]) /\ work'[p].copy = work[p].copy /\ work'[p].ops = work[p].ops,
         Inside(work'[p]) /\ work'[p].copy \notin tainted' => Reaches(work[p])'
  PROVE  RowsOK' /\ ReachesOK'
<1>1. \A q \in Procs \ {p} : work'[q] = work[q] BY DEF OthersStay
<1>2. ReachesOK'
  <2> SUFFICES ASSUME NEW q \in Procs, Inside(work'[q]), work'[q].copy \notin tainted'
               PROVE  Reaches(work[q])'
    BY DEF ReachesOK
  <2>1. CASE q = p BY <2>1
  <2>2. CASE q # p
    <3>1. work'[q] = work[q] /\ Reaches(work[q])
      BY <1>1, <2>2 DEF Faithful, ReachesOK
    <3>2. \A r : Born(r)' <=> Born(r) BY DEF Born
    <3>3. \A d, r, n : Holds(d, r, n)' <=> Holds(d, r, n) BY DEF Holds
    <3>4. \A d, op : Reached(d, op)' <=> Reached(d, op) BY DEF Reached
    <3>5. QED BY <3>1, <3>2, <3>3, <3>4 DEF Reaches
  <2>3. QED BY <2>1, <2>2
<1>3. RowsOK'
  <2> SUFFICES ASSUME NEW d \in Copies \ tainted', status'[d] # "out",
                      NEW r \in Rows, Born(r)'
               PROVE  Copied(d, r)' \/ InFlight(d, r)'
    BY DEF RowsOK
  <2>1. Born(r) BY DEF Born
  <2>2. CASE Copied(d, r) BY <2>2 DEF Copied, Holds, Begun
  <2>3. CASE InFlight(d, r)
    <3>1. PICK q \in Procs :
            /\ Uncommitted(work[q]) /\ work[q].copy = d
            /\ \E i \in 1 .. Len(work[q].ops) : work[q].ops[i].row = r
      BY <2>3 DEF InFlight
    <3>2. /\ Uncommitted(work'[q]) /\ work'[q].copy = work[q].copy
          /\ work'[q].ops = work[q].ops
      BY <1>1, <3>1
    <3>3. Uncommitted(work[q])' BY <3>2 DEF Uncommitted, Replaying
    <3>4. InFlight(d, r)' BY <3>1, <3>2, <3>3 DEF InFlight
    <3>5. QED BY <3>4
  <2>4. QED BY <2>1, <2>2, <2>3 DEF Faithful, RowsOK
<1>4. QED BY <1>2, <1>3

\* A failure taints the copy of a write that was under way, and changes none.
LEMMA FaithfulFails ==
  ASSUME IInv, Faithful, lapses = 0, NEW p \in Procs, Fails(p),
         UNCHANGED <<oplog, copyVars>>
  PROVE  RowsOK' /\ ReachesOK'
<1>1. OthersStay(p) /\ ~Inside(work'[p]) BY FailsRecord
<1>2. /\ tainted \subseteq tainted'
      /\ Uncommitted(work[p]) => work[p].copy \in tainted'
  BY DEF Fails
<1>3. QED BY <1>1, <1>2, FaithfulQuiet DEF copyVars

\* What a copy holds while one process is inside and has no write under way.
LEMMA NothingInFlight ==
  ASSUME IInv, LockKept, Faithful, lapses = 0, NEW p \in Procs, Inside(work[p]),
         ~Uncommitted(work[p]), Suits(work[p]), work[p].copy \notin tainted
  PROVE  /\ work[p].copy \in Copies /\ status[work[p].copy] # "out"
         /\ \A r \in Rows : Born(r) => Copied(work[p].copy, r)
<1>1. work[p].copy \in Copies /\ status[work[p].copy] # "out"
  BY Known DEF Fits, Inside, Suits
<1>2. \A q \in Procs : ~Uncommitted(work[q])
  BY NobodyElse DEF Uncommitted, Inside
<1>3. QED BY <1>1, <1>2 DEF Faithful, RowsOK, InFlight

-----------------------------------------------------------------------------
(* Steps that change no copy. *)

\* In most phases there is nothing to reach.
LEMMA NothingToReach ==
  ASSUME NEW p \in Procs,
         \/ work'[p].pc \in {"apply", "choose", "act", "finish"}
         \/ work'[p].pc = "append" /\ work'[p].job # "submit"
  PROVE  Reaches(work[p])'
BY DEF Reaches

\* Steps out of the lock, and steps of a job outside it.
LEMMA OutsideFaithful ==
  ASSUME IInv, Shape, Faithful, lapses = 0, NEW p \in Procs,
         JobPick(p) \/ JobDone(p) \/ Busy(p) \/ VisitDone(p) \/ Finish(p) \/ Crash(p)
  PROVE  RowsOK' /\ ReachesOK'
<1>1. OthersStay(p) /\ ~Inside(work'[p]) /\ UNCHANGED <<oplog, copyVars>>
  BY OutsideRecord DEF Shape
<1>2. /\ tainted \subseteq tainted'
      /\ Uncommitted(work[p]) => work[p].copy \in tainted'
  BY DEF JobPick, JobDone, Busy, VisitDone, Finish, Crash, Uncommitted
<1>3. QED BY <1>1, <1>2, FaithfulQuiet DEF copyVars

\* Steps into the lock, and up to the choice of a write.
LEMMA StartFaithful ==
  ASSUME IInv, Shape, Faithful, lapses = 0, NEW p \in Procs,
         Visit(p) \/ SubmitStart(p) \/ CaughtUp(p) \/ ChooseCreate(p) \/ ChooseEdit(p)
  PROVE  RowsOK' /\ ReachesOK'
<1>1. CASE CaughtUp(p) /\ Fails(p) BY <1>1, CaughtUpRecord, FaithfulFails
<1>2. CASE ~(CaughtUp(p) /\ Fails(p))
  <2>1. /\ OthersStay(p) /\ UNCHANGED <<oplog, copyVars, tainted>>
        /\ work[p].pc \in {"idle", "sweep", "apply", "choose"}
        /\ work'[p].pc \in {"sweep", "apply", "choose", "act"}
    <3>1. CASE Visit(p) BY <3>1, VisitRecord
    <3>2. CASE SubmitStart(p) BY <3>2, SubmitStartRecord DEF FirstPhase, Inside
    <3>3. CASE CaughtUp(p) BY <1>2, <3>3, CaughtUpRecord
    <3>4. CASE ChooseCreate(p)
      <4>1. PICK ops : Goes(p, "act", ops) BY <3>4, ChooseCreateOps
      <4>2. QED BY <3>4, <4>1, GoesRecord, ChooseCreateOps DEF ChooseCreate
    <3>5. CASE ChooseEdit(p)
      <4>1. PICK op, d : EditsIn(p, d, <<op>>) BY <3>5, ChooseEditOps
      <4>2. QED BY <3>5, <4>1, EditsRecord, ChooseEditOps DEF ChooseEdit
    <3>6. QED BY <3>1, <3>2, <3>3, <3>4, <3>5
  <2>2. ~Uncommitted(work[p]) BY <2>1 DEF Uncommitted
  <2>3. ASSUME Inside(work'[p]) PROVE Reaches(work[p])'
    <3>1. work'[p].pc \in {"apply", "choose", "act", "finish"} BY <2>1, <2>3 DEF Inside
    <3>2. QED BY <3>1, NothingToReach
  <2>4. QED BY <2>1, <2>2, <2>3, FaithfulQuiet DEF copyVars
<1>3. QED BY <1>1, <1>2

\* A departure.
LEMMA DepartFaithful ==
  ASSUME IInv, Faithful, lapses = 0, NEW p \in Procs, Depart(p)
  PROVE  RowsOK' /\ ReachesOK'
<1>1. /\ OthersStay(p) /\ ~Inside(work[p]) /\ UNCHANGED <<oplog, tainted>>
      /\ work'[p].pc = "append" /\ work'[p].job \in {"join", "depart"}
  BY EventRecord
<1>2. ~Uncommitted(work[p]) BY <1>1 DEF Uncommitted, Inside
<1>3. Reaches(work[p])' BY <1>1, NothingToReach
<1>4. QED BY <1>1, <1>2, <1>3, DepartTouches, FaithfulQuiet

\* The deleted row is created anew, and not yet linked.
LEMMA RecreateFaithful ==
  ASSUME IInv, Faithful, lapses = 0, NEW p \in Procs, Recreate(p)
  PROVE  RowsOK' /\ ReachesOK'
<1>1. /\ OthersStay(p) /\ work[p].pc = "recreate" /\ work'[p].pc = "repoint"
      /\ work'[p].ops = work[p].ops /\ work'[p].copy = work[p].copy
      /\ work'[p].job = work[p].job /\ work'[p].at = work[p].at
      /\ work'[p].upto = work[p].upto
  BY PhaseRecord DEF Recreate
<1>2. UNCHANGED <<oplog, status, applied, linked, book, tainted>> BY DEF Recreate
<1>3. Uncommitted(work[p]) => Uncommitted(work'[p])
  BY <1>1 DEF Uncommitted, Replaying
<1>4. ASSUME work'[p].copy \notin tainted' PROVE Reaches(work[p])'
  <2>1. Reaches(work[p]) BY <1>1, <1>2, <1>4 DEF Faithful, ReachesOK, Inside
  <2>2. work[p].ops[1].kind = "update" /\ work[p].ops[1].row \in linked[work[p].copy]
    BY <1>1, <2>1 DEF Reaches
  <2>3. QED BY <1>1, <1>2, <2>2 DEF Reaches
<1>5. QED BY <1>1, <1>2, <1>3, <1>4, FaithfulQuiet

\* A member comes with its Main.
LEMMA JoinFaithful ==
  ASSUME IInv, LockKept, Shape, RosterOK, Faithful, lapses = 0, NEW p \in Procs, Join(p)
  PROVE  RowsOK' /\ ReachesOK'
<1>0. PICK c : c = work'[p].copy OBVIOUS
<1>1. /\ OthersStay(p) /\ LockFree /\ ~Inside(work[p])
      /\ UNCHANGED <<oplog, applied, tainted>>
      /\ work'[p].pc = "append" /\ work'[p].job \in {"join", "depart"}
  BY EventRecord
<1>2. Reaches(work[p])' BY <1>1, NothingToReach
<1>3. /\ c \in Copies /\ c # Founder /\ applied[c] = 0
      /\ linked'[c] = {Main} /\ \A r \in Rows : book[c][r] = None
      /\ book'[c] = [book[c] EXCEPT ![Main] = DefaultName]
      /\ book[c] \in [Rows -> Values \cup {None}]
  <2>1. /\ c \in Copies /\ status[c] = "out" /\ linked'[c] = {Main}
        /\ book'[c] = [book[c] EXCEPT ![Main] = DefaultName]
    BY <1>0, JoinTouches
  <2>2. c # Founder /\ applied[c] = 0 /\ \A r \in Rows : book[c][r] = None
    BY <2>1 DEF RosterOK
  <2>3. book[c] \in [Rows -> Values \cup {None}] BY <2>1 DEF IInv, TypeOK
  <2>4. QED BY <2>1, <2>2, <2>3
<1>4. ASSUME NEW r \in Rows PROVE Copied(c, r)'
  <2>1. Held(oplog', c, r, 0) = IF r = Main THEN DefaultName ELSE None
    <3>1. StateAt(oplog', 0, r) = None BY StateAtNone
    <3>2. QED BY <1>3, <3>1 DEF Held
  <2>2. DefaultName # None BY ReplicationAssumption, RowsAssumption
  <2>3. book'[c][r] = IF r = Main THEN DefaultName ELSE None BY <1>3
  <2>4. applied'[c] = 0 BY <1>1, <1>3
  <2>5. Holds(c, r, 0)' BY <1>3, <2>1, <2>2, <2>3 DEF Holds
  <2>6. QED BY <2>4, <2>5 DEF Copied
<1>5. Grows BY <1>1, Known DEF Grows
<1>6. \A d \in Copies \ {c} :
        /\ applied'[d] = applied[d] /\ linked'[d] = linked[d] /\ book'[d] = book[d]
        /\ status'[d] # "out" => status[d] # "out"
  BY <1>0, <1>1, JoinTouches
<1>7. QED BY <1>1, <1>2, <1>3, <1>4, <1>5, <1>6, FaithfulInside

-----------------------------------------------------------------------------
(* The op a process replays. *)

\* A row that is left alone is where it was.
LEMMA RowStays ==
  ASSUME UNCHANGED <<oplog, applied>>, NEW c, NEW s, book'[c][s] = book[c][s],
         s \in linked'[c] <=> s \in linked[c], Copied(c, s)
  PROVE  Copied(c, s)'
<1>1. \A n : Holds(c, s, n)' <=> Holds(c, s, n) BY DEF Holds
<1>2. QED BY <1>1 DEF Copied, Begun

\* Who replays is at the copy's watermark.
LEMMA ReplayPoint ==
  ASSUME IInv, Locked, lapses = 0, NEW p \in Procs, Replaying(work[p]),
         work[p].pc \in Handling \cup {"apply", "bump"}
  PROVE  /\ Inside(work[p]) /\ work[p].copy \in Copies
         /\ work[p].at = applied[work[p].copy] /\ work[p].at \in Nat
         /\ work[p].at + 1 \in 1 .. Len(oplog) /\ Len(oplog) \in Nat
         /\ work[p].pc \in Handling => work[p].ops = <<oplog[work[p].at + 1]>>
         /\ ~Uncommitted(work[p])
<1>1. /\ work[p] \in Work /\ Fits(work[p], Len(oplog)) /\ Inside(work[p])
      /\ Len(oplog) \in Nat
  BY Known DEF Inside, Handling
<1>2. AtWork(work[p]) BY <1>1 DEF Locked
<1>3. work[p].job \notin {"join", "depart"} BY <1>1 DEF Fits, Handling
<1>4. /\ work[p].at = applied[work[p].copy] /\ work[p].upto = Len(oplog)
      /\ work[p].at \in Nat
  BY <1>1, <1>2, <1>3 DEF AtWork, Handling, Work
<1>5. work[p].at + 1 \in 1 .. Len(oplog) BY <1>1, <1>4 DEF Replaying
<1>6. QED BY <1>1, <1>2, <1>4, <1>5 DEF AtWork, Fits, Inside, Uncommitted

\* What a copy should hold before and after the next op.
LEMMA NextOpHeld ==
  ASSUME IInv, Shape, RosterOK, NoLostUpdate, CreatesFirst, lapses = 0, NEW c \in Copies,
         NEW k \in 1 .. Len(oplog), k = applied[c] + 1, oplog[k].row \in Rows,
         Born(oplog[k].row)
  PROVE  /\ Guarded(oplog[k]) =>
              /\ Held(oplog, c, oplog[k].row, k) = oplog[k].val
              /\ Held(oplog, c, oplog[k].row, k - 1) \in Values
         /\ oplog[k].kind = "create" /\ oplog[k].row # Main =>
              /\ Held(oplog, c, oplog[k].row, k) = oplog[k].val
              /\ Held(oplog, c, oplog[k].row, k - 1) = None
         /\ oplog[k].kind = "create" /\ oplog[k].row = Main =>
              /\ Held(oplog, c, oplog[k].row, k) = DefaultName
              /\ Held(oplog, c, oplog[k].row, k - 1) = DefaultName
<1> DEFINE r == oplog[k].row
<1>1. k \in Nat \ {0} /\ applied[c] \in Nat BY DEF IInv, TypeOK
<1>2. ASSUME Guarded(oplog[k])
      PROVE  Held(oplog, c, r, k) = oplog[k].val /\ Held(oplog, c, r, k - 1) \in Values
  <2>1. k # 1 /\ k # 2 BY <1>2 DEF Shape, LogMade, Guarded
  <2>2. k >= 3 BY <1>1, <2>1
  <2>3. Held(oplog, c, r, k) = oplog[k].val BY <1>1, <2>2, HeldNext
  <2>4. StateAt(oplog, k - 1, r) \in Values BY <1>2, LiveBeforeEdit
  <2>5. DefaultName \in Values BY ReplicationAssumption
  <2>6. Held(oplog, c, r, k - 1) \in {DefaultName, StateAt(oplog, k - 1, r)} BY DEF Held
  <2>7. QED BY <2>3, <2>4, <2>5, <2>6
<1>3. ASSUME oplog[k].kind = "create", r # Main
      PROVE  Held(oplog, c, r, k) = oplog[k].val /\ Held(oplog, c, r, k - 1) = None
  <2>1. Held(oplog, c, r, k) = oplog[k].val BY <1>1, <1>3, HeldNext
  <2>2. StateAt(oplog, k - 1, r) = None BY <1>3, NothingBeforeCreate
  <2>3. QED BY <1>3, <2>1, <2>2 DEF Held
<1>4. ASSUME oplog[k].kind = "create", r = Main
      PROVE  /\ Held(oplog, c, r, k) = DefaultName
             /\ Held(oplog, c, r, k - 1) = DefaultName
  <2>1. k = 2 BY <1>4, NothingBeforeCreate
  <2>2. c # Founder BY <1>1, <2>1 DEF RosterOK
  <2>3. \A j \in 3 .. k : FALSE BY <2>1
  <2>4. \A j \in 3 .. k - 1 : FALSE BY <2>1
  <2>5. QED BY <1>4, <2>2, <2>3, <2>4 DEF Held
<1>5. QED BY <1>2, <1>3, <1>4

\* Where a copy may be with respect to the next op.
LEMMA NextOpCopied ==
  ASSUME NEW c, applied[c] \in Nat, NEW k \in 1 .. Len(oplog), k = applied[c] + 1,
         NEW r, oplog[k].row = r, Copied(c, r)
  PROVE  \/ Holds(c, r, k - 1) \/ Holds(c, r, k)
         \/ book[c][r] = None /\ r \in linked[c] /\ Guarded(oplog[k])
<1>1. CASE Holds(c, r, applied[c])
  <2>1. k - 1 = applied[c] OBVIOUS
  <2>2. QED BY <1>1, <2>1
<1>2. CASE Begun(c, r)
  <2>1. PICK n \in applied[c] + 1 .. Len(oplog) :
          /\ oplog[n].row = r /\ \A j \in applied[c] + 1 .. n - 1 : oplog[j].row # r
          /\ \/ Holds(c, r, n) /\ (n = applied[c] + 1 \/ oplog[n].by = c)
             \/ n = applied[c] + 1 /\ book[c][r] = None /\ r \in linked[c] /\ Guarded(oplog[n])
    BY <1>2 DEF Begun
  <2>2. n = k
    <3> SUFFICES ASSUME n # k PROVE FALSE
      OBVIOUS
    <3>1. k \in applied[c] + 1 .. n - 1 BY <2>1
    <3>2. QED BY <2>1, <3>1
  <2>3. QED BY <2>1, <2>2
<1>3. QED BY <1>1, <1>2 DEF Copied

\* A copy that has the next op, or has begun with it.
LEMMA HasBegun ==
  ASSUME NEW c, applied[c] \in Nat, NEW k \in 1 .. Len(oplog), k = applied[c] + 1,
         NEW r, oplog[k].row = r,
         \/ Holds(c, r, k)
         \/ book[c][r] = None /\ r \in linked[c] /\ Guarded(oplog[k])
  PROVE  Copied(c, r)
<1>1. k \in applied[c] + 1 .. Len(oplog) /\ \A j \in applied[c] + 1 .. k - 1 : FALSE
  OBVIOUS
<1>2. Begun(c, r) BY <1>1 DEF Begun
<1>3. QED BY <1>2 DEF Copied

\* Re-delivery skips an op only where the copy has it.
LEMMA SkippedIsHeld ==
  ASSUME IInv, Shape, RosterOK, NoLostUpdate, CreatesFirst, lapses = 0, NEW c \in Copies,
         NEW k \in 1 .. Len(oplog), k = applied[c] + 1, NEW op, op = oplog[k],
         op.row \in Rows, Born(op.row), Copied(c, op.row), Skips(c, op)
  PROVE  Holds(c, op.row, k)
<1> DEFINE r == op.row
<1>1. /\ applied[c] \in Nat /\ WellMade(op) /\ op \in Op /\ None \notin Values
      /\ DefaultName \in Values
  BY ReplicationAssumption, RowsAssumption DEF Shape, LogMade, IInv, TypeOK
<1>2. \/ Holds(c, r, k - 1) \/ Holds(c, r, k)
      \/ book[c][r] = None /\ r \in linked[c] /\ Guarded(op)
  BY <1>1, NextOpCopied
<1>3. op.kind # "chain" BY <1>1, RowsAssumption DEF WellMade, Rows
<1>4. CASE op.kind = "create"
  <2>1. r \in linked[c] /\ ~Guarded(op) BY <1>4 DEF Skips, Guarded
  <2>2. CASE r # Main
    <3>1. Held(oplog, c, r, k - 1) = None BY <1>4, <2>2, NextOpHeld
    <3>2. QED BY <1>2, <2>1, <3>1 DEF Holds
  <2>3. CASE r = Main
    <3>1. Held(oplog, c, r, k - 1) = Held(oplog, c, r, k) BY <1>4, <2>3, NextOpHeld
    <3>2. QED BY <1>2, <2>1, <3>1 DEF Holds
  <2>4. QED BY <2>2, <2>3
<1>5. CASE op.kind = "update"
  <2>1. /\ Held(oplog, c, r, k) = op.val /\ Held(oplog, c, r, k - 1) \in Values
        /\ op.val \in Values
    BY <1>1, <1>5, NextOpHeld DEF Guarded, WellMade
  <2>2. r \in linked[c] BY <1>1, <1>2, <1>5, <2>1 DEF Holds, Skips
  <2>3. book[c][r] = op.val BY <1>5, <2>2 DEF Skips
  <2>4. QED BY <1>1, <2>1, <2>2, <2>3 DEF Holds
<1>6. CASE op.kind = "delete"
  <2>1. Held(oplog, c, r, k - 1) \in Values /\ r \notin linked[c]
    BY <1>6, NextOpHeld DEF Guarded, Skips
  <2>2. QED BY <1>1, <1>2, <2>1 DEF Holds
<1>7. QED BY <1>1, <1>3, <1>4, <1>5, <1>6 DEF Op, Kinds

\* A step on the row of the op being replayed.
LEMMA ReplayRow ==
  ASSUME IInv, LockKept, Locked, Shape, Faithful, lapses = 0, NEW p \in Procs,
         OthersStay(p), Replaying(work[p]), work[p].pc \in Handling \cup {"apply", "bump"},
         UNCHANGED <<oplog, applied, status, tainted>>,
         NEW c, c = work[p].copy, NEW k, k = work[p].at + 1,
         \A d \in Copies \ {c} : linked'[d] = linked[d] /\ book'[d] = book[d],
         \A s \in Rows : s # oplog[k].row =>
           book'[c][s] = book[c][s] /\ (s \in linked'[c] <=> s \in linked[c]),
         c \notin tainted /\ oplog[k].row \in Rows /\ Born(oplog[k].row) =>
           \/ Holds(c, oplog[k].row, k)'
           \/ book'[c][oplog[k].row] = None /\ oplog[k].row \in linked'[c]
              /\ Guarded(oplog[k]),
         work'[p].copy = c, c \notin tainted => Reaches(work[p])'
  PROVE  RowsOK' /\ ReachesOK'
<1>1. /\ Inside(work[p]) /\ c \in Copies /\ k = applied[c] + 1 /\ applied[c] \in Nat
      /\ k \in 1 .. Len(oplog) /\ Len(oplog) \in Nat /\ ~Uncommitted(work[p])
  BY ReplayPoint
<1>2. Grows BY <1>1 DEF Grows
<1>3. ASSUME c \notin tainted', NEW s \in Rows, Born(s)' PROVE Copied(c, s)'
  <2>1. Born(s) /\ c \notin tainted BY <1>3 DEF Born
  <2>2. Copied(c, s) BY <1>1, <2>1, NothingInFlight DEF Shape
  <2>3. CASE s # oplog[k].row BY <2>2, <2>3, RowStays
  <2>4. CASE s = oplog[k].row
    <3>1. /\ applied'[c] = applied[c] /\ oplog' = oplog BY <1>1
    <3>2. \/ Holds(c, s, k)'
          \/ book'[c][s] = None /\ s \in linked'[c] /\ Guarded(oplog'[k])
      BY <2>1, <2>4
    <3>3. /\ k \in applied'[c] + 1 .. Len(oplog')
          /\ \A j \in applied'[c] + 1 .. k - 1 : FALSE
          /\ k = applied'[c] + 1 /\ oplog'[k].row = s
      BY <1>1, <2>4, <3>1
    <3>4. Begun(c, s)' BY <3>2, <3>3 DEF Begun
    <3>5. QED BY <3>4 DEF Copied
  <2>5. QED BY <2>3, <2>4
<1>4. QED BY <1>1, <1>2, <1>3, FaithfulInside

\* The ways in which a process applies an op, the first of those in hand.
ApplyStep(p, c, op, ops) ==
  \/ /\ Skips(c, op) /\ UNCHANGED <<copyVars, tainted>>
     /\ Goes(p, IF op.kind = "update" /\ ~Replaying(work[p]) THEN "finish"
                ELSE Settled(work[p]), ops)
  \/ Fails(p) /\ UNCHANGED copyVars
  \/ /\ UNCHANGED <<status, applied, linked, tainted>> /\ ~Skips(c, op)
     /\ \/ op.kind = "create" /\ UNCHANGED book /\ Goes(p, "link", ops)
        \/ /\ op.kind = "update" /\ op.row \in linked[c]
           /\ UNCHANGED book /\ Goes(p, "repoint", ops)
        \/ /\ op.kind = "update" /\ book[c][op.row] # None
           /\ book' = [book EXCEPT ![c][op.row] = op.val]
           /\ Goes(p, Settled(work[p]), ops)
        \/ /\ op.kind \in {"update", "delete"} /\ op.row \in linked[c]
           /\ book' = [book EXCEPT ![c][op.row] = None]
           /\ Goes(p, IF op.kind = "update" THEN "recreate" ELSE "unlink", ops)

\* What an update restates that changes nothing is what the row already is.
LEMMA RestatedStays ==
  ASSUME TypeOK, NEW op, Skips(op.by, op), op.kind = "update", NEW v \in Restated(op)
  PROVE  [book EXCEPT ![op.by][op.row] = v] = book
<1>1. v = book[op.by][op.row]
  BY RowsAssumption DEF Skips, Restated
<1>2. QED BY <1>1 DEF TypeOK

\* An edit that is applied finds its row linked, or has it in place.
LEMMA ApplyCases ==
  ASSUME TypeOK, NEW p \in Procs, NEW ops, Apply(p, ops),
         Replaying(work[p]) \/ ops[1].by = work[p].copy
  PROVE  ApplyStep(p, work[p].copy, ops[1], ops)
<1> PICK c, op : c = work[p].copy /\ op = ops[1] OBVIOUS
<1>1. /\ op.kind = "update" /\ op.row \in Txs /\ ~Skips(c, op) => op.row \in linked[c]
      /\ op.kind = "delete" /\ ~Skips(c, op) => op.row \in linked[c]
  BY DEF Skips
<1> HIDE DEF Skips
<1>2. CASE /\ Skips(c, op)
           /\ IF op.kind = "update" /\ ~Replaying(work[p])
              THEN /\ Goes(p, "finish", ops)
                   /\ \E v \in Restated(op) : book' = [book EXCEPT ![op.by][op.row] = v]
              ELSE Goes(p, Settled(work[p]), ops) /\ UNCHANGED book
           /\ UNCHANGED <<status, applied, linked, strays, holder, tainted>>
  <2>1. CASE op.kind = "update" /\ ~Replaying(work[p])
    <3>1. PICK v \in Restated(op) : book' = [book EXCEPT ![op.by][op.row] = v]
      BY <1>2, <2>1
    <3>2. op.by = c BY <2>1
    <3>3. book' = book BY <1>2, <2>1, <3>1, <3>2, RestatedStays
    <3>4. QED BY <1>2, <2>1, <3>3 DEF ApplyStep, copyVars
  <2>2. CASE ~(op.kind = "update" /\ ~Replaying(work[p]))
    BY <1>2, <2>2 DEF ApplyStep, copyVars
  <2>3. QED BY <2>1, <2>2
<1>3. CASE Fails(p) /\ UNCHANGED copyVars BY <1>3 DEF ApplyStep
<1>4. CASE /\ ~Skips(c, op) /\ UNCHANGED <<status, applied, linked, holder, tainted>>
           /\ \/ op.kind = "create" /\ Goes(p, "link", ops) /\ UNCHANGED book
              \/ /\ op.kind = "update" /\ book[c][op.row] # None
                 /\ book' = [book EXCEPT ![c][op.row] = op.val]
                 /\ Goes(p, Settled(work[p]), ops)
              \/ /\ op.kind = "update" /\ op.row \in Txs
                 /\ book' = [book EXCEPT ![c][op.row] = None] /\ Goes(p, "recreate", ops)
              \/ /\ op.kind = "update" /\ op.row \in Txs
                 /\ Goes(p, "repoint", ops) /\ UNCHANGED book
              \/ /\ op.kind = "delete"
                 /\ book' = [book EXCEPT ![c][op.row] = None] /\ Goes(p, "unlink", ops)
  BY <1>1, <1>4 DEF ApplyStep
<1>5. ApplyStep(p, c, op, ops) BY <1>2, <1>3, <1>4 DEF Apply
<1>6. QED BY <1>5

\* Replay applies the next op, or its first transaction.
LEMMA ApplyNextFaithful ==
  ASSUME IInv, LockKept, Locked, Shape, RosterOK, NoLostUpdate, Faithful, lapses = 0,
         NEW p \in Procs, ApplyNext(p)
  PROVE  RowsOK' /\ ReachesOK'
<1>0. PICK c, k, op : c = work[p].copy /\ k = work[p].at + 1 /\ op = oplog[k] OBVIOUS
<1>1. /\ work[p].pc = "apply" /\ Replaying(work[p]) /\ UNCHANGED <<oplog, minted, lapses>>
      /\ Apply(p, <<op>>)
  BY <1>0 DEF ApplyNext
<1>2. /\ Inside(work[p]) /\ c \in Copies /\ k = applied[c] + 1 /\ applied[c] \in Nat
      /\ k \in 1 .. Len(oplog) /\ Len(oplog) \in Nat /\ ~Uncommitted(work[p])
      /\ Settled(work[p]) = "bump"
  BY <1>0, <1>1, ReplayPoint DEF Settled
<1>3. /\ WellMade(op) /\ op \in Op /\ None \notin Values /\ CreatesFirst
      /\ book \in [Copies -> [Rows -> Values \cup {None}]]
  BY <1>0, <1>2, RowsAssumption DEF Shape, LogMade, IInv, TypeOK, Locked
<1>4. \A phase : Goes(p, phase, <<op>>) =>
        /\ OthersStay(p) /\ work'[p].pc = phase /\ work'[p].ops = <<op>>
        /\ work'[p].done = 0 /\ work'[p].copy = c /\ work'[p].job = work[p].job
        /\ work'[p].at = work[p].at
  BY <1>0, GoesRecord
<1>5. CASE /\ Skips(c, op) /\ UNCHANGED <<copyVars, tainted>>
           /\ Goes(p, IF op.kind = "update" /\ ~Replaying(work[p]) THEN "finish"
                      ELSE Settled(work[p]), <<op>>)
  <2>1. Goes(p, "bump", <<op>>) BY <1>1, <1>2, <1>5
  <2>2. ASSUME c \notin tainted PROVE Reaches(work[p])'
    <3>1. ASSUME op.row \in Rows, Born(op.row)' PROVE Holds(c, op.row, k)'
      <4>1. Born(op.row) BY <1>1, <3>1 DEF Born
      <4>2. Copied(c, op.row) BY <1>0, <1>2, <2>2, <3>1, <4>1, NothingInFlight DEF Shape
      <4>3. Holds(c, op.row, k)
        BY <1>0, <1>2, <1>3, <1>5, <3>1, <4>1, <4>2, SkippedIsHeld
      <4>4. QED BY <1>1, <1>5, <4>3 DEF Holds, copyVars
    <3>2. work'[p].at + 1 = k /\ oplog'[k] = op BY <1>0, <1>1, <1>4, <2>1
    <3>3. QED BY <1>4, <2>1, <3>1, <3>2 DEF Reaches
  <2>3. QED BY <1>1, <1>2, <1>4, <1>5, <2>1, <2>2, FaithfulQuiet DEF copyVars
<1>6. CASE Fails(p) /\ UNCHANGED copyVars
  BY <1>1, <1>6, FaithfulFails
<1>7. CASE /\ op.kind = "create" /\ UNCHANGED <<status, applied, linked, book, tainted>>
           /\ Goes(p, "link", <<op>>)
  <2>1. Reaches(work[p])' BY <1>4, <1>7 DEF Reaches
  <2>2. QED BY <1>1, <1>2, <1>4, <1>7, <2>1, FaithfulQuiet
<1>8. CASE /\ op.kind = "update" /\ op.row \in linked[c]
           /\ UNCHANGED <<status, applied, linked, book, tainted>>
           /\ Goes(p, "repoint", <<op>>)
  <2>1. Reaches(work[p])' BY <1>4, <1>8 DEF Reaches
  <2>2. QED BY <1>1, <1>2, <1>4, <1>8, <2>1, FaithfulQuiet
<1>9. CASE /\ op.kind = "update" /\ book[c][op.row] # None /\ op.row \in Rows
           /\ UNCHANGED <<status, applied, linked, tainted>>
           /\ book' = [book EXCEPT ![c][op.row] = op.val]
           /\ Goes(p, "bump", <<op>>)
  <2>1. ASSUME c \notin tainted, Born(op.row)' PROVE Holds(c, op.row, k)'
    <3>1. Born(op.row) BY <1>1, <2>1 DEF Born
    <3>2. Copied(c, op.row) BY <1>0, <1>2, <1>9, <2>1, <3>1, NothingInFlight DEF Shape
    <3>3. op.row \in linked[c]
      BY <1>0, <1>2, <1>9, <3>2, NextOpCopied DEF Holds
    <3>4. Held(oplog, c, op.row, k) = op.val /\ op.val \in Values
      BY <1>0, <1>2, <1>3, <1>9, <3>1, NextOpHeld DEF Guarded, WellMade
    <3>5. book'[c][op.row] = op.val BY <1>2, <1>3, <1>9
    <3>6. QED BY <1>1, <1>3, <1>9, <3>3, <3>4, <3>5 DEF Holds
  <2>2. ASSUME c \notin tainted PROVE Reaches(work[p])'
    <3>1. work'[p].at + 1 = k /\ oplog'[k] = op BY <1>0, <1>1, <1>4, <1>9
    <3>2. QED BY <1>4, <1>9, <2>1, <2>2, <3>1 DEF Reaches
  <2>3. /\ \A d \in Copies \ {c} : linked'[d] = linked[d] /\ book'[d] = book[d]
        /\ \A s \in Rows : s # op.row =>
             book'[c][s] = book[c][s] /\ (s \in linked'[c] <=> s \in linked[c])
    BY <1>2, <1>3, <1>9
  <2>4. Born(op.row)' <=> Born(op.row) BY <1>1 DEF Born
  <2>5. OthersStay(p) /\ work'[p].copy = c /\ UNCHANGED <<oplog, applied, status, tainted>>
    BY <1>1, <1>4, <1>9
  <2>6. QED BY <1>0, <1>1, <2>1, <2>2, <2>3, <2>4, <2>5, ReplayRow
<1>10. CASE /\ op.kind \in {"update", "delete"} /\ op.row \in linked[c] /\ op.row \in Rows
            /\ UNCHANGED <<status, applied, linked, tainted>>
            /\ book' = [book EXCEPT ![c][op.row] = None]
            /\ Goes(p, IF op.kind = "update" THEN "recreate" ELSE "unlink", <<op>>)
  <2>1. /\ book'[c][op.row] = None /\ op.row \in linked'[c] /\ Guarded(op)
    BY <1>2, <1>3, <1>10 DEF Guarded
  <2>2. Reaches(work[p])' BY <1>4, <1>10 DEF Reaches
  <2>3. /\ \A d \in Copies \ {c} : linked'[d] = linked[d] /\ book'[d] = book[d]
        /\ \A s \in Rows : s # op.row =>
             book'[c][s] = book[c][s] /\ (s \in linked'[c] <=> s \in linked[c])
    BY <1>2, <1>3, <1>10
  <2>4. OthersStay(p) /\ work'[p].copy = c /\ UNCHANGED <<oplog, applied, status, tainted>>
    BY <1>1, <1>4, <1>10
  <2>5. QED BY <1>0, <1>1, <2>1, <2>2, <2>3, <2>4, ReplayRow
<1>11. op.kind # "chain" => op.row \in Rows BY <1>0, <1>2 DEF IInv, LogOK
<1>12. ApplyStep(p, c, op, <<op>>)
  <2>1. <<op>>[1] = op /\ TypeOK BY DEF IInv
  <2>2. QED BY <1>0, <1>1, <2>1, ApplyCases
<1>13. op.kind \in {"update", "delete"} => op.kind # "chain" OBVIOUS
<1>14. QED
  BY <1>2, <1>5, <1>6, <1>7, <1>8, <1>9, <1>10, <1>11, <1>12, <1>13 DEF ApplyStep

\* An op has been replayed when its row is as it says.
LEMMA BumpReached ==
  ASSUME NEW p \in Procs, work'[p].pc = "bump", NEW c, work'[p].copy = c,
         NEW k, work'[p].at + 1 = k, UNCHANGED oplog,
         oplog[k].row \in Rows /\ Born(oplog[k].row)' => Holds(c, oplog[k].row, k)'
  PROVE  Reaches(work[p])'
<1>1. oplog'[k] = oplog[k] OBVIOUS
<1>2. work'[p].pc \notin {"link", "recreate", "repoint", "unlink", "append", "ack"} OBVIOUS
<1>3. QED BY <1>1, <1>2 DEF Reaches

\* Replay finishes an op with its last transaction.
LEMMA PhaseReplays ==
  ASSUME IInv, LockKept, Locked, Shape, RosterOK, NoLostUpdate, Faithful, lapses = 0,
         NEW p \in Procs, Repoint(p) \/ Unlink(p), Replaying(work[p])
  PROVE  RowsOK' /\ ReachesOK'
<1>0. PICK c, k, op : c = work[p].copy /\ k = work[p].at + 1 /\ op = oplog[k] OBVIOUS
<1>1. /\ OthersStay(p) /\ work[p].pc \in {"repoint", "unlink"} /\ work'[p].pc = "bump"
      /\ work'[p].copy = c /\ work'[p].at + 1 = k
      /\ UNCHANGED <<oplog, status, applied, tainted>>
  <2>1. work[p].pc \in {"repoint", "unlink"} BY DEF Repoint, Unlink
  <2>2. QED BY <1>0, <2>1, PhaseRecord DEF Settled
<1>2. /\ Inside(work[p]) /\ c \in Copies /\ k = applied[c] + 1 /\ applied[c] \in Nat
      /\ k \in 1 .. Len(oplog) /\ Len(oplog) \in Nat /\ ~Uncommitted(work[p])
      /\ work[p].ops = <<op>>
  BY <1>0, <1>1, ReplayPoint DEF Handling
<1>3. /\ WellMade(op) /\ op \in Op /\ None \notin Values
      /\ book \in [Copies -> [Rows -> Values \cup {None}]]
      /\ linked \in [Copies -> SUBSET Rows] /\ CreatesFirst
  BY <1>0, <1>2, RowsAssumption DEF Shape, LogMade, IInv, TypeOK, Locked
<1>4. work[p].ops[1] = op BY <1>2
<1>5. /\ \A d \in Copies \ {c} : linked'[d] = linked[d] /\ book'[d] = book[d]
      /\ \A s \in Rows : s # op.row =>
           book'[c][s] = book[c][s] /\ (s \in linked'[c] <=> s \in linked[c])
  <2>1. CASE Repoint(p)
    <3>1. /\ \E v : book' = [book EXCEPT ![c][op.row] = v]
          /\ linked' = linked
      BY <1>0, <1>4, <2>1 DEF Repoint
    <3>2. QED BY <1>2, <1>3, <3>1
  <2>2. CASE Unlink(p)
    <3>1. /\ \E v : book' = [book EXCEPT ![c][op.row] = v]
          /\ linked' = [linked EXCEPT ![c] = @ \ {op.row}]
      BY <1>0, <1>4, <2>2 DEF Unlink
    <3>2. QED BY <1>2, <1>3, <3>1
  <2>3. QED BY <2>1, <2>2
<1>6. ASSUME c \notin tainted, op.row \in Rows, Born(op.row) PROVE Holds(c, op.row, k)'
  <2>1. Reaches(work[p]) BY <1>0, <1>2, <1>6 DEF Faithful, ReachesOK
  <2>2. Guarded(op) => Held(oplog, c, op.row, k) = op.val
    BY <1>0, <1>2, <1>3, <1>6, NextOpHeld
  <2>3. Held(oplog', c, op.row, k) = Held(oplog, c, op.row, k) BY <1>1
  <2>4. CASE Repoint(p)
    <3>1. op.kind = "update" /\ op.row \in linked[c] BY <1>0, <1>4, <2>1, <2>4 DEF Reaches, Repoint
    <3>2. book'[c][op.row] = op.val /\ op.row \in linked'[c]
      BY <1>0, <1>2, <1>3, <1>4, <1>6, <2>4, <3>1 DEF Repoint
    <3>3. QED BY <1>3, <2>2, <2>3, <3>1, <3>2 DEF Holds, Guarded, WellMade
  <2>5. CASE Unlink(p)
    <3>1. op.kind = "delete" BY <1>0, <1>4, <2>1, <2>5 DEF Reaches, Unlink
    <3>2. book'[c][op.row] = None /\ op.row \notin linked'[c]
      BY <1>0, <1>2, <1>3, <1>4, <1>6, <2>5 DEF Unlink
    <3>3. QED BY <1>3, <2>2, <2>3, <3>1, <3>2 DEF Holds, Guarded, WellMade
  <2>6. QED BY <2>4, <2>5
<1>7. Born(op.row)' <=> Born(op.row) BY <1>1 DEF Born
<1>8. c \notin tainted => Reaches(work[p])'
  BY <1>0, <1>1, <1>6, <1>7, BumpReached
<1>9. QED BY <1>0, <1>1, <1>5, <1>6, <1>8, ReplayRow DEF Handling

\* Replay links the row it has created.
LEMMA LinkReplays ==
  ASSUME IInv, LockKept, Locked, Shape, RosterOK, NoLostUpdate, Faithful, lapses = 0,
         NEW p \in Procs, Link(p), Replaying(work[p])
  PROVE  RowsOK' /\ ReachesOK'
<1>0. PICK c, k, op : c = work[p].copy /\ k = work[p].at + 1 /\ op = oplog[k] OBVIOUS
<1>1. CASE Fails(p) /\ UNCHANGED <<linked, book>>
  <2>1. UNCHANGED <<oplog, applied, status>> /\ OthersStay(p) /\ ~Inside(work'[p])
    BY <1>1, LinkRecord, FailsRecord
  <2>2. /\ tainted \subseteq tainted'
        /\ Uncommitted(work[p]) => work[p].copy \in tainted'
    BY <1>1 DEF Fails
  <2>3. QED BY <1>1, <2>1, <2>2, FaithfulQuiet
<1>2. CASE ~(Fails(p) /\ UNCHANGED <<linked, book>>)
  <2>1. /\ OthersStay(p) /\ work[p].pc = "link" /\ work'[p].copy = c /\ work'[p].at + 1 = k
        /\ work'[p].pc = IF AllLinked(work[p]) THEN "bump" ELSE "link"
        /\ UNCHANGED <<oplog, status, applied, tainted>>
    BY <1>0, <1>2, LinkRecord DEF Settled
  <2>2. /\ Inside(work[p]) /\ c \in Copies /\ k = applied[c] + 1 /\ applied[c] \in Nat
        /\ k \in 1 .. Len(oplog) /\ Len(oplog) \in Nat /\ ~Uncommitted(work[p])
        /\ work[p].ops = <<op>>
    BY <1>0, <2>1, ReplayPoint DEF Handling
  <2>3. /\ WellMade(op) /\ op \in Op /\ None \notin Values /\ DefaultName \in Values
        /\ book \in [Copies -> [Rows -> Values \cup {None}]]
        /\ linked \in [Copies -> SUBSET Rows] /\ CreatesFirst
    BY <1>0, <2>2, RowsAssumption, ReplicationAssumption
       DEF Shape, LogMade, IInv, TypeOK, Locked
  <2>4. work[p].done = 0 /\ op.kind = "create"
    <3>1. Fits(work[p], Len(oplog)) /\ work[p] \in Work BY Known
    <3>2. Len(work[p].ops) = 1 /\ work[p].ops[1] = op BY <2>2
    <3>3. QED BY <2>1, <3>1, <3>2 DEF Fits, Work
  <2>5. work[p].ops[work[p].done + 1] = op /\ AllLinked(work[p])
    BY <2>2, <2>4 DEF AllLinked
  <2>6. /\ op.row \notin linked[c]
        /\ linked' = [linked EXCEPT ![c] = @ \cup {op.row}]
        /\ book' = [book EXCEPT ![c][op.row] = op.val]
    BY <1>0, <1>2, <2>5 DEF Link
  <2>7. /\ \A d \in Copies \ {c} : linked'[d] = linked[d] /\ book'[d] = book[d]
        /\ \A s \in Rows : s # op.row =>
             book'[c][s] = book[c][s] /\ (s \in linked'[c] <=> s \in linked[c])
    BY <2>2, <2>3, <2>6
  <2>8. Born(op.row)' <=> Born(op.row) BY <2>1 DEF Born
  <2>9. ASSUME c \notin tainted, op.row \in Rows, Born(op.row) PROVE Holds(c, op.row, k)'
    <3>1. Copied(c, op.row) BY <1>0, <2>2, <2>9, NothingInFlight DEF Shape
    <3>2. Holds(c, op.row, k - 1) \/ Holds(c, op.row, k)
      BY <1>0, <2>2, <2>6, <3>1, NextOpCopied
    <3>3. op.row # Main
      <4> SUFFICES ASSUME op.row = Main PROVE FALSE
        OBVIOUS
      <4>1. /\ Held(oplog, c, op.row, k) = DefaultName
            /\ Held(oplog, c, op.row, k - 1) = DefaultName
        BY <1>0, <2>2, <2>3, <2>4, <2>9, NextOpHeld
      <4>2. QED BY <2>3, <2>6, <3>2, <4>1 DEF Holds
    <3>4. Held(oplog, c, op.row, k) = op.val
      BY <1>0, <2>2, <2>3, <2>4, <2>9, <3>3, NextOpHeld
    <3>5. Held(oplog', c, op.row, k) = op.val BY <2>1, <3>4
    <3>6. op.val \in Values BY <2>3, <2>4 DEF WellMade
    <3>7. book'[c][op.row] = op.val /\ op.row \in linked'[c] BY <2>2, <2>3, <2>6, <2>9
    <3>8. QED BY <2>3, <3>5, <3>6, <3>7 DEF Holds
  <2>10. c \notin tainted => Reaches(work[p])'
    BY <1>0, <2>1, <2>5, <2>8, <2>9, BumpReached
  <2>11. QED BY <1>0, <2>1, <2>2, <2>7, <2>9, <2>10, ReplayRow DEF Handling
<1>3. QED BY <1>1, <1>2

\* The watermark moves past an op the copy has.
LEMMA BumpFaithful ==
  ASSUME IInv, LockKept, Locked, Shape, Faithful, lapses = 0, NEW p \in Procs, Bump(p)
  PROVE  RowsOK' /\ ReachesOK'
<1>0. PICK c, k : c = work[p].copy /\ k = work[p].at + 1 OBVIOUS
<1>1. /\ OthersStay(p) /\ work[p].pc = "bump" /\ work'[p].pc = "apply"
      /\ UNCHANGED <<oplog, status, linked, book, tainted>>
  BY BumpRecord
<1>2. Replaying(work[p]) BY <1>1, Known DEF Fits
<1>3. /\ Inside(work[p]) /\ c \in Copies /\ k = applied[c] + 1 /\ applied[c] \in Nat
      /\ k \in 1 .. Len(oplog) /\ Len(oplog) \in Nat /\ ~Uncommitted(work[p])
  BY <1>0, <1>1, <1>2, ReplayPoint
<1>4. applied' = [applied EXCEPT ![c] = k] /\ applied \in [Copies -> Nat]
  BY <1>0, BumpLocked DEF IInv, TypeOK
<1>5. applied'[c] = k /\ \A d \in Copies \ {c} : applied'[d] = applied[d]
  BY <1>3, <1>4
<1>6. Grows BY <1>1, <1>3 DEF Grows
<1>7. ASSUME c \notin tainted, NEW r \in Rows, Born(r)' PROVE Copied(c, r)'
  <2>1. Born(r) BY <1>1, <1>7 DEF Born
  <2>2. Copied(c, r) BY <1>0, <1>3, <1>7, <2>1, NothingInFlight DEF Shape
  <2>3. \A n : Holds(c, r, n)' <=> Holds(c, r, n) BY <1>1 DEF Holds
  <2>4. CASE r = oplog[k].row
    <3>1. Reaches(work[p]) BY <1>0, <1>3, <1>7 DEF Faithful, ReachesOK
    <3>2. Holds(c, r, k) BY <1>0, <1>1, <1>7, <2>1, <2>4, <3>1 DEF Reaches
    <3>3. QED BY <1>5, <2>3, <3>2 DEF Copied
  <2>5. CASE r # oplog[k].row /\ Holds(c, r, applied[c])
    <3>1. k - 1 = applied[c] /\ k - 1 \in Nat /\ \A i \in (k - 1) + 1 .. k : oplog[i].row # r
      BY <1>3, <2>5
    <3>2. Held(oplog, c, r, k) = Held(oplog, c, r, k - 1) BY <1>3, <3>1, HeldQuiet
    <3>3. Holds(c, r, k) BY <2>5, <3>1, <3>2 DEF Holds
    <3>4. QED BY <1>5, <2>3, <3>3 DEF Copied
  <2>6. CASE r # oplog[k].row /\ Begun(c, r)
    <3>1. PICK n \in applied[c] + 1 .. Len(oplog) :
            /\ oplog[n].row = r /\ \A j \in applied[c] + 1 .. n - 1 : oplog[j].row # r
            /\ \/ Holds(c, r, n) /\ (n = applied[c] + 1 \/ oplog[n].by = c)
               \/ n = applied[c] + 1 /\ book[c][r] = None /\ r \in linked[c] /\ Guarded(oplog[n])
      BY <2>6 DEF Begun
    <3>2. n # k BY <2>6, <3>1
    <3>3. /\ n \in k + 1 .. Len(oplog) /\ Holds(c, r, n) /\ oplog[n].by = c
          /\ \A j \in k + 1 .. n - 1 : oplog[j].row # r
      BY <1>3, <3>1, <3>2
    <3>4. Begun(c, r)' BY <1>1, <1>5, <2>3, <3>1, <3>3 DEF Begun
    <3>5. QED BY <3>4 DEF Copied
  <2>7. QED BY <2>2, <2>4, <2>5, <2>6 DEF Copied
<1>8. Reaches(work[p])' BY <1>1, NothingToReach
<1>9. QED BY <1>0, <1>1, <1>3, <1>5, <1>6, <1>7, <1>8, FaithfulInside

-----------------------------------------------------------------------------
(* The op a process writes. *)

\* Who writes is at the end of the log, with ops of its own in hand.
LEMMA WritePoint ==
  ASSUME IInv, Locked, Shape, lapses = 0, NEW p \in Procs, ~Replaying(work[p]),
         work[p].pc \in Handling, work[p].job \notin {"join", "depart"}
  PROVE  /\ Inside(work[p]) /\ work[p].copy \in Copies /\ status[work[p].copy] # "out"
         /\ work[p].job = "submit"
         /\ applied[work[p].copy] = Len(oplog) /\ Len(oplog) \in Nat
         /\ work[p].ops \in Seq(Op) /\ Len(work[p].ops) \in Nat \ {0}
         /\ Handles(work[p], work[p].ops) /\ FreshInHand(work[p]) /\ Suits(work[p])
         /\ \A i \in 1 .. Len(work[p].ops) :
              /\ WellMade(work[p].ops[i]) /\ work[p].ops[i].kind # "chain"
              /\ work[p].ops[i].row \in Rows /\ work[p].ops[i] \in Op
<1>1. /\ work[p] \in Work /\ Fits(work[p], Len(oplog)) /\ Inside(work[p])
      /\ Len(oplog) \in Nat /\ AtWork(work[p]) /\ Suits(work[p])
  BY Known DEF Inside, Handling, Locked, Shape
<1>2. work[p].at = applied[work[p].copy] /\ work[p].upto = Len(oplog)
  BY <1>1 DEF AtWork, Handling
<1>3. work[p].copy \in Copies /\ status[work[p].copy] # "out"
  BY <1>1 DEF Fits, Suits, Inside
<1>4. applied[work[p].copy] = Len(oplog)
  BY <1>1, <1>2, <1>3 DEF Replaying, Fits, Work
<1>5. work[p].ops \in Seq(Op) /\ Handles(work[p], work[p].ops)
  BY <1>1 DEF Work, Fits
<1>6. Len(work[p].ops) \in Nat \ {0} BY <1>5, LenProperties DEF Handles
<1>7. work[p].job = "submit" /\ FreshInHand(work[p]) BY <1>1 DEF Suits, AtWork
<1>8. \A i \in 1 .. Len(work[p].ops) :
        /\ WellMade(work[p].ops[i]) /\ work[p].ops[i].kind # "chain"
        /\ work[p].ops[i].row \in Rows /\ work[p].ops[i] \in Op
  BY <1>1, <1>5 DEF Suits, Handles
<1>9. QED BY <1>1, <1>3, <1>4, <1>5, <1>6, <1>7, <1>8

\* A copy at the end of the log has begun nothing.
LEMMA CaughtUpHolds ==
  ASSUME Len(oplog) \in Nat, NEW c, applied[c] = Len(oplog), NEW r, Copied(c, r)
  PROVE  Holds(c, r, Len(oplog))
<1>1. ~Begun(c, r) BY DEF Begun
<1>2. QED BY <1>1 DEF Copied

\* A step of a write, on the rows of its ops.
LEMMA WriteRows ==
  ASSUME IInv, LockKept, Faithful, lapses = 0, NEW p \in Procs, OthersStay(p),
         Inside(work[p]), Suits(work[p]), Len(oplog) \in Nat,
         UNCHANGED <<oplog, applied, status, tainted>>,
         NEW c \in Copies, c = work[p].copy, work'[p].copy = c,
         Uncommitted(work[p])', Uncommitted(work[p]) => work'[p].ops = work[p].ops,
         \A d \in Copies \ {c} : linked'[d] = linked[d] /\ book'[d] = book[d],
         \A s \in Rows :
           \/ book'[c][s] = book[c][s] /\ (s \in linked'[c] <=> s \in linked[c])
           \/ \E i \in 1 .. Len(work'[p].ops) : work'[p].ops[i].row = s,
         c \notin tainted => Reaches(work[p])'
  PROVE  RowsOK' /\ ReachesOK'
<1>1. status[c] # "out" BY DEF Suits
<1>2. \A q \in Procs : Uncommitted(work[q]) => q = p
  BY NobodyElse DEF Uncommitted, Inside
<1>3. ASSUME c \notin tainted, NEW s \in Rows, Born(s)'
      PROVE  Copied(c, s)' \/ InFlight(c, s)'
  <2>1. CASE \E i \in 1 .. Len(work'[p].ops) : work'[p].ops[i].row = s
    BY <2>1 DEF InFlight
  <2>2. CASE ~(\E i \in 1 .. Len(work'[p].ops) : work'[p].ops[i].row = s)
    <3>1. Born(s) BY <1>3 DEF Born
    <3>2. ~InFlight(c, s) BY <1>2, <2>2 DEF InFlight
    <3>3. Copied(c, s) BY <1>1, <1>3, <3>1, <3>2 DEF Faithful, RowsOK
    <3>4. QED BY <2>2, <3>3, RowStays
  <2>3. QED BY <2>1, <2>2
<1>4. Grows BY DEF Grows
<1>5. QED BY <1>3, <1>4, FaithfulInside

\* A row that is about to be created is not in the copy.
LEMMA FreshIsUnlinked ==
  ASSUME IInv, Shape, NEW c \in Copies, Len(oplog) \in Nat, NEW r \in Rows,
         \A j \in 1 .. Len(oplog) : oplog[j].row # r, Holds(c, r, Len(oplog))
  PROVE  r \notin linked[c]
<1>1. StateAt(oplog, Len(oplog), r) = None BY StateAtNone
<1>2. r # Main
  <2>1. 2 \in 1 .. Len(oplog) /\ oplog[2].row = Main BY DEF Shape, LogMade
  <2>2. QED BY <2>1
<1>3. QED BY <1>1, <1>2 DEF Holds, Held

\* Applying one's own op to one's own copy.
LEMMA ActFaithful ==
  ASSUME IInv, LockKept, Locked, Shape, Faithful, lapses = 0, NEW p \in Procs, Act(p)
  PROVE  RowsOK' /\ ReachesOK'
<1>0. PICK c, ops, op : c = work[p].copy /\ ops = work[p].ops /\ op = ops[1] OBVIOUS
<1>1. /\ work[p].pc = "act" /\ UNCHANGED <<oplog, minted, lapses>> /\ Apply(p, ops)
      /\ ~Replaying(work[p]) /\ work[p].job \notin {"join", "depart"}
  BY <1>0, Known DEF Act, Fits
<1>2. /\ Inside(work[p]) /\ c \in Copies /\ work[p].job = "submit"
      /\ applied[c] = Len(oplog) /\ Len(oplog) \in Nat
      /\ Len(ops) \in Nat \ {0} /\ Handles(work[p], ops) /\ FreshInHand(work[p])
      /\ Suits(work[p]) /\ ~Uncommitted(work[p]) /\ Settled(work[p]) = "append"
      /\ \A i \in 1 .. Len(ops) :
           WellMade(ops[i]) /\ ops[i].kind # "chain" /\ ops[i].row \in Rows /\ ops[i] \in Op
  BY <1>0, <1>1, WritePoint DEF Handling, Uncommitted, Settled
<1>3. /\ 1 \in 1 .. Len(ops) /\ WellMade(op) /\ op.kind # "chain" /\ op.row \in Rows
      /\ op \in Op /\ None \notin Values
      /\ book \in [Copies -> [Rows -> Values \cup {None}]]
  <2>1. 1 \in 1 .. Len(ops) BY <1>2
  <2>2. WellMade(op) /\ op.kind # "chain" /\ op.row \in Rows /\ op \in Op
    BY <1>0, <1>2, <2>1
  <2>3. QED BY <2>1, <2>2, RowsAssumption DEF IInv, TypeOK
<1>4. op.kind # "create" => Len(ops) = 1 /\ \A i \in 1 .. Len(ops) : ops[i] = op
  <2>1. op.kind # "create" => Len(ops) = 1 BY <1>0, <1>2, <1>3 DEF Handles
  <2>2. Len(ops) = 1 => \A i \in 1 .. Len(ops) : i = 1 BY <1>2
  <2>3. QED BY <1>0, <2>1, <2>2
<1>5. \A phase : Goes(p, phase, ops) =>
        /\ OthersStay(p) /\ work'[p].pc = phase /\ work'[p].ops = ops
        /\ work'[p].done = 0 /\ work'[p].copy = c
        /\ phase \in {"link", "recreate", "repoint", "unlink", "append"} =>
             Uncommitted(work[p])'
  <2> SUFFICES ASSUME NEW phase, Goes(p, phase, ops)
               PROVE  /\ OthersStay(p) /\ work'[p].pc = phase /\ work'[p].ops = ops
                      /\ work'[p].done = 0 /\ work'[p].copy = c
                      /\ phase \in {"link", "recreate", "repoint", "unlink", "append"} =>
                           Uncommitted(work[p])'
    OBVIOUS
  <2>1. /\ OthersStay(p) /\ work'[p].pc = phase /\ work'[p].ops = ops
        /\ work'[p].done = 0 /\ work'[p].copy = c /\ work'[p].job = work[p].job
        /\ work'[p].at = work[p].at /\ work'[p].upto = work[p].upto
    BY <1>0, GoesRecord
  <2>2. QED BY <1>1, <1>2, <2>1 DEF Uncommitted, Replaying
<1>6. ASSUME c \notin tainted, NEW r \in Rows, Born(r) PROVE Holds(c, r, Len(oplog))
  BY <1>0, <1>2, <1>6, NothingInFlight, CaughtUpHolds
<1>7. ASSUME Goes(p, "append", ops), UNCHANGED <<status, applied, linked, tainted>>,
             book' = book \/ book' = [book EXCEPT ![c][op.row] = op.val],
             c \notin tainted => \A i \in 1 .. Len(ops) :
               Born(ops[i].row) => Reached(c, ops[i])'
      PROVE  RowsOK' /\ ReachesOK'
  <2>1. /\ OthersStay(p) /\ work'[p].pc = "append" /\ work'[p].ops = ops
        /\ work'[p].copy = c /\ Uncommitted(work[p])'
    BY <1>5, <1>7
  <2>2. \A r : Born(r)' <=> Born(r) BY <1>1 DEF Born
  <2>3. c \notin tainted => Reaches(work[p])' BY <1>7, <2>1, <2>2 DEF Reaches
  <2>4. /\ \A d \in Copies \ {c} : linked'[d] = linked[d] /\ book'[d] = book[d]
        /\ \A s \in Rows : s # op.row =>
             book'[c][s] = book[c][s] /\ (s \in linked'[c] <=> s \in linked[c])
    BY <1>2, <1>3, <1>7
  <2>5. work'[p].ops[1].row = op.row BY <1>0, <2>1
  <2>6. \A s \in Rows :
          \/ book'[c][s] = book[c][s] /\ (s \in linked'[c] <=> s \in linked[c])
          \/ \E i \in 1 .. Len(work'[p].ops) : work'[p].ops[i].row = s
    BY <1>3, <2>1, <2>4, <2>5
  <2>7. Uncommitted(work[p]) => work'[p].ops = work[p].ops BY <1>2
  <2> HIDE DEF Uncommitted
  <2>8. QED BY <1>0, <1>1, <1>2, <1>7, <2>1, <2>3, <2>4, <2>6, <2>7, WriteRows
<1>8. CASE /\ Skips(c, op) /\ UNCHANGED <<copyVars, tainted>>
           /\ Goes(p, IF op.kind = "update" /\ ~Replaying(work[p]) THEN "finish"
                      ELSE Settled(work[p]), ops)
  <2>1. CASE op.kind = "update"
    <3>1. Goes(p, "finish", ops) BY <1>1, <1>8, <2>1
    <3>2. OthersStay(p) /\ work'[p].pc = "finish" BY <1>5, <3>1
    <3>3. Reaches(work[p])' BY <3>2, NothingToReach
    <3>4. QED BY <1>1, <1>2, <1>8, <3>2, <3>3, FaithfulQuiet DEF copyVars
  <2>2. CASE op.kind = "create"
    <3>1. Goes(p, "append", ops) BY <1>2, <1>8, <2>2
    <3>2. ASSUME c \notin tainted PROVE FALSE
      <4>1. \A j \in 1 .. Len(oplog) : oplog[j].row # op.row
        BY <1>0, <1>2, <1>3, <2>2 DEF FreshInHand
      <4>2. Born(op.row) BY <4>1 DEF Born
      <4>3. op.row \notin linked[c]
        BY <1>2, <1>3, <1>6, <3>2, <4>1, <4>2, FreshIsUnlinked
      <4>4. QED BY <1>8, <2>2, <4>3 DEF Skips
    <3>3. UNCHANGED <<status, applied, linked, tainted, book>> BY <1>8 DEF copyVars
    <3>4. QED BY <1>7, <3>1, <3>2, <3>3
  <2>3. CASE op.kind = "delete"
    <3>1. Goes(p, "append", ops) BY <1>2, <1>8, <2>3
    <3>2. ASSUME c \notin tainted, Born(op.row) PROVE Reached(c, op)
      <4>1. op.row \notin linked[c] /\ op.val = None
        BY <1>3, <1>8, <2>3 DEF Skips, WellMade
      <4>2. QED BY <1>3, <1>6, <3>2, <4>1 DEF Holds, Reached
    <3>3. UNCHANGED <<status, applied, linked, tainted, book>> BY <1>8 DEF copyVars
    <3>4. Reached(c, op)' <=> Reached(c, op) BY <3>3 DEF Reached
    <3>5. QED BY <1>4, <1>7, <2>3, <3>1, <3>2, <3>3, <3>4
  <2>4. QED BY <1>3, <2>1, <2>2, <2>3 DEF Op, Kinds
<1>9. CASE Fails(p) /\ UNCHANGED copyVars
  BY <1>1, <1>9, FaithfulFails
<1>10. ASSUME NEW phase \in {"link", "recreate", "repoint", "unlink"}, Goes(p, phase, ops),
              UNCHANGED <<status, applied, linked, tainted>>,
              book' = book \/ book' = [book EXCEPT ![c][op.row] = None],
              phase # "link" =>
                /\ op.row \in linked[c]
                /\ op.kind = IF phase = "unlink" THEN "delete" ELSE "update"
       PROVE  RowsOK' /\ ReachesOK'
  <2>1. /\ OthersStay(p) /\ work'[p].pc = phase /\ work'[p].ops = ops
        /\ work'[p].done = 0 /\ work'[p].copy = c /\ Uncommitted(work[p])'
    BY <1>5, <1>10
  <2>2. Reaches(work[p])' BY <1>0, <1>10, <2>1 DEF Reaches
  <2>3. /\ \A d \in Copies \ {c} : linked'[d] = linked[d] /\ book'[d] = book[d]
        /\ \A s \in Rows : s # op.row =>
             book'[c][s] = book[c][s] /\ (s \in linked'[c] <=> s \in linked[c])
    BY <1>2, <1>3, <1>10
  <2>4. work'[p].ops[1].row = op.row BY <1>0, <2>1
  <2>5. \A s \in Rows :
          \/ book'[c][s] = book[c][s] /\ (s \in linked'[c] <=> s \in linked[c])
          \/ \E i \in 1 .. Len(work'[p].ops) : work'[p].ops[i].row = s
    BY <1>3, <2>1, <2>3, <2>4
  <2>6. Uncommitted(work[p]) => work'[p].ops = work[p].ops BY <1>2
  <2> HIDE DEF Uncommitted
  <2>7. QED BY <1>0, <1>1, <1>2, <1>10, <2>1, <2>2, <2>3, <2>5, <2>6, WriteRows
<1>11. CASE /\ UNCHANGED <<status, applied, linked, tainted>> /\ ~Skips(c, op)
            /\ \/ op.kind = "create" /\ UNCHANGED book /\ Goes(p, "link", ops)
               \/ /\ op.kind = "update" /\ op.row \in linked[c]
                  /\ UNCHANGED book /\ Goes(p, "repoint", ops)
               \/ /\ op.kind \in {"update", "delete"} /\ op.row \in linked[c]
                  /\ book' = [book EXCEPT ![c][op.row] = None]
                  /\ Goes(p, IF op.kind = "update" THEN "recreate" ELSE "unlink", ops)
  <2>1. CASE op.kind = "create" /\ UNCHANGED book /\ Goes(p, "link", ops)
    BY <1>10, <1>11, <2>1
  <2>2. CASE op.kind = "update" /\ op.row \in linked[c] /\ UNCHANGED book /\ Goes(p, "repoint", ops)
    BY <1>10, <1>11, <2>2
  <2>3. CASE /\ op.kind \in {"update", "delete"} /\ op.row \in linked[c]
             /\ book' = [book EXCEPT ![c][op.row] = None]
             /\ Goes(p, IF op.kind = "update" THEN "recreate" ELSE "unlink", ops)
    <3>1. CASE op.kind = "update" BY <1>10, <1>11, <2>3, <3>1
    <3>2. CASE op.kind = "delete" BY <1>10, <1>11, <2>3, <3>2
    <3>3. QED BY <2>3, <3>1, <3>2
  <2>4. QED BY <1>11, <2>1, <2>2, <2>3
<1>12. CASE /\ UNCHANGED <<status, applied, linked, tainted>>
            /\ op.kind = "update" /\ book[c][op.row] # None
            /\ book' = [book EXCEPT ![c][op.row] = op.val]
            /\ Goes(p, Settled(work[p]), ops)
  <2>1. Goes(p, "append", ops) BY <1>2, <1>12
  <2>2. ASSUME c \notin tainted, Born(op.row) PROVE Reached(c, op)'
    <3>1. op.row \in linked[c] BY <1>3, <1>6, <1>12, <2>2 DEF Holds
    <3>2. op.val \in Values BY <1>3, <1>12 DEF WellMade
    <3>3. book'[c][op.row] = op.val BY <1>2, <1>3, <1>12
    <3>4. QED BY <1>3, <1>12, <3>1, <3>2, <3>3 DEF Reached
  <2>3. QED BY <1>4, <1>7, <1>12, <2>1, <2>2
<1>13. ApplyStep(p, c, op, ops)
  <2>1. TypeOK /\ op.by = c BY <1>0, ActsOnOwn DEF IInv
  <2>2. QED BY <1>0, <1>1, <2>1, ApplyCases
<1>14. QED BY <1>8, <1>9, <1>11, <1>12, <1>13 DEF ApplyStep

\* A write finishes its edit with its last transaction.
LEMMA PhaseWrites ==
  ASSUME IInv, LockKept, Locked, Shape, Faithful, lapses = 0, NEW p \in Procs,
         Repoint(p) \/ Unlink(p), ~Replaying(work[p])
  PROVE  RowsOK' /\ ReachesOK'
<1>0. PICK c, ops, op : c = work[p].copy /\ ops = work[p].ops /\ op = ops[1] OBVIOUS
<1>1. /\ OthersStay(p) /\ work[p].pc \in {"repoint", "unlink"} /\ work'[p].pc = "append"
      /\ work'[p].copy = c /\ work'[p].ops = ops /\ work'[p].job = work[p].job
      /\ work'[p].at = work[p].at /\ work'[p].upto = work[p].upto
      /\ UNCHANGED <<oplog, status, applied, tainted>>
  <2>1. work[p].pc \in {"repoint", "unlink"} BY DEF Repoint, Unlink
  <2>2. QED BY <1>0, <2>1, PhaseRecord DEF Settled
<1>2. /\ Inside(work[p]) /\ c \in Copies /\ work[p].job = "submit" /\ Suits(work[p])
      /\ Len(oplog) \in Nat /\ Len(ops) \in Nat \ {0} /\ Handles(work[p], ops)
      /\ \A i \in 1 .. Len(ops) :
           WellMade(ops[i]) /\ ops[i].kind # "chain" /\ ops[i].row \in Rows /\ ops[i] \in Op
  <2>1. work[p].job \notin {"join", "depart"} BY <1>1, Known DEF Fits
  <2>2. QED BY <1>0, <1>1, <2>1, WritePoint DEF Handling
<1>3. /\ 1 \in 1 .. Len(ops) /\ WellMade(op) /\ op.row \in Rows /\ None \notin Values
      /\ book \in [Copies -> [Rows -> Values \cup {None}]]
      /\ linked \in [Copies -> SUBSET Rows]
  BY <1>0, <1>2, RowsAssumption DEF IInv, TypeOK
<1>4. Uncommitted(work[p])' BY <1>1, <1>2 DEF Uncommitted, Replaying
<1>5. /\ \A d \in Copies \ {c} : linked'[d] = linked[d] /\ book'[d] = book[d]
      /\ \A s \in Rows : s # op.row =>
           book'[c][s] = book[c][s] /\ (s \in linked'[c] <=> s \in linked[c])
  <2>1. CASE Repoint(p)
    <3>1. /\ \E v : book' = [book EXCEPT ![c][op.row] = v]
          /\ linked' = linked
      BY <1>0, <2>1 DEF Repoint
    <3>2. QED BY <1>2, <1>3, <3>1
  <2>2. CASE Unlink(p)
    <3>1. /\ \E v : book' = [book EXCEPT ![c][op.row] = v]
          /\ linked' = [linked EXCEPT ![c] = @ \ {op.row}]
      BY <1>0, <2>2 DEF Unlink
    <3>2. QED BY <1>2, <1>3, <3>1
  <2>3. QED BY <1>1, <2>1, <2>2
<1>6. ASSUME c \notin tainted PROVE Reached(c, op)' /\ op.kind \in {"update", "delete"}
  <2>1. Reaches(work[p]) BY <1>0, <1>2, <1>6 DEF Faithful, ReachesOK
  <2>2. CASE Repoint(p)
    <3>1. op.kind = "update" /\ op.row \in linked[c] BY <1>0, <2>1, <2>2 DEF Reaches, Repoint
    <3>2. book'[c][op.row] = op.val /\ op.row \in linked'[c]
      BY <1>0, <1>2, <1>3, <2>2, <3>1 DEF Repoint
    <3>3. QED BY <1>3, <3>1, <3>2 DEF Reached, WellMade
  <2>3. CASE Unlink(p)
    <3>1. op.kind = "delete" BY <1>0, <2>1, <2>3 DEF Reaches, Unlink
    <3>2. book'[c][op.row] = None /\ op.row \notin linked'[c]
      BY <1>0, <1>2, <1>3, <2>3 DEF Unlink
    <3>3. QED BY <1>3, <3>1, <3>2 DEF Reached, WellMade
  <2>4. QED BY <2>2, <2>3
<1>7. ASSUME c \notin tainted PROVE Reaches(work[p])'
  <2>1. Len(ops) = 1 BY <1>0, <1>2, <1>3, <1>6, <1>7 DEF Handles
  <2>2. \A i \in 1 .. Len(ops) : ops[i] = op BY <1>0, <2>1
  <2>3. \A i \in 1 .. Len(ops) : Reached(c, ops[i])' BY <1>6, <1>7, <2>2
  <2>4. QED BY <1>1, <2>3 DEF Reaches
<1>8. work'[p].ops[1].row = op.row BY <1>0, <1>1
<1>9. \A s \in Rows :
        \/ book'[c][s] = book[c][s] /\ (s \in linked'[c] <=> s \in linked[c])
        \/ \E i \in 1 .. Len(work'[p].ops) : work'[p].ops[i].row = s
  BY <1>1, <1>2, <1>3, <1>5, <1>8
<1>10. QED BY <1>0, <1>1, <1>2, <1>4, <1>5, <1>7, <1>9, WriteRows

\* A write links a row it has created.
LEMMA LinkWrites ==
  ASSUME IInv, LockKept, Locked, Shape, Faithful, lapses = 0, NEW p \in Procs,
         Link(p), ~Replaying(work[p])
  PROVE  RowsOK' /\ ReachesOK'
<1>0. PICK c, ops, k, op :
        /\ c = work[p].copy /\ ops = work[p].ops /\ k = work[p].done + 1 /\ op = ops[k]
  OBVIOUS
<1>1. CASE Fails(p) /\ UNCHANGED <<linked, book>>
  <2>1. UNCHANGED <<oplog, applied, status>> /\ OthersStay(p) /\ ~Inside(work'[p])
    BY <1>1, LinkRecord, FailsRecord
  <2>2. /\ tainted \subseteq tainted'
        /\ Uncommitted(work[p]) => work[p].copy \in tainted'
    BY <1>1 DEF Fails
  <2>3. QED BY <1>1, <2>1, <2>2, FaithfulQuiet
<1>2. CASE ~(Fails(p) /\ UNCHANGED <<linked, book>>)
  <2>1. /\ OthersStay(p) /\ work[p].pc = "link" /\ work'[p].copy = c /\ work'[p].ops = ops
        /\ work'[p].done = k /\ work'[p].job = work[p].job
        /\ work'[p].at = work[p].at /\ work'[p].upto = work[p].upto
        /\ work'[p].pc = IF k = Len(ops) THEN "append" ELSE "link"
        /\ UNCHANGED <<oplog, status, applied, tainted>>
    BY <1>0, <1>2, LinkRecord DEF Settled, AllLinked
  <2>2. /\ Inside(work[p]) /\ c \in Copies /\ work[p].job = "submit" /\ Suits(work[p])
        /\ Len(oplog) \in Nat /\ Len(ops) \in Nat \ {0} /\ FreshInHand(work[p])
        /\ \A i \in 1 .. Len(ops) : WellMade(ops[i]) /\ ops[i].row \in Rows
    <3>1. work[p].job \notin {"join", "depart"} BY <2>1, Known DEF Fits
    <3>2. QED BY <1>0, <2>1, <3>1, WritePoint DEF Handling
  <2>3. /\ k \in 1 .. Len(ops) /\ work[p].done = k - 1
        /\ \A i \in 1 .. Len(ops) : ops[i].kind = "create"
    <3>1. Fits(work[p], Len(oplog)) /\ work[p].done \in Nat BY Known DEF Work
    <3>2. work[p].done < Len(ops) /\ \A i \in 1 .. Len(ops) : ops[i].kind = "create"
      BY <1>0, <2>1, <3>1 DEF Fits
    <3>3. \A d, n \in Nat : d < n => d + 1 \in 1 .. n /\ d = (d + 1) - 1 OBVIOUS
    <3>4. k = work[p].done + 1 /\ work[p].done \in Nat /\ Len(ops) \in Nat
      BY <1>0, <2>2, <3>1
    <3>5. QED BY <3>2, <3>3, <3>4
  <2>4. /\ book \in [Copies -> [Rows -> Values \cup {None}]] /\ None \notin Values
        /\ linked \in [Copies -> SUBSET Rows] /\ op.row \in Rows /\ op.val \in Values
    BY <1>0, <2>2, <2>3, RowsAssumption DEF IInv, TypeOK, WellMade
  <2>5. /\ linked' = [linked EXCEPT ![c] = @ \cup {op.row}]
        /\ book' = [book EXCEPT ![c][op.row] = op.val]
    BY <1>0, <1>2 DEF Link
  <2>6. /\ \A d \in Copies \ {c} : linked'[d] = linked[d] /\ book'[d] = book[d]
        /\ \A s \in Rows : s # op.row =>
             book'[c][s] = book[c][s] /\ (s \in linked'[c] <=> s \in linked[c])
        /\ book'[c][op.row] = op.val /\ op.row \in linked'[c]
    BY <2>2, <2>4, <2>5
  <2>7. Uncommitted(work[p])' BY <2>1, <2>2 DEF Uncommitted, Replaying
  <2>8. \A r : Born(r)' <=> Born(r) BY <2>1 DEF Born
  <2>9. ASSUME c \notin tainted, NEW i \in 1 .. k, Born(ops[i].row)
        PROVE  Reached(c, ops[i])'
    <3>1. CASE i = k BY <1>0, <2>4, <2>6, <3>1 DEF Reached
    <3>2. CASE i # k
      <4>1. i \in 1 .. work[p].done /\ i \in 1 .. k - 1 /\ i \in 1 .. Len(ops)
        BY <2>2, <2>3, <3>2
      <4>2. Reaches(work[p]) BY <1>0, <2>2, <2>9 DEF Faithful, ReachesOK
      <4>3. Reached(c, ops[i]) BY <1>0, <2>1, <2>9, <4>1, <4>2 DEF Reaches
      <4>4. ops[i].row # op.row BY <1>0, <2>2, <2>3, <4>1 DEF FreshInHand
      <4>5. QED BY <2>2, <2>6, <4>1, <4>3, <4>4 DEF Reached
    <3>3. QED BY <3>1, <3>2
  <2>10. ASSUME c \notin tainted PROVE Reaches(work[p])'
    <3>1. CASE k = Len(ops) BY <2>1, <2>8, <2>9, <2>10, <3>1 DEF Reaches
    <3>2. CASE k # Len(ops) BY <2>1, <2>8, <2>9, <2>10, <3>2 DEF Reaches
    <3>3. QED BY <3>1, <3>2
  <2>11. work'[p].ops[k].row = op.row /\ k \in 1 .. Len(work'[p].ops)
    BY <1>0, <2>1, <2>3
  <2>12. \A s \in Rows :
           \/ book'[c][s] = book[c][s] /\ (s \in linked'[c] <=> s \in linked[c])
           \/ \E i \in 1 .. Len(work'[p].ops) : work'[p].ops[i].row = s
    BY <2>6, <2>11
  <2>13. Uncommitted(work[p]) => work'[p].ops = work[p].ops BY <1>0, <2>1
  <2> HIDE DEF Uncommitted
  <2>14. QED BY <1>0, <2>1, <2>2, <2>6, <2>7, <2>10, <2>12, <2>13, WriteRows
<1>3. QED BY <1>1, <1>2

-----------------------------------------------------------------------------
(* What a process appends and acknowledges. *)

\* The event of a join or a departure is no write.
LEMMA EventAppended ==
  ASSUME IInv, LockKept, Faithful, lapses = 0, NEW p \in Procs, OthersStay(p),
         Inside(work[p]), Suits(work[p]), work[p].job \in {"join", "depart"},
         work[p].copy \in Copies, work'[p].copy = work[p].copy, work'[p].pc = "finish",
         Grows, UNCHANGED <<copyVars, tainted>>
  PROVE  RowsOK' /\ ReachesOK'
<1>0. PICK c : c = work[p].copy OBVIOUS
<1>1. status[c] # "out" /\ ~Uncommitted(work[p]) BY <1>0 DEF Suits, Uncommitted
<1>2. ASSUME c \notin tainted, NEW r \in Rows, Born(r)' PROVE Copied(c, r)'
  <2>1. Born(r) BY <1>2, BornBefore DEF Grows
  <2>2. Copied(c, r) BY <1>0, <1>1, <1>2, <2>1, NothingInFlight
  <2>3. applied[c] \in 0 .. Len(oplog) BY <1>0 DEF IInv, TypeOK, LogOK, Grows
  <2>4. QED BY <2>2, <2>3, CopiedStays DEF copyVars
<1>3. Reaches(work[p])' BY NothingToReach
<1>4. QED BY <1>0, <1>2, <1>3, FaithfulInside DEF copyVars

\* A write that is in the log is in the copy that wrote it.
LEMMA WriteAppended ==
  ASSUME IInv, LockKept, Locked, Shape, RosterOK, Faithful, lapses = 0, NEW p \in Procs,
         AppendOps(p), OthersStay(p), oplog' = oplog \o work[p].ops,
         work[p].job = "submit", work'[p].copy = work[p].copy, work'[p].pc = "ack",
         UNCHANGED tainted
  PROVE  RowsOK' /\ ReachesOK'
<1>0. PICK c, ops, m, n :
        c = work[p].copy /\ ops = work[p].ops /\ m = Len(oplog) /\ n = Len(oplog')
  OBVIOUS
<1>1. work[p].pc = "append" /\ UNCHANGED copyVars BY AppendRecord
<1>2. /\ m \in Nat /\ Len(ops) \in Nat /\ n = m + Len(ops) /\ n \in Nat
      /\ \A i \in 1 .. m : oplog'[i] = oplog[i]
      /\ \A i \in m + 1 .. n : oplog'[i] = ops[i - m] /\ i - m \in 1 .. Len(ops)
      /\ Handles(work[p], ops) /\ ~Replaying(work[p])
  BY <1>0, Appended
<1>3. /\ Inside(work[p]) /\ c \in Copies /\ status[c] # "out" /\ applied[c] = m
      /\ FreshInHand(work[p]) /\ m >= 2
  BY <1>0, <1>1, <1>2, WritePoint DEF Handling, Shape, LogMade
<1>4. Grows BY <1>0, <1>2 DEF Grows
<1>5. \A i \in m + 1 .. n : oplog'[i].by = c
  <2>1. OwnWork(work[p], Active) BY <1>1 DEF LockKept
  <2>2. \A i \in 1 .. Len(ops) : ops[i].by = c BY <1>0, <1>1, <1>2, <2>1 DEF OwnWork, Handling
  <2>3. QED BY <1>2, <2>2
<1>6. \A i, j \in m + 1 .. n : i < j => oplog'[i].row # oplog'[j].row
  <2> SUFFICES ASSUME NEW i \in m + 1 .. n, NEW j \in m + 1 .. n, i < j
               PROVE  oplog'[i].row # oplog'[j].row
    OBVIOUS
  <2>1. PICK a, b : a = i - m /\ b = j - m OBVIOUS
  <2>2. a \in 1 .. Len(ops) /\ oplog'[i] = ops[a] BY <1>2, <2>1
  <2>3. b \in 1 .. Len(ops) /\ oplog'[j] = ops[b] BY <1>2, <2>1
  <2>4. a < b BY <1>2, <2>1
  <2>5. a \in 1 .. b - 1 /\ Len(ops) # 1 BY <2>2, <2>3, <2>4
  <2>6. ops[b].kind = "create" BY <1>2, <2>3, <2>5 DEF Handles
  <2>7. ops[a].row # ops[b].row BY <1>0, <1>3, <2>3, <2>5, <2>6 DEF FreshInHand
  <2>8. QED BY <2>2, <2>3, <2>7
<1>7. ASSUME c \notin tainted, NEW r \in Rows, Born(r)'
      PROVE  Copied(c, r)' /\ Holds(c, r, n)'
  <2>1. Born(r) BY <1>4, <1>7, BornBefore DEF Grows
  <2>2. CASE \E k \in m + 1 .. n : oplog'[k].row = r
    <3>1. PICK k \in m + 1 .. n : oplog'[k].row = r BY <2>2
    <3>2. /\ k \in Nat \ {0} /\ k >= 3 /\ k <= n /\ k - m \in 1 .. Len(ops)
          /\ oplog'[k] = ops[k - m]
      <4>1. k - m \in 1 .. Len(ops) /\ oplog'[k] = ops[k - m] BY <1>2
      <4>2. m \in Nat /\ m >= 2 /\ n \in Nat BY <1>2, <1>3
      <4>3. QED BY <4>1, <4>2
    <3>3. Reaches(work[p]) BY <1>0, <1>3, <1>7 DEF Faithful, ReachesOK
    <3>4. Reached(c, ops[k - m])
      BY <1>0, <1>1, <2>1, <3>1, <3>2, <3>3 DEF Reaches
    <3>5. Held(oplog', c, r, k) = oplog'[k].val BY <3>1, <3>2, HeldNext
    <3>6. Holds(c, r, k)'
      BY <1>1, <3>1, <3>2, <3>4, <3>5 DEF Holds, Reached, copyVars
    <3>7. \A i \in k + 1 .. n : oplog'[i].row # r
      <4> SUFFICES ASSUME NEW i \in k + 1 .. n PROVE oplog'[i].row # r
        OBVIOUS
      <4>1. m \in Nat /\ n \in Nat BY <1>2
      <4>2. i \in m + 1 .. n /\ k < i BY <3>2, <4>1
      <4>3. QED BY <1>6, <3>1, <4>2
    <3>8. Held(oplog', c, r, n) = Held(oplog', c, r, k)
      <4>1. n \in Nat /\ k \in Nat /\ k <= n BY <1>2, <3>2
      <4>2. QED BY <3>7, <4>1, HeldQuiet
    <3>9. Holds(c, r, n)' BY <1>0, <3>6, <3>8 DEF Holds
    <3>10. \A j \in m + 1 .. k - 1 : oplog'[j].row # r
      <4> SUFFICES ASSUME NEW j \in m + 1 .. k - 1 PROVE oplog'[j].row # r
        OBVIOUS
      <4>1. j \in m + 1 .. n /\ j < k BY <1>2, <3>2
      <4>2. QED BY <1>6, <3>1, <4>1
    <3>11. applied'[c] = m BY <1>1, <1>3 DEF copyVars
    <3>12. Begun(c, r)' BY <1>0, <1>5, <3>1, <3>6, <3>10, <3>11 DEF Begun
    <3>13. QED BY <3>9, <3>12 DEF Copied
  <2>3. CASE ~(\E k \in m + 1 .. n : oplog'[k].row = r)
    <3>1. ~InFlight(c, r)
      <4> SUFFICES ASSUME NEW q \in Procs, Uncommitted(work[q]),
                          NEW i \in 1 .. Len(work[q].ops), work[q].ops[i].row = r
                   PROVE  FALSE
        BY DEF InFlight
      <4>1. q = p BY <1>3, NobodyElse DEF Uncommitted, Inside
      <4>2. i \in 1 .. Len(ops) /\ ops[i].row = r BY <1>0, <4>1
      <4>3. m + i \in m + 1 .. n /\ (m + i) - m = i BY <1>2, <4>2
      <4>4. oplog'[m + i] = ops[i] BY <1>2, <4>3
      <4>5. QED BY <2>3, <4>2, <4>3, <4>4
    <3>2. Copied(c, r) BY <1>3, <1>7, <2>1, <3>1 DEF Faithful, RowsOK
    <3>3. Copied(c, r)'
      BY <1>0, <1>1, <1>2, <1>3, <1>4, <3>2, CopiedStays DEF copyVars
    <3>4. Holds(c, r, m) BY <1>0, <1>2, <1>3, <3>2, CaughtUpHolds
    <3>5. Holds(c, r, m)'
      BY <1>0, <1>1, <1>2, <1>4, <3>4, HoldsStays DEF copyVars
    <3>6. m \in Nat /\ n \in Nat /\ m <= n BY <1>2
    <3>7. \A i \in m + 1 .. n : oplog'[i].row # r BY <2>3
    <3>8. Held(oplog', c, r, n) = Held(oplog', c, r, m) BY <3>6, <3>7, HeldQuiet
    <3>9. Holds(c, r, n)' BY <1>0, <1>2, <3>5, <3>8 DEF Holds
    <3>10. QED BY <3>3, <3>9
  <2>4. QED BY <2>2, <2>3
<1>8. ASSUME c \notin tainted PROVE Reaches(work[p])'
  <2>1. \A r \in Rows : Born(r)' => Holds(c, r, n)' BY <1>7, <1>8
  <2>2. QED BY <1>0, <2>1 DEF Reaches
<1>9. QED BY <1>0, <1>1, <1>3, <1>4, <1>7, <1>8, FaithfulInside DEF copyVars

\* An append.
LEMMA AppendFaithful ==
  ASSUME IInv, LockKept, Locked, Shape, RosterOK, Faithful, lapses = 0, NEW p \in Procs,
         AppendOps(p)
  PROVE  RowsOK' /\ ReachesOK'
<1>1. CASE Fails(p) /\ UNCHANGED oplog
  BY <1>1, AppendRecord, FaithfulFails
<1>2. CASE ~(Fails(p) /\ UNCHANGED oplog)
  <2>1. /\ work[p].pc = "append" /\ oplog' = oplog \o work[p].ops /\ OthersStay(p)
        /\ UNCHANGED <<copyVars, tainted>>
        /\ work'[p].pc = IF work[p].job = "submit" THEN "ack" ELSE "finish"
        /\ work'[p].copy = work[p].copy
    BY <1>2, AppendRecord
  <2>2. CASE work[p].job = "submit" BY <2>1, <2>2, WriteAppended
  <2>3. CASE work[p].job # "submit"
    <3>1. work[p].job \in {"join", "depart"}
      BY <2>1, <2>3, AppendedUnderLock
    <3>2. Grows BY <2>1, Appended DEF Grows
    <3>3. Inside(work[p]) /\ Suits(work[p]) /\ work[p].copy \in Copies
      BY <2>1, Known DEF Inside, Shape, Fits
    <3>4. QED BY <2>1, <2>3, <3>1, <3>2, <3>3, EventAppended
  <2>4. QED BY <2>2, <2>3
<1>3. QED BY <1>1, <1>2

\* The watermark jumps past one's own ops.
LEMMA AckFaithful ==
  ASSUME IInv, LockKept, Locked, Shape, Faithful, lapses = 0, NEW p \in Procs, Ack(p)
  PROVE  RowsOK' /\ ReachesOK'
<1>0. PICK c : c = work[p].copy OBVIOUS
<1>1. /\ OthersStay(p) /\ work[p].pc = "ack" /\ work'[p].pc = "finish"
      /\ UNCHANGED <<oplog, status, linked, book, tainted>>
  BY AckRecord
<1>2. /\ Inside(work[p]) /\ c \in Copies /\ Len(oplog) \in Nat
  BY <1>0, <1>1, Known DEF Inside, Fits
<1>3. applied' = [applied EXCEPT ![c] = Len(oplog)] /\ applied \in [Copies -> Nat]
  BY <1>0, AckLocked DEF IInv, TypeOK
<1>4. applied'[c] = Len(oplog) /\ \A d \in Copies \ {c} : applied'[d] = applied[d]
  BY <1>2, <1>3
<1>5. Grows BY <1>1, <1>2 DEF Grows
<1>6. ASSUME c \notin tainted, NEW r \in Rows, Born(r)' PROVE Copied(c, r)'
  <2>1. Born(r) BY <1>1, <1>6 DEF Born
  <2>2. Reaches(work[p]) BY <1>0, <1>2, <1>6 DEF Faithful, ReachesOK
  <2>3. Holds(c, r, Len(oplog)) BY <1>0, <1>1, <2>1, <2>2 DEF Reaches
  <2>4. Holds(c, r, Len(oplog))' BY <1>1, <2>3 DEF Holds
  <2>5. QED BY <1>1, <1>4, <2>4 DEF Copied
<1>7. Reaches(work[p])' BY <1>1, NothingToReach
<1>8. QED BY <1>0, <1>1, <1>2, <1>4, <1>5, <1>6, <1>7, FaithfulInside

-----------------------------------------------------------------------------
(* Every step keeps it. *)

\* A step of a process at work.
LEMMA WorksFaithful ==
  ASSUME IInv, LockKept, Locked, Shape, RosterOK, NoLostUpdate, Faithful, lapses = 0,
         NEW p \in Procs, Works(p)
  PROVE  RowsOK' /\ ReachesOK'
<1>1. ASSUME Applies(p) PROVE RowsOK' /\ ReachesOK'
  <2>1. CASE ApplyNext(p) \/ Recreate(p) \/ Bump(p)
    BY <2>1, ApplyNextFaithful, RecreateFaithful, BumpFaithful
  <2>2. CASE Repoint(p) \/ Unlink(p) BY <2>2, PhaseReplays, PhaseWrites
  <2>3. CASE Link(p) BY <2>3, LinkReplays, LinkWrites
  <2>4. QED BY <1>1, <2>1, <2>2, <2>3 DEF Applies
<1>2. ASSUME Replicate(p) PROVE RowsOK' /\ ReachesOK'
  BY <1>2, OutsideFaithful, StartFaithful DEF Replicate
<1>3. ASSUME Submit(p) PROVE RowsOK' /\ ReachesOK'
  <2>1. CASE CaughtUp(p) \/ ChooseCreate(p) \/ ChooseEdit(p)
    BY <2>1, StartFaithful
  <2>2. CASE ChooseRefused(p) BY <2>2, FaithfulFails DEF ChooseRefused
  <2>3. CASE Act(p) \/ AppendOps(p) \/ Ack(p)
    BY <2>3, ActFaithful, AppendFaithful, AckFaithful
  <2>4. CASE Finish(p) BY <2>4, OutsideFaithful
  <2>5. QED BY <1>3, <2>1, <2>2, <2>3, <2>4 DEF Submit
<1>4. QED BY <1>1, <1>2, <1>3 DEF Works

\* While no lock lapses, copies stay where the log has them.
LEMMA FaithfulKept ==
  ASSUME IInv, LockKept, Locked, Shape, RosterOK, NoLostUpdate, Faithful, [Next]_vars
  PROVE  Faithful'
<1> SUFFICES ASSUME lapses' = 0 PROVE RowsOK' /\ ReachesOK'
  BY DEF Faithful
<1>1. ~Lapse
  <2>1. lapses \in Nat BY DEF IInv, TypeOK
  <2>2. QED BY <2>1 DEF Lapse
<1>2. lapses = 0 BY <1>1, LapsesKept
<1>3. ASSUME NEW p \in Procs, Works(p) PROVE RowsOK' /\ ReachesOK'
  BY <1>2, <1>3, WorksFaithful
<1>4. ASSUME NEW p \in Procs, SubmitStart(p) \/ Join(p) \/ Depart(p)
      PROVE  RowsOK' /\ ReachesOK'
  BY <1>2, <1>4, StartFaithful, JoinFaithful, DepartFaithful
<1>5. ASSUME NEW p \in Procs, Error(p) PROVE RowsOK' /\ ReachesOK'
  BY <1>2, <1>5, FaithfulFails DEF Error
<1>6. ASSUME NEW p \in Procs, Busy(p) \/ Crash(p) PROVE RowsOK' /\ ReachesOK'
  BY <1>2, <1>6, OutsideFaithful
<1>7. CASE UNCHANGED vars
  <2>1. UNCHANGED <<oplog, status, applied, linked, book, tainted, work>>
    BY <1>7 DEF vars, copyVars
  <2>2. \A r : Born(r)' <=> Born(r) BY <2>1 DEF Born
  <2>3. \A c, r, n : Holds(c, r, n)' <=> Holds(c, r, n) BY <2>1 DEF Holds
  <2>4. \A c, r : Copied(c, r)' <=> Copied(c, r) BY <2>1, <2>3 DEF Copied, Begun
  <2>5. \A c, r : InFlight(c, r)' <=> InFlight(c, r)
    BY <2>1 DEF InFlight, Uncommitted, Replaying
  <2>6. \A c, op : Reached(c, op)' <=> Reached(c, op) BY <2>1 DEF Reached
  <2>7. \A p \in Procs : Reaches(work[p])' <=> Reaches(work[p])
    BY <2>1, <2>2, <2>3, <2>6 DEF Reaches
  <2>8. RowsOK /\ ReachesOK BY <1>2 DEF Faithful
  <2>9. RowsOK' BY <2>1, <2>2, <2>4, <2>5, <2>8 DEF RowsOK
  <2>10. ReachesOK' BY <2>1, <2>7, <2>8 DEF ReachesOK
  <2>11. QED BY <2>9, <2>10
<1>8. QED BY <1>1, <1>3, <1>4, <1>5, <1>6, <1>7 DEF Next

\* Conversion leaves the founder with the first two ops, and nobody else.
LEMMA FaithfulAtFirst == Init => RosterOK /\ Faithful
<1> SUFFICES ASSUME Init PROVE RosterOK /\ Faithful
  OBVIOUS
<1>1. PICK name \in MainNames :
        /\ oplog = <<ChainOp(Founder), CreateOp(Founder, Main, name, None)>>
        /\ status = [c \in Copies |-> IF c = Founder THEN "active" ELSE "out"]
        /\ applied = [c \in Copies |-> IF c = Founder THEN 2 ELSE 0]
        /\ linked = [c \in Copies |-> IF c = Founder THEN {Main} ELSE {}]
        /\ book = [c \in Copies |-> [r \in Rows |->
                     IF c = Founder /\ r = Main THEN name ELSE None]]
        /\ work = [p \in Procs |-> Idle]
  BY DEF Init
<1>2. /\ Founder \in Copies /\ None \notin Values /\ MainNames \subseteq Values
      /\ Main \in Rows
  BY ReplicationAssumption, RowsAssumption DEF Rows
<1>3. RosterOK BY <1>1, <1>2 DEF RosterOK
<1>4. /\ Len(oplog) = 2 /\ oplog[1].row = None /\ oplog[2].row = Main
      /\ oplog[2].val = name
  BY <1>1 DEF ChainOp, CreateOp
<1>5. ReachesOK BY <1>1 DEF ReachesOK, Inside, Idle
<1>6. RowsOK
  <2> SUFFICES ASSUME NEW c \in Copies, status[c] # "out", NEW r \in Rows
               PROVE  Holds(c, r, applied[c])
    BY DEF RowsOK, Copied
  <2>1. c = Founder /\ applied[c] = 2 /\ linked[c] = {Main}
        /\ book[c][r] = IF r = Main THEN name ELSE None
    BY <1>1, <1>2
  <2>2. None \notin Rows BY RowsAssumption DEF Rows
  <2>3. StateAt(oplog, 2, r) = IF r = Main THEN name ELSE None
    <3>1. CASE r = Main
      <4>1. 2 \in 1 .. 2 /\ \A i \in 2 + 1 .. 2 : oplog[i].row # r OBVIOUS
      <4>2. QED BY <1>4, <3>1, <4>1, StateAtLatest
    <3>2. CASE r # Main
      <4>1. \A i \in 1 .. 2 : oplog[i].row # r BY <1>4, <2>2, <3>2
      <4>2. QED BY <3>2, <4>1, StateAtNone
    <3>3. QED BY <3>1, <3>2
  <2>4. QED BY <1>2, <2>1, <2>3 DEF Holds, Held
<1>7. QED BY <1>3, <1>5, <1>6 DEF Faithful

\* What a copy holds, and what the process at work on it has done.
LEMMA FaithfulInvariance == Spec => [](Shape /\ IInv /\ RosterOK /\ Faithful)
<1>1. IInv /\ LockKept /\ Locked /\ Shape /\ RosterOK /\ NoLostUpdate /\ Faithful /\ [Next]_vars
      => RosterOK' /\ Faithful'
  BY RosterKept, FaithfulKept
<1>2. QED
  BY <1>1, FaithfulAtFirst, Invariance, LockInvariance, LockedInvariance,
     NoUpdateIsLost, PTL DEF Spec

-----------------------------------------------------------------------------
(* The theorems. *)

\* A copy that is up to date and that no process works on has every row as the
\* log says, but for the name of its Main while no op of the group gave one.
ConvergedButForMain ==
  \A c \in Copies :
    status[c] = "active" /\ applied[c] = Len(oplog) /\ Sound(c) =>
      \A r \in Rows : Born(r) => Holds(c, r, Len(oplog))

\* Main had the default name when the portfolio became a group's.
MainIsDefault == oplog[2].val = DefaultName

\* What a copy on which no process works is known to be.
LEMMA SoundCopied ==
  ASSUME Faithful, lapses = 0, NEW c \in Copies, status[c] # "out", Sound(c),
         NEW r \in Rows, Born(r)
  PROVE  Copied(c, r)
<1>1. ~InFlight(c, r) BY DEF InFlight, Sound
<1>2. c \notin tainted BY DEF Sound
<1>3. QED BY <1>1, <1>2 DEF Faithful, RowsOK

\* Where Main had the default name, a copy should hold what the log says.
LEMMA HeldIsState ==
  ASSUME Shape, MainIsDefault, Len(oplog) \in Nat, NEW n \in 2 .. Len(oplog), NEW c, NEW r
  PROVE  Held(oplog, c, r, n) = StateAt(oplog, n, r)
<1>1. CASE r = Main /\ \A j \in 3 .. n : oplog[j].row # Main
  <2>1. n \in Nat /\ 2 \in 1 .. n OBVIOUS
  <2>2. oplog[2].row = Main BY DEF Shape, LogMade
  <2>3. \A i \in 2 + 1 .. n : oplog[i].row # r BY <1>1
  <2>4. StateAt(oplog, n, r) = oplog[2].val BY <1>1, <2>1, <2>2, <2>3, StateAtLatest
  <2>5. QED BY <2>4 DEF Held, MainIsDefault
<1>2. CASE ~(r = Main /\ \A j \in 3 .. n : oplog[j].row # Main)
  BY <1>2 DEF Held
<1>3. QED BY <1>1, <1>2

\* An up-to-date copy holds the whole log.
LEMMA UpToDateHolds ==
  ASSUME Shape, IInv, Faithful, lapses = 0
  PROVE  ConvergedButForMain
<1> SUFFICES ASSUME NEW c \in Copies, status[c] = "active", applied[c] = Len(oplog), Sound(c),
                    NEW r \in Rows, Born(r)
             PROVE  Holds(c, r, Len(oplog))
  BY DEF ConvergedButForMain
<1>1. Copied(c, r) BY SoundCopied
<1>2. Len(oplog) \in Nat BY LenProperties DEF IInv, TypeOK
<1>3. QED BY <1>1, <1>2, CaughtUpHolds

\* Without the name of Main, convergence follows.
LEMMA UpToDateConverged ==
  ASSUME Shape, IInv, Faithful, lapses = 0, MainIsDefault
  PROVE  Converged
<1> SUFFICES ASSUME NEW c \in Copies, status[c] = "active", applied[c] = Len(oplog), Sound(c),
                    NEW r \in Rows, Born(r)
             PROVE  /\ book[c][r] = StateAt(oplog, Len(oplog), r)
                    /\ r \in linked[c] <=> book[c][r] # None
  BY DEF Converged
<1>1. Holds(c, r, Len(oplog)) BY UpToDateHolds DEF ConvergedButForMain
<1>2. Len(oplog) \in Nat /\ Len(oplog) \in 2 .. Len(oplog)
  BY LenProperties DEF IInv, TypeOK, Shape, LogMade
<1>3. Held(oplog, c, r, Len(oplog)) = StateAt(oplog, Len(oplog), r)
  BY <1>2, HeldIsState
<1>4. QED BY <1>1, <1>3 DEF Holds

\* A copy that lags is between two ops on each row.
LEMMA LaggingIsBetween ==
  ASSUME Shape, IInv, RosterOK, Faithful, lapses = 0, MainIsDefault
  PROVE  LagsNeverDiverges
<1> SUFFICES ASSUME NEW c \in Copies, status[c] # "out", Sound(c), NEW r \in Rows, Born(r)
             PROVE  \/ book[c][r] = StateAt(oplog, applied[c], r)
                    \/ MainOnArrival(c, r)
                    \/ \E n \in applied[c] + 1 .. Len(oplog) :
                         /\ oplog[n].row = r
                         /\ book[c][r] \in {oplog[n].val, None}
                         /\ n = applied[c] + 1 \/ oplog[n].by = c
  BY DEF LagsNeverDiverges
<1>1. Copied(c, r) BY SoundCopied
<1>2. /\ Len(oplog) \in Nat /\ applied[c] \in Nat /\ applied[c] <= Len(oplog)
      /\ None \notin Rows /\ DefaultName # None
  BY LenProperties, RowsAssumption, ReplicationAssumption DEF IInv, TypeOK, LogOK, Rows
<1>3. CASE Holds(c, r, applied[c])
  <2>1. CASE applied[c] >= 2
    <3>1. applied[c] \in 2 .. Len(oplog) BY <1>2, <2>1
    <3>2. Held(oplog, c, r, applied[c]) = StateAt(oplog, applied[c], r)
      BY <1>2, <3>1, HeldIsState
    <3>3. QED BY <1>3, <3>2 DEF Holds
  <2>2. CASE applied[c] < 2
    <3>1. c # Founder /\ \A j \in 3 .. applied[c] : FALSE
      BY <1>2, <2>2, ReplicationAssumption DEF RosterOK
    <3>2. CASE r = Main
      <4>1. Held(oplog, c, r, applied[c]) = DefaultName BY <3>1, <3>2 DEF Held
      <4>2. r \in linked[c] BY <1>2, <1>3, <4>1 DEF Holds
      <4>3. QED BY <2>2, <3>2, <4>2 DEF MainOnArrival
    <3>3. CASE r # Main BY <1>3, <3>3 DEF Holds, Held
    <3>4. QED BY <3>2, <3>3
  <2>3. QED BY <1>2, <2>1, <2>2
<1>4. CASE Begun(c, r)
  <2>1. PICK n \in applied[c] + 1 .. Len(oplog) :
          /\ oplog[n].row = r
          /\ \/ Holds(c, r, n) /\ (n = applied[c] + 1 \/ oplog[n].by = c)
             \/ n = applied[c] + 1 /\ book[c][r] = None
    BY <1>4 DEF Begun
  <2>2. CASE Holds(c, r, n) /\ (n = applied[c] + 1 \/ oplog[n].by = c)
    <3>1. n # 1
      <4>1. 1 \in 1 .. Len(oplog) /\ oplog[1].kind = "chain" BY <1>2 DEF Shape, LogMade
      <4>2. oplog[1].row = None BY <4>1 DEF Shape, LogMade, WellMade
      <4>3. QED BY <1>2, <2>1, <4>2
    <3>2. n \in 2 .. Len(oplog) /\ n \in Nat \ {0} BY <1>2, <3>1
    <3>3. Held(oplog, c, r, n) = StateAt(oplog, n, r) BY <1>2, <3>2, HeldIsState
    <3>4. StateAt(oplog, n, r) = oplog[n].val
      <4>1. n \in 1 .. n /\ \A i \in n + 1 .. n : oplog[i].row # r BY <3>2
      <4>2. QED BY <2>1, <3>2, <4>1, StateAtLatest
    <3>5. book[c][r] = oplog[n].val BY <2>2, <3>3, <3>4 DEF Holds
    <3>6. QED BY <2>1, <2>2, <3>5
  <2>3. CASE n = applied[c] + 1 /\ book[c][r] = None BY <2>1, <2>3
  <2>4. QED BY <2>1, <2>2, <2>3
<1>5. QED BY <1>1, <1>3, <1>4 DEF Copied

\* While no lock lapses, an up-to-date copy has every row of the log in the
\* state its last op gave it, whatever failed or was repeated on the way; only a
\* joined copy's Main keeps the name it was born with until an op renames it.
THEOREM CopiesHoldTheLog == Spec => [](lapses = 0 => ConvergedButForMain)
<1>1. Shape /\ IInv /\ Faithful => (lapses = 0 => ConvergedButForMain)
  BY UpToDateHolds
<1>2. QED BY <1>1, FaithfulInvariance, PTL

\* So copies converge, in a group whose founder had left Main its default name.
THEOREM CopiesConverge == Spec => [](lapses = 0 /\ MainIsDefault => Converged)
<1>1. Shape /\ IInv /\ Faithful => (lapses = 0 /\ MainIsDefault => Converged)
  BY UpToDateConverged
<1>2. QED BY <1>1, FaithfulInvariance, PTL

\* And a copy that lags, or was severed, only lags.
THEOREM LaggingCopiesOnlyLag == Spec => [](lapses = 0 /\ MainIsDefault => LagsNeverDiverges)
<1>1. Shape /\ IInv /\ RosterOK /\ Faithful
      => (lapses = 0 /\ MainIsDefault => LagsNeverDiverges)
  BY LaggingIsBetween
<1>2. QED BY <1>1, FaithfulInvariance, PTL
=============================================================================
