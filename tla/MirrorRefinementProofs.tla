------------------------ MODULE MirrorRefinementProofs ------------------------
(***************************************************************************)
(* While the lock of a group portfolio is kept, its replication does what  *)
(* ChainLog promises.                                                      *)
(***************************************************************************)
EXTENDS MirrorReplicationProofs, FiniteSetTheorems

-----------------------------------------------------------------------------
(* What the ops in the log and in hand are, with the lock or without it. *)

Inside(w) == w.pc \notin {"idle", "sweep"}

\* An op has what its kind needs, about a row whose id is in use.
WellMade(op) ==
  /\ op.kind = "chain" => op.row = None
  /\ op.kind \in {"create", "update"} => op.val \in Values
  /\ op.kind = "delete" => op.val = None /\ op.row \notin Sources

Minted(op) == op.kind # "chain" => op.row \in minted

\* What a process has in hand, and for whom it works.
Suits(w) ==
  /\ w.pc \in Handling =>
       \A i \in 1 .. Len(w.ops) : WellMade(w.ops[i]) /\ Minted(w.ops[i])
  /\ w.pc \in Handling /\ w.job \in {"join", "depart"} => w.ops = <<ChainOp(w.copy)>>
  /\ w.pc \in Handling \cup {"ack"} /\ w.job \notin {"join", "depart"} =>
       /\ w.job = "submit" \/ Replaying(w)
       /\ ~Replaying(w) => \A i \in 1 .. Len(w.ops) : w.ops[i].kind # "chain"
  /\ w.pc = "choose" => w.job = "submit"
  /\ Inside(w) => status[w.copy] # "out"
  /\ w.job = "submit" => status[w.member] # "out"
  /\ ~Inside(w) => w.copy = None

LogMade ==
  /\ Len(oplog) >= 2
  /\ oplog[1].kind = "chain" /\ oplog[2].kind = "create" /\ oplog[2].row = Main
  /\ \A i \in 1 .. Len(oplog) : WellMade(oplog[i]) /\ Minted(oplog[i])
  /\ \A c \in Copies : linked[c] \subseteq minted
  /\ Main \in minted

Shape == LogMade /\ \A p \in Procs : Suits(work[p])

-----------------------------------------------------------------------------
(* How the record of a process changes. *)

\* A failure takes a process out, and taints the copy it has changed unseen.
LEMMA FailsRecord ==
  ASSUME IInv, NEW p \in Procs, Fails(p)
  PROVE  /\ OthersStay(p) /\ ~Inside(work'[p]) /\ work'[p].copy = None
         /\ work'[p].job \in {"none", "replicate"}
<1>1. CASE work[p].job = "replicate"
  <2> DEFINE w == [Idle EXCEPT !.job = "replicate", !.pc = "sweep", !.failed = TRUE,
                     !.sweep = work[p].sweep, !.tries = work[p].tries]
  <2>1. work' = [work EXCEPT ![p] = w] BY <1>1 DEF Fails
  <2>2. w.pc = "sweep" /\ w.copy = None /\ w.job = "replicate" BY DEF Idle
  <2> HIDE DEF w
  <2>3. QED BY <2>1, <2>2, OthersStayPut DEF IInv, Inside
<1>2. CASE work[p].job # "replicate"
  <2>1. work' = [work EXCEPT ![p] = Idle] BY <1>2 DEF Fails
  <2>2. Idle.pc = "idle" /\ Idle.copy = None /\ Idle.job = "none" BY DEF Idle
  <2>3. QED BY <2>1, <2>2, OthersStayPut DEF IInv, Inside
<1>3. QED BY <1>1, <1>2

\* Going to a phase changes the phase and what is in hand.
LEMMA GoesRecord ==
  ASSUME IInv, NEW p \in Procs, NEW phase, NEW ops, Goes(p, phase, ops)
  PROVE  /\ OthersStay(p) /\ work'[p].pc = phase /\ work'[p].ops = ops
         /\ work'[p].done = 0
         /\ work'[p].copy = work[p].copy /\ work'[p].job = work[p].job
         /\ work'[p].member = work[p].member
         /\ work'[p].at = work[p].at /\ work'[p].upto = work[p].upto
<1>1. work[p] \in Work BY Known
<1> DEFINE w == [work[p] EXCEPT !.pc = phase, !.ops = ops, !.done = 0]
<1>2. work' = [work EXCEPT ![p] = w] BY DEF Goes
<1>3. /\ w.pc = phase /\ w.ops = ops /\ w.done = 0 /\ w.copy = work[p].copy
      /\ w.job = work[p].job /\ w.member = work[p].member /\ w.at = work[p].at /\ w.upto = work[p].upto
  BY <1>1 DEF Work
<1> HIDE DEF w
<1>4. QED BY <1>2, <1>3, OthersStayPut DEF IInv

\* Taking an edit in hand for a copy; for the copy at hand, that is going there.
LEMMA EditsRecord ==
  ASSUME IInv, NEW p \in Procs, NEW d, NEW ops, EditsIn(p, d, ops)
  PROVE  /\ OthersStay(p) /\ work'[p].pc = "act" /\ work'[p].ops = ops
         /\ work'[p].copy = d /\ work'[p].job = work[p].job
         /\ work'[p].member = work[p].member
         /\ work'[p].at = work[p].at /\ work'[p].upto = work[p].upto
         /\ d = work[p].copy => Goes(p, "act", ops)
<1>1. work[p] \in Work /\ work \in [Procs -> Work] BY Known
<1> DEFINE w == [work[p] EXCEPT !.pc = "act", !.copy = d, !.ops = ops, !.done = 0]
           v == [work[p] EXCEPT !.pc = "act", !.ops = ops, !.done = 0]
<1>2. work' = [work EXCEPT ![p] = w] BY DEF EditsIn
<1>3. /\ w.pc = "act" /\ w.ops = ops /\ w.copy = d /\ w.job = work[p].job
      /\ w.member = work[p].member /\ w.at = work[p].at /\ w.upto = work[p].upto
  BY <1>1 DEF Work
<1>4. d = work[p].copy => w = v BY <1>1 DEF Work
<1>5. Goes(p, "act", ops) <=> work' = [work EXCEPT ![p] = v] BY DEF Goes
<1> HIDE DEF w, v
<1>6. QED BY <1>2, <1>3, <1>4, <1>5, OthersStayPut DEF IInv

\* One transaction of applyLedgerOp fails, or goes on with the op in hand.
LEMMA ApplyRecord ==
  ASSUME IInv, NEW p \in Procs, NEW ops, Apply(p, ops)
  PROVE  \/ Fails(p)
         \/ \E phase \in {"finish", "link", "recreate", "repoint", "unlink", Settled(work[p])} :
              /\ Goes(p, phase, ops)
              /\ phase = "finish" => ~Replaying(work[p])
              /\ UNCHANGED <<holder, tainted>>
<1> DEFINE w == work[p]
           c == work[p].copy
           op == ops[1]
<1>1. CASE Fails(p) BY <1>1
<1>2. CASE /\ UNCHANGED <<holder, tainted>>
           /\ IF op.kind = "update" /\ ~Replaying(w)
              THEN Goes(p, "finish", ops) ELSE Goes(p, Settled(w), ops)
  <2>1. CASE op.kind = "update" /\ ~Replaying(w) BY <1>2, <2>1
  <2>2. CASE ~(op.kind = "update" /\ ~Replaying(w)) BY <1>2, <2>2 DEF Settled
  <2>3. QED BY <2>1, <2>2
<1>3. CASE /\ UNCHANGED <<holder, tainted>>
           /\ \E phase \in {"link", "recreate", "repoint", "unlink", Settled(w)} :
                Goes(p, phase, ops)
  <2>1. Settled(w) # "finish" BY DEF Settled
  <2>2. PICK phase \in {"link", "recreate", "repoint", "unlink", Settled(w)} :
          Goes(p, phase, ops)
    BY <1>3
  <2>3. QED BY <1>3, <2>1, <2>2
<1>4. QED BY <1>1, <1>2, <1>3 DEF Apply

\* Going on within one op.
LEMMA PhaseRecord ==
  ASSUME IInv, NEW p \in Procs, Recreate(p) \/ Repoint(p) \/ Unlink(p)
  PROVE  /\ OthersStay(p)
         /\ work[p].pc \in {"recreate", "repoint", "unlink"}
         /\ work'[p].pc = IF work[p].pc = "recreate" THEN "repoint" ELSE Settled(work[p])
         /\ work'[p].ops = work[p].ops /\ work'[p].done = work[p].done
         /\ work'[p].copy = work[p].copy /\ work'[p].job = work[p].job
         /\ work'[p].member = work[p].member
         /\ work'[p].at = work[p].at /\ work'[p].upto = work[p].upto
         /\ UNCHANGED <<oplog, status, applied, minted, holder, lapses, tainted>>
<1>1. work[p] \in Work /\ work \in [Procs -> Work] BY Known
<1>2. CASE Recreate(p) BY <1>1, <1>2 DEF Recreate, OthersStay, Work
<1>3. CASE Repoint(p) BY <1>1, <1>3 DEF Repoint, OthersStay, Work
<1>4. CASE Unlink(p) BY <1>1, <1>4 DEF Unlink, OthersStay, Work
<1>5. QED BY <1>2, <1>3, <1>4

\* Linking one created row.
LEMMA LinkRecord ==
  ASSUME IInv, NEW p \in Procs, Link(p)
  PROVE  /\ work[p].pc = "link"
         /\ UNCHANGED <<oplog, status, applied, minted, lapses>>
         /\ \/ Fails(p) /\ UNCHANGED <<linked, book>>
            \/ /\ OthersStay(p) /\ UNCHANGED <<holder, tainted>>
               /\ work'[p].pc = IF AllLinked(work[p]) THEN Settled(work[p]) ELSE "link"
               /\ work'[p].ops = work[p].ops /\ work'[p].done = work[p].done + 1
               /\ work'[p].copy = work[p].copy /\ work'[p].job = work[p].job
               /\ work'[p].member = work[p].member
               /\ work'[p].at = work[p].at /\ work'[p].upto = work[p].upto
<1>1. work[p] \in Work /\ work \in [Procs -> Work] BY Known
<1>2. QED BY <1>1 DEF Link, OthersStay, Work

\* The watermark moves, and the loop goes on.
LEMMA BumpRecord ==
  ASSUME IInv, NEW p \in Procs, Bump(p)
  PROVE  /\ OthersStay(p) /\ work[p].pc = "bump" /\ work'[p].pc = "apply"
         /\ work'[p].copy = work[p].copy /\ work'[p].job = work[p].job
         /\ work'[p].member = work[p].member
         /\ work'[p].at = work[p].at + 1 /\ work'[p].upto = work[p].upto
         /\ work'[p].ops = <<>>
         /\ UNCHANGED <<oplog, status, linked, book, minted, holder, lapses, tainted>>
<1>1. work[p] \in Work /\ work \in [Procs -> Work] BY Known
<1>2. QED BY <1>1 DEF Bump, OthersStay, Work

\* The job takes a copy up, or drops it from its sweep.
LEMMA VisitRecord ==
  ASSUME IInv, NEW p \in Procs, Visit(p)
  PROVE  /\ OthersStay(p) /\ work[p].pc = "sweep" /\ LockFree
         /\ UNCHANGED <<oplog, copyVars, minted, lapses, tainted>>
         /\ \/ /\ work'[p].pc = "sweep" /\ work'[p].copy = work[p].copy
               /\ work'[p].job = work[p].job
            \/ \E c \in Copies :
                 /\ c \in Active /\ work'[p].pc = "apply" /\ work'[p].copy = c
                 /\ work'[p].job = work[p].job
                 /\ work'[p].at = applied[c] /\ work'[p].upto = Len(oplog)
<1>1. work[p] \in Work /\ work \in [Procs -> Work] /\ work[p].pc = "sweep" /\ LockFree
      /\ UNCHANGED <<oplog, copyVars, minted, lapses, tainted>>
  BY Known DEF Visit
<1>2. PICK c \in work[p].sweep :
        \/ \E d \in Membership(c) :
             work' = [work EXCEPT ![p].pc = "apply", ![p].copy = d,
                                  ![p].at = applied[d], ![p].upto = Len(oplog),
                                  ![p].sweep = @ \ {c}]
        \/ work' = [work EXCEPT ![p].sweep = @ \ {c}]
  BY DEF Visit
<1>3. ASSUME NEW d \in Membership(c),
             work' = [work EXCEPT ![p].pc = "apply", ![p].copy = d,
                                  ![p].at = applied[d], ![p].upto = Len(oplog),
                                  ![p].sweep = @ \ {c}]
      PROVE  /\ OthersStay(p) /\ d \in Copies /\ d \in Active
             /\ work'[p].pc = "apply" /\ work'[p].copy = d
             /\ work'[p].job = work[p].job
             /\ work'[p].at = applied[d] /\ work'[p].upto = Len(oplog)
  BY <1>1, <1>3 DEF OthersStay, Work, Membership, Active
<1>4. CASE work' = [work EXCEPT ![p].sweep = @ \ {c}]
  BY <1>1, <1>4 DEF OthersStay, Work
<1>5. QED BY <1>1, <1>2, <1>3, <1>4

\* Steps outside the lock, and steps that leave it without a failure.
LEMMA OutsideRecord ==
  ASSUME IInv, NEW p \in Procs, Suits(work[p]),
         JobPick(p) \/ JobDone(p) \/ Busy(p) \/ VisitDone(p) \/ Finish(p) \/ Crash(p)
  PROVE  /\ OthersStay(p) /\ ~Inside(work'[p]) /\ work'[p].copy = None
         /\ work'[p].job # "submit" /\ UNCHANGED <<oplog, copyVars, minted, lapses>>
<1>1. work[p] \in Work /\ work \in [Procs -> Work] BY Known
<1>2. CASE JobPick(p) BY <1>1, <1>2 DEF JobPick, OthersStay, Idle, Inside
<1>3. CASE JobDone(p) BY <1>1, <1>3 DEF JobDone, OthersStay, Idle, Inside
<1>4. CASE Busy(p)
  <2>1. work[p].copy = None /\ work[p].job = "replicate"
    BY <1>4, Known DEF Busy, Inside, Suits, Fits
  <2>2. PICK c \in work[p].sweep :
          work' = [work EXCEPT ![p].sweep = @ \ {c}, ![p].failed = TRUE]
    BY <1>4 DEF Busy
  <2>3. /\ OthersStay(p) /\ work'[p].pc = work[p].pc /\ work'[p].copy = work[p].copy
        /\ work'[p].job = work[p].job
    BY <1>1, <2>2 DEF OthersStay, Work
  <2>4. QED BY <1>4, <2>1, <2>3 DEF Busy, Inside
<1>5. CASE VisitDone(p) BY <1>1, <1>5 DEF VisitDone, OthersStay, Idle, Inside
<1>6. CASE Finish(p) BY <1>1, <1>6 DEF Finish, OthersStay, Idle, Inside
<1>7. CASE Crash(p) BY <1>1, <1>7 DEF Crash, OthersStay, Idle, Inside
<1>8. QED BY <1>2, <1>3, <1>4, <1>5, <1>6, <1>7

\* A write begins.
LEMMA SubmitStartRecord ==
  ASSUME IInv, NEW p \in Procs, SubmitStart(p)
  PROVE  /\ OthersStay(p) /\ ~Inside(work[p]) /\ LockFree
         /\ UNCHANGED <<oplog, copyVars, minted, lapses, tainted>>
         /\ \E c \in Active :
              /\ work'[p].pc = FirstPhase(c) /\ work'[p].copy = c
              /\ work'[p].job = "submit" /\ work'[p].member = c
              /\ work'[p].at = applied[c] /\ work'[p].upto = Len(oplog)
<1>1. work \in [Procs -> Work] BY Known
<1>2. PICK c \in Active :
        work' = [work EXCEPT ![p] = [Idle EXCEPT !.job = "submit", !.pc = FirstPhase(c),
                   !.copy = c, !.member = c, !.at = applied[c], !.upto = Len(oplog)]]
  BY DEF SubmitStart
<1>3. /\ OthersStay(p) /\ work'[p].pc = FirstPhase(c) /\ work'[p].copy = c
      /\ work'[p].job = "submit" /\ work'[p].member = c
      /\ work'[p].at = applied[c] /\ work'[p].upto = Len(oplog)
  BY <1>1, <1>2 DEF OthersStay, Idle
<1>4. QED BY <1>3 DEF SubmitStart, Inside

\* Caught up: the write goes on or is refused.
LEMMA CaughtUpRecord ==
  ASSUME IInv, NEW p \in Procs, CaughtUp(p)
  PROVE  /\ work[p].pc = "apply" /\ ~Replaying(work[p]) /\ work[p].job = "submit"
         /\ UNCHANGED <<oplog, copyVars, minted, lapses>>
         /\ \/ Fails(p)
            \/ /\ OthersStay(p) /\ work'[p].pc = "choose" /\ UNCHANGED tainted
               /\ work'[p].copy = work[p].copy /\ work'[p].job = work[p].job
               /\ work'[p].member \in Active
               /\ work'[p].at = work[p].at /\ work'[p].upto = work[p].upto
<1>1. work[p] \in Work /\ work \in [Procs -> Work] BY Known
<1>2. CASE Fails(p) BY <1>2 DEF CaughtUp
<1>3. CASE ~Fails(p)
  <2>1. PICK d \in Membership(work[p].copy) :
          work' = [work EXCEPT ![p].pc = "choose", ![p].member = d]
    BY <1>3 DEF CaughtUp
  <2>2. d \in Active BY DEF Membership
  <2>3. QED BY <1>1, <1>3, <2>1, <2>2 DEF CaughtUp, OthersStay, Work
<1>4. QED BY <1>2, <1>3

\* An append: refused, or the ops are in the log.
LEMMA AppendRecord ==
  ASSUME IInv, NEW p \in Procs, AppendOps(p)
  PROVE  /\ work[p].pc = "append" /\ UNCHANGED <<copyVars, minted, lapses>>
         /\ \/ Fails(p) /\ UNCHANGED oplog
            \/ /\ Accepted(work[p]) /\ oplog' = oplog \o work[p].ops
               /\ OthersStay(p) /\ UNCHANGED <<holder, tainted>>
               /\ work'[p].pc = IF work[p].job = "submit" THEN "ack" ELSE "finish"
               /\ work'[p].copy = work[p].copy /\ work'[p].job = work[p].job
               /\ work'[p].member = work[p].member
               /\ work'[p].at = Len(oplog') /\ work'[p].upto = Len(oplog')
               /\ work'[p].ops = <<>>
<1>1. work[p] \in Work /\ work \in [Procs -> Work] BY Known
<1>2. QED BY <1>1 DEF AppendOps, OthersStay, Work

\* The watermark takes over one's own ops.
LEMMA AckRecord ==
  ASSUME IInv, NEW p \in Procs, Ack(p)
  PROVE  /\ OthersStay(p) /\ work[p].pc = "ack" /\ work'[p].pc = "finish"
         /\ work'[p].copy = work[p].copy /\ work'[p].job = work[p].job
         /\ work'[p].member = work[p].member /\ work'[p].at = work[p].at
         /\ UNCHANGED <<oplog, status, linked, book, minted, holder, lapses, tainted>>
<1>1. work[p] \in Work /\ work \in [Procs -> Work] BY Known
<1>2. QED BY <1>1 DEF Ack, OthersStay, Work

\* A member comes or goes: an event in hand.
LEMMA EventRecord ==
  ASSUME IInv, NEW p \in Procs, Join(p) \/ Depart(p)
  PROVE  /\ OthersStay(p) /\ ~Inside(work[p]) /\ LockFree
         /\ UNCHANGED <<oplog, applied, minted, lapses, tainted>>
         /\ work'[p].pc = "append" /\ work'[p].job \in {"join", "depart"}
         /\ work'[p].copy \in Copies /\ work'[p].ops = <<ChainOp(work'[p].copy)>>
         /\ work'[p].at = 0 /\ work'[p].upto = 0
<1>1. work \in [Procs -> Work] BY Known
<1>2. CASE Join(p)
  <2>1. PICK c \in Copies :
          work' = [work EXCEPT ![p] = [Idle EXCEPT !.job = "join", !.pc = "append",
                                          !.copy = c, !.ops = <<ChainOp(c)>>]]
    BY <1>2 DEF Join
  <2>2. QED BY <1>1, <1>2, <2>1 DEF Join, OthersStay, Idle, Inside
<1>3. CASE Depart(p)
  <2>1. PICK c \in Copies :
          work' = [work EXCEPT ![p] = [Idle EXCEPT !.job = "depart", !.pc = "append",
                                          !.copy = c, !.ops = <<ChainOp(c)>>]]
    BY <1>3 DEF Depart, Active
  <2>2. QED BY <1>1, <1>3, <2>1 DEF Depart, OthersStay, Idle, Inside
<1>4. QED BY <1>2, <1>3

-----------------------------------------------------------------------------
(* Ops keep their shape. *)

\* A process outside has nothing in hand.
LEMMA OutSuits ==
  ASSUME NEW p \in Procs, ~Inside(work'[p]), work'[p].copy = None,
         work'[p].job # "submit"
  PROVE  Suits(work[p])'
BY DEF Suits, Inside, Handling

\* The same ops suit in every phase.
LEMMA PhaseSuits ==
  ASSUME NEW p \in Procs, Suits(work[p]), work[p].pc \in Handling,
         UNCHANGED <<minted, status>>, Inside(work'[p]),
         work'[p].pc # "choose",
         work'[p].ops = work[p].ops, work'[p].copy = work[p].copy,
         work'[p].job = work[p].job, work'[p].member = work[p].member,
         work'[p].at = work[p].at, work'[p].upto = work[p].upto
  PROVE  Suits(work[p])'
BY DEF Suits, Inside, Handling, Minted, Replaying

\* A process at work that has nothing in hand.
LEMMA EmptySuits ==
  ASSUME NEW p \in Procs, UNCHANGED status, Inside(work'[p]),
         status[work'[p].copy] # "out", work'[p].pc \notin Handling \cup {"ack"},
         work'[p].pc = "choose" => work'[p].job = "submit",
         work'[p].job = "submit" => status[work'[p].member] # "out"
  PROVE  Suits(work[p])'
BY DEF Suits, Inside

\* Ops taken in hand for replay or for a write.
LEMMA GoesSuits ==
  ASSUME IInv, NEW p \in Procs, Suits(work[p]), NEW phase, NEW ops,
         Goes(p, phase, ops), Inside(work[p]), phase \notin {"idle", "sweep", "choose"},
         work[p].job \notin {"join", "depart"}, work[p].job = "submit" \/ Replaying(work[p]),
         \A i \in 1 .. Len(ops) : WellMade(ops[i]) /\ Minted(ops[i])',
         ~Replaying(work[p]) => \A i \in 1 .. Len(ops) : ops[i].kind # "chain",
         UNCHANGED status
  PROVE  Suits(work[p])'
<1>1. /\ work'[p].pc = phase /\ work'[p].ops = ops
      /\ work'[p].copy = work[p].copy /\ work'[p].job = work[p].job
      /\ work'[p].member = work[p].member
      /\ Replaying(work'[p]) <=> Replaying(work[p])
  BY GoesRecord DEF Replaying
<1>2. Inside(work'[p]) /\ status[work[p].copy] # "out" BY <1>1 DEF Suits, Inside
<1>3. QED BY <1>1, <1>2 DEF Suits

\* What the others have in hand stays what it was.
LEMMA AllSuit ==
  ASSUME IInv, \A q \in Procs : Suits(work[q]), NEW p \in Procs, OthersStay(p),
         Suits(work[p])', minted \subseteq minted',
         \A c \in Copies : status[c] # "out" => status'[c] # "out"
  PROVE  \A q \in Procs : Suits(work[q])'
<1>1. ASSUME NEW q \in Procs, q # p PROVE Suits(work[q])'
  <2>1. work'[q] = work[q] /\ Suits(work[q]) BY <1>1 DEF OthersStay
  <2>2. /\ Inside(work[q]) => work[q].copy \in Copies
        /\ work[q].job = "submit" => work[q].member \in Copies
    BY Known DEF Fits, Inside
  <2>3. QED BY <2>1, <2>2 DEF Suits, Minted
<1>2. QED BY <1>1

\* Statuses never go back to out.
LEMMA NeverOutAgain ==
  ASSUME IInv, [Next]_vars, NEW c \in Copies, status[c] # "out"
  PROVE  status'[c] # "out"
<1>1. ASSUME NEW p \in Procs, Works(p) PROVE UNCHANGED status
  <2>1. \A ops : Apply(p, ops) => UNCHANGED status BY DEF Apply, copyVars
  <2>2. ApplyNext(p) \/ Act(p) => UNCHANGED status BY <2>1 DEF ApplyNext, Act
  <2>3. Recreate(p) \/ Repoint(p) => UNCHANGED status BY DEF Recreate, Repoint
  <2>4. Link(p) \/ Unlink(p) => UNCHANGED status BY DEF Link, Unlink
  <2>5. Bump(p) \/ Ack(p) => UNCHANGED status BY DEF Bump, Ack
  <2>6. Replicate(p) => UNCHANGED status
    BY DEF Replicate, JobPick, Visit, VisitDone, JobDone, copyVars
  <2>7. CaughtUp(p) \/ ChooseRefused(p) => UNCHANGED status
    BY DEF CaughtUp, ChooseRefused, copyVars
  <2>8. ChooseCreate(p) => UNCHANGED status BY DEF ChooseCreate, copyVars
  <2>9. ChooseEdit(p) => UNCHANGED status BY DEF ChooseEdit, copyVars
  <2>10. AppendOps(p) \/ Finish(p) => UNCHANGED status BY DEF AppendOps, Finish, copyVars
  <2>11. QED
    BY <1>1, <2>2, <2>3, <2>4, <2>5, <2>6, <2>7, <2>8, <2>9, <2>10 DEF Works, Applies, Submit
<1>2. ASSUME NEW p \in Procs, SubmitStart(p) \/ Error(p) \/ Busy(p) \/ Crash(p)
      PROVE  UNCHANGED status
  BY <1>2 DEF SubmitStart, Error, Busy, Crash, copyVars
<1>3. ASSUME NEW p \in Procs, Join(p) PROVE status'[c] # "out"
  BY <1>3 DEF Join, IInv, TypeOK
<1>4. ASSUME NEW p \in Procs, Depart(p) PROVE status'[c] # "out"
  BY <1>4 DEF Depart, IInv, TypeOK
<1>5. Lapse \/ UNCHANGED vars => UNCHANGED status BY DEF Lapse, vars, copyVars
<1>6. QED BY <1>1, <1>2, <1>3, <1>4, <1>5 DEF Next

\* A sequence of one op.
LEMMA OneLong ==
  ASSUME NEW x
  PROVE  Len(<<x>>) = 1 /\ \A i \in 1 .. Len(<<x>>) : <<x>>[i] = x
OBVIOUS

\* What replay, a submit and an append do to what is in hand.
LEMMA ApplySuits ==
  ASSUME IInv, Shape, NEW p \in Procs, ApplyNext(p) \/ Act(p)
  PROVE  OthersStay(p) /\ Suits(work[p])'
<1> DEFINE w == work[p]
<1>0. PICK ops : ops = IF ApplyNext(p) THEN <<oplog[w.at + 1]>> ELSE w.ops OBVIOUS
<1>1. /\ w \in Work /\ Fits(w, Len(oplog)) /\ oplog \in Seq(Op) /\ Len(oplog) \in Nat
      /\ Suits(w) /\ UNCHANGED <<minted, status>>
  <2>1. \A s : Apply(p, s) => UNCHANGED status BY DEF Apply, copyVars
  <2>2. UNCHANGED status BY <2>1 DEF ApplyNext, Act
  <2>3. QED BY <2>2, Known DEF Shape, ApplyNext, Act
<1>2. /\ Apply(p, ops) /\ Inside(w) /\ w.job \notin {"join", "depart"}
      /\ w.job = "submit" \/ Replaying(w)
      /\ \A i \in 1 .. Len(ops) : WellMade(ops[i]) /\ Minted(ops[i])
      /\ ~Replaying(w) => \A i \in 1 .. Len(ops) : ops[i].kind # "chain"
  <2>1. CASE ApplyNext(p)
    <3>1. w.pc = "apply" /\ Replaying(w) BY <2>1 DEF ApplyNext
    <3>2. w.at + 1 \in 1 .. Len(oplog) BY <1>1, <3>1 DEF Fits, Replaying, Work
    <3>3. WellMade(oplog[w.at + 1]) /\ Minted(oplog[w.at + 1])
      BY <3>2 DEF Shape, LogMade
    <3>4. ops = <<oplog[w.at + 1]>> BY <1>0, <2>1
    <3>5. \A i \in 1 .. Len(ops) : ops[i] = oplog[w.at + 1] BY <3>4, OneLong
    <3>6. Apply(p, ops) BY <2>1, <3>4 DEF ApplyNext
    <3>7. QED BY <1>1, <3>1, <3>3, <3>5, <3>6 DEF Fits, Inside
  <2>2. CASE ~ApplyNext(p)
    <3>1. w.pc = "act" /\ ops = w.ops /\ Apply(p, ops) BY <1>0, <2>2 DEF Act
    <3>2. ~Replaying(w) /\ w.job \notin {"join", "depart"} BY <1>1, <3>1 DEF Fits
    <3>3. QED BY <1>1, <3>1, <3>2 DEF Suits, Inside, Handling
  <2>3. QED BY <2>1, <2>2
<1>3. CASE Fails(p) BY <1>3, FailsRecord, OutSuits
<1>4. CASE ~Fails(p)
  <2>1. PICK phase \in {"finish", "link", "recreate", "repoint", "unlink", Settled(w)} :
          Goes(p, phase, ops)
    BY <1>2, <1>4, ApplyRecord
  <2>2. phase \notin {"idle", "sweep", "choose"} BY DEF Settled
  <2>3. \A i \in 1 .. Len(ops) : WellMade(ops[i]) /\ Minted(ops[i])'
    BY <1>1, <1>2 DEF Minted
  <2>4. Suits(work[p])' BY <1>1, <1>2, <2>1, <2>2, <2>3, GoesSuits
  <2>5. QED BY <2>1, <2>4, GoesRecord
<1>5. QED BY <1>3, <1>4

\* Created ops: new ids, well made.
LEMMA ChooseCreateOps ==
  ASSUME IInv, NEW p \in Procs, ChooseCreate(p)
  PROVE  \E ops \in Seq(Op) :
           /\ Goes(p, "act", ops)
           /\ minted \subseteq minted' /\ UNCHANGED <<oplog, copyVars, lapses, holder, tainted>>
           /\ \A i \in 1 .. Len(ops) :
                /\ ops[i].kind = "create" /\ WellMade(ops[i]) /\ Minted(ops[i])'
                /\ ops[i].row \in Rows /\ ops[i].row \notin minted
                /\ \A j \in 1 .. i - 1 : ops[j].row # ops[i].row
<1>1. /\ work[p] \in Work /\ Fits(work[p], Len(oplog))
      /\ work[p].pc = "choose" /\ work[p].copy \in Copies
  BY Known DEF ChooseCreate, Fits
<1>2. PICK s \in OwnSources(work[p].copy), v \in Values, new \in SUBSET (Rows \ minted) :
        /\ Cardinality(new) \in 1 .. MaxBatch
        /\ minted' = minted \cup new
        /\ \E ops \in [1 .. Cardinality(new) -> {CreateOp(work[p].copy, r, v, s) : r \in new}] :
             /\ {ops[i].row : i \in DOMAIN ops} = new
             /\ Goes(p, "act", ops)
  BY DEF ChooseCreate
<1> DEFINE n == Cardinality(new)
<1>3. PICK ops \in [1 .. n -> {CreateOp(work[p].copy, r, v, s) : r \in new}] :
        /\ {ops[i].row : i \in DOMAIN ops} = new
        /\ Goes(p, "act", ops)
  BY <1>2
<1>4. s \in Sources \cup {None} /\ n \in Nat \ {0}
  BY <1>2, ReplicationAssumption DEF OwnSources
<1>5. \A r \in new : /\ CreateOp(work[p].copy, r, v, s) \in Op
                      /\ WellMade(CreateOp(work[p].copy, r, v, s))
                      /\ CreateOp(work[p].copy, r, v, s).row = r
                      /\ CreateOp(work[p].copy, r, v, s).kind = "create"
  BY <1>1, <1>4 DEF Op, Kinds, CreateOp, WellMade
<1> HIDE DEF n
<1>6. /\ ops \in Seq(Op) /\ Len(ops) = n /\ DOMAIN ops = 1 .. n
  <2>1. ops \in [1 .. n -> Op] BY <1>3, <1>5
  <2>2. QED BY <1>4, <2>1
<1>7. \A i \in 1 .. n : ops[i].kind = "create" /\ WellMade(ops[i]) /\ ops[i].row \in new
  BY <1>3, <1>5
<1>8. \A i \in 1 .. n : \A j \in 1 .. i - 1 : ops[j].row # ops[i].row
  <2> DEFINE f == [i \in 1 .. n |-> ops[i].row]
  <2>1. f \in Surjection(1 .. n, new)
    <3>1. f \in [1 .. n -> new] BY <1>7
    <3>2. ASSUME NEW r \in new PROVE \E i \in 1 .. n : f[i] = r
      <4>1. PICK i \in DOMAIN ops : r = ops[i].row BY <1>3
      <4>2. i \in 1 .. n BY <1>6
      <4>3. QED BY <4>1, <4>2
    <3> HIDE DEF f
    <3>3. QED BY <3>1, <3>2 DEF Surjection
  <2>2. IsFiniteSet(1 .. n) /\ Cardinality(1 .. n) = n BY <1>4, FS_Interval
  <2>3. f \in Injection(1 .. n, new)
    <3> HIDE DEF f
    <3>1. QED BY <2>1, <2>2, FS_Surjection DEF n
  <2>4. \A i, j \in 1 .. n : f[i] = f[j] => i = j
    <3> HIDE DEF f
    <3>1. f \in [1 .. n -> new] /\ IsInjective(f) BY <2>3 DEF Injection
    <3>2. QED BY <3>1 DEF IsInjective
  <2>5. ASSUME NEW i \in 1 .. n, NEW j \in 1 .. i - 1 PROVE ops[j].row # ops[i].row
    <3>1. j \in 1 .. n /\ j # i BY <1>4
    <3>2. f[i] = ops[i].row /\ f[j] = ops[j].row BY <3>1
    <3> HIDE DEF f
    <3>3. QED BY <2>4, <3>1, <3>2
  <2>6. QED BY <2>5
<1>9. \A i \in 1 .. n : Minted(ops[i])' /\ ops[i].row \in Rows /\ ops[i].row \notin minted
  BY <1>2, <1>7 DEF Minted
<1>10. minted \subseteq minted' /\ UNCHANGED <<oplog, copyVars, lapses, holder, tainted>>
  BY <1>2 DEF ChooseCreate
<1>11. QED BY <1>3, <1>6, <1>7, <1>8, <1>9, <1>10

\* An edit in hand: one op, well made, about a linked row, in the copy at hand
\* or in the member's.
LEMMA ChooseEditOps ==
  ASSUME IInv, Shape, NEW p \in Procs, ChooseEdit(p)
  PROVE  \E op \in Op : \E d \in {work[p].copy, work[p].member} :
           /\ EditsIn(p, d, <<op>>)
           /\ UNCHANGED <<oplog, copyVars, minted, lapses, holder, tainted>>
           /\ Guarded(op) /\ WellMade(op) /\ Minted(op)'
<1>1. work[p] \in Work /\ work[p].copy \in Copies /\ Len(oplog) \in Nat
  BY Known DEF ChooseEdit, Fits
<1> DEFINE c == work[p].copy
           Edits(r, b) == {UpdateOp(c, r, v, s, b) : v \in Values, s \in OwnSources(c)}
                          \cup {DeleteOp(c, r, b)}
<1>2. PICK r \in linked[c], b \in 0 .. Len(oplog) :
        \E op \in Edits(r, b) :
          /\ op.kind = "delete" => r \notin Sources
          /\ \E d \in Places(work[p], op) : EditsIn(p, d, <<op>>)
  <2>1. PICK r \in linked[c], b \in 0 .. Len(oplog) :
          /\ book[c][r] # None
          /\ \E op \in Edits(r, b) :
               /\ op.kind = "delete" => r \notin Sources
               /\ op.kind = "update" => (op.src # None <=> r \in Moves)
               /\ Current(oplog, op)
               /\ \E d \in Places(work[p], op) : EditsIn(p, d, <<op>>)
    BY DEF ChooseEdit
  <2> HIDE DEF Edits
  <2>2. QED BY <2>1
<1>3. PICK op \in Edits(r, b) :
        /\ op.kind = "delete" => r \notin Sources
        /\ \E d \in Places(work[p], op) : EditsIn(p, d, <<op>>)
  <2> HIDE DEF Edits
  <2>1. QED BY <1>2
<1>4. r \in Rows /\ r \in minted /\ b \in Nat
  BY <1>1, <1>2 DEF IInv, TypeOK, Shape, LogMade
<1>5. op \in Op /\ op.row = r /\ Guarded(op) /\ WellMade(op)
  <2>1. CASE op = DeleteOp(c, r, b)
    BY <1>1, <1>3, <1>4, <2>1 DEF DeleteOp, Op, Kinds, Guarded, WellMade
  <2>2. CASE op \in {UpdateOp(c, r, v, s, b) : v \in Values, s \in OwnSources(c)}
    <3>1. PICK v \in Values, s \in OwnSources(c) : op = UpdateOp(c, r, v, s, b) BY <2>2
    <3>2. s \in Sources \cup {None} BY DEF OwnSources
    <3>3. QED BY <1>1, <1>4, <3>1, <3>2 DEF UpdateOp, Op, Kinds, Guarded, WellMade
  <2>3. QED BY <1>3, <2>1, <2>2
<1>6. UNCHANGED <<oplog, copyVars, minted, lapses, holder, tainted>> BY DEF ChooseEdit
<1>7. Minted(op)' BY <1>4, <1>5, <1>6 DEF Minted
<1>8. PICK d \in Places(work[p], op) : EditsIn(p, d, <<op>>) BY <1>3
<1>9. d \in {work[p].copy, work[p].member} BY DEF Places
<1>10. QED BY <1>5, <1>6, <1>7, <1>8, <1>9

\* The log stays well made as long as it stays.
LEMMA LogMadeQuietly ==
  ASSUME LogMade, UNCHANGED oplog, minted \subseteq minted',
         \A c \in Copies : linked'[c] \subseteq minted'
  PROVE  LogMade'
BY DEF LogMade, Minted

\* A step of one process that leaves the log alone.
LEMMA ShapeQuietly ==
  ASSUME IInv, Shape, [Next]_vars, NEW p \in Procs, OthersStay(p), Suits(work[p])',
         UNCHANGED <<oplog, linked>>, minted \subseteq minted'
  PROVE  Shape'
<1>1. LogMade'
  <2>1. \A c \in Copies : linked'[c] \subseteq minted' BY DEF Shape, LogMade
  <2>2. QED BY <2>1, LogMadeQuietly DEF Shape
<1>2. \A c \in Copies : status[c] # "out" => status'[c] # "out" BY NeverOutAgain
<1>3. QED BY <1>1, <1>2, AllSuit DEF Shape

\* Applying ops changes no link in its first transaction.
LEMMA ApplyShape ==
  ASSUME IInv, Shape, [Next]_vars, NEW p \in Procs, ApplyNext(p) \/ Act(p)
  PROVE  Shape'
<1>1. \A ops : Apply(p, ops) => UNCHANGED linked BY DEF Apply, copyVars
<1>2. UNCHANGED <<oplog, linked, minted>> BY <1>1 DEF ApplyNext, Act
<1>3. QED BY <1>2, ApplySuits, ShapeQuietly

\* A created row gets its link under an id in use.
LEMMA LinkShape ==
  ASSUME IInv, Shape, [Next]_vars, NEW p \in Procs, Link(p)
  PROVE  Shape'
<1> DEFINE w == work[p]
           c == work[p].copy
           op == work[p].ops[work[p].done + 1]
<1>1. /\ w \in Work /\ Suits(w) /\ w.pc = "link" /\ Fits(w, Len(oplog))
      /\ UNCHANGED <<oplog, status, minted>>
  BY Known, LinkRecord DEF Shape
<1>2. CASE Fails(p) /\ UNCHANGED linked
  BY <1>1, <1>2, FailsRecord, OutSuits, ShapeQuietly
<1>3. CASE ~(Fails(p) /\ UNCHANGED linked)
  <2>1. linked' = [linked EXCEPT ![c] = @ \cup {op.row}] BY <1>3 DEF Link
  <2>2. op.row \in minted
    <3>1. w.done + 1 \in 1 .. Len(w.ops) BY <1>1 DEF Fits, Work
    <3>2. op.kind = "create" /\ Minted(op) BY <1>1, <3>1 DEF Fits, Suits, Handling
    <3>3. QED BY <3>2 DEF Minted
  <2>3. \A d \in Copies : linked'[d] \subseteq minted'
    BY <1>1, <2>1, <2>2 DEF Shape, LogMade, IInv, TypeOK
  <2>4. LogMade' BY <1>1, <2>3, LogMadeQuietly DEF Shape
  <2>5. OthersStay(p) /\ Suits(work[p])'
    <3>1. /\ OthersStay(p)
          /\ work'[p].pc = IF AllLinked(w) THEN Settled(w) ELSE "link"
          /\ work'[p].ops = w.ops /\ work'[p].copy = w.copy /\ work'[p].job = w.job
          /\ work'[p].member = w.member
          /\ work'[p].at = w.at /\ work'[p].upto = w.upto
      BY <1>3, LinkRecord
    <3>2. Inside(work'[p]) /\ work'[p].pc # "choose" BY <3>1 DEF Inside, Settled
    <3>3. QED BY <1>1, <3>1, <3>2, PhaseSuits DEF Handling
  <2>6. QED BY <1>1, <2>4, <2>5, AllSuit DEF Shape
<1>4. QED BY <1>2, <1>3

\* The other transactions of an op add no link.
LEMMA PhaseShape ==
  ASSUME IInv, Shape, [Next]_vars, NEW p \in Procs, Recreate(p) \/ Repoint(p) \/ Unlink(p)
  PROVE  Shape'
<1>1. Suits(work[p]) /\ linked \in [Copies -> SUBSET Rows] BY DEF Shape, IInv, TypeOK
<1>2. Inside(work'[p]) /\ work'[p].pc # "choose" /\ work[p].pc \in Handling
  BY PhaseRecord DEF Inside, Settled, Handling
<1>3. Suits(work[p])' BY <1>1, <1>2, PhaseRecord, PhaseSuits
<1>4. \A c \in Copies : linked'[c] \subseteq linked[c]
  <2>1. CASE UNCHANGED linked BY <2>1
  <2>2. CASE \E d, r : linked' = [linked EXCEPT ![d] = @ \ {r}] BY <1>1, <2>2
  <2>3. QED BY <2>1, <2>2 DEF Recreate, Repoint, Unlink
<1>5. LogMade'
  <2>1. \A c \in Copies : linked'[c] \subseteq minted'
    BY <1>4, PhaseRecord DEF Shape, LogMade
  <2>2. QED BY <2>1, PhaseRecord, LogMadeQuietly DEF Shape
<1>6. QED BY <1>3, <1>5, PhaseRecord, AllSuit DEF Shape

\* Steps between ops, and steps of the job.
LEMMA LoopShape ==
  ASSUME IInv, Shape, [Next]_vars, NEW p \in Procs, Bump(p) \/ Visit(p) \/ Ack(p)
  PROVE  Shape'
<1>1. Suits(work[p]) BY DEF Shape
<1>2. CASE Bump(p)
  <2>1. Suits(work[p])' BY <1>1, <1>2, BumpRecord, EmptySuits DEF Suits, Inside, Handling
  <2>2. QED BY <1>2, <2>1, BumpRecord, ShapeQuietly
<1>3. CASE Ack(p)
  <2>1. Suits(work[p])' BY <1>1, <1>3, AckRecord, EmptySuits DEF Suits, Inside, Handling
  <2>2. QED BY <1>3, <2>1, AckRecord, ShapeQuietly
<1>4. CASE Visit(p)
  <2>1. OthersStay(p) /\ UNCHANGED <<oplog, linked, minted, status>>
    BY <1>4, VisitRecord DEF copyVars
  <2>2. work[p].job = "replicate" /\ work'[p].job = work[p].job
    BY <1>4, Known, VisitRecord DEF Fits
  <2>3. CASE work'[p].pc = "sweep" /\ work'[p].copy = work[p].copy
    <3>1. work[p].copy = None BY <1>1, <1>4, VisitRecord DEF Suits, Inside
    <3>2. QED BY <2>1, <2>2, <2>3, <3>1, OutSuits, ShapeQuietly DEF Inside
  <2>4. CASE work'[p].pc = "apply" /\ work'[p].copy \in Active
    <3>1. Suits(work[p])' BY <2>1, <2>2, <2>4, EmptySuits DEF Inside, Handling, Active
    <3>2. QED BY <2>1, <3>1, ShapeQuietly
  <2>5. QED BY <1>4, <2>3, <2>4, VisitRecord
<1>5. QED BY <1>2, <1>3, <1>4

\* Steps of a process into a write, before it chooses.
LEMMA StartShape ==
  ASSUME IInv, Shape, [Next]_vars, NEW p \in Procs, SubmitStart(p) \/ CaughtUp(p)
  PROVE  Shape'
<1>1. Suits(work[p]) BY DEF Shape
<1>2. CASE SubmitStart(p)
  <2>1. PICK c \in Active :
          work'[p].pc = FirstPhase(c) /\ work'[p].copy = c /\ work'[p].member = c
    BY <1>2, SubmitStartRecord
  <2>2. Suits(work[p])'
    BY <1>2, <2>1, SubmitStartRecord, EmptySuits
       DEF Inside, Handling, Active, FirstPhase, copyVars
  <2>3. QED BY <1>2, <2>2, SubmitStartRecord, ShapeQuietly DEF copyVars
<1>3. CASE CaughtUp(p) /\ Fails(p)
  BY <1>3, FailsRecord, OutSuits, CaughtUpRecord, ShapeQuietly DEF copyVars
<1>4. CASE CaughtUp(p) /\ ~Fails(p)
  <2>1. Suits(work[p])'
    BY <1>1, <1>4, CaughtUpRecord, EmptySuits DEF Suits, Inside, Handling, Active, copyVars
  <2>2. QED BY <1>4, <2>1, CaughtUpRecord, ShapeQuietly DEF copyVars
<1>5. QED BY <1>2, <1>3, <1>4

\* A failure.
LEMMA FailsShape ==
  ASSUME IInv, Shape, [Next]_vars, NEW p \in Procs, Fails(p),
         UNCHANGED <<oplog, linked, minted>>
  PROVE  Shape'
BY FailsRecord, OutSuits, ShapeQuietly

\* What a member chooses suits it.
LEMMA ChooseShape ==
  ASSUME IInv, Shape, [Next]_vars, NEW p \in Procs, ChooseCreate(p) \/ ChooseEdit(p)
  PROVE  Shape'
<1>1. /\ Suits(work[p]) /\ work[p].pc = "choose" /\ Inside(work[p])
      /\ ~Replaying(work[p]) /\ work[p].job = "submit"
  BY Known DEF Shape, ChooseCreate, ChooseEdit, Inside, Fits, Suits
<1>2. CASE ChooseCreate(p)
  <2>1. PICK ops \in Seq(Op) :
          /\ Goes(p, "act", ops)
          /\ minted \subseteq minted' /\ UNCHANGED <<oplog, copyVars>>
          /\ \A i \in 1 .. Len(ops) :
               WellMade(ops[i]) /\ Minted(ops[i])' /\ ops[i].kind = "create"
    BY <1>2, ChooseCreateOps
  <2>2. Suits(work[p])' BY <1>1, <2>1, GoesSuits DEF copyVars
  <2>3. QED BY <2>1, <2>2, GoesRecord, ShapeQuietly DEF copyVars
<1>3. CASE ChooseEdit(p)
  <2>1. PICK op \in Op, d \in {work[p].copy, work[p].member} :
          /\ EditsIn(p, d, <<op>>) /\ UNCHANGED <<oplog, copyVars, minted>>
          /\ Guarded(op) /\ WellMade(op) /\ Minted(op)'
    BY <1>3, ChooseEditOps
  <2>2. /\ OthersStay(p) /\ work'[p].pc = "act" /\ work'[p].ops = <<op>>
        /\ work'[p].copy = d /\ work'[p].job = "submit"
        /\ work'[p].member = work[p].member
    BY <1>1, <2>1, EditsRecord
  <2>3. \A i \in 1 .. Len(work'[p].ops) : work'[p].ops[i] = op BY <2>2, OneLong
  <2>4. op.kind # "chain" BY <2>1 DEF Guarded
  <2>5. status[d] # "out" /\ status[work[p].member] # "out" BY <1>1, <2>1 DEF Suits
  <2>6. Suits(work[p])'
    BY <2>1, <2>2, <2>3, <2>4, <2>5 DEF Suits, Inside, Handling, Minted, copyVars
  <2>7. QED BY <2>1, <2>2, <2>6, ShapeQuietly DEF copyVars
<1>4. QED BY <1>2, <1>3

\* Appended ops were well made in hand.
LEMMA AppendShape ==
  ASSUME IInv, Shape, [Next]_vars, NEW p \in Procs, AppendOps(p)
  PROVE  Shape'
<1>1. CASE Fails(p) /\ UNCHANGED oplog
  BY <1>1, AppendRecord, FailsShape DEF copyVars
<1>2. CASE ~(Fails(p) /\ UNCHANGED oplog)
  <2>1. /\ work[p].pc = "append" /\ UNCHANGED <<status, linked, minted>>
        /\ oplog' = oplog \o work[p].ops /\ OthersStay(p)
        /\ work'[p].pc = IF work[p].job = "submit" THEN "ack" ELSE "finish"
        /\ work'[p].copy = work[p].copy /\ work'[p].job = work[p].job
        /\ work'[p].member = work[p].member /\ work'[p].ops = <<>>
    BY <1>2, AppendRecord DEF copyVars
  <2>2. Suits(work[p]) BY DEF Shape
  <2>3. Suits(work[p])'
    <3>1. work'[p].pc = "ack" => work'[p].job = "submit" BY <2>1
    <3>2. Inside(work'[p]) /\ status'[work'[p].copy] # "out" /\ work'[p].pc \notin Handling
      BY <2>1, <2>2 DEF Suits, Inside, Handling
    <3>3. work'[p].pc # "choose" /\ Len(work'[p].ops) = 0 BY <2>1
    <3>4. work'[p].job = "submit" => status'[work'[p].member] # "out"
      BY <2>1, <2>2 DEF Suits
    <3>5. QED BY <3>1, <3>2, <3>3, <3>4 DEF Suits
  <2>4. LogMade'
    <3>1. /\ Len(oplog) \in Nat /\ Len(oplog') >= Len(oplog) /\ Len(oplog') \in Nat
          /\ \A i \in 1 .. Len(oplog) : oplog'[i] = oplog[i]
          /\ \A i \in Len(oplog) + 1 .. Len(oplog') :
               /\ oplog'[i] = work[p].ops[i - Len(oplog)]
               /\ i - Len(oplog) \in 1 .. Len(work[p].ops)
      BY <2>1, Appended
    <3>2. \A i \in 1 .. Len(oplog') : WellMade(oplog'[i]) /\ Minted(oplog'[i])
      <4>1. TAKE i \in 1 .. Len(oplog')
      <4>2. CASE i \in 1 .. Len(oplog) BY <3>1, <4>2 DEF Shape, LogMade
      <4>3. CASE i \in Len(oplog) + 1 .. Len(oplog')
        BY <2>1, <2>2, <3>1, <4>3 DEF Suits, Handling
      <4>4. QED BY <3>1, <4>2, <4>3
    <3>3. Len(oplog) >= 2 BY DEF Shape, LogMade
    <3>4. QED BY <2>1, <3>1, <3>2, <3>3 DEF Shape, LogMade, Minted
  <2>5. QED BY <2>1, <2>3, <2>4, AllSuit DEF Shape
<1>3. QED BY <1>1, <1>2

\* A member comes, with Main linked, or goes.
LEMMA EventShape ==
  ASSUME IInv, Shape, [Next]_vars, NEW p \in Procs, Join(p) \/ Depart(p)
  PROVE  Shape'
<1> DEFINE c == work'[p].copy
<1>1. /\ OthersStay(p) /\ UNCHANGED <<oplog, minted>> /\ work'[p].pc = "append"
      /\ work'[p].job \in {"join", "depart"} /\ c \in Copies
      /\ work'[p].ops = <<ChainOp(c)>>
  BY EventRecord
<1>2. status'[c] # "out" /\ \A d \in Copies : linked'[d] \subseteq minted
  <2>1. CASE Join(p)
    <3>1. PICK d \in Copies :
            /\ status' = [status EXCEPT ![d] = "active"]
            /\ linked' = [linked EXCEPT ![d] = {Main}]
            /\ work' = [work EXCEPT ![p] = [Idle EXCEPT !.job = "join", !.pc = "append",
                                               !.copy = d, !.ops = <<ChainOp(d)>>]]
      BY <2>1 DEF Join
    <3>2. c = d BY <3>1, Known DEF Idle
    <3>3. QED BY <3>1, <3>2 DEF Shape, LogMade, IInv, TypeOK
  <2>2. CASE Depart(p)
    <3>1. PICK d \in Copies :
            /\ status' = [status EXCEPT ![d] = "ended"]
            /\ work' = [work EXCEPT ![p] = [Idle EXCEPT !.job = "depart", !.pc = "append",
                                               !.copy = d, !.ops = <<ChainOp(d)>>]]
      BY <2>2 DEF Depart, Active
    <3>2. c = d BY <3>1, Known DEF Idle
    <3>3. UNCHANGED linked BY <2>2 DEF Depart
    <3>4. QED BY <3>1, <3>2, <3>3 DEF Shape, LogMade, IInv, TypeOK
  <2>3. QED BY <2>1, <2>2
<1>3. Suits(work[p])'
  <2>1. WellMade(ChainOp(c)) /\ ChainOp(c).kind = "chain" BY DEF WellMade, ChainOp
  <2>2. \A i \in 1 .. Len(work'[p].ops) : work'[p].ops[i] = ChainOp(c) BY <1>1, OneLong
  <2>3. QED BY <1>1, <1>2, <2>1, <2>2 DEF Suits, Inside, Handling, Minted
<1>4. LogMade' BY <1>1, <1>2, LogMadeQuietly DEF Shape
<1>5. QED BY <1>1, <1>3, <1>4, NeverOutAgain, AllSuit DEF Shape

\* The first two ops of a group, and idle processes.
LEMMA ShapeAtFirst == Init => Shape
<1> SUFFICES ASSUME Init PROVE Shape
  OBVIOUS
<1>1. PICK name \in MainNames :
        oplog = <<ChainOp(Founder), CreateOp(Founder, Main, name, None)>>
  BY DEF Init
<1>2. /\ WellMade(oplog[1]) /\ WellMade(oplog[2]) /\ Minted(oplog[1]) /\ Minted(oplog[2])
      /\ oplog[1].kind = "chain" /\ oplog[2].kind = "create" /\ oplog[2].row = Main
  BY <1>1, ReplicationAssumption DEF Init, WellMade, Minted, ChainOp, CreateOp
<1>3. Len(oplog) = 2 /\ 1 .. 2 = {1, 2} BY <1>1
<1>4. LogMade BY <1>2, <1>3 DEF LogMade, Init
<1>5. \A p \in Procs : Suits(work[p])
  BY DEF Init, Idle, Suits, Handling, Inside
<1>6. QED BY <1>4, <1>5 DEF Shape

\* Every step leaves the ops in the log and in hand well made.
LEMMA ShapeKept ==
  ASSUME IInv, Shape, [Next]_vars
  PROVE  Shape'
<1>1. ASSUME NEW p \in Procs, Works(p) PROVE Shape'
  <2>1. Applies(p) => Shape'
    BY ApplyShape, PhaseShape, LinkShape, LoopShape DEF Applies
  <2>2. CASE JobPick(p) \/ JobDone(p) \/ VisitDone(p) \/ Finish(p)
    <3>1. Suits(work[p]) BY DEF Shape
    <3>2. QED BY <2>2, <3>1, OutsideRecord, OutSuits, ShapeQuietly DEF copyVars
  <2>3. Visit(p) \/ Ack(p) => Shape' BY LoopShape
  <2>4. ChooseRefused(p) => Shape' BY FailsShape DEF ChooseRefused, copyVars
  <2>5. CaughtUp(p) => Shape' BY StartShape
  <2>6. ChooseCreate(p) \/ ChooseEdit(p) => Shape' BY ChooseShape
  <2>7. Act(p) => Shape' BY ApplyShape
  <2>8. AppendOps(p) => Shape' BY AppendShape
  <2>9. QED
    BY <1>1, <2>1, <2>2, <2>3, <2>4, <2>5, <2>6, <2>7, <2>8 DEF Works, Replicate, Submit
<1>2. ASSUME NEW p \in Procs, SubmitStart(p) \/ Join(p) \/ Depart(p) PROVE Shape'
  BY <1>2, StartShape, EventShape
<1>3. ASSUME NEW p \in Procs, Busy(p) \/ Crash(p) PROVE Shape'
  <2>1. Suits(work[p]) BY DEF Shape
  <2>2. QED BY <1>3, <2>1, OutsideRecord, OutSuits, ShapeQuietly DEF copyVars
<1>4. ASSUME NEW p \in Procs, Error(p) PROVE Shape'
  BY <1>4, FailsShape DEF Error, copyVars
<1>5. CASE Lapse \/ UNCHANGED vars
  <2>1. UNCHANGED <<oplog, status, linked, minted, work>> BY <1>5 DEF Lapse, vars, copyVars
  <2>2. QED BY <2>1 DEF Shape, LogMade, Suits, Minted
<1>6. QED BY <1>1, <1>2, <1>3, <1>4, <1>5 DEF Next

-----------------------------------------------------------------------------
(* What the one process inside the lock knows, while no lock has lapsed. *)

\* Each create in the log is the first op on its row.
CreatesFirst ==
  \A k \in 1 .. Len(oplog) : oplog[k].kind = "create" =>
    \A j \in 1 .. k - 1 : oplog[j].row # oplog[k].row

\* A create in hand is of a row that the log lacks, and no row is created twice.
FreshInHand(w) ==
  \A i \in 1 .. Len(w.ops) : w.ops[i].kind = "create" =>
    /\ \A j \in 1 .. Len(oplog) : oplog[j].row # w.ops[i].row
    /\ \A j \in 1 .. i - 1 : w.ops[j].row # w.ops[i].row

\* The process has the copy's watermark and the end of the log, replays the op
\* it should, and acknowledges its own ops only.
AtWork(w) ==
  /\ w.job \notin {"join", "depart"} /\ w.pc \notin {"ack", "finish"} =>
       w.at = applied[w.copy] /\ w.upto = Len(oplog)
  /\ w.pc \in Handling /\ Replaying(w) => w.ops = <<oplog[w.at + 1]>>
  /\ w.pc \in Handling /\ ~Replaying(w) => FreshInHand(w)
  /\ w.pc = "ack" =>
       /\ w.at = Len(oplog) /\ applied[w.copy] < w.at
       /\ \A i \in applied[w.copy] + 1 .. w.at : oplog[i].by = w.copy

Locked ==
  lapses = 0 => CreatesFirst /\ \A p \in Procs : Inside(work[p]) => AtWork(work[p])

\* Nobody else is inside when a process is, or gets in.
LEMMA NobodyElse ==
  ASSUME LockKept, lapses = 0, NEW p \in Procs, Inside(work[p]) \/ LockFree
  PROVE  \A q \in Procs \ {p} : ~Inside(work[q])
BY ReplicationAssumption DEF LockKept, Inside, LockFree, Procs

\* A step of the process inside, or of one that gets in.
LEMMA LockedInside ==
  ASSUME LockKept, Locked, lapses = 0, NEW p \in Procs, OthersStay(p),
         Inside(work[p]) \/ LockFree, CreatesFirst', AtWork(work[p])'
  PROVE  Locked'
<1>1. ASSUME NEW q \in Procs \ {p} PROVE ~Inside(work'[q])
  BY NobodyElse DEF OthersStay
<1>2. QED BY <1>1 DEF Locked

\* A step of a process that ends outside.
LEMMA LockedOutside ==
  ASSUME Locked, lapses = 0, NEW p \in Procs, OthersStay(p), ~Inside(work'[p]),
         UNCHANGED <<oplog, applied>>
  PROVE  Locked'
<1>1. CreatesFirst' BY DEF Locked, CreatesFirst
<1>2. ASSUME NEW q \in Procs, Inside(work'[q]) PROVE AtWork(work[q])'
  <2>1. work'[q] = work[q] /\ Inside(work[q]) BY <1>2 DEF OthersStay
  <2>2. QED BY <2>1 DEF Locked, AtWork, FreshInHand, Replaying
<1>3. QED BY <1>1, <1>2 DEF Locked

\* The same ops in another phase.
LEMMA AtWorkStays ==
  ASSUME NEW p \in Procs, AtWork(work[p]), UNCHANGED <<oplog, applied>>,
         work[p].pc \in Handling, work'[p].pc \in Handling \cup {"bump"},
         work'[p].ops = work[p].ops, work'[p].copy = work[p].copy,
         work'[p].job = work[p].job, work'[p].at = work[p].at,
         work'[p].upto = work[p].upto
  PROVE  AtWork(work[p])'
<1>1. Replaying(work'[p]) <=> Replaying(work[p]) BY DEF Replaying
<1>2. FreshInHand(work[p])' <=> FreshInHand(work[p]) BY DEF FreshInHand
<1>3. QED BY <1>1, <1>2 DEF AtWork, Handling

\* Going to a phase with ops in hand.
LEMMA AtWorkGoes ==
  ASSUME IInv, NEW p \in Procs, NEW phase \in Phases \ {"ack"}, NEW ops,
         Goes(p, phase, ops), AtWork(work[p]), UNCHANGED <<oplog, applied>>,
         work[p].pc \notin {"ack", "finish"},
         Replaying(work[p]) => ops = <<oplog[work[p].at + 1]>>,
         ~Replaying(work[p]) => FreshInHand([ops |-> ops])
  PROVE  AtWork(work[p])'
<1>1. /\ work'[p].pc = phase /\ work'[p].ops = ops /\ work'[p].copy = work[p].copy
      /\ work'[p].job = work[p].job /\ work'[p].at = work[p].at
      /\ work'[p].upto = work[p].upto
  BY GoesRecord
<1>2. Replaying(work'[p]) <=> Replaying(work[p]) BY <1>1 DEF Replaying
<1>3. FreshInHand(work[p])' <=> FreshInHand([ops |-> ops]) BY <1>1 DEF FreshInHand
<1>4. QED BY <1>1, <1>2, <1>3 DEF AtWork

\* Applying an op.
LEMMA ApplyLocked ==
  ASSUME IInv, LockKept, Locked, lapses = 0, NEW p \in Procs, ApplyNext(p) \/ Act(p)
  PROVE  Locked'
<1> DEFINE w == work[p]
<1>1. PICK ops :
        /\ ops = IF ApplyNext(p) THEN <<oplog[w.at + 1]>> ELSE w.ops
        /\ Apply(p, ops)
  BY DEF ApplyNext, Act
<1>2. /\ UNCHANGED <<oplog, applied>> /\ w.pc \in {"apply", "act"}
      /\ Fits(w, Len(oplog)) /\ Inside(w) /\ AtWork(w)
  <2>1. \A s : Apply(p, s) => UNCHANGED applied BY DEF Apply, copyVars
  <2>2. w.pc \in {"apply", "act"} /\ UNCHANGED <<oplog, applied>>
    BY <2>1 DEF ApplyNext, Act
  <2>3. QED BY <2>2, Known DEF Inside, Locked
<1>3. CASE Fails(p) BY <1>2, <1>3, FailsRecord, LockedOutside
<1>4. CASE ~Fails(p)
  <2>1. PICK phase \in {"finish", "link", "recreate", "repoint", "unlink", Settled(w)} :
          Goes(p, phase, ops)
    BY <1>1, <1>4, ApplyRecord
  <2>2. phase \in Phases \ {"ack"} BY DEF Settled, Phases
  <2>3. Replaying(w) => ops = <<oplog[w.at + 1]>>
    BY <1>1, <1>2 DEF ApplyNext, Act, Fits
  <2>4. ~Replaying(w) => FreshInHand([ops |-> ops])
    <3>1. ~Replaying(w) => ops = w.ops /\ w.pc = "act" BY <1>1 DEF ApplyNext, Act
    <3>2. QED BY <1>2, <3>1 DEF AtWork, Handling, FreshInHand
  <2>5. AtWork(work[p])' BY <1>2, <2>1, <2>2, <2>3, <2>4, AtWorkGoes
  <2>6. QED
    BY <1>2, <2>1, <2>5, GoesRecord, LockedInside DEF Locked, CreatesFirst
<1>5. QED BY <1>3, <1>4

\* The further transactions of an op.
LEMMA PhaseLocked ==
  ASSUME IInv, LockKept, Locked, lapses = 0, NEW p \in Procs,
         Recreate(p) \/ Repoint(p) \/ Unlink(p) \/ Link(p)
  PROVE  Locked'
<1>1. /\ UNCHANGED <<oplog, applied>> /\ work[p].pc \in Handling
      /\ Inside(work[p]) /\ AtWork(work[p])
  BY PhaseRecord, LinkRecord DEF Handling, Inside, Locked
<1>2. CASE Fails(p) BY <1>1, <1>2, FailsRecord, LockedOutside
<1>3. CASE ~Fails(p)
  <2>1. /\ work'[p].pc \in Handling \cup {"bump"}
        /\ OthersStay(p)
        /\ work'[p].ops = work[p].ops /\ work'[p].copy = work[p].copy
        /\ work'[p].job = work[p].job /\ work'[p].at = work[p].at
        /\ work'[p].upto = work[p].upto
    BY <1>3, PhaseRecord, LinkRecord DEF Handling, Settled
  <2>2. AtWork(work[p])' BY <1>1, <2>1, AtWorkStays
  <2>3. QED BY <1>1, <2>1, <2>2, LockedInside DEF Locked, CreatesFirst
<1>4. QED BY <1>2, <1>3

\* The watermark and the loop move together.
LEMMA BumpLocked ==
  ASSUME IInv, LockKept, Locked, Shape, lapses = 0, NEW p \in Procs, Bump(p)
  PROVE  /\ Locked'
         /\ applied' = [applied EXCEPT ![work[p].copy] = work[p].at + 1]
         /\ work[p].at = applied[work[p].copy]
         /\ work[p].at + 1 \in 1 .. Len(oplog)
<1> DEFINE w == work[p]
<1>1. /\ w \in Work /\ Fits(w, Len(oplog)) /\ Inside(w) /\ AtWork(w) /\ Len(oplog) \in Nat
      /\ w.pc = "bump"
  BY Known, BumpRecord DEF Inside, Locked
<1>2. /\ w.job \notin {"join", "depart"} /\ Replaying(w) /\ w.copy \in Copies
  BY <1>1 DEF Fits
<1>3. w.at = applied[w.copy] /\ w.upto = Len(oplog) /\ w.at \in Nat /\ w.at < Len(oplog)
  BY <1>1, <1>2 DEF AtWork, Work, Replaying
<1>4. applied' = [applied EXCEPT ![w.copy] = w.at + 1]
  <2>1. applied' = [applied EXCEPT ![w.copy] = Raised(applied[w.copy], w.at + 1)] BY DEF Bump
  <2>2. Raised(applied[w.copy], w.at + 1) = w.at + 1 BY <1>3 DEF Raised
  <2>3. QED BY <2>1, <2>2
<1>5. applied'[w.copy] = w.at + 1 BY <1>2, <1>4 DEF IInv, TypeOK
<1>6. AtWork(work[p])'
  BY <1>3, <1>5, BumpRecord DEF AtWork, Handling
<1>7. Locked'
  BY <1>1, <1>6, BumpRecord, LockedInside DEF Locked, CreatesFirst
<1>8. QED BY <1>3, <1>4, <1>7

\* One's own ops are taken over, and nothing else.
LEMMA AckLocked ==
  ASSUME IInv, LockKept, Locked, Shape, lapses = 0, NEW p \in Procs, Ack(p)
  PROVE  /\ Locked'
         /\ applied' = [applied EXCEPT ![work[p].copy] = Len(oplog)]
         /\ applied[work[p].copy] < Len(oplog)
         /\ \A i \in applied[work[p].copy] + 1 .. Len(oplog) : oplog[i].by = work[p].copy
<1>1. Inside(work[p]) /\ AtWork(work[p]) /\ work[p].pc = "ack"
  BY AckRecord DEF Inside, Locked
<1>2. AtWork(work[p])' BY AckRecord DEF AtWork, Handling
<1>3. Locked' BY <1>1, <1>2, AckRecord, LockedInside DEF Locked, CreatesFirst
<1>4. work[p].member = work[p].copy
  BY <1>1, Known DEF LockKept, OwnWork, Inside, Fits
<1>5. applied' = [applied EXCEPT ![work[p].copy] = Len(oplog)]
  BY <1>1, <1>4 DEF Ack, Raised, AtWork
<1>6. QED BY <1>1, <1>3, <1>5 DEF AtWork

\* Who gets in reads the watermark and the end of the log.
LEMMA StartLocked ==
  ASSUME IInv, LockKept, Locked, Shape, lapses = 0, NEW p \in Procs,
         Visit(p) \/ SubmitStart(p) \/ CaughtUp(p)
  PROVE  Locked'
<1>1. UNCHANGED <<oplog, applied>>
  BY VisitRecord, SubmitStartRecord, CaughtUpRecord DEF copyVars
<1>2. CASE CaughtUp(p) /\ Fails(p) BY <1>1, <1>2, FailsRecord, LockedOutside
<1>3. CASE Visit(p) /\ work'[p].pc = "sweep"
  <2>1. ~Inside(work'[p]) BY <1>3 DEF Inside
  <2>2. QED BY <1>1, <1>3, <2>1, VisitRecord, LockedOutside
<1>4. CASE ~(CaughtUp(p) /\ Fails(p)) /\ ~(Visit(p) /\ work'[p].pc = "sweep")
  <2>1. /\ OthersStay(p) /\ (Inside(work[p]) \/ LockFree)
        /\ work'[p].at = applied[work'[p].copy] /\ work'[p].upto = Len(oplog)
        /\ work'[p].pc \in {"apply", "choose"}
    <3>1. CASE Visit(p) BY <1>4, <3>1, VisitRecord
    <3>2. CASE SubmitStart(p) BY <3>2, SubmitStartRecord DEF FirstPhase
    <3>3. CASE CaughtUp(p)
      <4>1. Inside(work[p]) /\ work[p].pc = "apply" /\ work[p].job = "submit"
        BY <3>3, CaughtUpRecord DEF Inside
      <4>2. work[p].at = applied[work[p].copy] /\ work[p].upto = Len(oplog)
        BY <4>1 DEF Locked, AtWork
      <4>3. QED BY <1>4, <3>3, <4>1, <4>2, CaughtUpRecord
    <3>4. QED BY <3>1, <3>2, <3>3
  <2>2. AtWork(work[p])' BY <1>1, <2>1 DEF AtWork, Handling
  <2>3. QED BY <1>1, <2>1, <2>2, LockedInside DEF Locked, CreatesFirst
<1>5. QED BY <1>2, <1>3, <1>4

\* Rows are created under ids that are not in use.
LEMMA ChooseLocked ==
  ASSUME IInv, LockKept, Locked, Shape, lapses = 0, NEW p \in Procs,
         ChooseCreate(p) \/ ChooseEdit(p)
  PROVE  Locked'
<1>1. /\ work[p].pc = "choose" /\ Inside(work[p]) /\ ~Replaying(work[p]) /\ AtWork(work[p])
      /\ Len(oplog) \in Nat
  BY Known DEF ChooseCreate, ChooseEdit, Inside, Fits, Locked
<1>2. PICK ops :
        Goes(p, "act", ops) /\ FreshInHand([ops |-> ops]) /\ UNCHANGED <<oplog, applied>>
  <2>1. CASE ChooseCreate(p)
    <3>1. PICK ops \in Seq(Op) :
            /\ Goes(p, "act", ops) /\ UNCHANGED <<oplog, copyVars>>
            /\ \A i \in 1 .. Len(ops) :
                 /\ ops[i].row \in Rows /\ ops[i].row \notin minted
                 /\ \A j \in 1 .. i - 1 : ops[j].row # ops[i].row
      BY <2>1, ChooseCreateOps
    <3>2. \A j \in 1 .. Len(oplog) : oplog[j].row \in minted \cup {None}
      BY DEF Shape, LogMade, WellMade, Minted
    <3>3. None \notin Rows BY RowsAssumption DEF Rows
    <3>4. FreshInHand([ops |-> ops]) BY <3>1, <3>2, <3>3 DEF FreshInHand
    <3>5. QED BY <3>1, <3>4 DEF copyVars
  <2>2. CASE ChooseEdit(p)
    <3>1. PICK op \in Op, d \in {work[p].copy, work[p].member} :
            EditsIn(p, d, <<op>>) /\ UNCHANGED <<oplog, copyVars>> /\ Guarded(op)
      BY <2>2, ChooseEditOps
    <3>2. \A i \in 1 .. Len(<<op>>) : <<op>>[i].kind # "create"
      BY <3>1, OneLong DEF Guarded
    <3>3. d = work[p].copy
      BY <1>1, <3>1, Known DEF LockKept, OwnWork, Inside, Fits
    <3>4. Goes(p, "act", <<op>>) BY <3>1, <3>3, EditsRecord
    <3>5. QED BY <3>1, <3>2, <3>4 DEF FreshInHand, copyVars
  <2>3. QED BY <2>1, <2>2
<1>3. "act" \in Phases \ {"ack"} BY DEF Phases
<1>4. AtWork(work[p])' BY <1>1, <1>2, <1>3, AtWorkGoes
<1>5. QED BY <1>1, <1>2, <1>4, GoesRecord, LockedInside DEF Locked, CreatesFirst

\* What a process appends under the lock.
LEMMA AppendedUnderLock ==
  ASSUME IInv, LockKept, Locked, Shape, lapses = 0, NEW p \in Procs, AppendOps(p),
         oplog' = oplog \o work[p].ops
  PROVE  /\ FreshInHand(work[p]) /\ CreatesFirst'
         /\ work[p].job \notin {"join", "depart"} =>
              work[p].job = "submit" /\ applied[work[p].copy] = Len(oplog)
<1> DEFINE w == work[p]
<1>1. /\ w \in Work /\ Fits(w, Len(oplog)) /\ w.pc = "append" /\ Inside(w) /\ AtWork(w)
      /\ Suits(w)
  BY Known, AppendRecord DEF Inside, Locked, Shape
<1>2. /\ Len(oplog) \in Nat /\ Len(w.ops) \in Nat
      /\ Len(oplog') = Len(oplog) + Len(w.ops)
      /\ \A i \in 1 .. Len(oplog) : oplog'[i] = oplog[i]
      /\ \A i \in Len(oplog) + 1 .. Len(oplog') :
           /\ oplog'[i] = w.ops[i - Len(oplog)]
           /\ i - Len(oplog) \in 1 .. Len(w.ops)
      /\ ~Replaying(w)
  BY Appended
<1>3. FreshInHand(w) BY <1>1, <1>2 DEF AtWork, Handling
<1>4. CreatesFirst'
  <2>1. SUFFICES ASSUME NEW k \in 1 .. Len(oplog'), oplog'[k].kind = "create",
                        NEW j \in 1 .. k - 1
                 PROVE  oplog'[j].row # oplog'[k].row
    BY DEF CreatesFirst
  <2>2. CASE k \in 1 .. Len(oplog)
    <3>1. j \in 1 .. Len(oplog) BY <1>2, <2>2
    <3>2. QED BY <1>2, <2>1, <2>2, <3>1 DEF Locked, CreatesFirst
  <2>3. CASE k \in Len(oplog) + 1 .. Len(oplog')
    <3>1. CASE j \in 1 .. Len(oplog) BY <1>2, <1>3, <2>1, <2>3, <3>1 DEF FreshInHand
    <3>2. CASE j \in Len(oplog) + 1 .. Len(oplog')
      <4>1. j - Len(oplog) \in 1 .. (k - Len(oplog)) - 1 BY <1>2, <2>3, <3>2
      <4>2. QED BY <1>2, <1>3, <2>1, <2>3, <3>2, <4>1 DEF FreshInHand
    <3>3. QED BY <1>2, <2>3, <3>1, <3>2
  <2>4. QED BY <1>2, <2>2, <2>3
<1>5. ASSUME w.job \notin {"join", "depart"}
      PROVE  w.job = "submit" /\ applied[w.copy] = Len(oplog)
  <2>1. w.job = "submit" BY <1>1, <1>2, <1>5 DEF Suits, Handling
  <2>2. w.at = applied[w.copy] /\ w.upto = Len(oplog) BY <1>1, <1>5 DEF AtWork
  <2>3. w.at >= Len(oplog) /\ w.at <= Len(oplog)
    BY <1>1, <1>2, <2>2 DEF Replaying, Fits, Work
  <2>4. QED BY <1>1, <1>2, <2>1, <2>2, <2>3 DEF Work
<1>6. QED BY <1>3, <1>4, <1>5

\* An append, and what is left to acknowledge.
LEMMA AppendLocked ==
  ASSUME IInv, LockKept, Locked, Shape, lapses = 0, NEW p \in Procs, AppendOps(p)
  PROVE  Locked'
<1> DEFINE w == work[p]
<1>1. CASE Fails(p) /\ UNCHANGED oplog
  BY <1>1, AppendRecord, FailsRecord, LockedOutside DEF copyVars
<1>2. CASE ~(Fails(p) /\ UNCHANGED oplog)
  <2>1. /\ w.pc = "append" /\ UNCHANGED <<applied, lapses>>
        /\ oplog' = oplog \o w.ops /\ OthersStay(p)
        /\ work'[p].pc = IF w.job = "submit" THEN "ack" ELSE "finish"
        /\ work'[p].copy = w.copy /\ work'[p].job = w.job
        /\ work'[p].at = Len(oplog')
    BY <1>2, AppendRecord DEF copyVars
  <2>2. CreatesFirst' BY <2>1, AppendedUnderLock
  <2>3. Inside(w) BY <2>1 DEF Inside
  <2>4. AtWork(work[p])'
    <3>1. CASE w.job # "submit" BY <2>1, <3>1 DEF AtWork, Handling
    <3>2. CASE w.job = "submit"
      <4>1. applied[w.copy] = Len(oplog) BY <2>1, <3>2, AppendedUnderLock
      <4>2. /\ Len(oplog) < Len(oplog')
            /\ \A i \in Len(oplog) + 1 .. Len(oplog') : oplog'[i].by = w.copy
        <5>1. ~Replaying(w) BY <2>1, Known DEF Fits
        <5>2. \A i \in 1 .. Len(w.ops) : w.ops[i].by = w.copy
          BY <2>1, <2>3, <5>1 DEF LockKept, OwnWork, Inside, Handling
        <5>3. QED BY <2>1, <5>2, Appended DEF Handles
      <4>3. QED BY <2>1, <3>2, <4>1, <4>2 DEF AtWork, Handling
    <3>3. QED BY <3>1, <3>2
  <2>5. QED BY <2>1, <2>2, <2>3, <2>4, LockedInside
<1>3. QED BY <1>1, <1>2

\* A membership event is in hand.
LEMMA EventLocked ==
  ASSUME IInv, LockKept, Locked, lapses = 0, NEW p \in Procs, Join(p) \/ Depart(p)
  PROVE  Locked'
<1>1. /\ OthersStay(p) /\ LockFree /\ UNCHANGED <<oplog, applied>>
      /\ work'[p].pc = "append" /\ work'[p].job \in {"join", "depart"}
      /\ work'[p].ops = <<ChainOp(work'[p].copy)>>
      /\ work'[p].at = 0 /\ work'[p].upto = 0
  BY EventRecord
<1>2. \A i \in 1 .. Len(work'[p].ops) : work'[p].ops[i].kind # "create"
  BY <1>1, OneLong DEF ChainOp
<1>3. AtWork(work[p])' BY <1>1, <1>2 DEF AtWork, FreshInHand, Replaying
<1>4. QED BY <1>1, <1>3, LockedInside DEF Locked, CreatesFirst

\* Only a lapse counts as one.
LEMMA LapsesKept ==
  ASSUME IInv, [Next]_vars, ~Lapse
  PROVE  UNCHANGED lapses
<1>1. ASSUME NEW p \in Procs, Works(p) PROVE UNCHANGED lapses
  <2>1. Applies(p) => UNCHANGED lapses
    BY DEF Applies, ApplyNext, Recreate, Repoint, Link, Unlink, Bump
  <2>2. Replicate(p) => UNCHANGED lapses
    BY DEF Replicate, JobPick, Visit, VisitDone, JobDone
  <2>3. CaughtUp(p) \/ Ack(p) \/ Finish(p) => UNCHANGED lapses BY DEF CaughtUp, Ack, Finish
  <2>4. ChooseRefused(p) \/ Act(p) \/ AppendOps(p) => UNCHANGED lapses
    BY DEF ChooseRefused, Act, AppendOps
  <2>5. ChooseCreate(p) => UNCHANGED lapses BY DEF ChooseCreate
  <2>6. ChooseEdit(p) => UNCHANGED lapses BY DEF ChooseEdit
  <2>7. QED BY <1>1, <2>1, <2>2, <2>3, <2>4, <2>5, <2>6 DEF Works, Submit
<1>2. ASSUME NEW p \in Procs,
             SubmitStart(p) \/ Join(p) \/ Depart(p) \/ Error(p) \/ Busy(p) \/ Crash(p)
      PROVE  UNCHANGED lapses
  BY <1>2 DEF SubmitStart, Join, Depart, Error, Busy, Crash
<1>3. QED BY <1>1, <1>2 DEF Next, vars

\* Every step keeps what the process inside knows.
LEMMA LockedKept ==
  ASSUME IInv, LockKept, Locked, Shape, [Next]_vars
  PROVE  Locked'
<1>1. CASE Lapse
  <2>1. lapses' # 0 BY <1>1 DEF Lapse, IInv, TypeOK
  <2>2. QED BY <2>1 DEF Locked
<1>2. CASE UNCHANGED vars
  BY <1>2 DEF vars, copyVars, Locked, CreatesFirst, AtWork, FreshInHand, Replaying
<1>3. CASE lapses # 0 /\ ~Lapse
  <2>1. lapses' # 0
    BY <1>3, LapsesKept DEF vars
  <2>2. QED BY <2>1 DEF Locked
<1>4. ASSUME NEW p \in Procs, Works(p), lapses = 0 PROVE Locked'
  <2>1. Applies(p) => Locked' BY <1>4, ApplyLocked, PhaseLocked, BumpLocked DEF Applies
  <2>2. CASE JobPick(p) \/ JobDone(p) \/ VisitDone(p) \/ Finish(p)
    <3>1. Suits(work[p]) BY DEF Shape
    <3>2. QED BY <1>4, <2>2, <3>1, OutsideRecord, LockedOutside DEF copyVars
  <2>3. Visit(p) \/ CaughtUp(p) => Locked' BY <1>4, StartLocked
  <2>4. CASE ChooseRefused(p)
    BY <1>4, <2>4, FailsRecord, LockedOutside DEF ChooseRefused, copyVars
  <2>5. ChooseCreate(p) \/ ChooseEdit(p) => Locked' BY <1>4, ChooseLocked
  <2>6. Act(p) => Locked' BY <1>4, ApplyLocked
  <2>7. AppendOps(p) => Locked' BY <1>4, AppendLocked
  <2>8. Ack(p) => Locked' BY <1>4, AckLocked
  <2>9. QED
    BY <1>4, <2>1, <2>2, <2>3, <2>4, <2>5, <2>6, <2>7, <2>8 DEF Works, Replicate, Submit
<1>5. ASSUME NEW p \in Procs, SubmitStart(p) \/ Join(p) \/ Depart(p), lapses = 0
      PROVE  Locked'
  BY <1>5, StartLocked, EventLocked
<1>6. ASSUME NEW p \in Procs, Busy(p) \/ Crash(p), lapses = 0 PROVE Locked'
  <2>1. Suits(work[p]) BY DEF Shape
  <2>2. QED BY <1>6, <2>1, OutsideRecord, LockedOutside DEF copyVars
<1>7. ASSUME NEW p \in Procs, Error(p), lapses = 0 PROVE Locked'
  BY <1>7, FailsRecord, LockedOutside DEF Error, copyVars
<1>8. QED BY <1>1, <1>2, <1>3, <1>4, <1>5, <1>6, <1>7 DEF Next

\* What holds of the log and of the process inside always holds.
LEMMA LockedInvariance == Spec => [](Shape /\ Locked)
<1>1. Init => Shape BY ShapeAtFirst
<1>2. Init => Locked
  <2> SUFFICES ASSUME Init PROVE Locked
    OBVIOUS
  <2>1. PICK name \in MainNames :
          oplog = <<ChainOp(Founder), CreateOp(Founder, Main, name, None)>>
    BY DEF Init
  <2>2. Len(oplog) = 2 /\ oplog[1].row = None /\ oplog[1].kind = "chain"
        /\ oplog[2].row = Main
    BY <2>1 DEF ChainOp, CreateOp
  <2>3. None # Main BY RowsAssumption
  <2>4. CreatesFirst BY <2>2, <2>3 DEF CreatesFirst
  <2>5. \A p \in Procs : ~Inside(work[p]) BY DEF Init, Idle, Inside
  <2>6. QED BY <2>4, <2>5 DEF Locked
<1>3. IInv /\ LockKept /\ Shape /\ Locked /\ [Next]_vars => Shape' /\ Locked'
  BY ShapeKept, LockedKept
<1>4. QED BY <1>1, <1>2, <1>3, Invariance, LockInvariance, PTL DEF Spec

-----------------------------------------------------------------------------
(* The log, the watermarks and the memberships are those of a ChainLog. *)

\* What an accepted append adds is the ops in hand.
LEMMA NewOps ==
  ASSUME IInv, NEW p \in Procs, AppendOps(p), oplog' = oplog \o work[p].ops
  PROVE  SubSeq(oplog', Len(oplog) + 1, Len(oplog')) = work[p].ops
<1> DEFINE ops == work[p].ops
<1>1. /\ oplog \in Seq(Op) /\ ops \in Seq(Op) /\ Len(oplog) \in Nat /\ Len(ops) \in Nat
      /\ Len(oplog') = Len(oplog) + Len(ops) /\ Len(ops) # 0
  BY Known, Appended DEF Handles
<1>2. SubSeq(oplog', Len(oplog) + 1, Len(oplog')) = SubSeq(ops, 1, Len(ops))
  BY <1>1, SubSeqOfConcat2
<1>3. QED BY <1>1, <1>2, SubSeqFull

\* A member's accepted write is a publication: a guarded op made against the
\* latest op on its row, or creates of rows the log lacks.
LEMMA AppendPublishes ==
  ASSUME IInv, LockKept, Locked, Shape, lapses = 0, NEW p \in Procs, AppendOps(p),
         Accepted(work[p]), oplog' = oplog \o work[p].ops,
         work[p].job \notin {"join", "depart"}
  PROVE  Abstract!Publish(work[p].copy) /\ work[p].copy \in Copies
<1> DEFINE w == work[p]
           c == work[p].copy
           ops == work[p].ops
<1>1. /\ w \in Work /\ Fits(w, Len(oplog)) /\ w.pc = "append" /\ Suits(w)
      /\ UNCHANGED <<applied, status>>
  BY Known, AppendRecord DEF Shape, copyVars
<1>2. /\ Len(oplog) \in Nat /\ Len(ops) \in Nat /\ Len(ops) # 0
      /\ Len(oplog') = Len(oplog) + Len(ops)
      /\ ops \in Seq(Op) /\ Handles(w, ops) /\ ~Replaying(w)
      /\ \A i \in 1 .. Len(oplog) : oplog'[i] = oplog[i]
      /\ \A i \in Len(oplog) + 1 .. Len(oplog') :
           oplog'[i] = ops[i - Len(oplog)] /\ i - Len(oplog) \in 1 .. Len(ops)
  BY Appended DEF Handles
<1>3. c \in Copies /\ status[c] = "active" /\ OwnWork(w, Active)
  BY <1>1 DEF Fits, LockKept, OwnWork, Active
<1>4. \A i \in 1 .. Len(ops) : ops[i].by = c /\ ops[i].kind # "chain" /\ ops[i] \in Op
  <2>1. \A i \in 1 .. Len(ops) : ops[i].by = c BY <1>1, <1>2, <1>3 DEF OwnWork, Handling
  <2>2. \A i \in 1 .. Len(ops) : ops[i].kind # "chain" BY <1>1, <1>2 DEF Suits, Handling
  <2>3. QED BY <1>2, <2>1, <2>2
<1>5. \/ ops = <<ops[1]>> /\ Guarded(ops[1]) /\ Current(oplog, ops[1])
      \/ \A i \in Len(oplog) + 1 .. Len(oplog') :
           oplog'[i].kind = "create" /\ \A j \in 1 .. i - 1 : oplog'[j].row # oplog'[i].row
  <2>1. CASE \A i \in 1 .. Len(ops) : ops[i].kind = "create"
    <3>1. CreatesFirst' BY AppendedUnderLock
    <3>2. ASSUME NEW i \in Len(oplog) + 1 .. Len(oplog')
          PROVE  oplog'[i].kind = "create" /\ i \in 1 .. Len(oplog')
      BY <1>2, <2>1
    <3>3. QED BY <3>1, <3>2 DEF CreatesFirst
  <2>2. CASE \E i \in 1 .. Len(ops) : ops[i].kind # "create"
    <3>1. Len(ops) = 1 BY <1>2, <2>2 DEF Handles
    <3>2. Guarded(ops[1]) BY <1>4, <2>2, <3>1 DEF Guarded, Op, Kinds
    <3>3. 1 \in DOMAIN ops BY <1>2, <3>1
    <3>4. Current(oplog, ops[1]) BY <1>3, <1>1, <3>2, <3>3 DEF Accepted
    <3>5. ops = <<ops[1]>> BY <1>2, <3>1
    <3>6. QED BY <3>2, <3>4, <3>5
  <2>3. QED BY <2>1, <2>2
<1>6. /\ SubSeq(oplog', Len(oplog) + 1, Len(oplog')) = ops
      /\ ops # <<>> /\ DOMAIN ops = 1 .. Len(ops)
  BY <1>2, NewOps
<1>7. /\ Abstract!Guarded(ops[1]) <=> Guarded(ops[1])
      /\ Abstract!Current(oplog, ops[1]) <=> Current(oplog, ops[1])
  BY DEF Abstract!Guarded, Guarded, Abstract!Current, Current, Abstract!LatestSeq,
         LatestSeq, Abstract!LatestAmong, LatestAmong
<1>8. \A i \in DOMAIN ops : ops[i].by = c BY <1>4, <1>6
<1> HIDE DEF c, ops
<1>9. Abstract!Publish(c) BY <1>1, <1>3, <1>5, <1>6, <1>7, <1>8 DEF Abstract!Publish, ops
<1>10. QED BY <1>3, <1>9 DEF c

\* The op of a coming or going is an announcement.
LEMMA AppendAnnounces ==
  ASSUME IInv, Shape, NEW p \in Procs, AppendOps(p), oplog' = oplog \o work[p].ops,
         work[p].job \in {"join", "depart"}
  PROVE  Abstract!Announce(work[p].copy) /\ work[p].copy \in Copies
<1> DEFINE w == work[p]
<1>1. /\ w \in Work /\ Fits(w, Len(oplog)) /\ w.pc = "append" /\ Suits(w)
      /\ UNCHANGED <<applied, status>> /\ oplog \in Seq(Op)
  BY Known, AppendRecord DEF Shape, copyVars
<1>2. w.ops = <<ChainOp(w.copy)>> /\ status[w.copy] # "out" /\ w.copy \in Copies
  BY <1>1 DEF Suits, Handling, Inside, Fits
<1>3. oplog' = Append(oplog, ChainOp(w.copy))
  <2>1. ChainOp(w.copy) \in Op BY <1>2 DEF ChainOp, Op, Kinds
  <2>2. QED BY <1>1, <1>2, <2>1, AppendIsConcat
<1>4. Abstract!ChainOp(w.copy) = ChainOp(w.copy) BY DEF Abstract!ChainOp, ChainOp
<1>5. QED BY <1>1, <1>2, <1>3, <1>4 DEF Abstract!Announce

\* The watermark learns the next op, or the copy's own ops that are next.
LEMMA WatermarkLearns ==
  ASSUME IInv, LockKept, Locked, Shape, lapses = 0, NEW p \in Procs, Bump(p) \/ Ack(p)
  PROVE  Abstract!Learn(work[p].copy) /\ work[p].copy \in Copies
<1> DEFINE c == work[p].copy
<1>1. /\ Inside(work[p]) /\ work[p] \in Work /\ Fits(work[p], Len(oplog))
      /\ Len(oplog) \in Nat /\ applied \in [Copies -> Nat]
      /\ UNCHANGED <<oplog, status>>
  BY Known, BumpRecord, AckRecord DEF Inside, IInv, TypeOK
<1>2. work[p].job # "depart"
  BY <1>1, BumpRecord, AckRecord DEF Fits
<1>3. c \in Copies /\ status[c] = "active"
  BY <1>1, <1>2 DEF LockKept, OwnWork, Inside, Fits, Active
<1>4. CASE Bump(p)
  <2>1. /\ applied' = [applied EXCEPT ![c] = applied[c] + 1]
        /\ applied[c] + 1 \in applied[c] + 1 .. Len(oplog)
    BY <1>1, <1>3, <1>4, BumpLocked
  <2>2. ~(applied[c] + 1 > applied[c] + 1) BY <1>1, <1>3
  <2>3. QED BY <1>1, <1>3, <2>1, <2>2, Zenon DEF Abstract!Learn
<1>5. CASE Ack(p)
  <2>1. /\ applied' = [applied EXCEPT ![c] = Len(oplog)]
        /\ Len(oplog) \in applied[c] + 1 .. Len(oplog)
        /\ \A i \in applied[c] + 1 .. Len(oplog) : oplog[i].by = c
    BY <1>1, <1>3, <1>5, AckLocked
  <2>2. QED BY <1>1, <1>3, <2>1 DEF Abstract!Learn
<1>6. QED BY <1>3, <1>4, <1>5

\* Members come and go.
LEMMA EventsJoinAndSever ==
  ASSUME NEW p \in Procs, Join(p) \/ Depart(p)
  PROVE  \E c \in Copies : Abstract!Join(c) \/ Abstract!Sever(c)
<1>1. CASE Join(p)
  <2>1. UNCHANGED <<oplog, applied>> BY <1>1 DEF Join
  <2>2. PICK c \in Copies : status[c] = "out" /\ status' = [status EXCEPT ![c] = "active"]
    BY <1>1 DEF Join
  <2>3. QED BY <2>1, <2>2 DEF Abstract!Join
<1>2. CASE Depart(p)
  <2>1. UNCHANGED <<oplog, applied>> BY <1>2 DEF Depart
  <2>2. PICK c \in Active : status' = [status EXCEPT ![c] = "ended"]
    BY <1>2 DEF Depart
  <2>3. QED BY <2>1, <2>2 DEF Abstract!Sever, Active
<1>3. QED BY <1>1, <1>2

\* Every other step leaves the log, the watermarks and the memberships alone.
LEMMA OthersStutter ==
  ASSUME [Next]_vars,
         \A p \in Procs :
           ~(AppendOps(p) \/ Bump(p) \/ Ack(p) \/ Join(p) \/ Depart(p))
  PROVE  UNCHANGED <<oplog, applied, status>>
<1>1. ASSUME NEW p \in Procs, Works(p) PROVE UNCHANGED <<oplog, applied, status>>
  <2>1. \A ops : Apply(p, ops) => UNCHANGED <<applied, status>> BY DEF Apply, copyVars
  <2>2. ApplyNext(p) \/ Act(p) => UNCHANGED <<oplog, applied, status>>
    BY <2>1 DEF ApplyNext, Act
  <2>3. Recreate(p) \/ Repoint(p) \/ Link(p) \/ Unlink(p)
          => UNCHANGED <<oplog, applied, status>>
    BY DEF Recreate, Repoint, Link, Unlink
  <2>4. Replicate(p) => UNCHANGED <<oplog, applied, status>>
    BY DEF Replicate, JobPick, Visit, VisitDone, JobDone, copyVars
  <2>5. CaughtUp(p) \/ ChooseRefused(p) \/ Finish(p) => UNCHANGED <<oplog, applied, status>>
    BY DEF CaughtUp, ChooseRefused, Finish, copyVars
  <2>6. ChooseCreate(p) => UNCHANGED <<oplog, applied, status>> BY DEF ChooseCreate, copyVars
  <2>7. ChooseEdit(p) => UNCHANGED <<oplog, applied, status>> BY DEF ChooseEdit, copyVars
  <2>8. QED
    BY <1>1, <2>2, <2>3, <2>4, <2>5, <2>6, <2>7 DEF Works, Applies, Submit
<1>2. ASSUME NEW p \in Procs, SubmitStart(p) \/ Error(p) \/ Busy(p) \/ Crash(p)
      PROVE  UNCHANGED <<oplog, applied, status>>
  BY <1>2 DEF SubmitStart, Error, Busy, Crash, copyVars
<1>3. CASE Lapse \/ UNCHANGED vars BY <1>3 DEF Lapse, vars, copyVars
<1>4. QED BY <1>1, <1>2, <1>3 DEF Next

\* Every step under the lock is a step of ChainLog, or changes nothing it shows.
LEMMA StepsOfChainLog ==
  ASSUME IInv, LockKept, Locked, Shape, lapses = 0, [Next]_vars
  PROVE  [Abstract!Next]_<<oplog, applied, status>>
<1>1. CASE \E p \in Procs : AppendOps(p)
  <2>1. PICK p \in Procs : AppendOps(p) BY <1>1
  <2>2. UNCHANGED <<applied, status>> BY <2>1, AppendRecord DEF copyVars
  <2>3. CASE UNCHANGED oplog BY <2>2, <2>3
  <2>4. CASE Accepted(work[p]) /\ oplog' = oplog \o work[p].ops
    BY <2>1, <2>4, AppendPublishes, AppendAnnounces DEF Abstract!Next
  <2>5. QED BY <2>1, <2>3, <2>4, AppendRecord
<1>2. CASE \E p \in Procs : Bump(p) \/ Ack(p)
  BY <1>2, WatermarkLearns DEF Abstract!Next
<1>3. CASE \E p \in Procs : Join(p) \/ Depart(p)
  BY <1>3, EventsJoinAndSever DEF Abstract!Next
<1>4. CASE \A p \in Procs :
             ~(AppendOps(p) \/ Bump(p) \/ Ack(p) \/ Join(p) \/ Depart(p))
  BY <1>4, OthersStutter
<1>5. QED BY <1>1, <1>2, <1>3, <1>4

\* While no lock lapses under its holder, the replication of a group, with all
\* its crashes, retries and re-deliveries, is a ChainLog: members alone write,
\* every edit is made against the latest op on its row, every copy takes the ops
\* over in order, each but its own, and who is severed neither writes nor learns.
THEOREM GroupIsAChainLog == Spec /\ [](lapses = 0) => ImplementsChainLog
<1>1. Init => Abstract!Init
  BY DEF Init, Abstract!Init, Abstract!ChainOp, ChainOp, Abstract!CreateOp, CreateOp
<1>2. IInv /\ LockKept /\ Locked /\ Shape /\ lapses = 0 /\ [Next]_vars
        => [Abstract!Next]_<<oplog, applied, status>>
  BY StepsOfChainLog
<1>3. QED
  BY <1>1, <1>2, Invariance, LockInvariance, LockedInvariance, PTL
     DEF Spec, ImplementsChainLog, Abstract!Spec, Abstract!vars
=============================================================================
