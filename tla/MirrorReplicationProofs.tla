----------------------- MODULE MirrorReplicationProofs -----------------------
(***************************************************************************)
(* What the log, the watermarks and the lock of a group portfolio keep for *)
(* every number of members, processes, rows, faults and lapses.            *)
(***************************************************************************)
EXTENDS MirrorReplication, SequenceTheorems, TLAPS

-----------------------------------------------------------------------------
(* The inductive invariant. *)

\* A process has an op, or a batch of creates, in hand.
Handling == {"act", "link", "recreate", "repoint", "unlink", "append"}

\* What a process may have in hand: ops of the copy's user unless it replays, one
\* op or a batch of creates, and about rows unless they are membership events.
Handles(w, ops) ==
  /\ Len(ops) # 0
  /\ \A i \in 1 .. Len(ops) :
       /\ ops[i].kind # "chain" => ops[i].row \in Rows
       /\ Len(ops) # 1 => ops[i].kind = "create"
       /\ ~Replaying(w) => UserOf[ops[i].by] = UserOf[w.copy]
       /\ w.job = "depart" => ops[i].kind = "chain"

\* What the record of a process means when the log has n ops.
Fits(w, n) ==
  /\ w.at <= n /\ w.upto <= n
  /\ w.pc \notin {"idle", "sweep"} => w.copy \in Copies
  /\ w.pc = "sweep" => w.job = "replicate"
  /\ w.pc \in {"choose", "ack"} => w.job = "submit"
  /\ w.job = "submit" => w.member \in Copies /\ UserOf[w.member] = UserOf[w.copy]
  /\ w.job = "replicate" => w.tries \in 1 .. Attempts
  /\ w.job \in {"join", "depart"} => w.pc \in {"append", "finish"}
  /\ w.pc \in {"choose", "act", "append"} => ~Replaying(w)
  /\ w.pc = "bump" => Replaying(w)
  /\ w.pc \in Handling => Handles(w, w.ops)
  /\ w.pc = "link" =>
       /\ w.done < Len(w.ops)
       /\ \A i \in 1 .. Len(w.ops) : w.ops[i].kind = "create"

WorkOK == \A p \in Procs : Fits(work[p], Len(oplog))

\* The log's ops and the watermarks; a user has one active membership at most.
LogOK ==
  /\ \A i \in 1 .. Len(oplog) : oplog[i].kind # "chain" => oplog[i].row \in Rows
  /\ \A c \in Copies : applied[c] <= Len(oplog)
  /\ \A c, d \in Copies :
       status[c] = "active" /\ status[d] = "active" /\ UserOf[c] = UserOf[d] => c = d

IInv == TypeOK /\ LogOK /\ WorkOK

-----------------------------------------------------------------------------
(* A step of one process. *)

\* What fits a log fits every longer one.
LEMMA FitsLonger ==
  ASSUME NEW w \in Work, NEW m \in Nat, NEW n \in Nat, m <= n, Fits(w, m)
  PROVE  Fits(w, n)
BY DEF Fits, Work

\* When one process moves and the log at most grows, the others still fit.
LEMMA OneMoves ==
  ASSUME TypeOK, WorkOK, oplog' \in Seq(Op), Len(oplog) <= Len(oplog'),
         NEW p \in Procs, NEW w \in Work,
         work' = [work EXCEPT ![p] = w], Fits(w, Len(oplog'))
  PROVE  work' \in [Procs -> Work] /\ WorkOK'
<1>1. work \in [Procs -> Work] BY DEF TypeOK
<1>2. work' \in [Procs -> Work] BY <1>1
<1>3. Len(oplog) \in Nat /\ Len(oplog') \in Nat BY LenProperties DEF TypeOK
<1>4. ASSUME NEW q \in Procs PROVE Fits(work[q], Len(oplog))'
  <2>1. CASE q = p BY <2>1, <1>1
  <2>2. CASE q # p
    <3>1. work'[q] = work[q] /\ work[q] \in Work BY <2>2, <1>1
    <3>2. Fits(work[q], Len(oplog)) BY DEF WorkOK
    <3>3. Fits(work[q], Len(oplog')) BY <3>1, <3>2, <1>3, FitsLonger
    <3>4. QED BY <3>1, <3>3
  <2>3. QED BY <2>1, <2>2
<1>5. QED BY <1>2, <1>4 DEF WorkOK

\* The same for a step that leaves the log alone.
LEMMA OneMovesQuietly ==
  ASSUME IInv, UNCHANGED oplog, NEW p \in Procs, NEW w \in Work,
         work' = [work EXCEPT ![p] = w], Fits(w, Len(oplog))
  PROVE  work' \in [Procs -> Work] /\ WorkOK'
<1>1. TypeOK /\ WorkOK BY DEF IInv
<1>2. oplog' \in Seq(Op) /\ Len(oplog) <= Len(oplog')
  BY LenProperties DEF IInv, TypeOK
<1>3. Fits(w, Len(oplog')) OBVIOUS
<1>4. QED BY <1>1, <1>2, <1>3, OneMoves

\* What is known of a process before it moves.
LEMMA Known ==
  ASSUME IInv, NEW p \in Procs
  PROVE  /\ work[p] \in Work /\ work \in [Procs -> Work]
         /\ Fits(work[p], Len(oplog))
         /\ oplog \in Seq(Op) /\ Len(oplog) \in Nat
         /\ Attempts \in Nat \ {0}
BY LenProperties, ReplicationAssumption DEF IInv, TypeOK, WorkOK

\* An idle process fits.
LEMMA IdleFits ==
  ASSUME NEW n \in Nat
  PROVE  Idle \in Work /\ Fits(Idle, n)
<1>1. Idle \in Work BY ReplicationAssumption DEF Idle, Work, Jobs, Phases
<1>2. Fits(Idle, n) BY DEF Idle, Fits, Handling, Replaying
<1>3. QED BY <1>1, <1>2

\* A job between two copies fits, whatever it still has to visit.
LEMMA SweepFits ==
  ASSUME NEW n \in Nat, NEW S \in SUBSET Copies, NEW failed \in BOOLEAN,
         NEW tries \in 1 .. Attempts, NEW w,
         w = [Idle EXCEPT !.job = "replicate", !.pc = "sweep", !.sweep = S,
                          !.failed = failed, !.tries = tries]
  PROVE  w \in Work /\ Fits(w, n)
<1>1. Idle \in Work BY IdleFits
<1>2. tries \in 0 .. Attempts BY ReplicationAssumption
<1>3. w \in Work BY <1>1, <1>2 DEF Work, Jobs, Phases
<1>4. w.at = 0 /\ w.upto = 0 /\ w.pc = "sweep" /\ w.job = "replicate" /\ w.tries = tries
  BY DEF Idle
<1>5. Fits(w, n) BY <1>4 DEF Fits, Handling
<1>6. QED BY <1>3, <1>5

\* A failure leaves an idle process, or a job that goes on with the next copy.
LEMMA FailsFits ==
  ASSUME IInv, NEW p \in Procs, work[p].pc # "idle", Fails(p), UNCHANGED oplog
  PROVE  /\ work' \in [Procs -> Work] /\ WorkOK'
         /\ holder' \in Procs \cup {None} /\ tainted' \in SUBSET Copies
<1>1. /\ work[p] \in Work /\ Fits(work[p], Len(oplog)) /\ Len(oplog) \in Nat
  BY Known
<1>2. work' \in [Procs -> Work] /\ WorkOK'
  <2>1. CASE work[p].job = "replicate"
    <3> DEFINE w == [Idle EXCEPT !.job = "replicate", !.pc = "sweep", !.failed = TRUE,
                       !.sweep = work[p].sweep, !.tries = work[p].tries]
    <3>1. work[p].tries \in 1 .. Attempts /\ work[p].sweep \in SUBSET Copies
      BY <1>1, <2>1 DEF Fits, Work
    <3>2. w = [Idle EXCEPT !.job = "replicate", !.pc = "sweep",
                 !.sweep = work[p].sweep, !.failed = TRUE,
                 !.tries = work[p].tries]
      BY DEF Idle
    <3>3. work' = [work EXCEPT ![p] = w] BY <2>1 DEF Fails
    <3> HIDE DEF w
    <3>4. w \in Work /\ Fits(w, Len(oplog)) BY <1>1, <3>1, <3>2, SweepFits
    <3>5. QED BY <3>3, <3>4, OneMovesQuietly
  <2>2. CASE work[p].job # "replicate"
    <3>1. work' = [work EXCEPT ![p] = Idle] BY <2>2 DEF Fails
    <3>2. QED BY <1>1, <3>1, IdleFits, OneMovesQuietly
  <2>3. QED BY <2>1, <2>2
<1>3. holder' \in Procs \cup {None} BY DEF Fails, Released, IInv, TypeOK
<1>4. tainted' \in SUBSET Copies
  BY <1>1 DEF Fails, Uncommitted, Fits, IInv, TypeOK
<1>5. QED BY <1>2, <1>3, <1>4

\* A process that goes to a phase with ops in hand that suit the phase.
LEMMA GoesFits ==
  ASSUME IInv, NEW p \in Procs, NEW ops \in Seq(Op), Handles(work[p], ops),
         work[p].pc \in {"apply", "choose", "act"},
         NEW phase \in {"act", "link", "recreate", "repoint", "unlink", "append",
                        "bump", "finish"},
         phase \in {"act", "append"} => ~Replaying(work[p]),
         phase = "bump" => Replaying(work[p]),
         phase = "link" => \A i \in 1 .. Len(ops) : ops[i].kind = "create",
         Goes(p, phase, ops), UNCHANGED oplog
  PROVE  work' \in [Procs -> Work] /\ WorkOK'
<1>1. /\ work[p] \in Work /\ Fits(work[p], Len(oplog)) /\ Len(oplog) \in Nat
      /\ Len(ops) \in Nat
  BY Known, LenProperties
<1> DEFINE w == [work[p] EXCEPT !.pc = phase, !.ops = ops, !.done = 0]
<1>2. work' = [work EXCEPT ![p] = w] BY DEF Goes
<1>3. w \in Work BY <1>1 DEF Work, Phases
<1>4. /\ w.pc = phase /\ w.ops = ops /\ w.done = 0 /\ w.at = work[p].at
      /\ w.upto = work[p].upto /\ w.copy = work[p].copy /\ w.job = work[p].job
      /\ w.tries = work[p].tries /\ w.member = work[p].member
  BY <1>1 DEF Work
<1> HIDE DEF w
<1>5. (Replaying(w) <=> Replaying(work[p])) /\ (Handles(w, ops) <=> Handles(work[p], ops))
  BY <1>4 DEF Replaying, Handles
<1>6. Fits(w, Len(oplog))
  BY <1>1, <1>4, <1>5 DEF Fits, Handles, Handling
<1>7. QED BY <1>2, <1>3, <1>6, OneMovesQuietly

-----------------------------------------------------------------------------
(* Applying ops, and the replay loop. *)

\* The variables of a copy keep their types when one row of it changes.
LEMMA BookKeepsType ==
  ASSUME IInv, NEW c \in Copies, NEW r, NEW v \in Values \cup {None}
  PROVE  [book EXCEPT ![c][r] = v] \in [Copies -> [Rows -> Values \cup {None}]]
BY DEF IInv, TypeOK

\* One transaction of applyLedgerOp keeps the invariant, in replay and in a submit.
LEMMA ApplyKeeps ==
  ASSUME IInv, NEW p \in Procs, NEW ops \in Seq(Op), Handles(work[p], ops),
         work[p].pc \in {"apply", "act"}, Apply(p, ops),
         UNCHANGED <<oplog, minted, queue, faults, lapses>>
  PROVE  IInv'
<1>1. /\ work[p] \in Work /\ Fits(work[p], Len(oplog)) /\ Len(oplog) \in Nat
      /\ Len(ops) \in Nat /\ 1 \in 1 .. Len(ops) /\ ops[1] \in Op
      /\ work[p].copy \in Copies
  BY Known, LenProperties, ElementOfSeq DEF Handles, Fits
<1> DEFINE w == work[p]
           c == work[p].copy
           op == ops[1]
<1>2. op.val \in Values \cup {None} BY <1>1 DEF Op
<1>3. UNCHANGED <<oplog, applied, status>> /\ LogOK'
  <2>1. UNCHANGED applied /\ UNCHANGED status BY DEF Apply, copyVars
  <2>2. QED BY <2>1 DEF IInv, LogOK
<1>4. CASE /\ Skips(c, op)
           /\ IF op.kind = "update" /\ ~Replaying(w)
              THEN /\ Goes(p, "finish", ops)
                   /\ \E v \in Restated(op) : book' = [book EXCEPT ![op.by][op.row] = v]
              ELSE Goes(p, Settled(w), ops) /\ UNCHANGED book
           /\ UNCHANGED <<status, applied, linked, strays, holder, tainted>>
  <2>1. work' \in [Procs -> Work] /\ WorkOK'
    <3>1. CASE op.kind = "update" /\ ~Replaying(w)
      BY <1>1, <1>3, <1>4, <3>1, GoesFits
    <3>2. CASE ~(op.kind = "update" /\ ~Replaying(w))
      BY <1>1, <1>3, <1>4, <3>2, GoesFits DEF Settled
    <3>3. QED BY <3>1, <3>2
  <2>2. book' \in [Copies -> [Rows -> Values \cup {None}]]
    <3>1. CASE UNCHANGED book BY <3>1 DEF IInv, TypeOK
    <3>2. ASSUME NEW v \in Restated(op), book' = [book EXCEPT ![op.by][op.row] = v],
                 op.kind = "update"
          PROVE  book' \in [Copies -> [Rows -> Values \cup {None}]]
      <4>1. op.by \in Copies /\ op.row \in Rows BY <1>1, <3>2 DEF Op, Handles
      <4>2. book[op.by][op.row] \in Values \cup {None}
        BY <4>1 DEF IInv, TypeOK
      <4>3. v \in Values \cup {None} BY <1>2, <3>2, <4>2 DEF Restated
      <4>4. QED BY <3>2, <4>1, <4>3, BookKeepsType
    <3>3. QED BY <1>4, <3>1, <3>2
  <2>3. UNCHANGED <<linked, strays, holder, tainted>> BY <1>4
  <2>4. TypeOK' BY <1>3, <2>1, <2>2, <2>3 DEF IInv, TypeOK
  <2>5. QED BY <1>3, <2>1, <2>4 DEF IInv
<1>5. CASE Throws(c, op) /\ Fails(p) /\ UNCHANGED copyVars
  <2>1. /\ work' \in [Procs -> Work] /\ WorkOK'
        /\ holder' \in Procs \cup {None} /\ tainted' \in SUBSET Copies
    BY <1>5, FailsFits
  <2>2. TypeOK' BY <1>3, <1>5, <2>1 DEF IInv, TypeOK, copyVars
  <2>3. QED BY <1>3, <2>1, <2>2 DEF IInv
<1>6. CASE /\ UNCHANGED <<status, applied, linked, holder, tainted>>
           /\ op.kind = "create"
           /\ strays' = [strays EXCEPT ![c] = @ + Len(ops)]
           /\ Goes(p, "link", ops) /\ UNCHANGED book
  <2>1. \A i \in 1 .. Len(ops) : ops[i].kind = "create"
    BY <1>1, <1>6 DEF Handles
  <2>2. work' \in [Procs -> Work] /\ WorkOK' BY <1>1, <1>6, <2>1, GoesFits
  <2>3. strays' \in [Copies -> Int] BY <1>1, <1>6 DEF IInv, TypeOK
  <2>4. TypeOK' BY <1>3, <1>6, <2>2, <2>3 DEF IInv, TypeOK
  <2>5. QED BY <1>3, <2>2, <2>4 DEF IInv
<1>7. CASE /\ UNCHANGED <<status, applied, linked, holder, tainted>>
           /\ book' = [book EXCEPT ![c][op.row] = op.val]
           /\ Goes(p, Settled(w), ops) /\ UNCHANGED strays
  <2>1. work' \in [Procs -> Work] /\ WorkOK' BY <1>1, <1>7, GoesFits DEF Settled
  <2>2. book' \in [Copies -> [Rows -> Values \cup {None}]]
    BY <1>1, <1>2, <1>7, BookKeepsType
  <2>3. TypeOK' BY <1>3, <1>7, <2>1, <2>2 DEF IInv, TypeOK
  <2>4. QED BY <1>3, <2>1, <2>3 DEF IInv
<1>8. CASE /\ UNCHANGED <<status, applied, linked, holder, tainted>>
           /\ book' = [book EXCEPT ![c][op.row] = None]
           /\ Goes(p, "recreate", ops) \/ Goes(p, "unlink", ops)
           /\ UNCHANGED strays
  <2>1. work' \in [Procs -> Work] /\ WorkOK'
    <3>1. CASE Goes(p, "recreate", ops) BY <1>1, <3>1, GoesFits
    <3>2. CASE Goes(p, "unlink", ops) BY <1>1, <3>2, GoesFits
    <3>3. QED BY <1>8, <3>1, <3>2
  <2>2. book' \in [Copies -> [Rows -> Values \cup {None}]]
    BY <1>1, <1>8, BookKeepsType
  <2>3. TypeOK' BY <1>3, <1>8, <2>1, <2>2 DEF IInv, TypeOK
  <2>4. QED BY <1>3, <2>1, <2>3 DEF IInv
<1>9. CASE /\ UNCHANGED <<status, applied, linked, holder, tainted>>
           /\ strays' = [strays EXCEPT ![c] = @ + 1]
           /\ Goes(p, "repoint", ops) /\ UNCHANGED book
  <2>1. work' \in [Procs -> Work] /\ WorkOK' BY <1>1, <1>9, GoesFits
  <2>2. strays' \in [Copies -> Int] BY <1>1, <1>9 DEF IInv, TypeOK
  <2>3. TypeOK' BY <1>3, <1>9, <2>1, <2>2 DEF IInv, TypeOK
  <2>4. QED BY <1>3, <2>1, <2>3 DEF IInv
<1>10. QED
  <2>1. Apply(p, ops) OBVIOUS
  <2>2. QED BY <1>4, <1>5, <1>6, <1>7, <1>8, <1>9, <2>1 DEF Apply

\* The replay loop applies the next op it loaded.
LEMMA ApplyNextKeeps ==
  ASSUME IInv, NEW p \in Procs, ApplyNext(p)
  PROVE  IInv'
<1>1. /\ work[p] \in Work /\ Fits(work[p], Len(oplog)) /\ Len(oplog) \in Nat
      /\ oplog \in Seq(Op) /\ work[p].pc = "apply" /\ Replaying(work[p])
  BY Known DEF ApplyNext
<1>2. work[p].at + 1 \in 1 .. Len(oplog)
  BY <1>1 DEF Fits, Replaying, Work
<1> DEFINE op == oplog[work[p].at + 1]
<1>3. op \in Op BY <1>1, <1>2, ElementOfSeq
<1>4. <<op>> \in Seq(Op) /\ Len(<<op>>) = 1 /\ <<op>>[1] = op BY <1>3
<1>5. op.kind # "chain" => op.row \in Rows BY <1>2 DEF IInv, LogOK
<1>6. work[p].job # "depart" BY <1>1 DEF Fits
<1>7. Handles(work[p], <<op>>)
  <2> HIDE DEF op
  <2>1. \A i \in 1 .. Len(<<op>>) : <<op>>[i] = op BY <1>4
  <2>2. QED BY <1>1, <1>4, <1>5, <1>6, <2>1 DEF Handles
<1>8. Apply(p, <<op>>) /\ UNCHANGED <<oplog, minted, queue, faults, lapses>> BY DEF ApplyNext
<1> HIDE DEF op
<1>9. QED BY <1>1, <1>4, <1>7, <1>8, ApplyKeeps

\* A submit applies its own write.
LEMMA ActKeeps ==
  ASSUME IInv, NEW p \in Procs, Act(p)
  PROVE  IInv'
<1>1. work[p] \in Work /\ Fits(work[p], Len(oplog)) /\ work[p].pc = "act"
  BY Known DEF Act
<1>2. work[p].ops \in Seq(Op) /\ Handles(work[p], work[p].ops)
  BY <1>1 DEF Fits, Handling, Work
<1>3. Apply(p, work[p].ops) /\ UNCHANGED <<oplog, minted, queue, faults, lapses>> BY DEF Act
<1>4. QED BY <1>1, <1>2, <1>3, ApplyKeeps

\* The correction path's second transaction.
LEMMA RecreateKeeps ==
  ASSUME IInv, NEW p \in Procs, Recreate(p)
  PROVE  IInv'
<1> DEFINE w == [work[p] EXCEPT !.pc = "repoint"]
<1>1. work[p] \in Work /\ Fits(work[p], Len(oplog)) /\ work[p].pc = "recreate"
  BY Known DEF Recreate
<1>2. work' = [work EXCEPT ![p] = w] BY DEF Recreate
<1>3. w \in Work BY <1>1 DEF Work, Phases
<1>4. Fits(w, Len(oplog)) BY <1>1 DEF Fits, Work, Replaying, Handling, Handles
<1> HIDE DEF w
<1>5. work' \in [Procs -> Work] /\ WorkOK'
  BY <1>2, <1>3, <1>4, OneMovesQuietly DEF Recreate
<1>6. work[p].copy \in Copies BY <1>1 DEF Fits
<1>7. strays' \in [Copies -> Int] BY <1>6 DEF Recreate, IInv, TypeOK
<1>8. TypeOK' BY <1>5, <1>7 DEF Recreate, IInv, TypeOK
<1>9. QED BY <1>5, <1>8 DEF Recreate, IInv, LogOK

\* The link is pointed at the row made anew.
LEMMA RepointKeeps ==
  ASSUME IInv, NEW p \in Procs, Repoint(p)
  PROVE  IInv'
<1> DEFINE w == [work[p] EXCEPT !.pc = Settled(work[p])]
           op == work[p].ops[1]
           c == work[p].copy
<1>1. work[p] \in Work /\ Fits(work[p], Len(oplog)) /\ work[p].pc = "repoint"
  BY Known DEF Repoint
<1>2. work' = [work EXCEPT ![p] = w] BY DEF Repoint
<1>3. w \in Work BY <1>1 DEF Work, Phases, Settled
<1>4. Fits(w, Len(oplog)) BY <1>1 DEF Fits, Work, Replaying, Handling, Handles, Settled
<1> HIDE DEF w
<1>5. work' \in [Procs -> Work] /\ WorkOK'
  BY <1>2, <1>3, <1>4, OneMovesQuietly DEF Repoint
<1>6. c \in Copies /\ op \in Op
  BY <1>1, ElementOfSeq, LenProperties DEF Fits, Handling, Handles, Work
<1>7. op.val \in Values \cup {None} BY <1>6 DEF Op
<1>8. book' \in [Copies -> [Rows -> Values \cup {None}]]
  <2>1. book \in [Copies -> [Rows -> Values \cup {None}]] BY DEF IInv, TypeOK
  <2>2. op.row \in Rows =>
          (IF op.row \in linked[c] THEN op.val ELSE book[c][op.row]) \in Values \cup {None}
    BY <1>6, <1>7, <2>1
  <2>3. book' = [book EXCEPT ![c][op.row] =
                   IF op.row \in linked[c] THEN op.val ELSE book[c][op.row]]
    BY DEF Repoint
  <2> HIDE DEF c, op
  <2>4. QED BY <2>1, <2>2, <2>3
<1>9. strays' \in [Copies -> Int] BY <1>6 DEF Repoint, IInv, TypeOK
<1>10. TypeOK' BY <1>5, <1>8, <1>9 DEF Repoint, IInv, TypeOK
<1>11. QED BY <1>5, <1>10 DEF Repoint, IInv, LogOK

\* A created row is linked, or the unique link is taken.
LEMMA LinkKeeps ==
  ASSUME IInv, NEW p \in Procs, Link(p)
  PROVE  IInv'
<1> DEFINE c == work[p].copy
           op == work[p].ops[work[p].done + 1]
<1>1. work[p] \in Work /\ Fits(work[p], Len(oplog)) /\ work[p].pc = "link"
  BY Known DEF Link
<1>2. work[p].done + 1 \in 1 .. Len(work[p].ops) /\ c \in Copies
  BY <1>1, LenProperties DEF Fits, Work
<1>3. op \in Op /\ op.row \in Rows
  BY <1>1, <1>2, ElementOfSeq DEF Fits, Work, Handling, Handles
<1>4. CASE op.row \in linked[c] /\ Fails(p) /\ UNCHANGED <<linked, book, strays>>
  <2>1. /\ work' \in [Procs -> Work] /\ WorkOK'
        /\ holder' \in Procs \cup {None} /\ tainted' \in SUBSET Copies
    BY <1>1, <1>4, FailsFits DEF Link
  <2>2. TypeOK' BY <1>4, <2>1 DEF Link, IInv, TypeOK
  <2>3. QED BY <2>1, <2>2 DEF Link, IInv, LogOK
<1>5. CASE /\ op.row \notin linked[c]
           /\ linked' = [linked EXCEPT ![c] = @ \cup {op.row}]
           /\ book' = [book EXCEPT ![c][op.row] = op.val]
           /\ strays' = [strays EXCEPT ![c] = @ - 1]
           /\ work' = [work EXCEPT ![p].done = @ + 1,
                         ![p].pc = IF AllLinked(work[p]) THEN Settled(work[p]) ELSE "link"]
           /\ UNCHANGED <<holder, tainted>>
  <2> DEFINE w == [work[p] EXCEPT !.done = @ + 1,
                     !.pc = IF AllLinked(work[p]) THEN Settled(work[p]) ELSE "link"]
  <2>1. work' = [work EXCEPT ![p] = w] BY <1>5
  <2>2. w \in Work
    <3>1. work[p].done + 1 \in Nat BY <1>1 DEF Work
    <3>2. (IF AllLinked(work[p]) THEN Settled(work[p]) ELSE "link") \in Phases
      BY DEF Settled, Phases
    <3>3. QED BY <1>1, <3>1, <3>2 DEF Work
  <2>3. Fits(w, Len(oplog))
    <3>1. Len(work[p].ops) \in Nat BY <1>1, LenProperties DEF Work
    <3>2. QED BY <1>1, <1>2, <3>1
            DEF Fits, Work, Replaying, Handling, Handles, Settled, AllLinked
  <2> HIDE DEF w
  <2>4. work' \in [Procs -> Work] /\ WorkOK'
    BY <2>1, <2>2, <2>3, OneMovesQuietly DEF Link
  <2>5. book' \in [Copies -> [Rows -> Values \cup {None}]]
    BY <1>2, <1>3, <1>5, BookKeepsType DEF Op
  <2>6. linked' \in [Copies -> SUBSET Rows] /\ strays' \in [Copies -> Int]
    <3>1. linked \in [Copies -> SUBSET Rows] /\ strays \in [Copies -> Int]
      BY DEF IInv, TypeOK
    <3>2. c \in Copies /\ op.row \in Rows BY <1>2, <1>3
    <3> HIDE DEF c, op
    <3>3. linked[c] \cup {op.row} \in SUBSET Rows /\ strays[c] - 1 \in Int BY <3>1, <3>2
    <3>4. QED BY <1>5, <3>1, <3>2, <3>3
  <2>7. TypeOK' BY <1>5, <2>4, <2>5, <2>6 DEF Link, IInv, TypeOK
  <2>8. QED BY <2>4, <2>7 DEF Link, IInv, LogOK
<1>6. QED BY <1>4, <1>5 DEF Link

\* The link of a deleted row goes.
LEMMA UnlinkKeeps ==
  ASSUME IInv, NEW p \in Procs, Unlink(p)
  PROVE  IInv'
<1> DEFINE w == [work[p] EXCEPT !.pc = Settled(work[p])]
           c == work[p].copy
<1>1. work[p] \in Work /\ Fits(work[p], Len(oplog)) /\ work[p].pc = "unlink"
  BY Known DEF Unlink
<1>2. work' = [work EXCEPT ![p] = w] BY DEF Unlink
<1>3. w \in Work BY <1>1 DEF Work, Phases, Settled
<1>4. Fits(w, Len(oplog)) BY <1>1 DEF Fits, Work, Replaying, Handling, Handles, Settled
<1> HIDE DEF w
<1>5. work' \in [Procs -> Work] /\ WorkOK'
  BY <1>2, <1>3, <1>4, OneMovesQuietly DEF Unlink
<1>6. c \in Copies BY <1>1 DEF Fits
<1>7. book' \in [Copies -> [Rows -> Values \cup {None}]]
  BY <1>6, BookKeepsType DEF Unlink
<1>8. linked' \in [Copies -> SUBSET Rows] /\ strays' \in [Copies -> Int]
  BY <1>6 DEF Unlink, IInv, TypeOK
<1>9. TypeOK' BY <1>5, <1>7, <1>8 DEF Unlink, IInv, TypeOK
<1>10. QED BY <1>5, <1>9 DEF Unlink, IInv, LogOK

\* The watermark follows the op just applied, which is in the log.
LEMMA BumpKeeps ==
  ASSUME IInv, NEW p \in Procs, Bump(p)
  PROVE  IInv'
<1> DEFINE w == [work[p] EXCEPT !.pc = "apply", !.at = @ + 1, !.ops = <<>>, !.done = 0]
<1>1. /\ work[p] \in Work /\ Fits(work[p], Len(oplog)) /\ Len(oplog) \in Nat
      /\ work[p].pc = "bump"
  BY Known DEF Bump
<1>2. work' = [work EXCEPT ![p] = w] BY DEF Bump
<1>3. w \in Work
  <2>1. work[p].at + 1 \in Nat /\ <<>> \in Seq(Op) /\ 0 \in Nat
    BY <1>1, EmptySeq DEF Work
  <2>2. QED BY <1>1, <2>1 DEF Work, Phases
<1>4. Fits(w, Len(oplog)) BY <1>1 DEF Fits, Work, Replaying, Handling
<1> HIDE DEF w
<1>5. work' \in [Procs -> Work] /\ WorkOK'
  BY <1>2, <1>3, <1>4, OneMovesQuietly DEF Bump
<1>6. TypeOK' BY <1>1, <1>5 DEF Bump, IInv, TypeOK, Raised, Work
<1>7. LogOK' BY <1>1 DEF Bump, IInv, TypeOK, LogOK, Raised, Fits, Work, Replaying
<1>8. QED BY <1>5, <1>6, <1>7 DEF IInv

-----------------------------------------------------------------------------
(* The replicate job. *)

\* A worker takes a job over with the attempts it has left.
LEMMA JobPickKeeps ==
  ASSUME IInv, NEW p \in Procs, JobPick(p)
  PROVE  IInv'
<1> DEFINE w == [Idle EXCEPT !.job = "replicate", !.pc = "sweep", !.sweep = Lagging,
                             !.tries = queue]
<1>1. Len(oplog) \in Nat /\ Attempts \in Nat BY Known
<1>2. Lagging \in SUBSET Copies BY DEF Lagging, Active
<1>3. queue \in 1 .. Attempts BY <1>1 DEF JobPick, IInv, TypeOK
<1>4. work' = [work EXCEPT ![p] = w] BY DEF JobPick
<1>5. w \in Work
  <2>1. Idle \in Work /\ queue \in 0 .. Attempts BY <1>1, <1>3, IdleFits
  <2>2. QED BY <1>2, <2>1 DEF Work, Jobs, Phases
<1>6. Fits(w, Len(oplog)) BY <1>1, <1>3 DEF Idle, Fits, Handling, Replaying
<1> HIDE DEF w
<1>7. work' \in [Procs -> Work] /\ WorkOK'
  BY <1>4, <1>5, <1>6, OneMovesQuietly DEF JobPick
<1>8. TypeOK' BY <1>1, <1>7 DEF JobPick, IInv, TypeOK, copyVars
<1>9. QED BY <1>7, <1>8 DEF JobPick, IInv, LogOK, copyVars

\* Under the lock a job loads the ops a copy lacks.
LEMMA VisitKeeps ==
  ASSUME IInv, NEW p \in Procs, Visit(p)
  PROVE  IInv'
<1>1. /\ work[p] \in Work /\ Fits(work[p], Len(oplog)) /\ Len(oplog) \in Nat
      /\ work[p].pc = "sweep"
  BY Known DEF Visit
<1>2. PICK c \in work[p].sweep :
        \/ \E d \in Membership(c) :
             /\ holder' = p
             /\ work' = [work EXCEPT ![p].pc = "apply", ![p].copy = d,
                                     ![p].at = applied[d], ![p].upto = Len(oplog),
                                     ![p].sweep = @ \ {c}]
        \/ /\ work' = [work EXCEPT ![p].sweep = @ \ {c}]
           /\ UNCHANGED holder
  BY DEF Visit
<1>5. ASSUME NEW d \in Membership(c), holder' = p,
             work' = [work EXCEPT ![p].pc = "apply", ![p].copy = d,
                                  ![p].at = applied[d], ![p].upto = Len(oplog),
                                  ![p].sweep = @ \ {c}]
      PROVE  IInv'
  <2> DEFINE w == [work[p] EXCEPT !.pc = "apply", !.copy = d, !.at = applied[d],
                                  !.upto = Len(oplog), !.sweep = @ \ {c}]
  <2>1. d \in Copies BY DEF Membership, Active
  <2>2. applied[d] \in Nat /\ applied[d] <= Len(oplog)
    BY <2>1 DEF IInv, TypeOK, LogOK
  <2>3. work' = [work EXCEPT ![p] = w] BY <1>5
  <2>4. w \in Work BY <1>1, <2>1, <2>2 DEF Work, Phases
  <2>5. Fits(w, Len(oplog)) BY <1>1, <2>1, <2>2 DEF Fits, Work, Handling
  <2> HIDE DEF w
  <2>6. work' \in [Procs -> Work] /\ WorkOK'
    BY <2>3, <2>4, <2>5, OneMovesQuietly DEF Visit
  <2>7. TypeOK' BY <1>5, <2>6 DEF Visit, IInv, TypeOK, copyVars
  <2>8. QED BY <2>6, <2>7 DEF Visit, IInv, LogOK, copyVars
<1>6. CASE /\ work' = [work EXCEPT ![p].sweep = @ \ {c}]
           /\ UNCHANGED holder
  <2> DEFINE w == [work[p] EXCEPT !.sweep = @ \ {c}]
  <2>1. work' = [work EXCEPT ![p] = w] BY <1>6
  <2>2. w \in Work BY <1>1 DEF Work
  <2>3. Fits(w, Len(oplog)) BY <1>1 DEF Fits, Work, Handling, Replaying
  <2> HIDE DEF w
  <2>4. work' \in [Procs -> Work] /\ WorkOK'
    BY <2>1, <2>2, <2>3, OneMovesQuietly DEF Visit
  <2>5. TypeOK' BY <1>6, <2>4 DEF Visit, IInv, TypeOK, copyVars
  <2>6. QED BY <2>4, <2>5 DEF Visit, IInv, LogOK, copyVars
<1>7. QED BY <1>2, <1>5, <1>6

\* A job is through with one copy.
LEMMA VisitDoneKeeps ==
  ASSUME IInv, NEW p \in Procs, VisitDone(p)
  PROVE  IInv'
<1> DEFINE S == work[p].sweep
           w == [Idle EXCEPT !.job = "replicate", !.pc = "sweep", !.sweep = S,
                             !.failed = work[p].failed, !.tries = work[p].tries]
<1>1. /\ work[p] \in Work /\ Fits(work[p], Len(oplog)) /\ Len(oplog) \in Nat
      /\ work[p].job = "replicate"
  BY Known DEF VisitDone
<1>2. /\ S \in SUBSET Copies /\ work[p].failed \in BOOLEAN
      /\ work[p].tries \in 1 .. Attempts
  BY <1>1 DEF Work, Fits
<1>3. work' = [work EXCEPT ![p] = w] BY DEF VisitDone
<1> HIDE DEF S
<1>4. w \in Work /\ Fits(w, Len(oplog)) BY <1>1, <1>2, SweepFits
<1> HIDE DEF w
<1>5. work' \in [Procs -> Work] /\ WorkOK'
  BY <1>3, <1>4, OneMovesQuietly DEF VisitDone
<1>6. TypeOK' BY <1>5 DEF VisitDone, IInv, TypeOK, copyVars, Released
<1>7. QED BY <1>5, <1>6 DEF VisitDone, IInv, LogOK, copyVars

\* A job ends; what it leaves queued is within the attempts.
LEMMA JobDoneKeeps ==
  ASSUME IInv, NEW p \in Procs, JobDone(p)
  PROVE  IInv'
<1>1. /\ work[p] \in Work /\ Fits(work[p], Len(oplog)) /\ Len(oplog) \in Nat
      /\ work[p].pc = "sweep" /\ Attempts \in Nat
  BY Known DEF JobDone
<1>2. work[p].tries \in 1 .. Attempts BY <1>1 DEF Fits
<1>3. Again(work[p]) \in 0 .. Attempts BY <1>1, <1>2 DEF Again
<1>4. work' = [work EXCEPT ![p] = Idle] BY DEF JobDone
<1>5. work' \in [Procs -> Work] /\ WorkOK'
  BY <1>1, <1>4, IdleFits, OneMovesQuietly DEF JobDone
<1>6. TypeOK' BY <1>3, <1>5 DEF JobDone, IInv, TypeOK, copyVars
<1>7. QED BY <1>5, <1>6 DEF JobDone, IInv, LogOK, copyVars

-----------------------------------------------------------------------------
(* A member's write. *)

\* A member's write begins.
LEMMA SubmitStartKeeps ==
  ASSUME IInv, NEW p \in Procs, SubmitStart(p)
  PROVE  IInv'
<1>1. Len(oplog) \in Nat /\ Idle \in Work /\ p \in Procs
  BY Known, IdleFits
<1>2. PICK c \in Active :
        work' = [work EXCEPT ![p] = [Idle EXCEPT !.job = "submit", !.pc = FirstPhase(c),
                   !.copy = c, !.member = c, !.at = applied[c], !.upto = Len(oplog)]]
  BY DEF SubmitStart
<1> DEFINE w == [Idle EXCEPT !.job = "submit", !.pc = FirstPhase(c), !.copy = c,
                             !.member = c, !.at = applied[c], !.upto = Len(oplog)]
<1>3. c \in Copies /\ applied[c] \in Nat /\ applied[c] <= Len(oplog)
  BY <1>2 DEF Active, IInv, TypeOK, LogOK
<1>4. w \in Work BY <1>1, <1>3 DEF Work, Jobs, Phases, FirstPhase
<1>5. Fits(w, Len(oplog))
  BY <1>1, <1>3 DEF Fits, Idle, Handling, FirstPhase, Replaying
<1>6. work' = [work EXCEPT ![p] = w] BY <1>2
<1> HIDE DEF w
<1>7. work' \in [Procs -> Work] /\ WorkOK'
  BY <1>4, <1>5, <1>6, OneMovesQuietly DEF SubmitStart
<1>8. TypeOK' BY <1>7 DEF SubmitStart, IInv, TypeOK, copyVars
<1>9. QED BY <1>7, <1>8 DEF SubmitStart, IInv, LogOK, copyVars

\* Who caught up is still a member, with whatever copy, or the write is refused.
LEMMA CaughtUpKeeps ==
  ASSUME IInv, NEW p \in Procs, CaughtUp(p)
  PROVE  IInv'
<1>1. /\ work[p] \in Work /\ Fits(work[p], Len(oplog))
      /\ work[p].pc = "apply" /\ ~Replaying(work[p])
  BY Known DEF CaughtUp
<1>2. ASSUME NEW d \in Membership(work[p].copy), UNCHANGED <<holder, tainted>>,
             work' = [work EXCEPT ![p].pc = "choose", ![p].member = d]
      PROVE  IInv'
  <2> DEFINE w == [work[p] EXCEPT !.pc = "choose", !.member = d]
  <2>0. d \in Copies /\ UserOf[d] = UserOf[work[p].copy] BY DEF Membership, Active
  <2>1. work' = [work EXCEPT ![p] = w] BY <1>2
  <2>2. w \in Work BY <1>1, <2>0 DEF Work, Phases
  <2>3. Fits(w, Len(oplog))
    BY <1>1, <2>0 DEF CaughtUp, Fits, Work, Handling, Replaying
  <2> HIDE DEF w
  <2>4. work' \in [Procs -> Work] /\ WorkOK'
    BY <2>1, <2>2, <2>3, OneMovesQuietly DEF CaughtUp
  <2>5. TypeOK' BY <1>2, <2>4 DEF CaughtUp, IInv, TypeOK, copyVars
  <2>6. QED BY <2>4, <2>5 DEF CaughtUp, IInv, LogOK, copyVars
<1>3. CASE Fails(p)
  <2>1. /\ work' \in [Procs -> Work] /\ WorkOK'
        /\ holder' \in Procs \cup {None} /\ tainted' \in SUBSET Copies
    BY <1>1, <1>3, FailsFits DEF CaughtUp
  <2>2. TypeOK' BY <2>1 DEF CaughtUp, IInv, TypeOK, copyVars
  <2>3. QED BY <2>1, <2>2 DEF CaughtUp, IInv, LogOK, copyVars
<1>4. QED BY <1>2, <1>3 DEF CaughtUp

\* A member creates rows: the ops it then has in hand are its own creates.
LEMMA ChooseCreateKeeps ==
  ASSUME IInv, NEW p \in Procs, ChooseCreate(p)
  PROVE  IInv'
<1>1. /\ work[p] \in Work /\ Fits(work[p], Len(oplog))
      /\ work[p].pc = "choose" /\ ~Replaying(work[p]) /\ work[p].copy \in Copies
  BY Known DEF ChooseCreate, Fits
<1>2. PICK s \in OwnSources(work[p].copy), v \in Values, new \in SUBSET (Rows \ minted) :
        /\ Cardinality(new) \in 1 .. MaxBatch
        /\ minted' = minted \cup new
        /\ \E ops \in [1 .. Cardinality(new) -> {CreateOp(work[p].copy, r, v, s) : r \in new}] :
             Goes(p, "act", ops)
  BY DEF ChooseCreate
<1>3. PICK ops \in [1 .. Cardinality(new) -> {CreateOp(work[p].copy, r, v, s) : r \in new}] :
        Goes(p, "act", ops)
  BY <1>2
<1>4. s \in Sources \cup {None} /\ Cardinality(new) \in Nat \ {0}
  BY <1>2, ReplicationAssumption DEF OwnSources
<1>5. \A r \in new : CreateOp(work[p].copy, r, v, s) \in Op
  BY <1>1, <1>4 DEF Op, Kinds, CreateOp
<1>6. ops \in [1 .. Cardinality(new) -> Op] BY <1>3, <1>5
<1>7. ops \in Seq(Op) /\ Len(ops) = Cardinality(new)
  BY <1>4, <1>6
<1>8. \A i \in 1 .. Len(ops) :
        ops[i].kind = "create" /\ ops[i].row \in Rows /\ ops[i].by = work[p].copy
  BY <1>3, <1>7 DEF CreateOp
<1>9. work[p].job # "depart" BY <1>1 DEF Fits
<1>10. Handles(work[p], ops) BY <1>4, <1>7, <1>8, <1>9 DEF Handles
<1>11. work' \in [Procs -> Work] /\ WorkOK'
  BY <1>1, <1>3, <1>7, <1>10, GoesFits DEF ChooseCreate
<1>12. minted' \in SUBSET Rows BY <1>2 DEF IInv, TypeOK
<1>13. TypeOK' BY <1>11, <1>12 DEF ChooseCreate, IInv, TypeOK, copyVars
<1>14. QED BY <1>11, <1>13 DEF ChooseCreate, IInv, LogOK, copyVars

\* A record that makes one edit for its user fits.
LEMMA EditFits ==
  ASSUME NEW w \in Work, NEW n \in Nat, NEW op \in Op, op.row \in Rows,
         w.pc = "act", w.job = "submit", w.copy \in Copies, w.ops = <<op>>,
         UserOf[op.by] = UserOf[w.copy], w.member \in Copies,
         UserOf[w.member] = UserOf[w.copy], w.at <= n, w.upto <= n, ~Replaying(w)
  PROVE  Fits(w, n)
<1>1. Len(w.ops) = 1 /\ w.ops[1] = op OBVIOUS
<1>2. Handles(w, w.ops) BY <1>1 DEF Handles
<1>3. QED BY <1>2 DEF Fits

\* A member edits or deletes a row: one op of its own.
LEMMA ChooseEditKeeps ==
  ASSUME IInv, NEW p \in Procs, ChooseEdit(p)
  PROVE  IInv'
<1>1. /\ work[p] \in Work /\ Fits(work[p], Len(oplog)) /\ Len(oplog) \in Nat
      /\ work[p].pc = "choose" /\ ~Replaying(work[p]) /\ work[p].copy \in Copies
  BY Known DEF ChooseEdit, Fits
<1> DEFINE c == work[p].copy
           Edits(r, b) == {UpdateOp(c, r, v, s, b) : v \in Values, s \in OwnSources(c)}
                          \cup {DeleteOp(c, r, b)}
<1>2. PICK r \in linked[c], b \in 0 .. Len(oplog) :
        \E op \in Edits(r, b) : \E d \in Places(work[p], op) : EditsIn(p, d, <<op>>)
  <2>1. PICK r \in linked[c], b \in 0 .. Len(oplog) :
          /\ book[c][r] # None
          /\ \E op \in Edits(r, b) :
               /\ op.kind = "delete" => r \notin Sources
               /\ op.kind = "update" => (op.src # None <=> r \in Moves)
               /\ Current(oplog, op)
               /\ \E d \in Places(work[p], op) : EditsIn(p, d, <<op>>)
    BY DEF ChooseEdit
  <2> HIDE DEF Edits
  <2>2. QED BY <2>1
<1>3. PICK op \in Edits(r, b) : \E d \in Places(work[p], op) : EditsIn(p, d, <<op>>)
  <2> HIDE DEF Edits
  <2>1. QED BY <1>2
<1>4. r \in Rows /\ b \in Nat BY <1>1, <1>2 DEF IInv, TypeOK
<1>5. op \in Op /\ op.row \in Rows /\ op.by = c
  <2>1. CASE op = DeleteOp(c, r, b) BY <1>1, <1>4, <2>1 DEF DeleteOp, Op, Kinds
  <2>2. CASE op \in {UpdateOp(c, r, v, s, b) : v \in Values, s \in OwnSources(c)}
    <3>1. PICK v \in Values, s \in OwnSources(c) : op = UpdateOp(c, r, v, s, b) BY <2>2
    <3>2. s \in Sources \cup {None} BY DEF OwnSources
    <3>3. QED BY <1>1, <1>4, <3>1, <3>2 DEF UpdateOp, Op, Kinds
  <2>3. QED BY <1>3, <2>1, <2>2
<1>6. <<op>> \in Seq(Op) /\ Len(<<op>>) = 1 /\ <<op>>[1] = op BY <1>5
<1>7. PICK d \in Places(work[p], op) : EditsIn(p, d, <<op>>) BY <1>3
<1>8. d \in Copies /\ UserOf[d] = UserOf[c] BY <1>1 DEF Places, Fits
<1>9. work' \in [Procs -> Work] /\ WorkOK'
  <2>1. UNCHANGED oplog BY DEF ChooseEdit
  <2> HIDE DEF Edits
  <2> DEFINE ops == <<op>>
             w == [work[p] EXCEPT !.pc = "act", !.copy = d, !.ops = ops, !.done = 0]
  <2>2. ops \in Seq(Op) /\ Len(ops) = 1 /\ \A i \in 1 .. Len(ops) : ops[i] = op BY <1>6
  <2>9. EditsIn(p, d, ops) BY <1>7
  <2> HIDE DEF ops
  <2>3. work' = [work EXCEPT ![p] = w] BY <2>9 DEF EditsIn
  <2>4. w \in Work BY <1>1, <1>8, <2>2 DEF Work, Phases
  <2>5. /\ w.pc = "act" /\ w.copy = d /\ w.ops = ops /\ w.job = "submit"
        /\ w.member = work[p].member /\ w.at = work[p].at /\ w.upto = work[p].upto
    BY <1>1 DEF Work, Fits
  <2> HIDE DEF w
  <2>6. ~Replaying(w) /\ w.at <= Len(oplog) /\ w.upto <= Len(oplog)
    BY <1>1, <2>5 DEF Replaying, Fits
  <2>10. /\ UserOf[op.by] = UserOf[d] /\ work[p].member \in Copies
         /\ UserOf[work[p].member] = UserOf[d]
    BY <1>1, <1>5, <1>8 DEF Fits
  <2>11. w.ops = <<op>> BY <2>5 DEF ops
  <2>12. op \in Op /\ op.row \in Rows /\ Len(oplog) \in Nat BY <1>1, <1>5
  <2> HIDE DEF c
  <2>7. Fits(w, Len(oplog)) BY <1>8, <2>4, <2>5, <2>6, <2>10, <2>11, <2>12, EditFits
  <2>8. QED BY <2>1, <2>3, <2>4, <2>7, OneMovesQuietly
<1>10. TypeOK' BY <1>9 DEF ChooseEdit, IInv, TypeOK, copyVars
<1>11. QED BY <1>9, <1>10 DEF ChooseEdit, IInv, LogOK, copyVars

\* An error anywhere, and a write the services refuse.
LEMMA FailureKeeps ==
  ASSUME IInv, NEW p \in Procs, work[p].pc # "idle", Fails(p), faults' \in Nat,
         UNCHANGED <<oplog, copyVars, minted, queue, lapses>>
  PROVE  IInv'
<1>1. /\ work' \in [Procs -> Work] /\ WorkOK'
      /\ holder' \in Procs \cup {None} /\ tainted' \in SUBSET Copies
  BY FailsFits
<1>2. TypeOK' BY <1>1 DEF IInv, TypeOK, copyVars
<1>3. QED BY <1>1, <1>2 DEF IInv, LogOK, copyVars

\* Appended ops are ops about rows or events, and nobody's work fits less.
LEMMA AppendOpsKeeps ==
  ASSUME IInv, NEW p \in Procs, AppendOps(p)
  PROVE  IInv'
<1>1. /\ work[p] \in Work /\ Fits(work[p], Len(oplog)) /\ Len(oplog) \in Nat
      /\ work[p].pc = "append" /\ oplog \in Seq(Op)
  BY Known DEF AppendOps
<1> DEFINE ops == work[p].ops
<1>2. ops \in Seq(Op) /\ Len(ops) \in Nat /\ Handles(work[p], ops)
  BY <1>1, LenProperties DEF Work, Fits, Handling
<1>3. CASE ~Accepted(work[p]) /\ Fails(p) /\ UNCHANGED oplog
  BY <1>1, <1>3, FailureKeeps DEF AppendOps, IInv, TypeOK
<1>4. CASE /\ oplog' = oplog \o ops
           /\ work' = [work EXCEPT ![p].pc = IF work[p].job = "submit" THEN "ack" ELSE "finish",
                         ![p].at = Len(oplog'), ![p].upto = Len(oplog'),
                         ![p].ops = <<>>, ![p].done = 0]
           /\ UNCHANGED <<holder, tainted>>
  <2> DEFINE w == [work[p] EXCEPT !.pc = IF work[p].job = "submit" THEN "ack" ELSE "finish",
                     !.at = Len(oplog'), !.upto = Len(oplog'), !.ops = <<>>, !.done = 0]
  <2>1. /\ oplog' \in Seq(Op) /\ Len(oplog') = Len(oplog) + Len(ops)
        /\ \A i \in 1 .. Len(oplog') :
             oplog'[i] = IF i <= Len(oplog) THEN oplog[i] ELSE ops[i - Len(oplog)]
    BY <1>1, <1>2, <1>4, ConcatProperties
  <2>2. Len(oplog') \in Nat /\ Len(oplog) <= Len(oplog') BY <1>1, <1>2, <2>1
  <2>3. work' = [work EXCEPT ![p] = w] BY <1>4
  <2>4. w \in Work
    <3>1. <<>> \in Seq(Op) BY EmptySeq
    <3>2. QED BY <1>1, <2>2, <3>1 DEF Work, Phases
  <2>5. Fits(w, Len(oplog')) BY <1>1, <2>2 DEF Fits, Work, Handling
  <2>6. work' \in [Procs -> Work] /\ WorkOK'
    <3>1. TypeOK /\ WorkOK BY DEF IInv
    <3> HIDE DEF w
    <3>2. QED BY <2>1, <2>2, <2>3, <2>4, <2>5, <3>1, OneMoves
  <2>7. TypeOK' BY <1>4, <2>1, <2>6 DEF AppendOps, IInv, TypeOK, copyVars
  <2>8. LogOK'
    <3>1. ASSUME NEW i \in 1 .. Len(oplog'), oplog'[i].kind # "chain"
          PROVE  oplog'[i].row \in Rows
      <4>1. CASE i <= Len(oplog)
        BY <1>1, <2>1, <2>2, <3>1, <4>1 DEF IInv, LogOK
      <4>2. CASE i > Len(oplog)
        <5>1. i - Len(oplog) \in 1 .. Len(ops) BY <1>1, <1>2, <2>1, <4>2
        <5>2. oplog'[i] = ops[i - Len(oplog)] BY <1>1, <2>1, <4>2
        <5>3. QED BY <1>2, <3>1, <5>1, <5>2 DEF Handles
      <4>3. QED BY <1>1, <4>1, <4>2
    <3>2. \A c \in Copies : applied'[c] <= Len(oplog')
      BY <1>1, <2>2 DEF AppendOps, copyVars, IInv, LogOK, TypeOK
    <3>3. UNCHANGED status BY DEF AppendOps, copyVars
    <3>4. QED BY <3>1, <3>2, <3>3 DEF IInv, LogOK
  <2>9. QED BY <2>6, <2>7, <2>8 DEF IInv
<1>5. QED BY <1>3, <1>4 DEF AppendOps

\* The watermark jumps to a seq that the log has.
LEMMA AckKeeps ==
  ASSUME IInv, NEW p \in Procs, Ack(p)
  PROVE  IInv'
<1> DEFINE w == [work[p] EXCEPT !.pc = "finish"]
<1>1. /\ work[p] \in Work /\ Fits(work[p], Len(oplog)) /\ Len(oplog) \in Nat
      /\ work[p].pc = "ack"
  BY Known DEF Ack
<1>2. work' = [work EXCEPT ![p] = w] BY DEF Ack
<1>3. w \in Work BY <1>1 DEF Work, Phases
<1>4. Fits(w, Len(oplog)) BY <1>1 DEF Fits, Work, Replaying, Handling
<1> HIDE DEF w
<1>5. work' \in [Procs -> Work] /\ WorkOK'
  BY <1>2, <1>3, <1>4, OneMovesQuietly DEF Ack
<1>6. TypeOK' BY <1>1, <1>5 DEF Ack, IInv, TypeOK, Raised, Work
<1>7. LogOK' BY <1>1 DEF Ack, IInv, TypeOK, LogOK, Raised, Fits, Work
<1>8. QED BY <1>5, <1>6, <1>7 DEF IInv

\* A request ends.
LEMMA FinishKeeps ==
  ASSUME IInv, NEW p \in Procs, Finish(p)
  PROVE  IInv'
<1>1. Len(oplog) \in Nat /\ Attempts \in Nat BY Known
<1>2. work' = [work EXCEPT ![p] = Idle] BY DEF Finish
<1>3. work' \in [Procs -> Work] /\ WorkOK'
  BY <1>1, <1>2, IdleFits, OneMovesQuietly DEF Finish
<1>4. queue' \in 0 .. Attempts /\ faults' \in Nat
  BY <1>1 DEF Finish, IInv, TypeOK
<1>5. TypeOK' BY <1>3, <1>4 DEF Finish, IInv, TypeOK, copyVars, Released
<1>6. QED BY <1>3, <1>5 DEF Finish, IInv, LogOK, copyVars

-----------------------------------------------------------------------------
(* Membership and faults. *)

\* A process that holds the lock goes on to append its membership op.
LEMMA EventFits ==
  ASSUME NEW n \in Nat, NEW c \in Copies, NEW job \in {"join", "depart"}, NEW w,
         w = [Idle EXCEPT !.job = job, !.pc = "append", !.copy = c, !.ops = <<ChainOp(c)>>]
  PROVE  w \in Work /\ Fits(w, n)
<1>1. Idle \in Work BY IdleFits
<1>2. ChainOp(c) \in Op BY DEF ChainOp, Op, Kinds
<1>3. <<ChainOp(c)>> \in Seq(Op) BY <1>2
<1>4. w \in Work BY <1>1, <1>3 DEF Work, Jobs, Phases
<1>5. /\ w.at = 0 /\ w.upto = 0 /\ w.pc = "append" /\ w.job = job
      /\ w.copy = c /\ w.ops = <<ChainOp(c)>>
  BY DEF Idle
<1>6. Handles(w, w.ops)
  <2> DEFINE op == ChainOp(c)
  <2>1. op.kind = "chain" /\ op.by = c BY DEF ChainOp
  <2> HIDE DEF op
  <2>2. w.ops = <<op>> BY <1>5 DEF op
  <2>3. QED BY <1>5, <2>1, <2>2 DEF Handles
<1>7. Fits(w, n) BY <1>5, <1>6 DEF Fits, Handling, Replaying
<1>8. QED BY <1>4, <1>7

\* A member joins.
LEMMA JoinKeeps ==
  ASSUME IInv, NEW p \in Procs, Join(p)
  PROVE  IInv'
<1>1. Len(oplog) \in Nat BY Known
<1>2. PICK c \in Copies :
        /\ Membership(c) = {}
        /\ status' = [status EXCEPT ![c] = "active"]
        /\ linked' = [linked EXCEPT ![c] = {Main}]
        /\ book' = [book EXCEPT ![c][Main] = DefaultName]
        /\ work' = [work EXCEPT ![p] = [Idle EXCEPT !.job = "join", !.pc = "append",
                                           !.copy = c, !.ops = <<ChainOp(c)>>]]
  BY DEF Join
<1> DEFINE w == [Idle EXCEPT !.job = "join", !.pc = "append", !.copy = c,
                             !.ops = <<ChainOp(c)>>]
<1>3. work' = [work EXCEPT ![p] = w] BY <1>2
<1>4. w \in Work /\ Fits(w, Len(oplog)) BY <1>1, EventFits
<1> HIDE DEF w
<1>5. work' \in [Procs -> Work] /\ WorkOK'
  BY <1>3, <1>4, OneMovesQuietly DEF Join
<1>6. Main \in Rows /\ DefaultName \in Values
  BY RowsAssumption, ReplicationAssumption DEF Rows
<1>7. book' \in [Copies -> [Rows -> Values \cup {None}]]
  BY <1>2, <1>6, BookKeepsType
<1>8. /\ status' \in [Copies -> {"out", "active", "ended"}]
      /\ linked' \in [Copies -> SUBSET Rows]
  BY <1>2, <1>6 DEF IInv, TypeOK
<1>9. TypeOK' BY <1>5, <1>7, <1>8 DEF Join, IInv, TypeOK
<1>10. LogOK'
  <2>1. \A d \in Copies : status[d] = "active" => UserOf[d] # UserOf[c]
    BY <1>2 DEF Membership, Active
  <2>2. \A d \in Copies \ {c} : status'[d] = status[d]
    BY <1>2 DEF IInv, TypeOK
  <2>3. \A d, e \in Copies :
          status'[d] = "active" /\ status'[e] = "active" /\ UserOf[d] = UserOf[e] => d = e
    BY <2>1, <2>2 DEF IInv, LogOK
  <2>4. QED BY <2>3 DEF Join, IInv, LogOK
<1>11. QED BY <1>5, <1>9, <1>10 DEF IInv

\* A member leaves or is removed.
LEMMA DepartKeeps ==
  ASSUME IInv, NEW p \in Procs, Depart(p)
  PROVE  IInv'
<1>1. Len(oplog) \in Nat BY Known
<1>2. PICK c \in Active :
        /\ status' = [status EXCEPT ![c] = "ended"]
        /\ work' = [work EXCEPT ![p] = [Idle EXCEPT !.job = "depart", !.pc = "append",
                                           !.copy = c, !.ops = <<ChainOp(c)>>]]
  BY DEF Depart
<1> DEFINE w == [Idle EXCEPT !.job = "depart", !.pc = "append", !.copy = c,
                             !.ops = <<ChainOp(c)>>]
<1>3. work' = [work EXCEPT ![p] = w] BY <1>2
<1>4. c \in Copies BY DEF Active
<1>5. w \in Work /\ Fits(w, Len(oplog)) BY <1>1, <1>4, EventFits
<1> HIDE DEF w
<1>6. work' \in [Procs -> Work] /\ WorkOK'
  BY <1>3, <1>5, OneMovesQuietly DEF Depart
<1>7. TypeOK' BY <1>2, <1>6 DEF Depart, IInv, TypeOK
<1>8. LogOK'
  <2>1. \A d \in Copies : status'[d] = "active" => status[d] = "active"
    BY <1>2 DEF IInv, TypeOK
  <2>2. QED BY <2>1 DEF Depart, IInv, LogOK
<1>9. QED BY <1>6, <1>7, <1>8 DEF IInv

\* A job gives a copy up when the lock stays taken.
LEMMA BusyKeeps ==
  ASSUME IInv, NEW p \in Procs, Busy(p)
  PROVE  IInv'
<1>1. /\ work[p] \in Work /\ Fits(work[p], Len(oplog)) /\ work[p].pc = "sweep"
  BY Known DEF Busy
<1>2. PICK c \in work[p].sweep :
        work' = [work EXCEPT ![p].sweep = @ \ {c}, ![p].failed = TRUE]
  BY DEF Busy
<1> DEFINE w == [work[p] EXCEPT !.sweep = @ \ {c}, !.failed = TRUE]
<1>3. work' = [work EXCEPT ![p] = w] BY <1>2
<1>4. w \in Work BY <1>1 DEF Work
<1>5. Fits(w, Len(oplog)) BY <1>1 DEF Fits, Work, Handling, Replaying
<1> HIDE DEF w
<1>6. work' \in [Procs -> Work] /\ WorkOK'
  BY <1>3, <1>4, <1>5, OneMovesQuietly DEF Busy
<1>7. TypeOK' BY <1>6 DEF Busy, IInv, TypeOK, copyVars
<1>8. QED BY <1>6, <1>7 DEF Busy, IInv, LogOK, copyVars

\* A process dies, and its job comes back.
LEMMA CrashKeeps ==
  ASSUME IInv, NEW p \in Procs, Crash(p)
  PROVE  IInv'
<1>1. work[p] \in Work /\ Fits(work[p], Len(oplog)) /\ Len(oplog) \in Nat
  BY Known
<1>2. work' = [work EXCEPT ![p] = Idle] BY DEF Crash
<1>3. work' \in [Procs -> Work] /\ WorkOK'
  BY <1>1, <1>2, IdleFits, OneMovesQuietly DEF Crash
<1>4. holder' \in Procs \cup {None} BY DEF Crash, Released, IInv, TypeOK
<1>5. queue' \in 0 .. Attempts /\ faults' \in Nat
  BY <1>1 DEF Crash, Work, IInv, TypeOK
<1>6. tainted' \in SUBSET Copies
  BY <1>1 DEF Crash, Uncommitted, Fits, IInv, TypeOK
<1>7. TypeOK' BY <1>3, <1>4, <1>5, <1>6 DEF Crash, IInv, TypeOK, copyVars
<1>8. QED BY <1>3, <1>7 DEF Crash, IInv, LogOK, copyVars

\* The lock lapses.
LEMMA LapseKeeps ==
  ASSUME IInv, Lapse
  PROVE  IInv'
<1>1. TypeOK' BY DEF Lapse, IInv, TypeOK, copyVars
<1>2. QED BY <1>1 DEF Lapse, IInv, LogOK, WorkOK, copyVars

-----------------------------------------------------------------------------
(* The inductive invariant holds. *)

\* The invariant holds when the group is made,
LEMMA InitEstablishes == Init => IInv
<1> SUFFICES ASSUME Init PROVE IInv OBVIOUS
<1>1. PICK name \in MainNames :
        /\ oplog = <<ChainOp(Founder), CreateOp(Founder, Main, name, None)>>
        /\ book = [c \in Copies |-> [r \in Rows |->
                     IF c = Founder /\ r = Main THEN name ELSE None]]
  BY DEF Init
<1>2. /\ Founder \in Copies /\ name \in Values /\ Attempts \in Nat
      /\ Main \in Sources /\ Main \in Rows
  BY RowsAssumption, ReplicationAssumption DEF Rows
<1>3. ChainOp(Founder) \in Op /\ CreateOp(Founder, Main, name, None) \in Op
  BY <1>2 DEF ChainOp, CreateOp, Op, Kinds
<1>4. /\ oplog \in Seq(Op) /\ Len(oplog) = 2
      /\ oplog[1] = ChainOp(Founder) /\ oplog[2] = CreateOp(Founder, Main, name, None)
  <2> HIDE DEF ChainOp, CreateOp
  <2>1. QED BY <1>1, <1>3
<1>5. LogOK
  <2>0. \A c \in Copies : status[c] = "active" => c = Founder BY DEF Init
  <2>1. \A i \in 1 .. 2 : oplog[i].kind # "chain" => oplog[i].row \in Rows
    BY <1>2, <1>4 DEF ChainOp, CreateOp
  <2>2. QED BY <1>4, <2>0, <2>1 DEF Init, LogOK
<1>6. \A p \in Procs : work[p] = Idle BY DEF Init
<1>7. WorkOK BY <1>4, <1>6, IdleFits DEF WorkOK
<1>8. work \in [Procs -> Work] BY IdleFits DEF Init
<1>9. book \in [Copies -> [Rows -> Values \cup {None}]] BY <1>1, <1>2
<1>10. TypeOK BY <1>2, <1>4, <1>8, <1>9 DEF Init, TypeOK
<1>11. QED BY <1>5, <1>7, <1>10 DEF IInv

\* every step keeps it,
LEMMA NextKeeps == IInv /\ [Next]_vars => IInv'
<1> SUFFICES ASSUME IInv, [Next]_vars PROVE IInv' OBVIOUS
<1>1. ASSUME NEW p \in Procs, Works(p) PROVE IInv'
  <2>1. CASE Applies(p)
    BY <2>1, ApplyNextKeeps, RecreateKeeps, RepointKeeps, LinkKeeps, UnlinkKeeps,
       BumpKeeps DEF Applies
  <2>2. CASE Replicate(p)
    BY <2>2, JobPickKeeps, VisitKeeps, VisitDoneKeeps, JobDoneKeeps DEF Replicate
  <2>3. CASE ChooseRefused(p)
    BY <2>3, FailureKeeps DEF ChooseRefused, IInv, TypeOK
  <2>4. CASE Submit(p)
    BY <2>3, <2>4, CaughtUpKeeps, ChooseCreateKeeps, ChooseEditKeeps, ActKeeps,
       AppendOpsKeeps, AckKeeps, FinishKeeps DEF Submit
  <2>5. QED BY <1>1, <2>1, <2>2, <2>4 DEF Works
<1>2. ASSUME NEW p \in Procs, Error(p) PROVE IInv'
  <2>1. faults' \in Nat BY <1>2 DEF Error, IInv, TypeOK
  <2>2. QED BY <1>2, <2>1, FailureKeeps DEF Error
<1>3. CASE UNCHANGED vars
  <2>1. TypeOK' BY <1>3 DEF IInv, TypeOK, vars, copyVars
  <2>2. QED BY <1>3, <2>1 DEF IInv, LogOK, WorkOK, vars, copyVars
<1>4. QED
  BY <1>1, <1>2, <1>3, SubmitStartKeeps, JoinKeeps, DepartKeeps, BusyKeeps, CrashKeeps,
     LapseKeeps DEF Next

\* and so it always holds.
LEMMA Invariance == Spec => []IInv
BY InitEstablishes, NextKeeps, PTL DEF Spec

\* Every variable keeps its type, in every group and under any faults: in
\* particular a retried job never runs out of the attempts BullMQ grants it.
THEOREM TypeCorrect == Spec => []TypeOK
<1>1. IInv => TypeOK BY DEF IInv
<1>2. QED BY Invariance, <1>1, PTL

-----------------------------------------------------------------------------
(* The log: it only grows, by accepted appends. *)

\* The log changes in one action only, and by what it accepts.
LEMMA LogSteps ==
  ASSUME IInv, [Next]_vars
  PROVE  \/ UNCHANGED oplog
         \/ \E p \in Procs :
              /\ AppendOps(p) /\ Accepted(work[p])
              /\ oplog' = oplog \o work[p].ops
<1>1. ASSUME NEW p \in Procs, Works(p), ~AppendOps(p) PROVE UNCHANGED oplog
  <2>1. Applies(p) => UNCHANGED oplog
    BY DEF Applies, ApplyNext, Recreate, Repoint, Link, Unlink, Bump
  <2>2. Replicate(p) => UNCHANGED oplog
    BY DEF Replicate, JobPick, Visit, VisitDone, JobDone
  <2>3. CaughtUp(p) \/ Ack(p) \/ Finish(p) => UNCHANGED oplog
    BY DEF CaughtUp, Ack, Finish
  <2>4. ChooseRefused(p) \/ Act(p) => UNCHANGED oplog BY DEF ChooseRefused, Act
  <2>5. ChooseCreate(p) => UNCHANGED oplog BY DEF ChooseCreate
  <2>6. ChooseEdit(p) => UNCHANGED oplog BY DEF ChooseEdit
  <2>7. QED BY <1>1, <2>1, <2>2, <2>3, <2>4, <2>5, <2>6 DEF Works, Submit
<1>2. ASSUME NEW p \in Procs, AppendOps(p)
      PROVE  UNCHANGED oplog \/ (Accepted(work[p]) /\ oplog' = oplog \o work[p].ops)
  BY <1>2 DEF AppendOps
<1>3. ASSUME NEW p \in Procs,
             SubmitStart(p) \/ Join(p) \/ Depart(p) \/ Error(p) \/ Busy(p) \/ Crash(p)
      PROVE  UNCHANGED oplog
  BY <1>3 DEF SubmitStart, Join, Depart, Error, Busy, Crash
<1>4. CASE Lapse \/ UNCHANGED vars BY <1>4 DEF Lapse, vars
<1>5. QED BY <1>1, <1>2, <1>3, <1>4 DEF Next

\* What an accepted append adds.
LEMMA Appended ==
  ASSUME IInv, NEW p \in Procs, AppendOps(p), oplog' = oplog \o work[p].ops
  PROVE  /\ Len(oplog) \in Nat /\ Len(work[p].ops) \in Nat
         /\ Len(oplog') = Len(oplog) + Len(work[p].ops)
         /\ \A i \in 1 .. Len(oplog) : oplog'[i] = oplog[i]
         /\ \A i \in Len(oplog) + 1 .. Len(oplog') :
              /\ oplog'[i] = work[p].ops[i - Len(oplog)]
              /\ i - Len(oplog) \in 1 .. Len(work[p].ops)
         /\ work[p].ops \in Seq(Op) /\ Handles(work[p], work[p].ops)
         /\ ~Replaying(work[p])
<1>1. /\ work[p] \in Work /\ Fits(work[p], Len(oplog)) /\ work[p].pc = "append"
      /\ oplog \in Seq(Op) /\ Len(oplog) \in Nat
  BY Known DEF AppendOps
<1>2. /\ work[p].ops \in Seq(Op) /\ Handles(work[p], work[p].ops)
      /\ ~Replaying(work[p]) /\ Len(work[p].ops) \in Nat
  BY <1>1, LenProperties DEF Work, Fits, Handling
<1>3. /\ Len(oplog') = Len(oplog) + Len(work[p].ops)
      /\ \A i \in 1 .. Len(oplog) + Len(work[p].ops) :
           oplog'[i] = IF i <= Len(oplog) THEN oplog[i] ELSE work[p].ops[i - Len(oplog)]
  BY <1>1, <1>2, ConcatProperties
<1>4. \A i \in 1 .. Len(oplog) : oplog'[i] = oplog[i] BY <1>1, <1>2, <1>3
<1>5. \A i \in Len(oplog) + 1 .. Len(oplog') :
        /\ oplog'[i] = work[p].ops[i - Len(oplog)]
        /\ i - Len(oplog) \in 1 .. Len(work[p].ops)
  BY <1>1, <1>2, <1>3
<1>6. QED BY <1>1, <1>2, <1>3, <1>4, <1>5

\* The latest op on a row among the first n is the same in every log that
\* starts with these n.
LEMMA LatestOfPrefix ==
  ASSUME NEW log, NEW longer, NEW n \in Nat, \A i \in 1 .. n : longer[i] = log[i],
         NEW r, NEW k, LatestAmong(log, n, r, k)
  PROVE  LatestAmong(longer, n, r, k)
BY DEF LatestAmong

\* Only an append can break it, and the append checks what it claims.
LEMMA NoLostUpdateKept ==
  ASSUME IInv, NoLostUpdate, [Next]_vars
  PROVE  NoLostUpdate'
<1>1. CASE UNCHANGED oplog BY <1>1 DEF NoLostUpdate
<1>2. ASSUME NEW p \in Procs, AppendOps(p), Accepted(work[p]),
             oplog' = oplog \o work[p].ops
      PROVE  NoLostUpdate'
  <2> DEFINE n == Len(oplog)
             ops == work[p].ops
  <2>1. /\ n \in Nat /\ Len(ops) \in Nat /\ Len(oplog') = n + Len(ops)
        /\ \A i \in 1 .. n : oplog'[i] = oplog[i]
        /\ \A i \in n + 1 .. Len(oplog') :
             oplog'[i] = ops[i - n] /\ i - n \in 1 .. Len(ops)
        /\ ops \in Seq(Op) /\ Handles(work[p], ops)
    BY <1>2, Appended
  <2>2. SUFFICES ASSUME NEW i \in 1 .. Len(oplog'), Guarded(oplog'[i])
                 PROVE  /\ oplog'[i].base < i
                        /\ LatestAmong(oplog', i - 1, oplog'[i].row, oplog'[i].base)
                        /\ oplog'[i].base > 0 => oplog'[oplog'[i].base].kind # "delete"
    BY DEF NoLostUpdate
  <2>3. CASE i \in 1 .. n
    <3>1. oplog'[i] = oplog[i] /\ Guarded(oplog[i]) BY <2>1, <2>2, <2>3
    <3>2. /\ oplog[i].base < i
          /\ LatestAmong(oplog, i - 1, oplog[i].row, oplog[i].base)
          /\ oplog[i].base > 0 => oplog[oplog[i].base].kind # "delete"
      BY <2>3, <3>1 DEF NoLostUpdate
    <3>3. i - 1 \in Nat /\ \A j \in 1 .. i - 1 : oplog'[j] = oplog[j] BY <2>1, <2>3
    <3>4. LatestAmong(oplog', i - 1, oplog[i].row, oplog[i].base)
      BY <3>2, <3>3, LatestOfPrefix
    <3>5. oplog[i].base \in 0 .. i - 1 BY <3>2 DEF LatestAmong
    <3>6. oplog[i].base > 0 => oplog'[oplog[i].base] = oplog[oplog[i].base]
      BY <2>3, <3>3, <3>5
    <3>7. QED BY <3>1, <3>2, <3>4, <3>6
  <2>4. CASE i \in n + 1 .. Len(oplog')
    <3> DEFINE op == ops[i - n]
    <3>1. oplog'[i] = op /\ i - n \in 1 .. Len(ops) /\ Guarded(op)
      BY <2>1, <2>2, <2>4
    <3>2. op.kind # "create" /\ op.kind # "chain" BY <3>1 DEF Guarded
    <3>3. Len(ops) = 1 BY <2>1, <3>1, <3>2 DEF Handles
    <3>4. i = n + 1 BY <2>1, <2>4, <3>3
    <3>5. Current(oplog, op)
      <4>1. work[p].job # "depart" BY <2>1, <3>1, <3>2 DEF Handles
      <4>2. i - n \in DOMAIN ops BY <2>1, <3>1
      <4>3. QED BY <1>2, <3>1, <4>1, <4>2 DEF Accepted
    <3>6. LatestAmong(oplog, n, op.row, op.base)
          /\ (op.base > 0 => oplog[op.base].kind # "delete")
      BY <3>5 DEF Current, LatestSeq
    <3>7. LatestAmong(oplog', n, op.row, op.base) BY <2>1, <3>6, LatestOfPrefix
    <3>8. op.base \in 0 .. n BY <3>6 DEF LatestAmong
    <3>9. op.base > 0 => oplog'[op.base] = oplog[op.base] BY <2>1, <3>8
    <3>10. QED BY <2>1, <3>1, <3>4, <3>6, <3>7, <3>8, <3>9
  <2>5. QED BY <2>1, <2>3, <2>4
<1>3. QED BY <1>1, <1>2, LogSteps

\* The first two ops of a group are no edits.
LEMMA NoLostUpdateAtFirst == Init => NoLostUpdate
<1> SUFFICES ASSUME Init PROVE NoLostUpdate OBVIOUS
<1>1. PICK name \in MainNames :
        oplog = <<ChainOp(Founder), CreateOp(Founder, Main, name, None)>>
  BY DEF Init
<1>2. Len(oplog) = 2 /\ ~Guarded(oplog[1]) /\ ~Guarded(oplog[2])
  BY <1>1 DEF Guarded, ChainOp, CreateOp
<1>3. QED BY <1>2 DEF NoLostUpdate

\* Whatever processes race, fail and lose their lock, no update or delete ever
\* enters the log over an op its author had not seen, or on a deleted row.
THEOREM NoUpdateIsLost == Spec => []NoLostUpdate
<1>1. Init => NoLostUpdate BY NoLostUpdateAtFirst
<1>2. IInv /\ NoLostUpdate /\ [Next]_vars => NoLostUpdate' BY NoLostUpdateKept
<1>3. QED BY <1>1, <1>2, Invariance, PTL DEF Spec

\* How the watermarks move.
LEMMA WatermarkSteps ==
  ASSUME IInv, [Next]_vars
  PROVE  \A c \in Copies : applied[c] <= applied'[c]
<1>1. ASSUME NEW p \in Procs, Works(p), ~Bump(p), ~Ack(p) PROVE UNCHANGED applied
  <2>1. ASSUME NEW ops PROVE Apply(p, ops) => UNCHANGED applied
    BY DEF Apply, copyVars
  <2>2. ApplyNext(p) \/ Act(p) => UNCHANGED applied BY <2>1 DEF ApplyNext, Act
  <2>3. Recreate(p) \/ Repoint(p) => UNCHANGED applied BY DEF Recreate, Repoint
  <2>4. Link(p) \/ Unlink(p) => UNCHANGED applied BY DEF Link, Unlink
  <2>5. Replicate(p) => UNCHANGED applied
    BY DEF Replicate, JobPick, Visit, VisitDone, JobDone, copyVars
  <2>6. CaughtUp(p) \/ ChooseRefused(p) => UNCHANGED applied
    BY DEF CaughtUp, ChooseRefused, copyVars
  <2>7. ChooseCreate(p) => UNCHANGED applied BY DEF ChooseCreate, copyVars
  <2>8. ChooseEdit(p) => UNCHANGED applied BY DEF ChooseEdit, copyVars
  <2>9. AppendOps(p) \/ Finish(p) => UNCHANGED applied BY DEF AppendOps, Finish, copyVars
  <2>10. QED
    BY <1>1, <2>2, <2>3, <2>4, <2>5, <2>6, <2>7, <2>8, <2>9 DEF Works, Applies, Submit
<1>2. ASSUME NEW p \in Procs, Bump(p) \/ Ack(p)
      PROVE  \A c \in Copies : applied[c] <= applied'[c]
  <2>1. work[p] \in Work BY Known
  <2>2. work[p].at \in Nat /\ work[p].at + 1 \in Nat BY <2>1 DEF Work
  <2>3. applied \in [Copies -> Nat] BY DEF IInv, TypeOK
  <2>4. CASE Bump(p) BY <2>2, <2>3, <2>4 DEF Bump, Raised
  <2>5. CASE Ack(p) BY <2>2, <2>3, <2>5 DEF Ack, Raised
  <2>6. QED BY <1>2, <2>4, <2>5
<1>3. ASSUME NEW p \in Procs,
             SubmitStart(p) \/ Join(p) \/ Depart(p) \/ Error(p) \/ Busy(p) \/ Crash(p)
      PROVE  UNCHANGED applied
  BY <1>3 DEF SubmitStart, Join, Depart, Error, Busy, Crash, copyVars
<1>4. Lapse \/ UNCHANGED vars => UNCHANGED applied BY DEF Lapse, vars, copyVars
<1>5. UNCHANGED applied => \A c \in Copies : applied[c] <= applied'[c]
  <2>1. \A c \in Copies : applied[c] \in Nat BY DEF IInv, TypeOK
  <2>2. QED BY <2>1
<1>6. QED BY <1>1, <1>2, <1>3, <1>4, <1>5 DEF Next

\* Seqs are given once, and no watermark falls back or passes the log's end.
THEOREM LogAndWatermarksGrow == Spec => Monotone
<1>1. ASSUME IInv, IInv', [Next]_vars
      PROVE  [ /\ Len(oplog) <= Len(oplog') /\ \A i \in 1 .. Len(oplog) : oplog'[i] = oplog[i]
               /\ \A c \in Copies : applied[c] <= applied'[c] /\ applied'[c] <= Len(oplog')
             ]_<<oplog, applied>>
  <2>1. Len(oplog) <= Len(oplog') /\ \A i \in 1 .. Len(oplog) : oplog'[i] = oplog[i]
    <3>1. CASE UNCHANGED oplog BY <3>1, LenProperties, <1>1 DEF IInv, TypeOK
    <3>2. ASSUME NEW p \in Procs, AppendOps(p), oplog' = oplog \o work[p].ops
          PROVE  Len(oplog) <= Len(oplog') /\ \A i \in 1 .. Len(oplog) : oplog'[i] = oplog[i]
      BY <1>1, <3>2, Appended
    <3>3. QED BY <1>1, <3>1, <3>2, LogSteps
  <2>2. \A c \in Copies : applied[c] <= applied'[c] BY <1>1, WatermarkSteps
  <2>3. \A c \in Copies : applied'[c] <= Len(oplog') BY <1>1 DEF IInv, LogOK
  <2>4. QED BY <2>1, <2>2, <2>3
<1>2. QED BY <1>1, Invariance, PTL DEF Spec, Monotone

-----------------------------------------------------------------------------
(* The lock, while nobody's lapses. *)

\* Who works on a copy works for the member whose copy it is, and has no ops of
\* another copy in hand unless it replays.
OwnWork(w, members) ==
  /\ w.job # "depart" => w.copy \in members
  /\ w.job = "submit" => w.member = w.copy
  /\ w.pc \in Handling /\ ~Replaying(w) => \A i \in 1 .. Len(w.ops) : w.ops[i].by = w.copy

\* Who is at work on a copy holds the lock, and works for a member.
LockKept ==
  lapses = 0 => \A p \in Procs :
    work[p].pc \notin {"idle", "sweep"} => holder = p /\ OwnWork(work[p], Active)

OthersStay(p) == \A q \in Procs \ {p} : work'[q] = work[q]

\* A step inside the lock.
LEMMA StepInside ==
  ASSUME LockKept, NEW p \in Procs, OthersStay(p),
         UNCHANGED <<holder, status, lapses>>,
         \/ work'[p].pc \in {"idle", "sweep"}
         \/ /\ work[p].pc \notin {"idle", "sweep"}
            /\ lapses = 0 /\ OwnWork(work[p], Active) => OwnWork(work'[p], Active)
  PROVE  LockKept'
<1>1. Active' = Active BY DEF Active
<1>2. QED BY <1>1 DEF LockKept, OthersStay

\* A step that gives the lock up.
LEMMA StepOut ==
  ASSUME LockKept, NEW p \in Procs, OthersStay(p), work'[p].pc \in {"idle", "sweep"},
         holder' = Released(p), UNCHANGED <<status, lapses>>
  PROVE  LockKept'
<1>1. Active' = Active BY DEF Active
<1>2. QED BY <1>1 DEF LockKept, OthersStay, Released

\* A step that takes it: nobody else is at work.
LEMMA StepIn ==
  ASSUME LockKept, NEW p \in Procs, OthersStay(p), LockFree, holder' = p,
         UNCHANGED lapses, OwnWork(work'[p], Active')
  PROVE  LockKept'
BY ReplicationAssumption DEF LockKept, OthersStay, LockFree, Procs

\* Only the record of p changes.
LEMMA OthersStayPut ==
  ASSUME TypeOK, NEW p \in Procs, NEW w, work' = [work EXCEPT ![p] = w]
  PROVE  OthersStay(p) /\ work'[p] = w
BY DEF TypeOK, OthersStay

\* A failure takes the process out of the lock.
LEMMA FailsOut ==
  ASSUME IInv, LockKept, NEW p \in Procs, Fails(p), UNCHANGED <<status, lapses>>
  PROVE  LockKept'
<1>1. OthersStay(p) /\ work'[p].pc \in {"idle", "sweep"}
  <2>1. CASE work[p].job = "replicate"
    <3> DEFINE w == [Idle EXCEPT !.job = "replicate", !.pc = "sweep", !.failed = TRUE,
                       !.sweep = work[p].sweep, !.tries = work[p].tries]
    <3>1. work' = [work EXCEPT ![p] = w] BY <2>1 DEF Fails
    <3>2. w.pc = "sweep" BY DEF Idle
    <3> HIDE DEF w
    <3>3. QED BY <3>1, <3>2, OthersStayPut DEF IInv
  <2>2. CASE work[p].job # "replicate"
    <3>1. work' = [work EXCEPT ![p] = Idle] BY <2>2 DEF Fails
    <3>2. Idle.pc = "idle" BY DEF Idle
    <3>3. QED BY <3>1, <3>2, OthersStayPut DEF IInv
  <2>3. QED BY <2>1, <2>2
<1>2. holder' = Released(p) BY DEF Fails
<1>3. QED BY <1>1, <1>2, StepOut

\* Going from phase to phase leaves the process inside.
LEMMA GoesInside ==
  ASSUME IInv, LockKept, NEW p \in Procs, work[p].pc \notin {"idle", "sweep"},
         NEW phase, NEW ops, Goes(p, phase, ops), UNCHANGED <<holder, status, lapses>>,
         lapses = 0 /\ OwnWork(work[p], Active) /\ ~Replaying(work[p]) =>
           \A i \in 1 .. Len(ops) : ops[i].by = work[p].copy
  PROVE  LockKept'
<1>1. work[p] \in Work BY Known
<1> DEFINE w == [work[p] EXCEPT !.pc = phase, !.ops = ops, !.done = 0]
<1>2. work' = [work EXCEPT ![p] = w] BY DEF Goes
<1>3. /\ w.copy = work[p].copy /\ w.job = work[p].job /\ w.member = work[p].member
      /\ w.ops = ops /\ w.at = work[p].at /\ w.upto = work[p].upto
  BY <1>1 DEF Work
<1> HIDE DEF w
<1>4. OthersStay(p) /\ work'[p] = w BY <1>2, OthersStayPut DEF IInv
<1>5. lapses = 0 /\ OwnWork(work[p], Active) => OwnWork(w, Active)
  BY <1>3 DEF OwnWork, Replaying
<1>6. QED BY <1>4, <1>5, StepInside

\* Applying an op leaves the process inside, or takes it out.
LEMMA ApplyInside ==
  ASSUME IInv, LockKept, NEW p \in Procs, work[p].pc \notin {"idle", "sweep"},
         NEW ops, Apply(p, ops), UNCHANGED lapses,
         lapses = 0 /\ OwnWork(work[p], Active) /\ ~Replaying(work[p]) =>
           \A i \in 1 .. Len(ops) : ops[i].by = work[p].copy
  PROVE  LockKept'
<1>1. \/ Fails(p)
      \/ /\ UNCHANGED holder
         /\ \E phase \in {"finish", "link", "recreate", "repoint", "unlink",
                          "bump", "append"} : Goes(p, phase, ops)
  BY DEF Apply, Settled
<1>2. UNCHANGED status BY DEF Apply, copyVars
<1>3. CASE Fails(p) BY <1>2, <1>3, FailsOut
<1>4. CASE /\ UNCHANGED holder
           /\ \E phase \in {"finish", "link", "recreate", "repoint", "unlink",
                            "bump", "append"} : Goes(p, phase, ops)
  <2>1. PICK phase \in {"finish", "link", "recreate", "repoint", "unlink",
                        "bump", "append"} : Goes(p, phase, ops)
    BY <1>4
  <2>2. QED BY <1>2, <1>4, <2>1, GoesInside
<1>5. QED BY <1>1, <1>3, <1>4

\* An edit is one op of the request's copy, made in one of its places.
LEMMA EditsOwn ==
  ASSUME IInv, NEW p \in Procs, ChooseEdit(p)
  PROVE  \E op : /\ op.by = work[p].copy
                  /\ \E d \in Places(work[p], op) : EditsIn(p, d, <<op>>)
<1> DEFINE c == work[p].copy
           Edits(r, b) == {UpdateOp(c, r, v, s, b) : v \in Values, s \in OwnSources(c)}
                          \cup {DeleteOp(c, r, b)}
<1>1. PICK r \in linked[c], b \in 0 .. Len(oplog) :
        \E op \in Edits(r, b) : \E d \in Places(work[p], op) : EditsIn(p, d, <<op>>)
  <2>1. PICK r \in linked[c], b \in 0 .. Len(oplog) :
          /\ book[c][r] # None
          /\ \E op \in Edits(r, b) :
               /\ op.kind = "delete" => r \notin Sources
               /\ op.kind = "update" => (op.src # None <=> r \in Moves)
               /\ Current(oplog, op)
               /\ \E d \in Places(work[p], op) : EditsIn(p, d, <<op>>)
    BY DEF ChooseEdit
  <2> HIDE DEF Edits
  <2>2. QED BY <2>1
<1>2. \A op \in Edits(r, b) : op.by = c BY DEF UpdateOp, DeleteOp
<1> HIDE DEF Edits
<1>3. QED BY <1>1, <1>2

\* The op of a join or a departure is the copy's own.
LEMMA EventOwn ==
  ASSUME NEW c, NEW ops, ops = <<ChainOp(c)>>
  PROVE  \A i \in 1 .. Len(ops) : ops[i].by = c
<1> DEFINE op == ChainOp(c)
<1>1. op.by = c BY DEF ChainOp
<1> HIDE DEF op
<1>2. ops = <<op>> BY DEF op
<1>3. QED BY <1>1, <1>2

\* Who works on a copy holds the lock, after every step as before it.
LEMMA LockKeptBySteps ==
  ASSUME IInv, LockKept, [Next]_vars
  PROVE  LockKept'
<1>1. ASSUME NEW p \in Procs, ApplyNext(p) \/ Act(p) PROVE LockKept'
  <2>1. CASE ApplyNext(p)
    <3>1. work[p].pc \notin {"idle", "sweep"} /\ UNCHANGED lapses /\ Replaying(work[p])
      BY <2>1 DEF ApplyNext
    <3>2. PICK ops : Apply(p, ops) BY <2>1 DEF ApplyNext
    <3>3. QED BY <3>1, <3>2, ApplyInside
  <2>2. CASE Act(p)
    <3> DEFINE ops == work[p].ops
    <3>1. work[p].pc = "act" /\ UNCHANGED lapses /\ Apply(p, ops) BY <2>2 DEF Act
    <3>2. OwnWork(work[p], Active) /\ ~Replaying(work[p]) =>
            \A i \in 1 .. Len(ops) : ops[i].by = work[p].copy
      BY <3>1 DEF OwnWork, Handling
    <3> HIDE DEF ops
    <3>3. QED BY <3>1, <3>2, ApplyInside
  <2>3. QED BY <1>1, <2>1, <2>2
<1>2. ASSUME NEW p \in Procs,
             Recreate(p) \/ Repoint(p) \/ Unlink(p) \/ Bump(p) \/ Ack(p)
      PROVE  LockKept'
  <2>1. work[p] \in Work /\ work \in [Procs -> Work] BY Known
  <2>2. /\ UNCHANGED <<holder, status, lapses>> /\ work[p].pc \notin {"idle", "sweep"}
        /\ OthersStay(p)
        /\ OwnWork(work[p], Active) => OwnWork(work'[p], Active)
    <3>1. CASE Recreate(p)
      BY <2>1, <3>1 DEF Recreate, OthersStay, Work, OwnWork, Handling, Replaying
    <3>2. CASE Repoint(p)
      BY <2>1, <3>2 DEF Repoint, OthersStay, Work, OwnWork, Handling, Replaying
    <3>3. CASE Unlink(p)
      BY <2>1, <3>3 DEF Unlink, OthersStay, Work, OwnWork, Handling, Replaying
    <3>4. CASE Bump(p) BY <2>1, <3>4 DEF Bump, OthersStay, Work, OwnWork, Handling
    <3>5. CASE Ack(p) BY <2>1, <3>5 DEF Ack, OthersStay, Work, OwnWork, Handling
    <3>6. QED BY <1>2, <3>1, <3>2, <3>3, <3>4, <3>5
  <2>3. QED BY <2>2, StepInside
<1>3. ASSUME NEW p \in Procs, Link(p) \/ CaughtUp(p) \/ AppendOps(p) PROVE LockKept'
  <2>1. work[p] \in Work /\ work \in [Procs -> Work] /\ Fits(work[p], Len(oplog))
    BY Known
  <2>2. UNCHANGED <<status, lapses>> /\ work[p].pc \notin {"idle", "sweep"}
    BY <1>3 DEF Link, CaughtUp, AppendOps, copyVars
  <2>3. \/ Fails(p)
        \/ /\ UNCHANGED holder /\ OthersStay(p)
           /\ OwnWork(work[p], Active) => OwnWork(work'[p], Active)
    <3>1. CASE Link(p)
      <4>1. ASSUME ~Fails(p)
            PROVE  /\ UNCHANGED holder
                   /\ work' = [work EXCEPT ![p].done = @ + 1,
                         ![p].pc = IF AllLinked(work[p]) THEN Settled(work[p]) ELSE "link"]
        BY <3>1, <4>1 DEF Link
      <4>2. ASSUME work' = [work EXCEPT ![p].done = @ + 1,
                         ![p].pc = IF AllLinked(work[p]) THEN Settled(work[p]) ELSE "link"]
            PROVE  /\ OthersStay(p)
                   /\ OwnWork(work[p], Active) => OwnWork(work'[p], Active)
        <5>1. work[p].pc = "link" BY <3>1 DEF Link
        <5>2. OthersStay(p) BY <2>1, <4>2 DEF OthersStay
        <5>3. /\ work'[p].ops = work[p].ops /\ work'[p].member = work[p].member
              /\ work'[p].copy = work[p].copy /\ work'[p].job = work[p].job
              /\ work'[p].at = work[p].at /\ work'[p].upto = work[p].upto
          BY <2>1, <4>2 DEF Work
        <5>4. QED BY <5>1, <5>2, <5>3 DEF OwnWork, Handling, Replaying
      <4>3. QED BY <4>1, <4>2
    <3>2. CASE CaughtUp(p)
      <4>1. ASSUME ~Fails(p)
            PROVE  /\ UNCHANGED holder
                   /\ \E d \in Membership(work[p].copy) :
                        work' = [work EXCEPT ![p].pc = "choose", ![p].member = d]
        BY <3>2, <4>1 DEF CaughtUp
      <4>2. ASSUME NEW d \in Membership(work[p].copy),
                   work' = [work EXCEPT ![p].pc = "choose", ![p].member = d]
            PROVE  /\ OthersStay(p)
                   /\ OwnWork(work[p], Active) => OwnWork(work'[p], Active)
        <5>1. work[p].job = "submit" BY <3>2 DEF CaughtUp
        <5>2. work[p].copy \in Active => d = work[p].copy
          BY <4>2 DEF Membership, Active, IInv, LogOK
        <5>3. OthersStay(p) BY <2>1, <4>2 DEF OthersStay
        <5>4. /\ work'[p].pc = "choose" /\ work'[p].member = d
              /\ work'[p].copy = work[p].copy /\ work'[p].job = work[p].job
          BY <2>1, <4>2 DEF Work
        <5>5. QED BY <5>1, <5>2, <5>3, <5>4 DEF OwnWork, Handling
      <4>3. QED BY <4>1, <4>2
    <3>3. CASE AppendOps(p)
      <4>1. ASSUME ~Fails(p)
            PROVE  /\ UNCHANGED holder
                   /\ work' = [work EXCEPT
                         ![p].pc = IF work[p].job = "submit" THEN "ack" ELSE "finish",
                         ![p].at = Len(oplog'), ![p].upto = Len(oplog'),
                         ![p].ops = <<>>, ![p].done = 0]
        BY <3>3, <4>1 DEF AppendOps
      <4>2. ASSUME work' = [work EXCEPT
                         ![p].pc = IF work[p].job = "submit" THEN "ack" ELSE "finish",
                         ![p].at = Len(oplog'), ![p].upto = Len(oplog'),
                         ![p].ops = <<>>, ![p].done = 0]
            PROVE  /\ OthersStay(p)
                   /\ OwnWork(work[p], Active) => OwnWork(work'[p], Active)
        <5>1. work'[p].pc \in {"ack", "finish"} BY <2>1, <4>2 DEF Work
        <5>2. OthersStay(p) BY <2>1, <4>2 DEF OthersStay
        <5>3. /\ work'[p].member = work[p].member
              /\ work'[p].copy = work[p].copy /\ work'[p].job = work[p].job
          BY <2>1, <4>2 DEF Work
        <5>4. QED BY <5>1, <5>2, <5>3 DEF OwnWork, Handling
      <4>3. QED BY <4>1, <4>2
    <3>4. QED BY <1>3, <3>1, <3>2, <3>3
  <2>4. QED BY <2>2, <2>3, FailsOut, StepInside
<1>4. ASSUME NEW p \in Procs, ChooseCreate(p) \/ ChooseEdit(p) PROVE LockKept'
  <2>1. /\ work[p].pc \notin {"idle", "sweep"}
        /\ UNCHANGED <<holder, status, lapses>>
    <3>1. CASE ChooseCreate(p) BY <3>1 DEF ChooseCreate, copyVars
    <3>2. CASE ChooseEdit(p) BY <3>2 DEF ChooseEdit, copyVars
    <3>3. QED BY <1>4, <3>1, <3>2
  <2>2. CASE ChooseCreate(p)
    <3>1. PICK s \in OwnSources(work[p].copy), v \in Values, new \in SUBSET (Rows \ minted) :
            \E ops \in [1 .. Cardinality(new) -> {CreateOp(work[p].copy, r, v, s) : r \in new}] :
              Cardinality(new) \in 1 .. MaxBatch /\ Goes(p, "act", ops)
      BY <2>2 DEF ChooseCreate
    <3>2. PICK ops \in [1 .. Cardinality(new) -> {CreateOp(work[p].copy, r, v, s) : r \in new}] :
            Cardinality(new) \in 1 .. MaxBatch /\ Goes(p, "act", ops)
      BY <3>1
    <3>3. \A i \in 1 .. Len(ops) : ops[i].by = work[p].copy
      <4>1. Cardinality(new) \in Nat BY <3>2, ReplicationAssumption
      <4>2. \A i \in 1 .. Cardinality(new) :
              \E r \in new : ops[i] = CreateOp(work[p].copy, r, v, s)
        BY <3>2
      <4>3. DOMAIN ops = 1 .. Cardinality(new) BY <3>2
      <4>4. ops \in Seq({CreateOp(work[p].copy, r, v, s) : r \in new})
        BY <3>2, <4>1
      <4>5. Len(ops) = Cardinality(new) BY <4>1, <4>3, <4>4
      <4>6. QED BY <4>2, <4>5 DEF CreateOp
    <3>4. QED BY <2>1, <3>2, <3>3, GoesInside
  <2>3. CASE ChooseEdit(p)
    <3>1. work[p] \in Work /\ work \in [Procs -> Work] /\ Fits(work[p], Len(oplog))
          /\ work[p].pc = "choose"
      BY <2>3, Known DEF ChooseEdit
    <3>2. PICK op : op.by = work[p].copy
                    /\ \E d \in Places(work[p], op) : EditsIn(p, d, <<op>>)
      BY <2>3, EditsOwn
    <3>0. PICK d \in Places(work[p], op) : EditsIn(p, d, <<op>>) BY <3>2
    <3>3. work'[p].copy = d /\ work'[p].member = work[p].member /\ OthersStay(p)
          /\ work'[p].ops = <<op>> /\ work'[p].job = work[p].job
      BY <3>0, <3>1 DEF EditsIn, Work, OthersStay
    <3>4. work[p].job = "submit" BY <3>1 DEF Fits
    <3>5. OwnWork(work[p], Active) => d = work[p].copy
      BY <3>0, <3>4 DEF OwnWork, Places
    <3> DEFINE ops == <<op>>
    <3>6. \A i \in 1 .. Len(ops) : ops[i] = op OBVIOUS
    <3>7. work'[p].ops = ops BY <3>3
    <3> HIDE DEF ops
    <3>8. OwnWork(work[p], Active) => OwnWork(work'[p], Active)
      BY <3>2, <3>3, <3>4, <3>5, <3>6, <3>7 DEF OwnWork
    <3>9. QED BY <2>1, <3>3, <3>8, StepInside
  <2>4. QED BY <1>4, <2>2, <2>3
<1>5. ASSUME NEW p \in Procs, ChooseRefused(p) \/ Error(p) PROVE LockKept'
  BY <1>5, FailsOut DEF ChooseRefused, Error, copyVars
<1>6. ASSUME NEW p \in Procs, JobPick(p) \/ JobDone(p) \/ Busy(p) PROVE LockKept'
  <2>1. work[p] \in Work /\ work \in [Procs -> Work] BY Known
  <2>2. /\ UNCHANGED <<holder, status, lapses>> /\ OthersStay(p)
        /\ work'[p].pc \in {"idle", "sweep"}
    <3>1. CASE JobPick(p) BY <2>1, <3>1 DEF JobPick, OthersStay, copyVars, Idle
    <3>2. CASE JobDone(p) BY <2>1, <3>2 DEF JobDone, OthersStay, copyVars, Idle
    <3>3. CASE Busy(p) BY <2>1, <3>3 DEF Busy, OthersStay, copyVars, Work
    <3>4. QED BY <1>6, <3>1, <3>2, <3>3
  <2>3. QED BY <2>2, StepInside
<1>7. ASSUME NEW p \in Procs, VisitDone(p) \/ Finish(p) \/ Crash(p) PROVE LockKept'
  <2>1. work[p] \in Work /\ work \in [Procs -> Work] BY Known
  <2>2. /\ UNCHANGED <<status, lapses>> /\ OthersStay(p)
        /\ work'[p].pc \in {"idle", "sweep"} /\ holder' = Released(p)
    <3>1. CASE VisitDone(p) BY <2>1, <3>1 DEF VisitDone, OthersStay, copyVars, Idle
    <3>2. CASE Finish(p) BY <2>1, <3>2 DEF Finish, OthersStay, copyVars, Idle
    <3>3. CASE Crash(p) BY <2>1, <3>3 DEF Crash, OthersStay, copyVars, Idle
    <3>4. QED BY <1>7, <3>1, <3>2, <3>3
  <2>3. QED BY <2>2, StepOut
<1>8. ASSUME NEW p \in Procs, Visit(p) PROVE LockKept'
  <2>1. work[p] \in Work /\ work \in [Procs -> Work] /\ work[p].pc = "sweep" /\ LockFree
        /\ UNCHANGED <<status, lapses>>
    BY <1>8, Known DEF Visit, copyVars
  <2>2. PICK c \in work[p].sweep :
          \/ \E d \in Membership(c) :
               /\ holder' = p
               /\ work' = [work EXCEPT ![p].pc = "apply", ![p].copy = d,
                                       ![p].at = applied[d], ![p].upto = Len(oplog),
                                       ![p].sweep = @ \ {c}]
          \/ /\ work' = [work EXCEPT ![p].sweep = @ \ {c}]
             /\ UNCHANGED holder
    BY <1>8 DEF Visit
  <2>3. ASSUME NEW d \in Membership(c), holder' = p,
               work' = [work EXCEPT ![p].pc = "apply", ![p].copy = d,
                                    ![p].at = applied[d], ![p].upto = Len(oplog),
                                    ![p].sweep = @ \ {c}]
        PROVE  LockKept'
    <3>1. OthersStay(p) /\ work'[p].copy = d /\ work'[p].pc = "apply"
          /\ work'[p].job = work[p].job
      BY <2>1, <2>3 DEF OthersStay, Work
    <3>2. d \in Active' BY <2>1, <2>3 DEF Membership, Active
    <3>3. work[p].job = "replicate" BY <2>1, Known DEF Fits
    <3>4. OwnWork(work'[p], Active') BY <3>1, <3>2, <3>3 DEF OwnWork, Handling
    <3>5. QED BY <2>1, <2>3, <3>1, <3>4, StepIn
  <2>4. CASE work' = [work EXCEPT ![p].sweep = @ \ {c}] /\ UNCHANGED holder
    <3>1. OthersStay(p) /\ work'[p].pc = "sweep"
      BY <2>1, <2>4 DEF OthersStay, Work
    <3>2. QED BY <2>1, <2>4, <3>1, StepInside
  <2>5. QED BY <2>2, <2>3, <2>4
<1>9. ASSUME NEW p \in Procs, SubmitStart(p) PROVE LockKept'
  <2>1. work \in [Procs -> Work] BY Known
  <2>2. PICK c \in Active :
          work' = [work EXCEPT ![p] = [Idle EXCEPT !.job = "submit", !.pc = FirstPhase(c),
                     !.copy = c, !.member = c, !.at = applied[c], !.upto = Len(oplog)]]
    BY <1>9 DEF SubmitStart
  <2>3. LockFree /\ holder' = p /\ UNCHANGED <<status, lapses>>
    BY <1>9 DEF SubmitStart, copyVars
  <2>4. /\ OthersStay(p) /\ work'[p].copy = c /\ work'[p].member = c
        /\ work'[p].pc \in {"apply", "choose"}
    BY <2>1, <2>2 DEF OthersStay, Idle, FirstPhase
  <2>5. c \in Active' BY <2>3 DEF Active
  <2>6. OwnWork(work'[p], Active') BY <2>4, <2>5 DEF OwnWork, Handling
  <2>7. QED BY <2>3, <2>4, <2>6, StepIn
<1>10. ASSUME NEW p \in Procs, Join(p) PROVE LockKept'
  <2>1. work \in [Procs -> Work] BY Known
  <2>2. PICK c \in Copies :
          /\ status' = [status EXCEPT ![c] = "active"]
          /\ work' = [work EXCEPT ![p] = [Idle EXCEPT !.job = "join", !.pc = "append",
                                             !.copy = c, !.ops = <<ChainOp(c)>>]]
    BY <1>10 DEF Join
  <2>3. LockFree /\ holder' = p /\ UNCHANGED lapses BY <1>10 DEF Join
  <2>4. /\ OthersStay(p) /\ work'[p].copy = c /\ work'[p].job = "join"
        /\ work'[p].ops = <<ChainOp(c)>>
    BY <2>1, <2>2 DEF OthersStay, Idle
  <2>5. c \in Active' BY <2>2 DEF Active, IInv, TypeOK
  <2>6. OwnWork(work'[p], Active') BY <2>4, <2>5, EventOwn DEF OwnWork
  <2>7. QED BY <2>3, <2>4, <2>6, StepIn
<1>11. ASSUME NEW p \in Procs, Depart(p) PROVE LockKept'
  <2>1. work \in [Procs -> Work] BY Known
  <2>2. PICK c \in Active :
          work' = [work EXCEPT ![p] = [Idle EXCEPT !.job = "depart", !.pc = "append",
                                          !.copy = c, !.ops = <<ChainOp(c)>>]]
    BY <1>11 DEF Depart
  <2>3. LockFree /\ holder' = p /\ UNCHANGED lapses BY <1>11 DEF Depart
  <2>4. /\ OthersStay(p) /\ work'[p].copy = c /\ work'[p].job = "depart"
        /\ work'[p].ops = <<ChainOp(c)>>
    BY <2>1, <2>2 DEF OthersStay, Idle
  <2>5. OwnWork(work'[p], Active') BY <2>4, EventOwn DEF OwnWork
  <2>6. QED BY <2>3, <2>4, <2>5, StepIn
<1>12. CASE Lapse
  <2>1. lapses' # 0 BY <1>12 DEF Lapse, IInv, TypeOK
  <2>2. QED BY <2>1 DEF LockKept
<1>13. CASE UNCHANGED vars BY <1>13 DEF vars, copyVars, LockKept, Active
<1>14. ASSUME NEW p \in Procs, Works(p) PROVE LockKept'
  BY <1>1, <1>2, <1>3, <1>4, <1>5, <1>6, <1>7, <1>8, <1>14
     DEF Works, Applies, Replicate, Submit
<1>15. QED BY <1>5, <1>6, <1>7, <1>9, <1>10, <1>11, <1>12, <1>13, <1>14 DEF Next

\* Who works on a copy always holds the lock, while none has lapsed.
LEMMA LockInvariance == Spec => []LockKept
<1>1. Init => LockKept BY DEF Init, LockKept, Idle
<1>2. IInv /\ LockKept /\ [Next]_vars => LockKept' BY LockKeptBySteps
<1>3. QED BY <1>1, <1>2, Invariance, PTL DEF Spec

\* While no lock lapses under its holder, at most one process is at work on the
\* group's copies, whatever crashes and errors do.
THEOREM OneApplierAtATime == Spec => []OneApplier
<1>1. LockKept => OneApplier BY DEF LockKept, OneApplier
<1>2. QED BY <1>1, LockInvariance, PTL

\* Under the lock a request applies its ops to the copy it named,
LEMMA ActsOnOwn ==
  ASSUME IInv, LockKept, lapses = 0, NEW p \in Procs, Act(p)
  PROVE  work[p].ops[1].by = work[p].copy
<1>1. work[p] \in Work /\ Fits(work[p], Len(oplog)) /\ work[p].pc = "act"
  BY Known DEF Act
<1>2. Handles(work[p], work[p].ops) /\ ~Replaying(work[p]) BY <1>1 DEF Fits, Handling
<1>3. 1 \in 1 .. Len(work[p].ops) BY <1>1, <1>2, LenProperties DEF Handles, Work
<1>4. OwnWork(work[p], Active) BY <1>1 DEF LockKept
<1>5. QED BY <1>1, <1>2, <1>3, <1>4 DEF OwnWork, Handling

\* and moves the watermark of that copy.
LEMMA AcksOwn ==
  ASSUME IInv, LockKept, lapses = 0, NEW p \in Procs, Ack(p)
  PROVE  work[p].member = work[p].copy
<1>1. work[p].pc = "ack" /\ Fits(work[p], Len(oplog)) BY Known DEF Ack
<1>2. work[p].job = "submit" BY <1>1 DEF Fits
<1>3. QED BY <1>1, <1>2 DEF LockKept, OwnWork

\* Under the lock a process works for members only, so nothing changes a copy
\* that left.
LEMMA EndedCopiesKept ==
  ASSUME IInv, LockKept, [Next]_vars, lapses = 0,
         NEW c \in Copies, status[c] = "ended"
  PROVE  /\ applied'[c] = applied[c] /\ linked'[c] = linked[c]
         /\ book'[c] = book[c] /\ strays'[c] = strays[c]
<1> DEFINE Same == /\ applied'[c] = applied[c] /\ linked'[c] = linked[c]
                   /\ book'[c] = book[c] /\ strays'[c] = strays[c]
<1>1. /\ applied \in [Copies -> Nat] /\ linked \in [Copies -> SUBSET Rows]
      /\ book \in [Copies -> [Rows -> Values \cup {None}]]
      /\ strays \in [Copies -> Int]
  BY DEF IInv, TypeOK
<1>2. ASSUME NEW p \in Procs, work[p].pc \notin {"idle", "sweep", "append", "finish"}
      PROVE  work[p].copy # c
  <2>1. Fits(work[p], Len(oplog)) BY Known
  <2>2. work[p].job # "depart" BY <1>2, <2>1 DEF Fits
  <2>3. QED BY <1>2, <2>2 DEF LockKept, OwnWork, Active
<1>3. ASSUME NEW p \in Procs, NEW ops, Apply(p, ops), work[p].copy # c,
             Replaying(work[p]) \/ ops[1].by = work[p].copy
      PROVE  Same
  BY <1>1, <1>3 DEF Apply, copyVars
<1>4. ASSUME NEW p \in Procs, Applies(p) \/ Act(p) \/ Ack(p) PROVE Same
  <2>1. work[p].copy # c
    <3>1. work[p].pc \in {"apply", "recreate", "repoint", "link", "unlink", "bump",
                          "act", "ack"}
      BY <1>4 DEF Applies, ApplyNext, Recreate, Repoint, Link, Unlink, Bump, Act, Ack
    <3>2. QED BY <1>2, <3>1
  <2>2. CASE ApplyNext(p) \/ Act(p)
    <3>1. CASE ApplyNext(p) BY <1>3, <2>1, <3>1 DEF ApplyNext
    <3>2. CASE Act(p) BY <1>3, <2>1, <3>2, ActsOnOwn DEF Act
    <3>3. QED BY <2>2, <3>1, <3>2
  <2>3. CASE Recreate(p) BY <1>1, <2>1, <2>3 DEF Recreate
  <2>4. CASE Repoint(p) BY <1>1, <2>1, <2>4 DEF Repoint
  <2>5. CASE Link(p) BY <1>1, <2>1, <2>5 DEF Link
  <2>6. CASE Unlink(p) BY <1>1, <2>1, <2>6 DEF Unlink
  <2>7. CASE Bump(p) \/ Ack(p)
    <3>1. Ack(p) => work[p].member = work[p].copy BY AcksOwn
    <3>2. QED BY <1>1, <2>1, <2>7, <3>1 DEF Bump, Ack
  <2>8. QED BY <1>4, <2>2, <2>3, <2>4, <2>5, <2>6, <2>7 DEF Applies
<1>5. ASSUME NEW p \in Procs,
             JobPick(p) \/ Visit(p) \/ VisitDone(p) \/ JobDone(p) \/ SubmitStart(p)
             \/ CaughtUp(p) \/ ChooseRefused(p) \/ AppendOps(p) \/ Finish(p)
             \/ Error(p) \/ Busy(p) \/ Crash(p)
      PROVE  UNCHANGED copyVars
  <2>1. JobPick(p) \/ Visit(p) \/ VisitDone(p) \/ JobDone(p) => UNCHANGED copyVars
    BY DEF JobPick, Visit, VisitDone, JobDone
  <2>2. SubmitStart(p) \/ CaughtUp(p) \/ ChooseRefused(p) => UNCHANGED copyVars
    BY DEF SubmitStart, CaughtUp, ChooseRefused
  <2>3. AppendOps(p) \/ Finish(p) => UNCHANGED copyVars BY DEF AppendOps, Finish
  <2>4. Error(p) \/ Busy(p) \/ Crash(p) => UNCHANGED copyVars BY DEF Error, Busy, Crash
  <2>5. QED BY <1>5, <2>1, <2>2, <2>3, <2>4
<1>6. ASSUME NEW p \in Procs, ChooseCreate(p) \/ ChooseEdit(p) PROVE UNCHANGED copyVars
  <2>1. CASE ChooseCreate(p) BY <2>1 DEF ChooseCreate
  <2>2. CASE ChooseEdit(p) BY <2>2 DEF ChooseEdit
  <2>3. QED BY <1>6, <2>1, <2>2
<1>7. ASSUME NEW p \in Procs, Join(p) PROVE Same
  <2>1. PICK d \in Copies :
          /\ status[d] = "out"
          /\ linked' = [linked EXCEPT ![d] = {Main}]
          /\ book' = [book EXCEPT ![d][Main] = DefaultName]
    BY <1>7 DEF Join
  <2>2. d # c BY <2>1
  <2>3. QED BY <1>1, <1>7, <2>1, <2>2 DEF Join
<1>8. ASSUME NEW p \in Procs, Depart(p) PROVE Same BY <1>8 DEF Depart
<1>9. UNCHANGED copyVars => Same BY DEF copyVars
<1>10. CASE Lapse \/ UNCHANGED vars BY <1>9, <1>10 DEF Lapse, vars
<1>11. ASSUME NEW p \in Procs, Works(p) PROVE Same
  BY <1>4, <1>5, <1>6, <1>9, <1>11 DEF Works, Replicate, Submit
<1>12. QED BY <1>5, <1>7, <1>8, <1>9, <1>10, <1>11 DEF Next

\* Who is severed gets nothing into the log unless let in again, and while no lock
\* lapses the copy that was severed never writes at all.
THEOREM SeveredMembersStayOut == Spec => SeveredStaysOut
<1> DEFINE Kept == \A i \in Len(oplog) + 1 .. Len(oplog') :
                     oplog'[i].kind # "chain" =>
                       /\ Membership(oplog'[i].by) # {}
                       /\ lapses = 0 => status[oplog'[i].by] = "active"
<1>1. ASSUME IInv, LockKept, [Next]_vars PROVE [Kept]_oplog
  <2>1. CASE UNCHANGED oplog BY <2>1
  <2>2. ASSUME NEW p \in Procs, AppendOps(p), Accepted(work[p]),
               oplog' = oplog \o work[p].ops
        PROVE  Kept
    <3>1. SUFFICES ASSUME NEW i \in Len(oplog) + 1 .. Len(oplog'), oplog'[i].kind # "chain"
                   PROVE  /\ Membership(oplog'[i].by) # {}
                          /\ lapses = 0 => status[oplog'[i].by] = "active"
      OBVIOUS
    <3>2. /\ oplog'[i] = work[p].ops[i - Len(oplog)]
          /\ i - Len(oplog) \in 1 .. Len(work[p].ops)
          /\ Handles(work[p], work[p].ops) /\ ~Replaying(work[p])
      BY <1>1, <2>2, Appended
    <3>3. UserOf[oplog'[i].by] = UserOf[work[p].copy] /\ work[p].job # "depart"
      BY <3>1, <3>2 DEF Handles
    <3>4. Membership(work[p].copy) # {} BY <2>2, <3>3 DEF Accepted
    <3>5. work[p].pc = "append" BY <2>2 DEF AppendOps
    <3>6. ASSUME lapses = 0 PROVE status[oplog'[i].by] = "active"
      <4>1. OwnWork(work[p], Active) BY <1>1, <3>5, <3>6 DEF LockKept
      <4>2. oplog'[i].by = work[p].copy /\ work[p].copy \in Active
        BY <3>2, <3>3, <3>5, <4>1 DEF OwnWork, Handling
      <4>3. QED BY <4>2 DEF Active
    <3>7. QED BY <3>3, <3>4, <3>6 DEF Membership
  <2>3. QED BY <1>1, <2>1, <2>2, LogSteps
<1>2. QED BY <1>1, Invariance, LockInvariance, PTL DEF Spec, SeveredStaysOut

\* A member's departure is a snapshot: while no lock lapses, nothing changes
\* the copy of a member that has left, or its watermark.
THEOREM ForksStayFrozen == Spec => ForksAreFrozen
<1>1. ASSUME IInv, LockKept, [Next]_vars
      PROVE  [\A c \in Copies : status[c] = "ended" /\ lapses = 0 =>
                /\ applied'[c] = applied[c] /\ linked'[c] = linked[c]
                /\ book'[c] = book[c] /\ strays'[c] = strays[c]]_vars
  BY <1>1, EndedCopiesKept
<1>2. QED BY <1>1, Invariance, LockInvariance, PTL DEF Spec, ForksAreFrozen

=============================================================================
