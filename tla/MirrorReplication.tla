-------------------------- MODULE MirrorReplication --------------------------
(***************************************************************************)
(* One MIRRORCHAIN group portfolio: its op log, the copies of its members, *)
(* the per-chain Redis lock, the mirror.replicate job, and the processes   *)
(* that submit writes, replay ops, join and depart.                        *)
(*                                                                         *)
(* One action is one database transaction of mirrorService.ts, so an error *)
(* or a crash may fall between any two of them.                            *)
(***************************************************************************)
EXTENDS MirrorLog, FiniteSets

CONSTANTS
  Clients,      \* processes that serve requests, each one request at a time
  Workers,      \* processes that run replicate jobs (a worker may also write)
  UserOf,       \* the user a copy belongs to: who rejoins gets another copy
  Founder,      \* the portfolio that was converted into the group
  MainNames,    \* names its Main source may have had at that moment
  DefaultName,  \* the name a newly created Main gets
  Attempts,     \* deliveries BullMQ makes of a failing job
  MaxOps,       \* bound: log length
  MaxBatch,     \* bound: transactions created by one request
  MaxFaults,    \* bound: errors, crashes and lost enqueues
  MaxLapses     \* bound: times the lock expires under its holder

ASSUME ReplicationAssumption ==
  /\ Founder \in Copies
  /\ None \notin Clients \cup Workers
  /\ DefaultName \in Values /\ MainNames \subseteq Values
  /\ Attempts \in Nat \ {0}
  /\ MaxOps \in Nat /\ MaxBatch \in Nat /\ MaxFaults \in Nat /\ MaxLapses \in Nat

VARIABLES
  oplog,    \* mirror_chain_ops; a seq is an index
  status,   \* membership of each copy: out, active, ended
  applied,  \* the copy's watermark, applied_seq
  linked,   \* mirror ids the copy has a mirror_rows link for
  book,     \* state of the local row a link points to, None if there is none
  strays,   \* local rows of the copy that no link points to
  minted,   \* mirror ids in use
  work,     \* what each process is doing
  holder,   \* holder of the chain lock
  queue,    \* deliveries the waiting replicate job has left, 0 if none waits
  faults,   \* faults so far
  lapses,   \* lock expiries so far
  tainted   \* history: copies on which a submit committed but never appended

Procs == Clients \cup Workers

copyVars == <<status, applied, linked, book, strays>>
vars == <<oplog, copyVars, minted, work, holder, queue, faults, lapses, tainted>>

Jobs == {"none", "submit", "replicate", "join", "depart"}

Phases == {"idle", "sweep", "apply", "link", "recreate", "repoint", "unlink",
           "bump", "choose", "act", "append", "ack", "finish"}

\* `copy' is the copy worked on and `member' the one whose membership a submit
\* acts under; `at' is the replay loop's own watermark, `upto' the last op it
\* loaded; `ops' are the ops being applied or appended, the first `done' linked.
Work == [job : Jobs, pc : Phases, copy : Copies \cup {None},
         member : Copies \cup {None}, at : Nat, upto : Nat, ops : Seq(Op),
         done : Nat, sweep : SUBSET Copies, failed : BOOLEAN, tries : 0 .. Attempts]

Idle == [job |-> "none", pc |-> "idle", copy |-> None, member |-> None,
         at |-> 0, upto |-> 0, ops |-> <<>>, done |-> 0, sweep |-> {},
         failed |-> FALSE, tries |-> 0]

TypeOK ==
  /\ oplog \in Seq(Op)
  /\ status \in [Copies -> {"out", "active", "ended"}]
  /\ applied \in [Copies -> Nat]
  /\ linked \in [Copies -> SUBSET Rows]
  /\ book \in [Copies -> [Rows -> Values \cup {None}]]
  /\ strays \in [Copies -> Int]
  /\ minted \in SUBSET Rows
  /\ work \in [Procs -> Work]
  /\ holder \in Procs \cup {None}
  /\ queue \in 0 .. Attempts
  /\ faults \in Nat /\ lapses \in Nat
  /\ tainted \in SUBSET Copies

-----------------------------------------------------------------------------
\* Conversion: genesis and Main's create are in the log, the founder is at W = 2.
Init ==
  \E name \in MainNames :
    /\ oplog = <<ChainOp(Founder), CreateOp(Founder, Main, name, None)>>
    /\ status = [c \in Copies |-> IF c = Founder THEN "active" ELSE "out"]
    /\ applied = [c \in Copies |-> IF c = Founder THEN 2 ELSE 0]
    /\ linked = [c \in Copies |-> IF c = Founder THEN {Main} ELSE {}]
    /\ book = [c \in Copies |-> [r \in Rows |->
                 IF c = Founder /\ r = Main THEN name ELSE None]]
    /\ strays = [c \in Copies |-> 0]
    /\ minted = {Main}
    /\ work = [p \in Procs |-> Idle]
    /\ holder = None
    /\ queue = 0 /\ faults = 0 /\ lapses = 0
    /\ tainted = {}

Active == {c \in Copies : status[c] = "active"}
MembershipUnread(c) == {c}

\* findActiveMembership: by the user of the copy, so it may find the copy of a
\* rejoin; the database allows one active membership per user and chain.
Membership(c) == {d \in Active : UserOf[d] = UserOf[c]}

Lagging == {c \in Active : applied[c] < Len(oplog)}
Replaying(w) == w.at < w.upto
Room(k) == Len(oplog) + k <= MaxOps

LockFreeUnchecked == TRUE

\* SET NX on the chain's key; who finds it taken polls until it is gone.
LockFree == holder = None

\* withChainLock's finally: compare-and-delete, so only one's own lock goes.
Released(p) == IF holder = p THEN None ELSE holder

\* The process has changed its own copy for a write that is not in the log yet.
Uncommitted(w) ==
  /\ w.job = "submit" /\ ~Replaying(w)
  /\ w.pc \in {"link", "recreate", "repoint", "unlink", "append"}

\* An error ends the request, or this copy's turn in the sweep; the lock goes.
Fails(p) ==
  LET w == work[p] IN
  /\ work' = [work EXCEPT ![p] =
       IF w.job = "replicate"
       THEN [Idle EXCEPT !.job = "replicate", !.pc = "sweep", !.failed = TRUE,
                         !.sweep = w.sweep, !.tries = w.tries]
       ELSE Idle]
  /\ holder' = Released(p)
  /\ tainted' = IF Uncommitted(w) THEN tainted \cup {w.copy} ELSE tainted

-----------------------------------------------------------------------------
(* Applying ops to a copy: applyLedgerOp, one transaction per action. *)

SourceKnown(c, op) == op.src = None \/ op.src \in linked[c]

SkipsLostRow(c, op) ==
  \/ op.kind = "chain"
  \/ op.kind = "create" /\ op.row \in linked[c]
  \/ op.kind \in {"update", "delete"} /\ book[c][op.row] \in {None, op.val}
SkipsUnknownSource(c, op) ==
  \/ op.kind = "chain"
  \/ op.kind = "create" /\ (op.row \in linked[c] \/ ~SourceKnown(c, op))
  \/ op.kind \in {"update", "delete"} /\ op.row \notin linked[c]

\* Re-delivery finds the op already applied, or its row gone.
Skips(c, op) ==
  \/ op.kind = "chain"
  \/ op.kind = "create" /\ op.row \in linked[c]
  \/ op.kind = "update" /\ op.row \in Txs \cup Moves /\ op.row \notin linked[c]
  \/ op.kind = "update" /\ op.row \notin Moves /\ op.row \in linked[c]
                        /\ book[c][op.row] = op.val
  \/ op.kind = "delete" /\ op.row \notin linked[c]

\* A local row with no link (missing source or source link, movement gone, or
\* a transaction to rebuild whose create is not the first op on it).
Throws(c, op) ==
  /\ ~Skips(c, op)
  /\ \/ ~SourceKnown(c, op)
     \/ op.kind = "update" /\ op.row \in Sources /\ op.row \notin linked[c]
     \/ op.kind = "update" /\ op.row \in Moves /\ book[c][op.row] = None
     \/ /\ op.kind = "update" /\ op.row \in Txs /\ book[c][op.row] = None
        /\ ~CreatedFirst(oplog, op.row)

Goes(p, phase, ops) ==
  work' = [work EXCEPT ![p].pc = phase, ![p].ops = ops, ![p].done = 0]

\* Where an op leads once it is applied: replay bumps the watermark, a submit
\* appends the op it has just applied to its own copy.
Settled(w) == IF Replaying(w) THEN "bump" ELSE "append"

\* An update that changes nothing where it is applied is not logged; the service
\* writes it to the row the request named, of a transaction the note alone.
Restated(op) ==
  LET old == book[op.by][op.row] IN
  IF op.row \notin linked[op.by] \/ old = None THEN {old}
  ELSE IF op.row \in Sources THEN {op.val} ELSE {old, op.val}

\* The first transaction that applying `ops' (one op, or a batch of creates) makes.
Apply(p, ops) ==
  LET w == work[p]
      c == w.copy
      op == ops[1]
      r == op.row
  IN
  \/ /\ Skips(c, op)
     /\ IF op.kind = "update" /\ ~Replaying(w)
        THEN /\ Goes(p, "finish", ops)
             /\ \E v \in Restated(op) : book' = [book EXCEPT ![op.by][r] = v]
        ELSE Goes(p, Settled(w), ops) /\ UNCHANGED book
     /\ UNCHANGED <<status, applied, linked, strays, holder, tainted>>
  \/ Throws(c, op) /\ Fails(p) /\ UNCHANGED copyVars
  \/ /\ ~Skips(c, op) /\ ~Throws(c, op)
     /\ UNCHANGED <<status, applied, linked, holder, tainted>>
     /\ \/ /\ op.kind = "create"
           /\ strays' = [strays EXCEPT ![c] = @ + Len(ops)]
           /\ Goes(p, "link", ops) /\ UNCHANGED book
        \/ /\ op.kind = "update" /\ book[c][r] # None        \* in place
           /\ book' = [book EXCEPT ![c][r] = op.val]
           /\ Goes(p, Settled(w), ops) /\ UNCHANGED strays
        \/ /\ op.kind = "update" /\ r \in Txs /\ book[c][r] # None
           /\ book' = [book EXCEPT ![c][r] = None]           \* correction path
           /\ Goes(p, "recreate", ops) /\ UNCHANGED strays
        \/ /\ op.kind = "update" /\ r \in Txs /\ book[c][r] = None
           /\ strays' = [strays EXCEPT ![c] = @ + 1]         \* heal
           /\ Goes(p, "repoint", ops) /\ UNCHANGED book
        \/ /\ op.kind = "delete"
           /\ book' = [book EXCEPT ![c][r] = None]
           /\ Goes(p, "unlink", ops) /\ UNCHANGED strays

\* The correction path deleted the row and now creates it anew.
Recreate(p) ==
  LET w == work[p] IN
  /\ w.pc = "recreate"
  /\ strays' = [strays EXCEPT ![w.copy] = @ + 1]
  /\ work' = [work EXCEPT ![p].pc = "repoint"]
  /\ UNCHANGED <<oplog, status, applied, linked, book, minted, holder, queue,
                 faults, lapses, tainted>>

\* ... and points the link at the new row; a row it pointed at before goes stray.
Repoint(p) ==
  LET w == work[p]
      c == w.copy
      op == w.ops[1]
  IN
  /\ w.pc = "repoint"
  /\ book' = [book EXCEPT ![c][op.row] = IF op.row \in linked[c] THEN op.val ELSE @]
  /\ strays' = [strays EXCEPT ![c] =
                  IF op.row \in linked[c] /\ book[c][op.row] = None THEN @ - 1 ELSE @]
  /\ work' = [work EXCEPT ![p].pc = Settled(w)]
  /\ UNCHANGED <<oplog, status, applied, linked, minted, holder, queue, faults,
                 lapses, tainted>>

AllLinkedTooSoon(w) == TRUE

AllLinked(w) == w.done + 1 = Len(w.ops)

\* insertMirrorRow for the next created row; the link is unique, so a second
\* process that created the same row fails here.
Link(p) ==
  LET w == work[p]
      c == w.copy
      op == w.ops[w.done + 1]
  IN
  /\ w.pc = "link"
  /\ \/ /\ op.row \in linked[c]
        /\ Fails(p) /\ UNCHANGED <<linked, book, strays>>
     \/ /\ op.row \notin linked[c]
        /\ linked' = [linked EXCEPT ![c] = @ \cup {op.row}]
        /\ book' = [book EXCEPT ![c][op.row] = op.val]
        /\ strays' = [strays EXCEPT ![c] = @ - 1]
        /\ work' = [work EXCEPT ![p].done = @ + 1,
                                ![p].pc = IF AllLinked(w) THEN Settled(w) ELSE "link"]
        /\ UNCHANGED <<holder, tainted>>
  /\ UNCHANGED <<oplog, status, applied, minted, queue, faults, lapses>>

\* deleteMirrorRow, after the local row is gone.
Unlink(p) ==
  LET w == work[p]
      c == w.copy
      r == w.ops[1].row
  IN
  /\ w.pc = "unlink"
  /\ linked' = [linked EXCEPT ![c] = @ \ {r}]
  /\ book' = [book EXCEPT ![c][r] = None]
  /\ strays' = [strays EXCEPT ![c] = IF book[c][r] = None THEN @ ELSE @ + 1]
  /\ work' = [work EXCEPT ![p].pc = Settled(w)]
  /\ UNCHANGED <<oplog, status, applied, minted, holder, queue, faults, lapses, tainted>>

-----------------------------------------------------------------------------
(* The replay loop: applyOpsToMember. *)

ApplyNext(p) ==
  LET w == work[p] IN
  /\ w.pc = "apply" /\ Replaying(w)
  /\ Apply(p, <<oplog[w.at + 1]>>)
  /\ UNCHANGED <<oplog, minted, queue, faults, lapses>>

RaisedBlindly(old, seq) == seq

\* advanceWatermark: never back.
Raised(old, seq) == IF old < seq THEN seq ELSE old

\* The watermark moves last.
Bump(p) ==
  LET w == work[p] IN
  /\ w.pc = "bump"
  /\ applied' = [applied EXCEPT ![w.copy] = Raised(@, w.at + 1)]
  /\ work' = [work EXCEPT ![p].pc = "apply", ![p].at = @ + 1, ![p].ops = <<>>,
                          ![p].done = 0]
  /\ UNCHANGED <<oplog, status, linked, book, strays, minted, holder, queue,
                 faults, lapses, tainted>>

-----------------------------------------------------------------------------
(* mirror.replicate: replicateChain over replayMemberIfAllowed. *)

JobPick(p) ==
  /\ p \in Workers /\ work[p].pc = "idle" /\ queue > 0
  /\ work' = [work EXCEPT ![p] = [Idle EXCEPT !.job = "replicate", !.pc = "sweep",
                                             !.sweep = Lagging, !.tries = queue]]
  /\ queue' = 0
  /\ UNCHANGED <<oplog, copyVars, minted, holder, faults, lapses, tainted>>

\* Under the lock the membership and the ops are read afresh.
Visit(p) ==
  LET w == work[p] IN
  /\ w.pc = "sweep" /\ LockFree
  /\ \E c \in w.sweep :
       \/ \E d \in Membership(c) :
            /\ holder' = p
            /\ work' = [work EXCEPT ![p].pc = "apply", ![p].copy = d,
                                    ![p].at = applied[d], ![p].upto = Len(oplog),
                                    ![p].sweep = @ \ {c}]
       \/ /\ Membership(c) = {}
          /\ work' = [work EXCEPT ![p].sweep = @ \ {c}]
          /\ UNCHANGED holder
  /\ UNCHANGED <<oplog, copyVars, minted, queue, faults, lapses, tainted>>

VisitDone(p) ==
  LET w == work[p] IN
  /\ w.pc = "apply" /\ ~Replaying(w) /\ w.job = "replicate"
  /\ work' = [work EXCEPT ![p] = [Idle EXCEPT !.job = "replicate", !.pc = "sweep",
                 !.sweep = w.sweep, !.failed = w.failed, !.tries = w.tries]]
  /\ holder' = Released(p)
  /\ UNCHANGED <<oplog, copyVars, minted, queue, faults, lapses, tainted>>

AgainNever(w) == 0
AgainCountingUp(w) == IF w.failed THEN w.tries + 1 ELSE IF Lagging # {} THEN Attempts ELSE 0

\* A failure throws after the sweep, so BullMQ retries until the attempts are
\* used up; a copy that lags again without one gets a fresh job.
Again(w) == IF w.failed THEN w.tries - 1 ELSE IF Lagging # {} THEN Attempts ELSE 0

JobDone(p) ==
  LET w == work[p] IN
  /\ w.pc = "sweep" /\ w.sweep = {}
  /\ queue' = IF queue < Again(w) THEN Again(w) ELSE queue
  /\ work' = [work EXCEPT ![p] = Idle]
  /\ UNCHANGED <<oplog, copyVars, minted, holder, faults, lapses, tainted>>

-----------------------------------------------------------------------------
(* A member's write: withSubmitPrincipalGuards around a submit function. *)

SubmitStartBehind(p) ==
  /\ p \in Clients /\ work[p].pc = "idle" /\ LockFree
  /\ holder' = p
  /\ \E c \in Active :
       work' = [work EXCEPT ![p] = [Idle EXCEPT !.job = "submit", !.pc = "choose",
                                      !.copy = c, !.member = c]]
  /\ UNCHANGED <<oplog, copyVars, minted, queue, faults, lapses, tainted>>

\* A copy that is up to date writes at once, another catches up first.
FirstPhase(c) == IF applied[c] < Len(oplog) THEN "apply" ELSE "choose"

\* Lock, membership check, and the window of ops to catch up on first.
SubmitStart(p) ==
  /\ p \in Clients /\ work[p].pc = "idle" /\ LockFree
  /\ holder' = p
  /\ \E c \in Active :
       work' = [work EXCEPT ![p] = [Idle EXCEPT !.job = "submit", !.pc = FirstPhase(c),
                                      !.copy = c, !.member = c,
                                      !.at = applied[c], !.upto = Len(oplog)]]
  /\ UNCHANGED <<oplog, copyVars, minted, queue, faults, lapses, tainted>>

\* After catch-up the user's membership is read again, whichever it then is.
CaughtUp(p) ==
  LET w == work[p] IN
  /\ w.pc = "apply" /\ ~Replaying(w) /\ w.job = "submit"
  /\ \/ /\ \E d \in Membership(w.copy) :
             work' = [work EXCEPT ![p].pc = "choose", ![p].member = d]
        /\ UNCHANGED <<holder, tainted>>
     \/ Membership(w.copy) = {} /\ Fails(p)
  /\ UNCHANGED <<oplog, copyVars, minted, queue, faults, lapses>>

\* The copy's own sources that have a chain-wide id; None books on Main.
OwnSources(c) == (linked[c] \cap Sources) \cup {None}

\* One entry or source, or a batch of transactions, under newly minted ids.
ChooseCreate(p) ==
  LET w == work[p] IN
  /\ w.pc = "choose"
  /\ \E s \in OwnSources(w.copy), v \in Values,
        new \in SUBSET (Rows \ minted) :
       /\ Cardinality(new) \in 1 .. MaxBatch /\ Room(Cardinality(new))
       /\ Cardinality(new) = 1 \/ new \subseteq Txs
       /\ new \subseteq Sources => s = None
       /\ new \subseteq Moves => s # None
       /\ minted' = minted \cup new
       /\ \E ops \in [1 .. Cardinality(new) -> {CreateOp(w.copy, r, v, s) : r \in new}] :
            /\ {ops[i].row : i \in DOMAIN ops} = new
            /\ Goes(p, "act", ops)
  /\ UNCHANGED <<oplog, copyVars, holder, queue, faults, lapses, tainted>>

\* Cash movements are edited where the request found them, dividends, the other
\* movements, deleted by applyLedgerOp in the membership's copy as all else is.
Places(w, op) ==
  CASE op.row \notin Moves -> {w.member}
    [] op.kind = "update" -> {w.copy}
    [] OTHER -> {w.copy, w.member}

EditsIn(p, c, ops) ==
  work' = [work EXCEPT ![p].pc = "act", ![p].copy = c, ![p].ops = ops, ![p].done = 0]

\* checkEntityGuard passes: the client saw the latest op, and no delete.
ChooseEdit(p) ==
  LET w == work[p] IN
  /\ w.pc = "choose" /\ Room(1)
  /\ \E r \in linked[w.copy], b \in 0 .. Len(oplog) :
       /\ book[w.copy][r] # None
       /\ \E op \in {UpdateOp(w.copy, r, v, s, b) :
                       v \in Values, s \in OwnSources(w.copy)}
                     \cup {DeleteOp(w.copy, r, b)} :
            /\ op.kind = "delete" => r \notin Sources
            /\ op.kind = "update" => (op.src # None <=> r \in Moves)
            /\ Current(oplog, op)
            /\ \E c \in Places(w, op) : EditsIn(p, c, <<op>>)
  /\ UNCHANGED <<oplog, copyVars, minted, holder, queue, faults, lapses, tainted>>

\* ... or it refuses with a 409, as the services do with invalid input.
ChooseRefused(p) ==
  /\ work[p].pc = "choose"
  /\ Fails(p)
  /\ UNCHANGED <<oplog, copyVars, minted, queue, faults, lapses>>

Act(p) ==
  /\ work[p].pc = "act"
  /\ Apply(p, work[p].ops)
  /\ UNCHANGED <<oplog, minted, queue, faults, lapses>>

AcceptedUnguarded(w) == w.job = "depart" \/ Membership(w.copy) # {}
AcceptedFromSevered(w) ==
  \A i \in DOMAIN w.ops : Guarded(w.ops[i]) => Current(oplog, w.ops[i])

\* The checks of appendOpsChecked: the user is a member, of whichever copy, and
\* nobody edited the row; a departure's op alone is appended without.
Accepted(w) ==
  \/ w.job = "depart"
  \/ /\ Membership(w.copy) # {}
     /\ \A i \in DOMAIN w.ops : Guarded(w.ops[i]) => Current(oplog, w.ops[i])

\* The checks and the new seqs are one transaction on the chain row.
AppendOps(p) ==
  LET w == work[p] IN
  /\ w.pc = "append"
  /\ \/ /\ Accepted(w)
        /\ oplog' = oplog \o w.ops
        /\ work' = [work EXCEPT ![p].pc = IF w.job = "submit" THEN "ack" ELSE "finish",
                                ![p].at = Len(oplog'), ![p].upto = Len(oplog'),
                                ![p].ops = <<>>, ![p].done = 0]
        /\ UNCHANGED <<holder, tainted>>
     \/ ~Accepted(w) /\ Fails(p) /\ UNCHANGED oplog
  /\ UNCHANGED <<copyVars, minted, queue, faults, lapses>>

\* The membership's watermark jumps past one's own ops.
Ack(p) ==
  LET w == work[p] IN
  /\ w.pc = "ack"
  /\ applied' = [applied EXCEPT ![w.member] = Raised(@, w.at)]
  /\ work' = [work EXCEPT ![p].pc = "finish"]
  /\ UNCHANGED <<oplog, status, linked, book, strays, minted, holder, queue,
                 faults, lapses, tainted>>

\* scheduleReplicate, a best effort, then the lock goes.
Finish(p) ==
  /\ work[p].pc = "finish"
  /\ \/ queue' = Attempts /\ UNCHANGED faults
     \/ faults < MaxFaults /\ faults' = faults + 1 /\ UNCHANGED queue
  /\ work' = [work EXCEPT ![p] = Idle]
  /\ holder' = Released(p)
  /\ UNCHANGED <<oplog, copyVars, minted, lapses, tainted>>

-----------------------------------------------------------------------------
(* Membership, as far as replication sees it; MirrorMembership has the rest. *)

\* attachMemberCopyUnderLock: a new portfolio whose Main is linked beforehand.
Join(p) ==
  /\ p \in Clients /\ work[p].pc = "idle" /\ LockFree /\ Active # {} /\ Room(1)
  /\ holder' = p
  /\ \E c \in Copies :
       /\ status[c] = "out" /\ Membership(c) = {}
       /\ status' = [status EXCEPT ![c] = "active"]
       /\ linked' = [linked EXCEPT ![c] = {Main}]
       /\ book' = [book EXCEPT ![c][Main] = DefaultName]
       /\ work' = [work EXCEPT ![p] = [Idle EXCEPT !.job = "join", !.pc = "append",
                                          !.copy = c, !.ops = <<ChainOp(c)>>]]
  /\ UNCHANGED <<oplog, applied, strays, minted, queue, faults, lapses, tainted>>

\* leaveChain and removeMember: the tombstone first, then the op.
Depart(p) ==
  /\ p \in Clients /\ work[p].pc = "idle" /\ LockFree /\ Room(1)
  /\ holder' = p
  /\ \E c \in Active :
       /\ status' = [status EXCEPT ![c] = "ended"]
       /\ work' = [work EXCEPT ![p] = [Idle EXCEPT !.job = "depart", !.pc = "append",
                                          !.copy = c, !.ops = <<ChainOp(c)>>]]
  /\ UNCHANGED <<oplog, applied, linked, book, strays, minted, queue, faults,
                 lapses, tainted>>

-----------------------------------------------------------------------------
(* Faults. *)

\* A statement fails: the exception runs through withChainLock's finally.
Error(p) ==
  /\ work[p].pc \notin {"idle", "sweep"} /\ faults < MaxFaults
  /\ faults' = faults + 1
  /\ Fails(p)
  /\ UNCHANGED <<oplog, copyVars, minted, queue, lapses>>

\* The wait for the lock times out (MIRROR_BUSY) on one copy of the sweep.
Busy(p) ==
  /\ work[p].pc = "sweep" /\ holder \notin {None, p} /\ faults < MaxFaults
  /\ faults' = faults + 1
  /\ \E c \in work[p].sweep :
       work' = [work EXCEPT ![p].sweep = @ \ {c}, ![p].failed = TRUE]
  /\ UNCHANGED <<oplog, copyVars, minted, holder, queue, lapses, tainted>>

\* The process dies; its lock expires and BullMQ delivers its job again.
Crash(p) ==
  LET w == work[p] IN
  /\ w.pc # "idle" /\ faults < MaxFaults
  /\ faults' = faults + 1
  /\ work' = [work EXCEPT ![p] = Idle]
  /\ holder' = Released(p)
  /\ queue' = IF queue < w.tries THEN w.tries ELSE queue
  /\ tainted' = IF Uncommitted(w) THEN tainted \cup {w.copy} ELSE tainted
  /\ UNCHANGED <<oplog, copyVars, minted, lapses>>

\* The lock expires although its holder works on: renewals lost, Redis flushed.
Lapse ==
  /\ holder # None /\ lapses < MaxLapses
  /\ holder' = None
  /\ lapses' = lapses + 1
  /\ UNCHANGED <<oplog, copyVars, minted, work, queue, faults, tainted>>

-----------------------------------------------------------------------------
Applies(p) == ApplyNext(p) \/ Recreate(p) \/ Repoint(p) \/ Link(p) \/ Unlink(p) \/ Bump(p)
Replicate(p) == JobPick(p) \/ Visit(p) \/ VisitDone(p) \/ JobDone(p)
Submit(p) == CaughtUp(p) \/ ChooseCreate(p) \/ ChooseEdit(p) \/ ChooseRefused(p)
             \/ Act(p) \/ AppendOps(p) \/ Ack(p) \/ Finish(p)

\* What a process does by itself once it has begun.
Works(p) == Applies(p) \/ Replicate(p) \/ Submit(p)

Next ==
  \/ \E p \in Procs : \/ Works(p) \/ SubmitStart(p) \/ Join(p) \/ Depart(p)
                       \/ Error(p) \/ Busy(p) \/ Crash(p)
  \/ Lapse

Spec == Init /\ [][Next]_vars

\* Work that was begun goes on, and a job that waits for the lock gets it in the
\* end: it polls every LOCK_POLL_MS, and a wait that times out is a fault (Busy).
FairSpec == /\ Spec
            /\ \A p \in Procs : WF_vars(Works(p))
            /\ \A p \in Workers : SF_vars(JobPick(p)) /\ SF_vars(Visit(p))

-----------------------------------------------------------------------------
(* Properties. *)

\* No lost update: every update and delete in the log was made against the op
\* that directly precedes it on its row, and nothing edits a deleted row.  This
\* must hold even when the lock lapses, since the append checks it again in the
\* transaction that assigns the seq (appendOpsChecked).
NoLostUpdate ==
  \A i \in 1 .. Len(oplog) : Guarded(oplog[i]) =>
    /\ oplog[i].base < i
    /\ LatestAmong(oplog, i - 1, oplog[i].row, oplog[i].base)
    /\ oplog[i].base > 0 => oplog[oplog[i].base].kind # "delete"

\* Seqs are given once: the log only grows at its end, and a copy's watermark
\* only rises and never passes the log (advanceWatermark's guard).
Monotone ==
  [][ /\ Len(oplog) <= Len(oplog') /\ \A i \in 1 .. Len(oplog) : oplog'[i] = oplog[i]
      /\ \A c \in Copies : applied[c] <= applied'[c] /\ applied'[c] <= Len(oplog')
    ]_<<oplog, applied>>

\* Who is severed gets no write into the group, not even one that was under way
\* and whose lock had lapsed, unless they were let in again meanwhile; while the
\* lock is kept not even then, since it was the copy they lost that wrote.
SeveredStaysOut ==
  [][ \A i \in Len(oplog) + 1 .. Len(oplog') :
        oplog'[i].kind # "chain" =>
          /\ Membership(oplog'[i].by) # {}
          /\ lapses = 0 => status[oplog'[i].by] = "active" ]_oplog

\* The next write of a copy that failed to append must not be mistaken for
\* convergence, so what follows is about the copies on which none did.
Sound(c) == c \notin tainted /\ \A p \in Procs : work[p].copy # c

\* A submit that fails between its link and its append leaves a row that can be
\* edited although the log has no create of it; no other copy will ever hold it.
Born(r) == (\E i \in 1 .. Len(oplog) : oplog[i].row = r) => CreatedFirst(oplog, r)

\* Every copy is created with a Main of its own, before Main's create is applied.
MainOnArrival(c, r) == r = Main /\ linked[c] # {} /\ applied[c] < 2

\* Convergence: once no process works on it, a copy that has applied the whole
\* log holds exactly the rows the log says, whatever errors, crashes and
\* re-deliveries happened on the way.
Converged ==
  \A c \in Copies :
    status[c] = "active" /\ applied[c] = Len(oplog) /\ Sound(c) =>
      \A r \in Rows :
        \/ /\ book[c][r] = StateAt(oplog, Len(oplog), r)
           /\ r \in linked[c] <=> book[c][r] # None
        \/ ~Born(r)

\* A stalled or lagging copy lags, it does not diverge: each of its rows is as
\* the log has it at the watermark, except one whose next op was begun.
LagsNeverDiverges ==
  \A c \in Copies :
    status[c] # "out" /\ Sound(c) =>
      \A r \in Rows :
        \/ book[c][r] = StateAt(oplog, applied[c], r)
        \/ MainOnArrival(c, r) \/ ~Born(r)
        \/ \E n \in applied[c] + 1 .. Len(oplog) :
             /\ oplog[n].row = r
             /\ book[c][r] \in {oplog[n].val, None}
             /\ n = applied[c] + 1 \/ oplog[n].by = c

\* What is severed is frozen: no later op reaches a copy that left, and nothing
\* else changes it either, while the lock is kept.
ForksAreFrozen ==
  [][ \A c \in Copies : status[c] = "ended" /\ lapses = 0 =>
        /\ applied'[c] = applied[c] /\ linked'[c] = linked[c]
        /\ book'[c] = book[c] /\ strays'[c] = strays[c] ]_vars

\* The lock does its work: while it is kept, two processes never touch copies at
\* once.  (Everything above under the lock rests on this.)
OneApplier ==
  lapses = 0 => \A p, q \in Procs :
    work[p].pc \notin {"idle", "sweep"} /\ work[q].pc \notin {"idle", "sweep"} => p = q

\* The log is what ChainLog promises: members write, copies learn the ops in
\* order, each one but their own, and the severed neither write nor learn.
Abstract == INSTANCE ChainLog WITH log <- oplog, seen <- applied, roster <- status
ImplementsChainLog == Abstract!Spec

\* A write that reached the log reaches every member: a waiting job brings every
\* copy that stays to the log's present end, through errors and crashes.
Delivered ==
  \A n \in 1 .. MaxOps : \A c \in Copies :
    (queue > 0 /\ Len(oplog) >= n /\ status[c] = "active")
      ~> (applied[c] >= n \/ status[c] = "ended")

-----------------------------------------------------------------------------
(* What the design says and the code does not keep. *)

\* "Creates: skip if mirror_rows already exists; a crash between service commit
\* and watermark bump re-applies harmlessly": no copy ever holds a second row.
ExactlyOnce == \A c \in Copies : status[c] = "active" /\ Sound(c) => strays[c] = 0
=============================================================================
