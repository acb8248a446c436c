---------------------------- MODULE PriceAlertProofs ----------------------------
(***************************************************************************)
(* How often an alert is told, and what its stamp stands for, whatever the *)
(* number of runs, however long they stall and whenever they die.          *)
(***************************************************************************)
EXTENDS PriceAlert, TLAPS

-----------------------------------------------------------------------------
(* The inductive invariants. *)

Busy(r) == run[r].pc # "idle"
Claimed(r) == run[r].pc \in {"claimed", "release"}

\* A stamp that nobody has to tell any more.
Settled(t) == t \in lost \/ \E n \in told : n.now = t

\* Runs are told apart by their tick, and one that began after an edit is later than
\* one that began before it.
Ordered ==
  \A r, o \in Runs : Busy(r) /\ Busy(o) /\ r # o =>
    run[r].now # run[o].now /\ (run[r].edits < run[o].edits => run[r].now < run[o].now)

\* A claim was made on a settled stamp; if the row holds the stamp of a claim, it is as
\* the claim left it, or the stamp is settled.
Stamped ==
  \A r \in Runs : Claimed(r) =>
    /\ run[r].last # 0 => Settled(run[r].last)
    /\ last = run[r].now /\ status # "removed" => AsLeft(r) \/ Settled(last)

\* Nothing is later than now, and what belongs to the present terms has read them.
Timely ==
  /\ last <= time
  /\ \A r \in Runs : Busy(r) =>
       /\ run[r].now <= time /\ run[r].last <= run[r].now /\ run[r].edits <= edits
       /\ run[r].edits = edits => run[r].repeat = repeat
       /\ run[r].pc = "locked" => ~Resting(r)
  /\ \A n \in told :
       /\ n.edits <= edits
       /\ n.whole /\ n.edits = edits => n.repeat = repeat
       /\ \A r \in Runs : n.whole /\ Busy(r) /\ run[r].edits < n.edits => run[r].now < n.now

Base == TypeOK /\ Ordered /\ Timely

StampInv == Base /\ Stamped /\ StampIsTold

\* The ticks at which the alert has fired under the present terms, as one run sees it:
\* told already, or claimed by another run.
Fired(n) == n \in told /\ n.whole /\ n.edits = edits
Firing(r) == Claimed(r) /\ run[r].edits = edits

\* The row's stamp is not older than a fire ...
Topmost ==
  status # "removed" =>
    /\ \A n \in told : Fired(n) => n.now <= last
    /\ \A r \in Runs : Firing(r) => run[r].now <= last

\* ... also if a claim is given back.
Layered ==
  \A r \in Runs : Claimed(r) =>
    /\ \A n \in told : Fired(n) => n.now <= run[r].last \/ run[r].now < n.now
    /\ \A o \in Runs : Firing(o) /\ o # r => run[o].now <= run[r].last \/ run[r].now < run[o].now

Apart(x, y) == repeat /\ (x < y => x + Cooldown <= y) /\ (y < x => y + Cooldown <= x)

\* What fires has fired alone, or with a rest between.
Rested ==
  /\ \A r \in Runs : Firing(r) =>
       /\ \A n \in told : Fired(n) => Apart(n.now, run[r].now)
       /\ \A o \in Runs : Firing(o) /\ o # r => Apart(run[o].now, run[r].now)
  /\ ~repeat /\ status = "active" =>
       (\A n \in told : ~Fired(n)) /\ (\A r \in Runs : ~Firing(r))

FireInv == Base /\ Topmost /\ Layered /\ Rested /\ NoDoubleFire

-----------------------------------------------------------------------------
(* A step of one run. *)

LEMMA RunIsOne ==
  ASSUME TypeOK, NEW r \in Runs, Busy(r)
  PROVE  /\ run[r] \in Run
         /\ run[r].now \in Ticks /\ run[r].last \in 0 .. MaxTime /\ run[r].edits \in 0 .. MaxEdits
BY DEF TypeOK, Busy, Run, Idle

\* A run that goes on remembers what it has read.
LEMMA RunGoes ==
  ASSUME TypeOK, NEW r \in Runs, Busy(r),
         NEW pc \in {"loaded", "locked", "claimed", "release"}, Goes(r, pc)
  PROVE  /\ run' \in [Runs -> Run \cup {Idle}]
         /\ run'[r].pc = pc /\ run'[r].now = run[r].now /\ run'[r].last = run[r].last
         /\ run'[r].repeat = run[r].repeat /\ run'[r].edits = run[r].edits
         /\ \A o \in Runs : o # r => run'[o] = run[o]
<1>1. run[r] \in Run BY RunIsOne
<1>2. run' = [run EXCEPT ![r] = [run[r] EXCEPT !.pc = pc]] BY DEF Goes
<1>3. [run[r] EXCEPT !.pc = pc] \in Run BY <1>1 DEF Run
<1>4. run'[r] = [run[r] EXCEPT !.pc = pc] BY <1>2 DEF TypeOK
<1>5. QED BY <1>1, <1>2, <1>3, <1>4 DEF TypeOK, Run

LEMMA RunEnds ==
  ASSUME TypeOK, NEW r \in Runs, Ends(r)
  PROVE  /\ run' \in [Runs -> Run \cup {Idle}]
         /\ run'[r].pc = "idle"
         /\ \A o \in Runs : o # r => run'[o] = run[o]
BY DEF TypeOK, Ends, Idle

\* A run that loads the row knows it as it is.
LEMMA RunLoads ==
  ASSUME TypeOK, NEW r \in Runs, Load(r)
  PROVE  /\ run' \in [Runs -> Run \cup {Idle}]
         /\ run'[r] = [pc |-> "loaded", now |-> time, last |-> last, repeat |-> repeat,
                       edits |-> edits]
         /\ \A o \in Runs : o # r => run'[o] = run[o]
<1>1. [pc |-> "loaded", now |-> time, last |-> last, repeat |-> repeat, edits |-> edits] \in Run
  BY DEF TypeOK, Run
<1>2. QED BY <1>1 DEF Load, TypeOK

\* A tick lies in a window.
LEMMA WindowIsOne ==
  ASSUME NEW t \in Ticks
  PROVE  WindowOf(t) \in 0 .. MaxTime
BY AlertAssumption DEF AlertAssumption, Ticks, WindowOf

LEMMA TypeStep == TypeOK /\ [Next]_vars => TypeOK'
<1> SUFFICES ASSUME TypeOK, [Next]_vars PROVE TypeOK' OBVIOUS
<1>1. ASSUME NEW r \in Runs, Load(r) PROVE TypeOK'
  BY <1>1, RunLoads DEF Load, TypeOK, alert
<1>2. ASSUME NEW r \in Runs, Skip(r) \/ Dies(r) PROVE TypeOK'
  <2>1. run' \in [Runs -> Run \cup {Idle}] BY <1>2, RunEnds DEF Skip, Dies
  <2>2. run[r].pc \in {"claimed", "release"} => run[r].now \in Ticks
    BY RunIsOne DEF Busy
  <2>3. QED BY <1>2, <2>1, <2>2 DEF Skip, Dies, TypeOK, alert
<1>3. ASSUME NEW r \in Runs, Lock(r) PROVE TypeOK'
  <2>1. Busy(r) BY <1>3 DEF Lock, At, Busy
  <2>2. Ends(r) \/ Goes(r, "locked") BY <1>3 DEF Lock
  <2>3. run' \in [Runs -> Run \cup {Idle}] BY <2>1, <2>2, RunEnds, RunGoes
  <2>4. WindowOf(run[r].now) \in 0 .. MaxTime BY <2>1, RunIsOne, WindowIsOne
  <2>5. time + LockTtl \in 1 .. MaxTime + LockTtl
    BY AlertAssumption DEF AlertAssumption, TypeOK, Ticks
  <2>6. locks' \subseteq [window : 0 .. MaxTime, until : 1 .. MaxTime + LockTtl]
    BY <1>3, <2>4, <2>5 DEF Lock, TypeOK
  <2>7. QED BY <1>3, <2>3, <2>6 DEF Lock, TypeOK, alert
<1>4. ASSUME NEW r \in Runs, Claim(r) PROVE TypeOK'
  <2>1. Busy(r) BY <1>4 DEF Claim, At, Busy
  <2>2. Ends(r) \/ Goes(r, "claimed") BY <1>4 DEF Claim
  <2>3. run' \in [Runs -> Run \cup {Idle}] BY <2>1, <2>2, RunEnds, RunGoes
  <2>4. last' \in 0 .. MaxTime /\ status' \in {"active", "triggered", "removed"}
    BY <1>4, <2>1, RunIsOne DEF Claim, TypeOK, Ticks
  <2>5. lost' \subseteq Ticks
    <3>1. Pending(last) => last \in Ticks BY RunIsOne DEF Pending, Busy
    <3>2. QED BY <1>4, <3>1 DEF Claim, TypeOK
  <2>6. QED BY <1>4, <2>3, <2>4, <2>5 DEF Claim, TypeOK
<1>5. ASSUME NEW r \in Runs, Emit(r) PROVE TypeOK'
  <2>1. Busy(r) BY <1>5 DEF Emit, At, Busy
  <2>2. run' \in [Runs -> Run \cup {Idle}] BY <1>5, RunEnds DEF Emit
  <2>3. [now |-> run[r].now, repeat |-> run[r].repeat, edits |-> run[r].edits,
         whole |-> run[r].edits = edits] \in Notice
    <3>1. run[r].repeat \in BOOLEAN BY <2>1, RunIsOne DEF Run
    <3>2. (run[r].edits = edits) \in BOOLEAN OBVIOUS
    <3>3. QED BY <2>1, <3>1, <3>2, RunIsOne DEF Notice
  <2>4. told' \subseteq Notice BY <1>5, <2>3 DEF Emit, TypeOK
  <2>5. QED BY <1>5, <2>2, <2>4 DEF Emit, TypeOK, alert
<1>6. ASSUME NEW r \in Runs, EmitFails(r) PROVE TypeOK'
  <2>1. Busy(r) BY <1>6 DEF EmitFails, At, Busy
  <2>2. run' \in [Runs -> Run \cup {Idle}] BY <1>6, <2>1, RunGoes DEF EmitFails
  <2>3. QED BY <1>6, <2>2 DEF EmitFails, TypeOK, alert
<1>7. ASSUME NEW r \in Runs, Release(r) PROVE TypeOK'
  <2>1. Busy(r) BY <1>7 DEF Release, At, Busy
  <2>2. run' \in [Runs -> Run \cup {Idle}] BY <1>7, RunEnds DEF Release
  <2>3. last' \in 0 .. MaxTime /\ status' \in {"active", "triggered", "removed"}
    BY <1>7, <2>1, RunIsOne DEF Release, TypeOK
  <2>4. QED BY <1>7, <2>2, <2>3 DEF Release, TypeOK
<1>8. CASE Rearm \/ Remove \/ Tick
  <2>1. CASE Rearm BY <2>1, AlertAssumption DEF Rearm, TypeOK, AlertAssumption
  <2>2. CASE Remove BY <2>2 DEF Remove, TypeOK
  <2>3. CASE Tick BY <2>3, AlertAssumption DEF Tick, TypeOK, alert, Ticks, AlertAssumption
  <2>4. QED BY <1>8, <2>1, <2>2, <2>3
<1>9. CASE Edit
  <2>1. repeat' \in BOOLEAN BY <1>9 DEF Edit
  <2>2. edits' \in 0 .. MaxEdits BY <1>9, AlertAssumption DEF Edit, TypeOK, AlertAssumption
  <2>3. QED BY <1>9, <2>1, <2>2 DEF Edit, TypeOK
<1>10. CASE UNCHANGED vars BY <1>10 DEF vars, alert, TypeOK
<1>11. QED
  BY <1>1, <1>2, <1>3, <1>4, <1>5, <1>6, <1>7, <1>8, <1>9, <1>10 DEF Next

LEMMA TypeInitially == Init => TypeOK
BY AlertAssumption DEF AlertAssumption, Init, TypeOK, Ticks

-----------------------------------------------------------------------------
(* What all the invariants need of a step. *)

\* One run goes on with what it knows, or ends; a claim it did not have, it has not.
QuietRun(r) ==
  /\ \A o \in Runs : o # r => run'[o] = run[o]
  /\ run'[r].pc # "idle" =>
       /\ Busy(r)
       /\ run'[r].now = run[r].now /\ run'[r].last = run[r].last
       /\ run'[r].repeat = run[r].repeat /\ run'[r].edits = run[r].edits

\* Runs keep their order when one of them moves, ends or begins.
LEMMA OrderKept ==
  ASSUME TypeOK, Ordered, NEW r \in Runs, QuietRun(r)
  PROVE  Ordered'
BY DEF Ordered, Busy, QuietRun

\* A step of a run is one of these: it begins, it ends or goes on without a trace on
\* the row, it claims, tells, or gives back.
Traceless(r) ==
  /\ UNCHANGED <<time, alert, edits, told>> /\ lost \subseteq lost'
  /\ QuietRun(r)
  /\ run'[r].pc \in {"claimed", "release"} => Claimed(r)
  /\ Claimed(r) => Claimed(r)' \/ run[r].now \in lost' \/ ~AsLeft(r)
  /\ run'[r].pc = "locked" => run[r].pc = "locked" \/ ~Resting(r)

Claiming(r) ==
  /\ At(r, "locked") /\ AsRead(r) /\ Goes(r, "claimed")
  /\ status' = IF run[r].repeat THEN "active" ELSE "triggered"
  /\ last' = run[r].now
  /\ lost' = IF Pending(last) THEN lost \cup {last} ELSE lost
  /\ UNCHANGED <<time, repeat, locks, edits, told>>

GivingBack(r) ==
  /\ At(r, "release") /\ AsLeft(r) /\ Ends(r)
  /\ status' = "active" /\ last' = run[r].last
  /\ UNCHANGED <<time, repeat, locks, edits, told, lost>>

LEMMA RunSteps ==
  ASSUME TypeOK, NEW r \in Runs,
         \/ Load(r) \/ Skip(r) \/ Lock(r) \/ Claim(r) \/ Emit(r) \/ EmitFails(r) \/ Release(r)
         \/ Dies(r)
  PROVE  Load(r) \/ Traceless(r) \/ Claiming(r) \/ Emit(r) \/ GivingBack(r)
<1>1. CASE Skip(r) \/ Dies(r) \/ (Release(r) /\ ~AsLeft(r)) \/ (Claim(r) /\ ~AsRead(r))
  <2>1. Ends(r) BY <1>1 DEF Skip, Dies, Release, Claim
  <2>2. UNCHANGED <<time, alert, edits, told>> /\ lost \subseteq lost'
    BY <1>1 DEF Skip, Dies, Release, Claim, alert
  <2>3. Claimed(r) => run[r].now \in lost' \/ ~AsLeft(r)
    BY <1>1 DEF Skip, Dies, Release, Claim, At, Claimed
  <2>4. QED BY <2>1, <2>2, <2>3, RunEnds DEF Traceless, QuietRun
<1>2. CASE Lock(r)
  <2>1. UNCHANGED <<time, alert, edits, told>> /\ lost \subseteq lost' BY <1>2 DEF Lock
  <2>2. Busy(r) /\ ~Resting(r) /\ (Ends(r) \/ Goes(r, "locked"))
    BY <1>2 DEF Lock, At, Busy
  <2>3. ~Claimed(r) BY <1>2 DEF Lock, At, Claimed
  <2>4. QED BY <2>1, <2>2, <2>3, RunEnds, RunGoes DEF Traceless, QuietRun
<1>3. CASE EmitFails(r)
  <2>1. UNCHANGED <<time, alert, edits, told>> /\ lost \subseteq lost' BY <1>3 DEF EmitFails
  <2>2. Busy(r) /\ Claimed(r) /\ Goes(r, "release") BY <1>3 DEF EmitFails, At, Busy, Claimed
  <2>3. QED BY <2>1, <2>2, RunGoes DEF Traceless, QuietRun, Claimed
<1>4. CASE Claim(r) /\ AsRead(r) BY <1>4 DEF Claim, Claiming
<1>5. CASE Release(r) /\ AsLeft(r) BY <1>5 DEF Release, GivingBack
<1>6. QED BY <1>1, <1>2, <1>3, <1>4, <1>5

\* The notice of a run.
Tells(r, m) ==
  /\ m.now = run[r].now /\ m.repeat = run[r].repeat /\ m.edits = run[r].edits
  /\ m.whole <=> run[r].edits = edits
  /\ told' = told \cup {m}

LEMMA Telling ==
  ASSUME NEW r \in Runs, Emit(r)
  PROVE  \E m : Tells(r, m)
<1>1. PICK m : m = [now |-> run[r].now, repeat |-> run[r].repeat, edits |-> run[r].edits,
                    whole |-> run[r].edits = edits]
  OBVIOUS
<1>2. Tells(r, m) BY <1>1 DEF Emit, Tells
<1>3. QED BY <1>2

LEMMA OrderStep ==
  ASSUME TypeOK, Ordered, Timely, [Next]_vars
  PROVE  Ordered'
<1>1. ASSUME NEW r \in Runs, Load(r) PROVE Ordered'
  <2>1. /\ run'[r].now = time /\ run'[r].edits = edits
        /\ \A o \in Runs : o # r => run'[o] = run[o]
    BY <1>1, RunLoads
  <2>2. \A o \in Runs : o # r /\ Busy(o) =>
           /\ run[o].now \in Ticks /\ run[o].edits \in 0 .. MaxEdits
           /\ run[o].now <= time /\ run[o].edits <= edits /\ run[o].now # time
    BY <1>1, RunIsOne DEF Load, Timely, At, Busy
  <2>3. time \in Ticks /\ edits \in 0 .. MaxEdits BY DEF TypeOK
  <2>4. QED BY <2>1, <2>2, <2>3, AlertAssumption DEF AlertAssumption, Ordered, Busy, Ticks
<1>2. ASSUME NEW r \in Runs, Traceless(r) PROVE Ordered' BY <1>2, OrderKept DEF Traceless
<1>3. ASSUME NEW r \in Runs, Claiming(r) PROVE Ordered'
  <2>1. Busy(r) BY <1>3 DEF Claiming, At, Busy
  <2>2. QuietRun(r) BY <1>3, <2>1, RunGoes DEF Claiming, QuietRun
  <2>3. QED BY <2>2, OrderKept
<1>4. ASSUME NEW r \in Runs, Emit(r) \/ GivingBack(r) PROVE Ordered'
  BY <1>4, RunEnds, OrderKept DEF Emit, GivingBack, QuietRun
<1>5. CASE Rearm \/ Edit \/ Remove \/ Tick \/ UNCHANGED vars
  BY <1>5 DEF Rearm, Edit, Remove, Tick, vars, Ordered, Busy
<1>6. QED BY <1>1, <1>2, <1>3, <1>4, <1>5, RunSteps DEF Next

\* What Timely says of a run, and of a notice.
TimelyRun(r) ==
  Busy(r) =>
    /\ run[r].now <= time /\ run[r].last <= run[r].now /\ run[r].edits <= edits
    /\ run[r].edits = edits => run[r].repeat = repeat
    /\ run[r].pc = "locked" => ~Resting(r)

TimelyNotice(n) ==
  /\ n.edits <= edits
  /\ n.whole /\ n.edits = edits => n.repeat = repeat
  /\ \A r \in Runs : n.whole /\ Busy(r) /\ run[r].edits < n.edits => run[r].now < n.now

LEMMA TimelyParts ==
  Timely <=> last <= time /\ (\A r \in Runs : TimelyRun(r)) /\ \A n \in told : TimelyNotice(n)
BY DEF Timely, TimelyRun, TimelyNotice

\* A run that only goes on, or ends, is as timely as before, and so are the notices.
LEMMA TimelyKept ==
  ASSUME TypeOK, Timely, NEW r \in Runs, QuietRun(r), UNCHANGED <<time, repeat, edits>>,
         run'[r].pc = "locked" => run[r].pc = "locked" \/ ~Resting(r)
  PROVE  /\ \A o \in Runs : TimelyRun(o)'
         /\ \A n \in told : TimelyNotice(n)'
<1>1. ASSUME NEW o \in Runs PROVE TimelyRun(o)'
  <2>1. TimelyRun(o) BY TimelyParts
  <2>2. CASE o # r BY <2>1, <2>2 DEF QuietRun, TimelyRun, Busy, Resting
  <2>3. CASE o = r BY <2>1, <2>3 DEF QuietRun, TimelyRun, Busy, Resting
  <2>4. QED BY <2>2, <2>3
<1>2. ASSUME NEW n \in told PROVE TimelyNotice(n)'
  <2>1. TimelyNotice(n) BY TimelyParts
  <2>2. QED BY <2>1 DEF QuietRun, TimelyNotice, Busy
<1>3. QED BY <1>1, <1>2

LEMMA TimelyStep ==
  ASSUME Base, [Next]_vars
  PROVE  Timely'
<1> USE DEF Base
<1>1. ASSUME NEW r \in Runs, Load(r) PROVE Timely'
  <2>1. /\ run'[r] = [pc |-> "loaded", now |-> time, last |-> last, repeat |-> repeat,
                      edits |-> edits]
        /\ \A o \in Runs : o # r => run'[o] = run[o]
    BY <1>1, RunLoads
  <2>2. UNCHANGED <<time, last, repeat, edits, told>> BY <1>1 DEF Load, alert
  <2>3. last <= time /\ time \in Nat /\ edits \in Nat
    BY AlertAssumption DEF AlertAssumption, Timely, TypeOK, Ticks
  <2>4. ASSUME NEW o \in Runs PROVE TimelyRun(o)'
    <3>1. CASE o # r BY <2>1, <2>2, <3>1, TimelyParts DEF TimelyRun, Busy, Resting
    <3>2. CASE o = r BY <2>1, <2>2, <2>3, <3>2 DEF TimelyRun, Busy
    <3>3. QED BY <3>1, <3>2
  <2>5. ASSUME NEW n \in told PROVE TimelyNotice(n)'
    <3>1. TimelyNotice(n) BY TimelyParts
    <3>2. n.edits \in Nat BY AlertAssumption DEF AlertAssumption, TypeOK, Notice
    <3>3. QED BY <2>1, <2>2, <2>3, <3>1, <3>2 DEF TimelyNotice, Busy
  <2>6. Timely' BY <2>2, <2>3, <2>4, <2>5 DEF Timely, TimelyRun, TimelyNotice
  <2>7. QED BY <2>6
<1>2. ASSUME NEW r \in Runs, Traceless(r) PROVE Timely'
  <2>1. UNCHANGED <<time, last, repeat, edits, told>> BY <1>2 DEF Traceless, alert
  <2>2. /\ \A o \in Runs : TimelyRun(o)'
        /\ \A n \in told : TimelyNotice(n)'
    BY <1>2, <2>1, TimelyKept DEF Traceless
  <2>3. QED BY <2>1, <2>2 DEF Timely, TimelyRun, TimelyNotice
<1>3. ASSUME NEW r \in Runs, Claiming(r) \/ GivingBack(r) PROVE Timely'
  <2>1. Busy(r) /\ (Goes(r, "claimed") \/ Ends(r)) /\ UNCHANGED <<time, repeat, edits, told>>
    BY <1>3 DEF Claiming, GivingBack, At, Busy
  <2>2. QuietRun(r) /\ run'[r].pc # "locked" BY <2>1, RunGoes, RunEnds DEF QuietRun
  <2>3. /\ \A o \in Runs : TimelyRun(o)'
        /\ \A n \in told : TimelyNotice(n)'
    BY <2>1, <2>2, TimelyKept
  <2>4. run[r].now \in Nat /\ run[r].last \in Nat /\ time \in Nat
    BY <2>1, RunIsOne, AlertAssumption DEF AlertAssumption, TypeOK, Ticks
  <2>5. run[r].now <= time /\ run[r].last <= run[r].now BY <2>1 DEF Timely
  <2>6. last' <= time' BY <1>3, <2>1, <2>4, <2>5 DEF Claiming, GivingBack
  <2>7. QED BY <2>1, <2>3, <2>6 DEF Timely, TimelyRun, TimelyNotice
<1>4. ASSUME NEW r \in Runs, Emit(r) PROVE Timely'
  <2>1. PICK m : Tells(r, m) BY <1>4, Telling
  <2>2. /\ m.now = run[r].now /\ m.repeat = run[r].repeat /\ m.edits = run[r].edits
        /\ m.whole <=> run[r].edits = edits
        /\ told' = told \cup {m}
    BY <2>1 DEF Tells
  <2>3. Busy(r) /\ Ends(r) /\ UNCHANGED <<time, last, repeat, edits>>
    BY <1>4 DEF Emit, alert, At, Busy
  <2>4. QuietRun(r) /\ run'[r].pc # "locked" /\ ~Busy(r)'
    BY <2>3, RunEnds DEF QuietRun, Busy
  <2>5. /\ \A o \in Runs : TimelyRun(o)'
        /\ \A n \in told : TimelyNotice(n)'
    BY <2>3, <2>4, TimelyKept
  <2>6. TimelyNotice(m)'
    <3>1. TimelyRun(r) BY TimelyParts
    <3>2. \A o \in Runs : Busy(o)' => o # r /\ Busy(o) /\ run'[o] = run[o]
      BY <2>4 DEF QuietRun, Busy
    <3>3. \A o \in Runs : Busy(o)' /\ run'[o].edits < run[r].edits => run'[o].now < run[r].now
      BY <2>3, <3>2 DEF Ordered
    <3>4. QED BY <2>2, <2>3, <3>1, <3>3 DEF TimelyNotice, TimelyRun
  <2>7. last' <= time' BY <2>3 DEF Timely
  <2>8. QED BY <2>2, <2>3, <2>5, <2>6, <2>7 DEF Timely, TimelyRun, TimelyNotice
<1>5. CASE Rearm \/ Edit
  <2>1. /\ UNCHANGED <<time, run, told>> /\ edits' = edits + 1 /\ last' \in {0, last}
        /\ time \in Nat /\ edits \in Nat
    BY <1>5, AlertAssumption DEF AlertAssumption, Rearm, Edit, TypeOK, Ticks
  <2>2. last' <= time' BY <2>1 DEF Timely
  <2>3. ASSUME NEW r \in Runs PROVE TimelyRun(r)'
    <3>1. TimelyRun(r) BY TimelyParts
    <3>2. Busy(r) => run[r].edits \in Nat
      BY RunIsOne, AlertAssumption DEF AlertAssumption
    <3>3. QED BY <2>1, <3>1, <3>2 DEF TimelyRun, Busy, Resting
  <2>4. ASSUME NEW n \in told PROVE TimelyNotice(n)'
    <3>1. TimelyNotice(n) BY TimelyParts
    <3>2. n.edits \in Nat BY AlertAssumption DEF AlertAssumption, TypeOK, Notice
    <3>3. QED BY <2>1, <3>1, <3>2 DEF TimelyNotice, Busy
  <2>5. QED BY <2>1, <2>2, <2>3, <2>4 DEF Timely, TimelyRun, TimelyNotice
<1>6. CASE Remove \/ UNCHANGED vars
  <2>1. UNCHANGED <<time, last, repeat, edits, run, told>> BY <1>6 DEF Remove, vars, alert
  <2>2. QED BY <2>1 DEF Timely, Busy, Resting
<1>7. CASE Tick
  <2>1. UNCHANGED <<last, repeat, edits, run, told>> /\ time' = time + 1 /\ time \in Nat
    BY <1>7, AlertAssumption DEF AlertAssumption, Tick, alert, TypeOK, Ticks
  <2>2. last \in Nat /\ last' <= time'
    BY <2>1, AlertAssumption DEF AlertAssumption, Timely, TypeOK
  <2>3. \A r \in Runs : Busy(r) => run[r].now \in Nat
    BY RunIsOne, AlertAssumption DEF AlertAssumption, Ticks
  <2>4. ASSUME NEW r \in Runs PROVE TimelyRun(r)'
    BY <2>1, <2>3, TimelyParts DEF TimelyRun, Busy, Resting
  <2>5. \A n \in told : TimelyNotice(n)' BY <2>1, TimelyParts DEF TimelyNotice, Busy
  <2>6. QED BY <2>1, <2>2, <2>4, <2>5 DEF Timely, TimelyRun, TimelyNotice
<1>8. QED BY <1>1, <1>2, <1>3, <1>4, <1>5, <1>6, <1>7, RunSteps DEF Next

LEMMA BaseInitially == Init => Base
<1>1. ASSUME Init PROVE Ordered /\ Timely
  BY <1>1, AlertAssumption DEF AlertAssumption, Init, Ordered, Timely, Busy, Idle
<1>2. QED BY <1>1, TypeInitially DEF Base

LEMMA BaseInvariance == Spec => []Base
<1>1. Base /\ [Next]_vars => Base' BY TypeStep, OrderStep, TimelyStep DEF Base
<1>2. QED BY BaseInitially, <1>1, PTL DEF Spec

-----------------------------------------------------------------------------
(* A stamp is told, or accounted for. *)

LEMMA SettledIsTold ==
  ASSUME NEW t
  PROVE  Settled(t) <=> t \in {n.now : n \in told} \cup lost
BY DEF Settled

LEMMA SettledForGood ==
  ASSUME NEW t, Settled(t), told \subseteq told', lost \subseteq lost'
  PROVE  Settled(t)'
BY DEF Settled

\* The parts of the invariant, in one form.
StampedRun(r) ==
  Claimed(r) =>
    /\ run[r].last # 0 => Settled(run[r].last)
    /\ last = run[r].now /\ status # "removed" => AsLeft(r) \/ Settled(last)

Accounted == last # 0 /\ status # "removed" => Settled(last) \/ Pending(last)

LEMMA StampParts ==
  /\ Stamped <=> \A r \in Runs : StampedRun(r)
  /\ StampIsTold <=> Accounted
BY SettledIsTold DEF Stamped, StampedRun, StampIsTold, Accounted

\* The claims of the other runs, when the row keeps its stamp.
LEMMA StampedKept ==
  ASSUME StampInv, UNCHANGED <<status, last>>, told \subseteq told', lost \subseteq lost',
         NEW r \in Runs, Claimed(r),
         run'[r].now = run[r].now, run'[r].last = run[r].last, run'[r].repeat = run[r].repeat
  PROVE  StampedRun(r)'
<1>1. StampedRun(r) BY StampParts DEF StampInv
<1>2. AsLeft(r) <=> AsLeft(r)' BY DEF AsLeft
<1>3. run[r].last # 0 => Settled(run[r].last)' BY <1>1, SettledForGood DEF StampedRun
<1>4. last = run[r].now /\ status # "removed" => AsLeft(r) \/ Settled(last)'
  BY <1>1, SettledForGood DEF StampedRun
<1>5. QED BY <1>1, <1>2, <1>3, <1>4 DEF StampedRun

LEMMA StampStep ==
  ASSUME StampInv, [Next]_vars
  PROVE  Stamped' /\ StampIsTold'
<1> USE DEF StampInv
<1> DEFINE Good == (\A r \in Runs : StampedRun(r)') /\ Accounted'
<1>1. SUFFICES Good BY DEF Stamped, StampedRun, StampIsTold, Accounted, Settled
<1>2. TypeOK /\ Ordered /\ Timely /\ (\A r \in Runs : StampedRun(r)) /\ Accounted
  BY StampParts DEF Base
<1>3. \A r \in Runs : Claimed(r) => Busy(r) /\ run[r].now # 0 /\ run[r].now \in Ticks
  BY <1>2, RunIsOne DEF Claimed, Busy, Ticks
<1>4. ASSUME NEW r \in Runs, Load(r) PROVE Good
  <2>1. UNCHANGED <<status, last, told, lost>> BY <1>4 DEF Load, alert
  <2>2. /\ ~Claimed(r) /\ ~Claimed(r)'
        /\ \A o \in Runs : o # r => run'[o] = run[o]
    BY <1>2, <1>4, RunLoads DEF Load, At, Claimed
  <2>3. ASSUME NEW o \in Runs PROVE StampedRun(o)'
    <3>1. CASE ~Claimed(o)' BY <3>1 DEF StampedRun
    <3>2. CASE Claimed(o)'
      <4>1. o # r /\ Claimed(o) /\ run'[o] = run[o] BY <2>2, <3>2 DEF Claimed
      <4>2. QED BY <2>1, <4>1, StampedKept
    <3>3. QED BY <3>1, <3>2
  <2>4. Pending(last) => Pending(last)' BY <2>1, <2>2 DEF Pending, Claimed
  <2>5. Accounted' BY <1>2, <2>1, <2>4 DEF Accounted, Settled
  <2>6. QED BY <2>3, <2>5
<1>5. ASSUME NEW r \in Runs, Traceless(r) PROVE Good
  <2>1. UNCHANGED <<status, last, told>> /\ lost \subseteq lost' /\ QuietRun(r)
    BY <1>5 DEF Traceless, alert
  <2>2. ASSUME NEW o \in Runs PROVE StampedRun(o)'
    <3>1. CASE ~Claimed(o)' BY <3>1 DEF StampedRun
    <3>2. CASE Claimed(o)'
      <4>1. /\ Claimed(o) /\ run'[o].now = run[o].now /\ run'[o].last = run[o].last
            /\ run'[o].repeat = run[o].repeat
        BY <1>5, <3>2 DEF Traceless, QuietRun, Claimed
      <4>2. QED BY <2>1, <4>1, StampedKept
    <3>3. QED BY <3>1, <3>2
  <2>3. ASSUME last # 0, status # "removed", Pending(last)
        PROVE  Pending(last)' \/ Settled(last)'
    <3>1. PICK o \in Runs : Claimed(o) /\ run[o].now = last BY <2>3 DEF Pending, Claimed
    <3>2. CASE Claimed(o)'
      <4>1. run'[o].now = last BY <1>5, <3>1, <3>2 DEF Traceless, QuietRun, Claimed
      <4>2. QED BY <2>1, <3>2, <4>1 DEF Pending, Claimed
    <3>3. CASE ~Claimed(o)'
      <4>1. o = r BY <2>1, <3>1, <3>3 DEF QuietRun, Claimed
      <4>2. last \in lost' \/ ~AsLeft(r) BY <1>5, <3>1, <3>3, <4>1 DEF Traceless
      <4>3. ~AsLeft(r) => Settled(last) BY <1>2, <2>3, <3>1, <4>1 DEF StampedRun
      <4>4. QED BY <2>1, <4>2, <4>3 DEF Settled
    <3>4. QED BY <3>2, <3>3
  <2>4. Accounted'
    <3>1. Settled(last) => Settled(last)' BY <2>1 DEF Settled
    <3>2. QED BY <1>2, <2>1, <2>3, <3>1 DEF Accounted
  <2>5. QED BY <2>2, <2>4
<1>6. ASSUME NEW r \in Runs, Claiming(r) PROVE Good
  <2>1. /\ last = run[r].last /\ status = "active" /\ last' = run[r].now /\ UNCHANGED told
        /\ status' = (IF run[r].repeat THEN "active" ELSE "triggered")
        /\ lost' = (IF Pending(last) THEN lost \cup {last} ELSE lost)
        /\ Busy(r) /\ Goes(r, "claimed") /\ ~Claimed(r)
    BY <1>6 DEF Claiming, AsRead, At, Busy, Claimed
  <2>2. /\ run'[r].pc = "claimed" /\ run'[r].now = run[r].now /\ run'[r].last = run[r].last
        /\ run'[r].repeat = run[r].repeat
        /\ \A o \in Runs : o # r => run'[o] = run[o]
    BY <1>2, <2>1, RunGoes
  <2>3. last # 0 => last \in lost' \/ \E n \in told' : n.now = last
    BY <1>2, <2>1 DEF Accounted, Settled
  <2>4. StampedRun(r)'
    <3>1. (run[r].last # 0 => Settled(run[r].last))' BY <2>1, <2>2, <2>3 DEF Settled
    <3>2. AsLeft(r)' BY <2>1, <2>2 DEF AsLeft
    <3>3. QED BY <3>1, <3>2 DEF StampedRun
  <2>5. ASSUME NEW o \in Runs, o # r PROVE StampedRun(o)'
    <3>1. CASE ~Claimed(o)' BY <3>1 DEF StampedRun
    <3>2. CASE Claimed(o)'
      <4>1. Claimed(o) /\ run'[o] = run[o] BY <2>2, <2>5, <3>2 DEF Claimed
      <4>2. run[o].last # 0 => Settled(run[o].last) BY <1>2, <4>1 DEF StampedRun
      <4>3. (run[o].last # 0 => Settled(run[o].last))' BY <2>1, <4>1, <4>2 DEF Settled
      <4>4. run[o].now # run[r].now BY <1>2, <1>3, <2>1, <2>5, <4>1 DEF Ordered
      <4>5. QED BY <2>1, <4>1, <4>3, <4>4 DEF StampedRun
    <3>3. QED BY <3>1, <3>2
  <2>6. Pending(last)' BY <2>1, <2>2 DEF Pending
  <2>7. QED BY <2>4, <2>5, <2>6 DEF Accounted
<1>7. ASSUME NEW r \in Runs, Emit(r) PROVE Good
  <2>1. /\ UNCHANGED <<status, last, lost>> /\ told \subseteq told'
        /\ \E n \in told' : n.now = run[r].now
    BY <1>7, Telling DEF Emit, alert, Tells
  <2>2. ~Claimed(r)' /\ \A o \in Runs : o # r => run'[o] = run[o]
    BY <1>2, <1>7, RunEnds DEF Emit, Claimed
  <2>3. ASSUME NEW o \in Runs PROVE StampedRun(o)'
    <3>1. CASE ~Claimed(o)' BY <3>1 DEF StampedRun
    <3>2. CASE Claimed(o)'
      <4>1. Claimed(o) /\ run'[o] = run[o] BY <2>2, <3>2 DEF Claimed
      <4>2. QED BY <2>1, <4>1, StampedKept
    <3>3. QED BY <3>1, <3>2
  <2>4. Settled(last) \/ Pending(last) => Settled(last)' \/ Pending(last)'
    <3>1. Settled(last) => Settled(last)' BY <2>1 DEF Settled
    <3>2. ASSUME NEW o \in Runs, Claimed(o), run[o].now = last
          PROVE  Settled(last)' \/ Pending(last)'
      <4>1. CASE o = r BY <2>1, <3>2, <4>1 DEF Settled
      <4>2. CASE o # r BY <2>1, <2>2, <3>2, <4>2 DEF Pending, Claimed
      <4>3. QED BY <4>1, <4>2
    <3>3. QED BY <3>1, <3>2 DEF Pending, Claimed
  <2>5. QED BY <1>2, <2>1, <2>3, <2>4 DEF Accounted
<1>8. ASSUME NEW r \in Runs, GivingBack(r) PROVE Good
  <2>1. /\ Claimed(r) /\ last' = run[r].last /\ UNCHANGED <<told, lost>> /\ Ends(r)
    BY <1>8 DEF GivingBack, At, Claimed
  <2>2. ~Claimed(r)' /\ \A o \in Runs : o # r => run'[o] = run[o]
    BY <1>2, <2>1, RunEnds DEF Claimed
  <2>3. last' # 0 => Settled(last)' BY <1>2, <2>1 DEF StampedRun, Settled
  <2>4. ASSUME NEW o \in Runs PROVE StampedRun(o)'
    <3>1. CASE ~Claimed(o)' BY <3>1 DEF StampedRun
    <3>2. CASE Claimed(o)'
      <4>1. Claimed(o) /\ run'[o] = run[o] BY <2>2, <3>2 DEF Claimed
      <4>2. (run[o].last # 0 => Settled(run[o].last))'
        BY <1>2, <2>1, <4>1 DEF StampedRun, Settled
      <4>3. last' = run[o].now => Settled(last)' BY <1>3, <2>3, <4>1
      <4>4. QED BY <4>1, <4>2, <4>3 DEF StampedRun
    <3>3. QED BY <3>1, <3>2
  <2>5. QED BY <2>3, <2>4 DEF Accounted
<1>9. CASE Rearm
  <2>1. last' = 0 /\ UNCHANGED <<run, told, lost>> BY <1>9 DEF Rearm
  <2>2. \A r \in Runs : StampedRun(r)'
    BY <1>2, <1>3, <2>1 DEF StampedRun, Claimed, Settled
  <2>3. QED BY <2>1, <2>2 DEF Accounted
<1>10. CASE Edit \/ Remove \/ Tick \/ UNCHANGED vars
  <2>1. UNCHANGED <<last, run, told, lost>> /\ status' \in {status, "removed"}
    BY <1>10 DEF Edit, Remove, Tick, vars, alert
  <2>2. \A r \in Runs : StampedRun(r)'
    BY <1>2, <2>1 DEF StampedRun, Claimed, Settled, AsLeft
  <2>3. QED BY <1>2, <2>1, <2>2 DEF Accounted, Settled, Pending
<1>11. QED
  BY <1>2, <1>4, <1>5, <1>6, <1>7, <1>8, <1>9, <1>10, RunSteps DEF Next

LEMMA StampInvariance == Spec => []StampInv
<1>1. Init => Stamped /\ StampIsTold BY DEF Init, Stamped, StampIsTold, Claimed, Idle
<1>2. StampInv /\ [Next]_vars => StampInv'
  BY TypeStep, OrderStep, TimelyStep, StampStep DEF Base, StampInv
<1>3. QED BY BaseInitially, <1>1, <1>2, PTL DEF Spec, StampInv

-----------------------------------------------------------------------------
(* An alert fires once, or with a rest between. *)

\* The parts of the invariant for one run.
LayeredRun(r) ==
  Claimed(r) =>
    /\ \A n \in told : Fired(n) => n.now <= run[r].last \/ run[r].now < n.now
    /\ \A o \in Runs : Firing(o) /\ o # r => run[o].now <= run[r].last \/ run[r].now < run[o].now

RestedRun(r) ==
  Firing(r) =>
    /\ \A n \in told : Fired(n) => Apart(n.now, run[r].now)
    /\ \A o \in Runs : Firing(o) /\ o # r => Apart(run[o].now, run[r].now)

Spent == (\E n \in told : Fired(n)) \/ (\E r \in Runs : Firing(r))
SpentRests == ~repeat /\ status = "active" => ~Spent

LEMMA FireParts ==
  FireInv <=>
    /\ Base /\ Topmost /\ NoDoubleFire
    /\ \A r \in Runs : LayeredRun(r) /\ RestedRun(r)
    /\ SpentRests
BY DEF FireInv, Layered, LayeredRun, Rested, RestedRun, Spent, SpentRests

\* What is known of the numbers.
LEMMA Numbers ==
  ASSUME TypeOK
  PROVE  /\ time \in Nat /\ last \in Nat /\ edits \in Nat /\ Cooldown \in Nat
         /\ \A r \in Runs : Busy(r) => run[r].now \in Nat /\ run[r].now # 0
                                       /\ run[r].last \in Nat /\ run[r].edits \in Nat
         /\ \A n \in told : n.now \in Nat /\ n.now # 0 /\ n.edits \in Nat
BY RunIsOne, AlertAssumption DEF AlertAssumption, TypeOK, Ticks, Notice

Rest == Topmost /\ NoDoubleFire /\ (\A r \in Runs : LayeredRun(r) /\ RestedRun(r)) /\ SpentRests

\* No claim is made, and none is told or given back.
LEMMA FireQuietly ==
  ASSUME FireInv, UNCHANGED <<last, repeat, edits, told>>, status' \in {status, "removed"},
         \A o \in Runs : Claimed(o)' =>
           /\ Claimed(o)
           /\ run'[o].now = run[o].now /\ run'[o].last = run[o].last /\ run'[o].edits = run[o].edits
  PROVE  Rest'
<1> DEFINE Same(o) == run'[o].now = run[o].now /\ run'[o].last = run[o].last
<1>1. \A o \in Runs : Firing(o)' => Firing(o) /\ Same(o) BY DEF Firing
<1>2. \A n : Fired(n)' <=> Fired(n) BY DEF Fired
<1>3. \A x, y : Apart(x, y)' <=> Apart(x, y) BY DEF Apart
<1>4. Topmost' BY <1>1, <1>2, FireParts DEF Topmost
<1>5. NoDoubleFire' BY FireParts DEF NoDoubleFire
<1>6. ASSUME NEW r \in Runs PROVE LayeredRun(r)'
  <2>1. LayeredRun(r) /\ (Claimed(r)' => Claimed(r) /\ Same(r)) BY FireParts
  <2>2. QED BY <1>1, <1>2, <2>1 DEF LayeredRun
<1>7. ASSUME NEW r \in Runs PROVE RestedRun(r)'
  <2>1. RestedRun(r) BY FireParts
  <2>2. QED BY <1>1, <1>2, <1>3, <2>1 DEF RestedRun, Apart
<1>8. SpentRests'
  <2>1. Spent' => Spent BY <1>1, <1>2 DEF Spent
  <2>2. SpentRests BY FireParts
  <2>3. QED BY <2>1, <2>2 DEF SpentRests
<1>9. QED BY <1>4, <1>5, <1>6, <1>7, <1>8 DEF Rest

\* A claim: every fire is as old as the stamp it replaces, which has rested.
LEMMA FireClaims ==
  ASSUME FireInv, NEW r \in Runs, Claiming(r)
  PROVE  Rest'
<1>1. TypeOK /\ Ordered /\ Timely /\ Topmost /\ SpentRests BY FireParts DEF Base
<1>2. /\ last = run[r].last /\ status = "active" /\ last' = run[r].now
      /\ status' = (IF run[r].repeat THEN "active" ELSE "triggered")
      /\ UNCHANGED <<time, repeat, edits, told>>
      /\ Busy(r) /\ Goes(r, "claimed") /\ ~Claimed(r) /\ run[r].pc = "locked"
  BY DEF Claiming, AsRead, At, Busy, Claimed
<1>3. /\ Claimed(r)' /\ run'[r].now = run[r].now /\ run'[r].last = run[r].last
      /\ run'[r].edits = run[r].edits
      /\ \A o \in Runs : o # r => run'[o] = run[o]
  BY <1>1, <1>2, RunGoes DEF Claimed
<1>4. /\ run[r].last <= run[r].now /\ run[r].edits <= edits /\ ~Resting(r)
      /\ run[r].edits = edits => run[r].repeat = repeat
  BY <1>1, <1>2 DEF Timely
<1>5. \A n : Fired(n)' <=> Fired(n) BY <1>2 DEF Fired
<1>6. \A o \in Runs : o # r => (Claimed(o)' <=> Claimed(o)) /\ (Firing(o)' <=> Firing(o))
  BY <1>2, <1>3 DEF Claimed, Firing
<1>7. /\ \A n \in told : Fired(n) => n.now <= last
      /\ \A o \in Runs : Firing(o) => run[o].now <= last
  BY <1>1, <1>2 DEF Topmost
<1>8. /\ run[r].now \in Nat /\ last \in Nat /\ edits \in Nat /\ Cooldown \in Nat
      /\ \A n \in told : n.now \in Nat /\ n.now # 0
      /\ \A o \in Runs : Claimed(o) =>
           Busy(o) /\ run[o].now \in Nat /\ run[o].now # 0 /\ run[o].edits \in Nat
  BY <1>1, <1>2, Numbers DEF Claimed, Busy
<1>9. Topmost'
  <2>1. \A n \in told : Fired(n) => n.now <= run[r].now BY <1>2, <1>4, <1>7, <1>8
  <2>2. \A o \in Runs : Firing(o) => run[o].now <= run[r].now
    BY <1>2, <1>4, <1>7, <1>8 DEF Firing
  <2>3. \A o \in Runs : Firing(o)' => run'[o].now <= last'
    BY <1>2, <1>3, <1>6, <1>8, <2>2
  <2>4. QED BY <1>2, <1>5, <2>1, <2>3 DEF Topmost
<1>10. NoDoubleFire' BY <1>2, FireParts DEF NoDoubleFire
<1>11. LayeredRun(r)' BY <1>2, <1>3, <1>5, <1>6, <1>7 DEF LayeredRun
<1>12. ASSUME NEW o \in Runs, o # r, Claimed(o), run[r].edits = edits
       PROVE  run[o].now < run[r].now
  <2>1. run[o].now # run[r].now /\ (run[o].edits < run[r].edits => run[o].now < run[r].now)
    BY <1>1, <1>2, <1>8, <1>12 DEF Ordered
  <2>2. CASE Firing(o) BY <1>2, <1>4, <1>7, <1>8, <1>12, <2>1, <2>2
  <2>3. CASE ~Firing(o)
    <3>1. run[o].edits <= edits BY <1>1, <1>8, <1>12 DEF Timely
    <3>2. QED BY <1>8, <1>12, <2>1, <2>3, <3>1 DEF Firing
  <2>4. QED BY <2>2, <2>3
<1>13. ASSUME NEW o \in Runs, o # r PROVE LayeredRun(o)'
  <2>1. LayeredRun(o) BY FireParts
  <2>2. Firing(r)' => run[r].edits = edits BY <1>2, <1>3 DEF Firing
  <2>3. QED BY <1>2, <1>3, <1>5, <1>6, <1>12, <1>13, <2>1, <2>2 DEF LayeredRun
<1>14. ASSUME NEW y \in Nat, y # 0, y <= last, run[r].edits = edits, Spent
       PROVE  Apart(y, run[r].now) /\ Apart(run[r].now, y)
  <2>1. repeat BY <1>1, <1>2, <1>14 DEF SpentRests
  <2>2. run[r].repeat BY <1>4, <1>14, <2>1
  <2>3. run[r].last # 0 BY <1>2, <1>14
  <2>4. ~(run[r].now < run[r].last + Cooldown) BY <1>4, <2>2, <2>3 DEF Resting
  <2>5. y + Cooldown <= run[r].now BY <1>2, <1>8, <1>14, <2>4
  <2>6. QED BY <1>8, <1>14, <2>1, <2>5 DEF Apart
<1>15. RestedRun(r)'
  <2>1. ASSUME Firing(r)', NEW n \in told, Fired(n) PROVE Apart(n.now, run[r].now)
    BY <1>2, <1>3, <1>7, <1>8, <1>14, <2>1 DEF Firing, Spent
  <2>2. ASSUME Firing(r)', NEW o \in Runs, o # r, Firing(o)
        PROVE  Apart(run[o].now, run[r].now)
    BY <1>2, <1>3, <1>7, <1>8, <1>14, <2>2 DEF Firing, Spent
  <2>3. \A x, y : Apart(x, y)' <=> Apart(x, y) BY <1>2 DEF Apart
  <2>4. QED BY <1>2, <1>3, <1>5, <1>6, <2>1, <2>2, <2>3 DEF RestedRun, Apart
<1>16. ASSUME NEW o \in Runs, o # r PROVE RestedRun(o)'
  <2>1. RestedRun(o) BY FireParts
  <2>2. ASSUME Firing(o), Firing(r)' PROVE Apart(run[r].now, run[o].now)
    BY <1>2, <1>3, <1>7, <1>8, <1>14, <2>2 DEF Firing, Spent
  <2>3. QED BY <1>2, <1>3, <1>5, <1>6, <1>16, <2>1, <2>2 DEF RestedRun, Apart
<1>17. SpentRests'
  <2>1. ASSUME ~repeat, status' = "active", Spent' PROVE FALSE
    <3>1. run[r].edits # edits BY <1>2, <1>4, <2>1
    <3>2. ~Firing(r)' BY <1>2, <1>3, <3>1 DEF Firing
    <3>3. Spent BY <1>2, <1>5, <1>6, <2>1, <3>2 DEF Spent
    <3>4. QED BY <1>1, <1>2, <2>1, <3>3 DEF SpentRests
  <2>2. QED BY <1>2, <2>1 DEF SpentRests
<1>18. QED BY <1>9, <1>10, <1>11, <1>13, <1>15, <1>16, <1>17 DEF Rest

\* A notice: the fire of a run becomes the fire that everybody has heard of.
LEMMA FireTells ==
  ASSUME FireInv, NEW r \in Runs, Emit(r)
  PROVE  Rest'
<1>1. TypeOK /\ Ordered /\ Timely /\ Topmost /\ SpentRests /\ NoDoubleFire
  BY FireParts DEF Base
<1>2. PICK m : Tells(r, m) BY Telling
<1>3. /\ m.now = run[r].now /\ m.repeat = run[r].repeat /\ m.edits = run[r].edits
      /\ m.whole <=> run[r].edits = edits
      /\ told' = told \cup {m}
  BY <1>2 DEF Tells
<1>4. UNCHANGED <<status, last, repeat, edits>> /\ Claimed(r) BY DEF Emit, alert, At, Claimed
<1>5. ~Claimed(r)' /\ \A o \in Runs : o # r => run'[o] = run[o]
  BY <1>1, RunEnds DEF Emit, Claimed
<1>6. \A n \in told : Fired(n)' <=> Fired(n) BY <1>3, <1>4 DEF Fired
<1>7. Fired(m)' => Firing(r) BY <1>3, <1>4 DEF Fired, Firing
<1>8. \A o \in Runs : Claimed(o)' => o # r /\ Claimed(o) /\ run'[o] = run[o]
  BY <1>5 DEF Claimed
<1>9. \A o \in Runs : Firing(o)' => o # r /\ Firing(o) /\ run'[o] = run[o]
  BY <1>4, <1>8 DEF Firing
<1>10. \A x, y : Apart(x, y)' <=> Apart(x, y) BY <1>4 DEF Apart
<1>11. Topmost' BY <1>1, <1>3, <1>4, <1>6, <1>7, <1>9 DEF Topmost
<1>12. ASSUME NEW o \in Runs PROVE LayeredRun(o)'
  <2>1. LayeredRun(o) BY FireParts
  <2>2. QED BY <1>3, <1>6, <1>7, <1>8, <1>9, <2>1 DEF LayeredRun
<1>13. ASSUME NEW o \in Runs PROVE RestedRun(o)'
  <2>1. RestedRun(o) BY FireParts
  <2>2. ASSUME Firing(o)', NEW n \in told', Fired(n)' PROVE Apart(n.now, run[o].now)
    <3>1. o # r /\ Firing(o) BY <1>9, <2>2
    <3>2. CASE n \in told BY <1>6, <2>1, <2>2, <3>1, <3>2 DEF RestedRun
    <3>3. CASE n = m BY <1>3, <1>7, <2>1, <2>2, <3>1, <3>3 DEF RestedRun
    <3>4. QED BY <1>3, <3>2, <3>3
  <2>3. QED BY <1>9, <1>10, <2>1, <2>2 DEF RestedRun, Apart
<1>14. SpentRests'
  <2>1. Spent' => Spent BY <1>3, <1>6, <1>7, <1>9 DEF Spent
  <2>2. QED BY <1>1, <1>4, <2>1 DEF SpentRests
<1>15. NoDoubleFire'
  <2>1. RestedRun(r) BY FireParts
  <2>2. ASSUME NEW n \in told, m.whole, n.whole, m.edits = n.edits
        PROVE  /\ Apart(n.now, m.now) /\ m.repeat /\ n.repeat
    <3>1. Fired(n) /\ Firing(r) BY <1>3, <1>4, <2>2 DEF Fired, Firing
    <3>2. Apart(n.now, m.now) BY <1>3, <2>1, <3>1 DEF RestedRun
    <3>3. repeat BY <3>2 DEF Apart
    <3>4. n.repeat = repeat BY <1>1, <3>1 DEF Timely, Fired
    <3>5. run[r].repeat = repeat BY <1>1, <1>4, <3>1 DEF Timely, Firing, Claimed, Busy
    <3>6. QED BY <1>3, <3>2, <3>3, <3>4, <3>5
  <2>3. m.now \in Nat /\ Cooldown \in Nat /\ \A n \in told : n.now \in Nat
    BY <1>1, <1>3, <1>4, Numbers DEF Claimed, Busy
  <2>4. ASSUME NEW k \in told', NEW n \in told', k.whole, n.whole, k.edits = n.edits,
               k.now < n.now
        PROVE  k.repeat /\ n.repeat /\ n.now >= k.now + Cooldown
    <3>1. CASE k \in told /\ n \in told BY <1>1, <2>4, <3>1 DEF NoDoubleFire
    <3>2. CASE k = m /\ n \in told BY <2>2, <2>3, <2>4, <3>2 DEF Apart
    <3>3. CASE k \in told /\ n = m BY <2>2, <2>3, <2>4, <3>3 DEF Apart
    <3>4. CASE k = m /\ n = m BY <2>3, <2>4, <3>4
    <3>5. QED BY <1>3, <3>1, <3>2, <3>3, <3>4
  <2>5. QED BY <2>4 DEF NoDoubleFire
<1>16. QED BY <1>11, <1>12, <1>13, <1>14, <1>15 DEF Rest

\* A claim given back: no other fire stands on it.
LEMMA FireBack ==
  ASSUME FireInv, NEW r \in Runs, GivingBack(r)
  PROVE  Rest'
<1>1. TypeOK /\ Ordered /\ Timely /\ Topmost /\ NoDoubleFire BY FireParts DEF Base
<1>2. /\ UNCHANGED <<repeat, edits, told>> /\ last' = run[r].last /\ Claimed(r)
      /\ last = run[r].now /\ status # "removed" /\ Ends(r)
  BY DEF GivingBack, AsLeft, At, Claimed
<1>3. ~Claimed(r)' /\ \A o \in Runs : o # r => run'[o] = run[o]
  BY <1>1, <1>2, RunEnds DEF Claimed
<1>4. /\ run[r].now \in Nat /\ run[r].last \in Nat /\ run[r].edits \in Nat /\ edits \in Nat
      /\ \A n \in told : n.now \in Nat
      /\ \A o \in Runs : Claimed(o) => Busy(o) /\ run[o].now \in Nat
  BY <1>1, <1>2, Numbers DEF Claimed, Busy
<1>5. \A n : Fired(n)' <=> Fired(n) BY <1>2 DEF Fired
<1>6. \A o \in Runs : Claimed(o)' => o # r /\ Claimed(o) /\ run'[o] = run[o]
  BY <1>3 DEF Claimed
<1>7. \A o \in Runs : Firing(o)' => o # r /\ Firing(o) /\ run'[o] = run[o]
  BY <1>2, <1>6 DEF Firing
<1>8. LayeredRun(r) /\ RestedRun(r) BY FireParts
<1>9. \A n \in told : Fired(n) => n.now <= run[r].now BY <1>1, <1>2 DEF Topmost
<1>10. \A o \in Runs : Firing(o) => run[o].now <= run[r].now BY <1>1, <1>2 DEF Topmost
<1>11. Topmost'
  <2>1. \A n \in told : Fired(n) => n.now <= run[r].last
    BY <1>2, <1>4, <1>8, <1>9 DEF LayeredRun
  <2>2. \A o \in Runs : Firing(o) /\ o # r => run[o].now <= run[r].last
    BY <1>2, <1>4, <1>8, <1>10 DEF LayeredRun, Firing
  <2>3. QED BY <1>2, <1>5, <1>7, <2>1, <2>2 DEF Topmost
<1>12. NoDoubleFire' BY <1>1, <1>2 DEF NoDoubleFire
<1>13. ASSUME NEW o \in Runs PROVE LayeredRun(o)'
  <2>1. LayeredRun(o) BY FireParts
  <2>2. QED BY <1>2, <1>5, <1>6, <1>7, <2>1 DEF LayeredRun
<1>14. ASSUME NEW o \in Runs PROVE RestedRun(o)'
  <2>1. RestedRun(o) BY FireParts
  <2>2. \A x, y : Apart(x, y)' <=> Apart(x, y) BY <1>2 DEF Apart
  <2>3. QED BY <1>2, <1>5, <1>7, <2>1, <2>2 DEF RestedRun, Apart
<1>15. SpentRests'
  <2>1. ASSUME ~repeat, Spent' PROVE FALSE
    <3>1. (\E n \in told : Fired(n)) \/ (\E o \in Runs : o # r /\ Firing(o))
      BY <1>2, <1>5, <1>7, <2>1 DEF Spent
    <3>2. CASE Firing(r) BY <1>8, <2>1, <3>1, <3>2 DEF RestedRun, Apart
    <3>3. CASE ~Firing(r)
      <4>1. run[r].edits < edits BY <1>1, <1>2, <1>4, <3>3 DEF Timely, Firing, Claimed, Busy
      <4>2. \A n \in told : Fired(n) => run[r].now < n.now
        BY <1>1, <1>2, <4>1 DEF Timely, Fired, Claimed, Busy
      <4>3. \A o \in Runs : o # r /\ Firing(o) => run[r].now < run[o].now
        BY <1>1, <1>2, <4>1 DEF Ordered, Firing, Claimed, Busy
      <4>4. QED BY <1>4, <1>9, <1>10, <3>1, <4>2, <4>3 DEF Firing
    <3>4. QED BY <3>2, <3>3
  <2>2. QED BY <1>2, <2>1 DEF SpentRests
<1>16. QED BY <1>11, <1>12, <1>13, <1>14, <1>15 DEF Rest

LEMMA FireStep ==
  ASSUME FireInv, [Next]_vars
  PROVE  Rest'
<1>1. TypeOK BY FireParts DEF Base
<1>2. ASSUME NEW r \in Runs, Load(r) \/ Traceless(r) PROVE Rest'
  <2>1. UNCHANGED <<status, last, repeat, edits, told>> BY <1>2 DEF Load, Traceless, alert
  <2>2. ASSUME NEW o \in Runs, Claimed(o)'
        PROVE  /\ Claimed(o)
               /\ run'[o].now = run[o].now /\ run'[o].last = run[o].last
               /\ run'[o].edits = run[o].edits
    <3>1. CASE Load(r) BY <1>1, <2>2, <3>1, RunLoads DEF Claimed
    <3>2. CASE Traceless(r) BY <2>2, <3>2 DEF Traceless, QuietRun, Claimed
    <3>3. QED BY <1>2, <3>1, <3>2
  <2>3. QED BY <2>1, <2>2, FireQuietly
<1>3. CASE Remove \/ Tick \/ UNCHANGED vars
  <2>1. UNCHANGED <<last, repeat, edits, told, run>> /\ status' \in {status, "removed"}
    BY <1>3 DEF Remove, Tick, vars, alert
  <2>2. QED BY <2>1, FireQuietly DEF Claimed
<1>4. CASE Rearm \/ Edit
  <2>1. edits' = edits + 1 /\ UNCHANGED <<told, run>> BY <1>4 DEF Rearm, Edit
  <2>2. Timely /\ NoDoubleFire BY FireParts DEF Base
  <2>3. \A n \in told : ~Fired(n)' BY <1>1, <2>1, <2>2, Numbers DEF Timely, Fired
  <2>4. \A r \in Runs : ~Firing(r)'
    BY <1>1, <2>1, <2>2, Numbers DEF Timely, Firing, Claimed, Busy
  <2>5. Topmost' /\ SpentRests' BY <2>1, <2>3, <2>4 DEF Topmost, SpentRests, Spent
  <2>6. \A r \in Runs : LayeredRun(r)' /\ RestedRun(r)'
    BY <2>1, <2>3, <2>4 DEF LayeredRun, RestedRun
  <2>7. NoDoubleFire' BY <2>1, <2>2 DEF NoDoubleFire
  <2>8. QED BY <2>5, <2>6, <2>7 DEF Rest
<1>5. QED
  BY <1>1, <1>2, <1>3, <1>4, RunSteps, FireClaims, FireTells, FireBack DEF Next

LEMMA FireInvariance == Spec => []FireInv
<1>1. Init => Topmost /\ Layered /\ Rested /\ NoDoubleFire
  BY DEF Init, Topmost, Layered, Rested, NoDoubleFire, Fired, Firing, Claimed, Idle
<1>2. FireInv /\ [Next]_vars => Base' BY TypeStep, OrderStep, TimelyStep DEF Base, FireInv
<1>3. FireInv /\ [Next]_vars => FireInv'
  <2>1. ASSUME FireInv, [Next]_vars PROVE FireInv'
    <3>1. Base' /\ Rest' BY <1>2, <2>1, FireStep
    <3>2. QED
      BY <3>1 DEF FireInv, Rest, Layered, LayeredRun, Rested, RestedRun, Spent, SpentRests
  <2>2. QED BY <2>1
<1>4. QED BY BaseInitially, <1>1, <1>3, PTL DEF Spec, FireInv

-----------------------------------------------------------------------------
(* The theorems. *)

\* Whatever overlaps, a run acts on a row it has read, and a lock is of a window.
THEOREM TypeCorrect == Spec => []TypeOK
<1>1. Base => TypeOK BY DEF Base
<1>2. QED BY <1>1, BaseInvariance, PTL

\* A stamp on the row of an alert stands for a notice: one queued, one about to be, or
\* one lost with the run that claimed it.
THEOREM StampsAreTold == Spec => []StampIsTold
<1>1. StampInv => StampIsTold BY DEF StampInv
<1>2. QED BY <1>1, StampInvariance, PTL

\* An alert whose terms the owner leaves alone is told once, and a repeating one once in
\* each cooldown, with any number of runs, whichever of them stall, die or give back.
THEOREM FiresOnce == Spec => []NoDoubleFire
<1>1. FireInv => NoDoubleFire BY DEF FireInv
<1>2. QED BY <1>1, FireInvariance, PTL

=============================================================================
