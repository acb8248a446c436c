------------------------------ MODULE PriceAlert ------------------------------
(***************************************************************************)
(* One price alert: runs of the evaluator that overlap, stall and die, the *)
(* lock of a minute, the claim on the alert's row, the notice that is      *)
(* queued after it, and the owner who arms, edits and removes the alert.   *)
(*                                                                         *)
(* Time is counted in ticks, Minute of them to a window; the tick 0 is no  *)
(* time.  A run acts on the row as it was when the run began.              *)
(***************************************************************************)
EXTENDS Naturals, FiniteSets

CONSTANTS
  Runs,     \* runs of the evaluator under way at once
  MaxTime,  \* bound: ticks
  Minute,   \* ALERT_FIRE_WINDOW_MS
  LockTtl,  \* ALERT_FIRE_LOCK_TTL_SECONDS
  Cooldown, \* ALERT_COOLDOWN_MS
  MaxEdits  \* bound: times the owner arms or edits the alert

ASSUME AlertAssumption ==
  /\ MaxTime \in Nat \ {0} /\ Minute \in Nat \ {0} /\ LockTtl \in Nat /\ Cooldown \in Nat
  /\ MaxEdits \in Nat

VARIABLES
  time,
  status, \* active, triggered or removed
  repeat,
  last,   \* last_triggered_at
  locks,  \* the windows that are locked, and until when
  run,    \* the runs
  edits,  \* times the owner has armed or edited the alert
  told,   \* history: the notices queued
  lost    \* history: claims whose run died, or was overtaken, before its notice was queued

alert == <<status, repeat, last>>
vars == <<time, alert, locks, run, edits, told, lost>>

Ticks == 1 .. MaxTime
Run == [pc : {"loaded", "locked", "claimed", "release"},
        now : Ticks, last : 0 .. MaxTime, repeat : BOOLEAN, edits : 0 .. MaxEdits]
Idle == [pc |-> "idle"]

\* whole: the owner left the alert alone while the run was under way.
Notice == [now : Ticks, repeat : BOOLEAN, edits : 0 .. MaxEdits, whole : BOOLEAN]

TypeOK ==
  /\ time \in Ticks /\ status \in {"active", "triggered", "removed"} /\ repeat \in BOOLEAN
  /\ last \in 0 .. MaxTime /\ locks \subseteq [window : 0 .. MaxTime, until : 1 .. MaxTime + LockTtl]
  /\ run \in [Runs -> Run \cup {Idle}] /\ edits \in 0 .. MaxEdits
  /\ told \subseteq Notice /\ lost \subseteq Ticks

Init ==
  /\ time = 1 /\ status = "active" /\ repeat \in BOOLEAN /\ last = 0 /\ locks = {}
  /\ run = [r \in Runs |-> Idle] /\ edits = 0 /\ told = {} /\ lost = {}

-----------------------------------------------------------------------------
(* A run. *)

At(r, pc) == run[r].pc = pc
Goes(r, pc) == run' = [run EXCEPT ![r].pc = pc]
Ends(r) == run' = [run EXCEPT ![r] = Idle]

\* listActiveWithAsset.  Two runs do not begin at the same tick.
Load(r) ==
  /\ At(r, "idle") /\ status = "active"
  /\ \A o \in Runs : ~At(o, "idle") => run[o].now # time
  /\ run' = [run EXCEPT ![r] =
       [pc |-> "loaded", now |-> time, last |-> last, repeat |-> repeat, edits |-> edits]]
  /\ UNCHANGED <<time, alert, locks, edits, told, lost>>

\* A repeating alert rests after it has fired.
Resting(r) == run[r].repeat /\ run[r].last # 0 /\ run[r].now < run[r].last + Cooldown

\* Resting, no quote, or the condition is not met.
Skip(r) ==
  /\ At(r, "loaded") /\ Ends(r)
  /\ UNCHANGED <<time, alert, locks, edits, told, lost>>

WindowOfRest(t) == t + Cooldown
WindowOf(t) == t \div Minute
Held(w) == \E l \in locks : l.window = w /\ time < l.until

\* SET NX: the first run of the window goes on, another one does not.
Lock(r) ==
  LET w == WindowOf(run[r].now) IN
  /\ At(r, "loaded") /\ ~Resting(r)
  /\ IF Held(w)
     THEN Ends(r) /\ UNCHANGED locks
     ELSE /\ locks' = {l \in locks : time < l.until} \cup {[window |-> w, until |-> time + LockTtl]}
          /\ Goes(r, "locked")
  /\ UNCHANGED <<time, alert, edits, told, lost>>

AsReadActive(r) == status = "active"

\* claimTrigger: the row must be as the run read it.
AsRead(r) == status = "active" /\ last = run[r].last

\* A claim that has been made, and not told.
Pending(t) == \E r \in Runs : run[r].pc \in {"claimed", "release"} /\ run[r].now = t

Claim(r) ==
  /\ At(r, "locked")
  /\ IF AsRead(r)
     THEN /\ status' = IF run[r].repeat THEN "active" ELSE "triggered"
          /\ last' = run[r].now
          /\ lost' = IF Pending(last) THEN lost \cup {last} ELSE lost
          /\ Goes(r, "claimed")
     ELSE Ends(r) /\ UNCHANGED <<status, last, lost>>
  /\ UNCHANGED <<time, repeat, locks, edits, told>>

\* The notice is queued, and the followers' after it ...
Emit(r) ==
  /\ At(r, "claimed")
  /\ told' = told \cup {[now |-> run[r].now, repeat |-> run[r].repeat, edits |-> run[r].edits,
                         whole |-> run[r].edits = edits]}
  /\ Ends(r)
  /\ UNCHANGED <<time, alert, locks, edits, lost>>

\* ... or it is not, and the claim is given back ...
EmitFails(r) ==
  /\ At(r, "claimed") /\ Goes(r, "release")
  /\ UNCHANGED <<time, alert, locks, edits, told, lost>>

AsLeftActive(r) == status = "active" /\ last = run[r].now

\* ... releaseTriggerClaim: unless the row is no longer as the run left it.
AsLeft(r) == status = (IF run[r].repeat THEN "active" ELSE "triggered") /\ last = run[r].now

Release(r) ==
  /\ At(r, "release")
  /\ IF AsLeft(r) THEN status' = "active" /\ last' = run[r].last ELSE UNCHANGED <<status, last>>
  /\ Ends(r)
  /\ UNCHANGED <<time, repeat, locks, edits, told, lost>>

\* The worker dies.
Dies(r) ==
  /\ ~At(r, "idle")
  /\ lost' = IF run[r].pc \in {"claimed", "release"} THEN lost \cup {run[r].now} ELSE lost
  /\ Ends(r)
  /\ UNCHANGED <<time, alert, locks, edits, told>>

-----------------------------------------------------------------------------
(* The owner. *)

Rearm ==
  /\ status # "removed" /\ edits < MaxEdits
  /\ status' = "active" /\ last' = 0 /\ edits' = edits + 1
  /\ UNCHANGED <<time, repeat, locks, run, told, lost>>

\* update of repeat
Edit ==
  /\ status # "removed" /\ edits < MaxEdits
  /\ repeat' = ~repeat /\ edits' = edits + 1
  /\ UNCHANGED <<time, status, last, locks, run, told, lost>>

Remove ==
  /\ status # "removed" /\ status' = "removed"
  /\ UNCHANGED <<time, repeat, last, locks, run, edits, told, lost>>

Tick ==
  /\ time < MaxTime /\ time' = time + 1
  /\ UNCHANGED <<alert, locks, run, edits, told, lost>>

Next ==
  \/ \E r \in Runs :
       \/ Load(r) \/ Skip(r) \/ Lock(r) \/ Claim(r) \/ Emit(r) \/ EmitFails(r) \/ Release(r)
       \/ Dies(r)
  \/ Rearm \/ Edit \/ Remove \/ Tick

Spec == Init /\ [][Next]_vars

-----------------------------------------------------------------------------
(* Properties. *)

\* However the runs overlap, an alert the owner leaves alone is told once; one that
\* repeats, once in each cooldown.
NoDoubleFire ==
  \A m, n \in told :
    m.whole /\ n.whole /\ m.edits = n.edits /\ m.now < n.now =>
      m.repeat /\ n.repeat /\ n.now >= m.now + Cooldown

\* A stamp on the row stands for a notice: queued, about to be, or lost with its run.
StampIsTold ==
  last # 0 /\ status # "removed" => last \in {n.now : n \in told} \cup lost \/ Pending(last)
===============================================================================
