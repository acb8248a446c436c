---------------------------- MODULE WebhookDelivery ----------------------------
(***************************************************************************)
(* One webhook subscription: the bridge that queues a delivery for each    *)
(* event, the delivery jobs with their attempts, the delivery log, and the *)
(* streak of failures that switches the subscription off.                  *)
(*                                                                         *)
(* A delivery is named by its event, so an event that is handled again     *)
(* queues the same delivery; jobs run side by side, and a worker that dies *)
(* leaves its job to be run again.                                         *)
(***************************************************************************)
EXTENDS Naturals, FiniteSets

CONSTANTS
  Deliveries,  \* an event for the subscription, and the id derived from it
  Jobs,        \* jobs queued or running at once
  MaxAttempts, \* WEBHOOK_DELIVER_ATTEMPTS
  Threshold,   \* WEBHOOK_AUTO_DISABLE_THRESHOLD
  MaxCrashes   \* bound: workers that die

ASSUME WebhookAssumption ==
  /\ IsFiniteSet(Deliveries) /\ MaxAttempts \in Nat \ {0} /\ Threshold \in Nat \ {0}
  /\ MaxCrashes \in Nat

VARIABLES
  exists,     \* the subscription has not been deleted
  enabled,
  subscribed, \* its event types still name the events
  streak,     \* consecutive_failures
  log,        \* webhook_deliveries: the outcome of each delivery
  job,        \* the jobs
  row,        \* history: deliveries counted since the streak began
  counted,    \* history: deliveries counted ever
  uncounted,  \* history: deliveries whose worker died before counting them
  crashes     \* workers that have died

owned == <<exists, enabled, subscribed>>
history == <<row, counted, uncounted>>
vars == <<owned, streak, log, job, history, crashes>>

Outcomes == {"none", "failed", "unsubscribed", "success"}
Steps == {"queued", "sent", "ok", "terminal", "reset", "count", "disable"}
Job == [pc : Steps, d : Deliveries, attempt : 1 .. MaxAttempts]
Free == [pc |-> "free"]

TypeOK ==
  /\ exists \in BOOLEAN /\ enabled \in BOOLEAN /\ subscribed \in BOOLEAN
  /\ streak \in Nat /\ log \in [Deliveries -> Outcomes]
  /\ job \in [Jobs -> Job \cup {Free}]
  /\ row \subseteq Deliveries /\ counted \subseteq Deliveries /\ uncounted \subseteq Deliveries
  /\ crashes \in 0 .. MaxCrashes

Init ==
  /\ exists = TRUE /\ enabled = TRUE /\ subscribed = TRUE /\ streak = 0
  /\ log = [d \in Deliveries |-> "none"] /\ job = [j \in Jobs |-> Free]
  /\ row = {} /\ counted = {} /\ uncounted = {} /\ crashes = 0

-----------------------------------------------------------------------------
(* The bridge and the jobs. *)

At(j, pc) == job[j].pc = pc
Goes(j, pc) == job' = [job EXCEPT ![j].pc = pc]
Ends(j) == job' = [job EXCEPT ![j] = Free]

\* handleEvent, once for each time the event's own job is run.
Bridge(j, d) ==
  /\ At(j, "free") /\ exists /\ enabled /\ subscribed
  /\ job' = [job EXCEPT ![j] = [pc |-> "queued", d |-> d, attempt |-> 1]]
  /\ UNCHANGED <<owned, streak, log, history, crashes>>

\* The subscription has been deleted or switched off since.
Drop(j) ==
  /\ At(j, "queued") /\ ~(exists /\ enabled)
  /\ Ends(j)
  /\ UNCHANGED <<owned, streak, log, history, crashes>>

InsertsAgain(d) == TRUE

\* The row of a delivery is written once ...
Inserts(d) == log[d] = "none"

CountsAgain(d) == TRUE
CountsWhileOn(d) == Inserts(d) /\ enabled

\* ... so that a failure is counted once.
Counts(d) == Inserts(d)

\* The event type was taken off the subscription: logged, and nobody's failure.
Unsubscribed(j) ==
  /\ At(j, "queued") /\ exists /\ enabled /\ ~subscribed
  /\ log' = IF Inserts(job[j].d) THEN [log EXCEPT ![job[j].d] = "unsubscribed"] ELSE log
  /\ Ends(j)
  /\ UNCHANGED <<owned, streak, history, crashes>>

Send(j) ==
  /\ At(j, "queued") /\ exists /\ enabled /\ subscribed
  /\ Goes(j, "sent")
  /\ UNCHANGED <<owned, streak, log, history, crashes>>

Accepted(j) ==
  /\ At(j, "sent") /\ Goes(j, "ok")
  /\ UNCHANGED <<owned, streak, log, history, crashes>>

\* The outbound guard, the secret or the receiver says never.
Refused(j) ==
  /\ At(j, "sent") /\ Goes(j, "terminal")
  /\ UNCHANGED <<owned, streak, log, history, crashes>>

AttemptsLeftOver(j) == job[j].attempt <= MaxAttempts
AttemptsLeft(j) == job[j].attempt < MaxAttempts

\* The receiver, the network or the name may yet answer: another attempt, if one is left.
Failed(j) ==
  /\ At(j, "sent")
  /\ IF AttemptsLeft(j)
     THEN job' = [job EXCEPT ![j] = [@ EXCEPT !.pc = "queued", !.attempt = job[j].attempt + 1]]
     ELSE Goes(j, "terminal")
  /\ UNCHANGED <<owned, streak, log, history, crashes>>

\* recordDelivered overwrites a failure; the row of a deleted subscription is an error,
\* and the job finds nothing on its next attempt.
RecordDelivered(j) ==
  /\ At(j, "ok")
  /\ log' = IF exists THEN [log EXCEPT ![job[j].d] = "success"] ELSE log
  /\ IF exists THEN Goes(j, "reset") ELSE Ends(j)
  /\ UNCHANGED <<owned, streak, history, crashes>>

Reset ==
  /\ streak' = 0 /\ row' = {}

RecordSuccess(j) ==
  /\ At(j, "reset")
  /\ Reset /\ Ends(j)
  /\ UNCHANGED <<owned, log, counted, uncounted, crashes>>

\* recordTerminalFailure: the row ...
RecordFailed(j) ==
  LET d == job[j].d IN
  /\ At(j, "terminal")
  /\ log' = IF exists /\ Inserts(d) THEN [log EXCEPT ![d] = "failed"] ELSE log
  /\ IF exists /\ Counts(d) THEN Goes(j, "count") ELSE Ends(j)
  /\ UNCHANGED <<owned, streak, history, crashes>>

\* ... the streak ...
Count(j) ==
  LET d == job[j].d IN
  /\ At(j, "count")
  /\ IF exists
     THEN streak' = streak + 1 /\ row' = row \cup {d} /\ counted' = counted \cup {d}
     ELSE UNCHANGED <<streak, row, counted>>
  /\ IF exists /\ streak' >= Threshold THEN Goes(j, "disable") ELSE Ends(j)
  /\ UNCHANGED <<owned, log, uncounted, crashes>>

\* ... and the switch, whatever has happened to the streak since.
Disable(j) ==
  /\ At(j, "disable")
  /\ enabled' = IF exists THEN FALSE ELSE enabled
  /\ Ends(j)
  /\ UNCHANGED <<exists, subscribed, streak, log, history, crashes>>

\* The worker dies, and the attempt is made again.
Crash(j) ==
  /\ crashes < MaxCrashes /\ job[j].pc \notin {"free", "queued"}
  /\ uncounted' = IF At(j, "count") THEN uncounted \cup {job[j].d} ELSE uncounted
  /\ Goes(j, "queued")
  /\ crashes' = crashes + 1
  /\ UNCHANGED <<owned, streak, log, row, counted>>

-----------------------------------------------------------------------------
(* The owner. *)

\* Switching back on clears the streak.
SwitchOn ==
  /\ exists /\ ~enabled /\ enabled' = TRUE /\ Reset
  /\ UNCHANGED <<exists, subscribed, log, job, counted, uncounted, crashes>>

SwitchOff ==
  /\ exists /\ enabled /\ enabled' = FALSE
  /\ UNCHANGED <<exists, subscribed, streak, log, job, history, crashes>>

ChangeTypes ==
  /\ exists /\ subscribed' = ~subscribed
  /\ UNCHANGED <<exists, enabled, streak, log, job, history, crashes>>

\* The deliveries go with the subscription.
Delete ==
  /\ exists /\ exists' = FALSE /\ log' = [d \in Deliveries |-> "none"]
  /\ UNCHANGED <<enabled, subscribed, streak, job, history, crashes>>

Next ==
  \/ \E j \in Jobs :
       \/ \E d \in Deliveries : Bridge(j, d)
       \/ Drop(j) \/ Unsubscribed(j) \/ Send(j) \/ Accepted(j) \/ Refused(j) \/ Failed(j)
       \/ RecordDelivered(j) \/ RecordSuccess(j) \/ RecordFailed(j) \/ Count(j) \/ Disable(j)
       \/ Crash(j)
  \/ SwitchOn \/ SwitchOff \/ ChangeTypes \/ Delete

Spec == Init /\ [][Next]_vars

-----------------------------------------------------------------------------
(* Properties. *)

\* However often a delivery is run, the streak is the number of different deliveries
\* that have failed since it began.
StreakIsDistinct == streak = Cardinality(row)

\* A failure in the log has been counted, or is being counted, or its worker died
\* between the two: the one way to lose it.
FailureIsCounted ==
  \A d \in Deliveries : log[d] = "failed" =>
    d \in counted \cup uncounted \/ \E j \in Jobs : At(j, "count") /\ job[j].d = d

\* Once the log says that a delivery arrived, no late failure of it says otherwise.
DeliveredStaysDelivered ==
  [][ \A d \in Deliveries : log[d] = "success" /\ exists' => log'[d] = "success" ]_vars
===============================================================================
