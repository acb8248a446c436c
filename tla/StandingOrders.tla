---------------------------- MODULE StandingOrders ----------------------------
(***************************************************************************)
(* One standing order of a portfolio: the daily scan that books its newest *)
(* due period, the run ledger that makes it book a period at most once,    *)
(* pausing and resuming, archiving and restoring the portfolio.            *)
(*                                                                         *)
(* The schedule is a set of days, a period is named by its day, and 0 is   *)
(* no day.  A scan decides on what it read when it listed the order, over  *)
(* a quote fetch, and books in one transaction under the portfolio's lock; *)
(* a resume or a restore closes what has elapsed, and then lets the order  *)
(* be seen again.                                                          *)
(***************************************************************************)
EXTENDS Integers, FiniteSets

CONSTANTS
  MaxDay,   \* bound: days
  Anchors,  \* the days the order's cadence names
  Ends,     \* the end dates it may have: 0 is none
  Kinds,    \* of buy-asset, cash-add and cash-deduct
  Scans,    \* runs of the daily job, retries and manual ones included
  Requests, \* the owner's requests under way at once
  MaxStall, \* bound: days a scan may take
  MaxErrors \* bound: database errors of a restore

ASSUME StandingAssumption ==
  /\ MaxDay \in Nat \ {0} /\ Anchors \subseteq 1 .. MaxDay
  /\ Ends \subseteq 0 .. MaxDay /\ 0 \in Ends
  /\ Kinds \subseteq {"buy-asset", "cash-add", "cash-deduct"}
  /\ MaxStall \in Nat /\ MaxErrors \in Nat

VARIABLES
  day,      \* the calendar day
  kind,     \* what it books
  status,   \* standing_orders.status, or removed
  end,      \* end_date
  last,     \* last_period_key
  archived, \* the portfolio is archived
  runs,     \* standing_order_runs: the periods claimed
  scan,     \* the scans
  request,  \* the owner's requests
  booked,   \* history: money rows of each period
  closed,   \* history: periods that elapsed before the order was let back
  errors    \* database errors so far

order == <<kind, status, end, last, archived, runs>>
history == <<booked, closed, errors>>
vars == <<day, order, scan, request, history>>

Days == 1 .. MaxDay

\* today, last and end are what the scan knows; drop is the newest period to report,
\* and owed says that the due one had no claim.
Scan == [pc : {"idle", "listed", "report", "quote", "lock", "mark"},
         today : 0 .. MaxDay, last : 0 .. MaxDay, end : Ends, drop : 0 .. MaxDay, owed : BOOLEAN]
Asleep == [pc |-> "idle", today |-> 0, last |-> 0, end |-> 0, drop |-> 0, owed |-> TRUE]

\* made: this request created the claim of through.
Request == [pc : {"idle", "resume", "restore", "activate", "open", "failed", "rollback"},
            last : 0 .. MaxDay, through : 0 .. MaxDay, made : BOOLEAN]
Idle == [pc |-> "idle", last |-> 0, through |-> 0, made |-> FALSE]

TypeOK ==
  /\ day \in Days /\ kind \in Kinds
  /\ status \in {"active", "paused", "removed"} /\ end \in Ends
  /\ last \in 0 .. MaxDay /\ archived \in BOOLEAN /\ runs \subseteq Days
  /\ scan \in [Scans -> Scan] /\ request \in [Requests -> Request]
  /\ booked \in [Days -> Nat] /\ closed \subseteq Days /\ errors \in 0 .. MaxErrors

Init ==
  /\ day = 1 /\ kind \in Kinds
  /\ status = "active" /\ end = 0 /\ last = 0 /\ archived = FALSE /\ runs = {}
  /\ scan = [s \in Scans |-> Asleep] /\ request = [q \in Requests |-> Idle]
  /\ booked = [p \in Days |-> 0] /\ closed = {} /\ errors = 0

-----------------------------------------------------------------------------
(* The schedule. *)

\* The occurrences up to a day, within the end date.
Occurrences(e, d) == {p \in Anchors : p <= d /\ (e # 0 => p <= e)}

\* dueOccurrence: the newest of them.
Newest(ps) == CHOOSE p \in ps \cup {0} : \A x \in ps : x <= p
Due(e, d) == Newest(Occurrences(e, d))

\* skippedPeriods: the occurrences between the watermark and the due one.
Skipped(l, e, d) == {p \in Occurrences(e, d) : l < p /\ p < Due(e, d)}

\* The period a scan is about.
DueOf(s) == Due(scan[s].end, scan[s].today)

-----------------------------------------------------------------------------
(* A scan. *)

At(s, pc) == scan[s].pc = pc
Goes(s, pc) == scan' = [scan EXCEPT ![s].pc = pc]
Done(s) == scan' = [scan EXCEPT ![s] = Asleep]

\* listActive, and the fast path for a period that is booked already.
List(s) ==
  /\ At(s, "idle") /\ status = "active" /\ ~archived /\ Due(end, day) > last
  /\ scan' = [scan EXCEPT ![s] =
       [pc |-> "listed", today |-> day, last |-> last, end |-> end, drop |-> 0,
        owed |-> TRUE]]
  /\ UNCHANGED <<day, order, request, history>>

SettledByWatermark == 1 .. last

\* The ledger, not the watermark, says which periods are settled.
Settled == runs

\* A buy fetches its quote before it waits for the lock.
Prepare == IF kind = "buy-asset" THEN "quote" ELSE "lock"
Inspect(s) ==
  LET missed == Skipped(scan[s].last, scan[s].end, scan[s].today) \ Settled
      owed == DueOf(s) \notin Settled
  IN /\ At(s, "listed")
     /\ scan' = [scan EXCEPT ![s] =
          IF missed # {}
          THEN [@ EXCEPT !.pc = "report", !.last = 0, !.drop = Newest(missed), !.owed = owed]
          ELSE IF owed THEN [@ EXCEPT !.pc = Prepare, !.last = 0] ELSE Asleep]
     /\ UNCHANGED <<day, order, request, history>>

\* The notice of a dropped period, which is awaited.
Report(s) ==
  /\ At(s, "report")
  /\ scan' = [scan EXCEPT ![s] = IF @.owed THEN [@ EXCEPT !.pc = Prepare, !.drop = 0] ELSE Asleep]
  /\ UNCHANGED <<day, order, request, history>>

\* Without a quote the period is left to the next scan.
Quote(s) ==
  /\ At(s, "quote")
  /\ Goes(s, "lock") \/ Done(s)
  /\ UNCHANGED <<day, order, request, history>>

CurrentIfOpen(s) == status = "active" /\ ~archived

\* withActivePortfolioLock reads the order again ...
Current(s) == status = "active" /\ ~archived /\ last < DueOf(s)

StillDueAsListed(s) == TRUE

\* ... and the schedule, which may have been cut short.
StillDue(s) == Due(end, scan[s].today) = DueOf(s)

ClaimsAgain(p) == TRUE

\* claimPeriod
Claims(p) == p \notin runs

\* The order or the portfolio has changed, the cash is short, or another scan has
\* claimed the period.
Declined(s) ==
  /\ At(s, "lock")
  /\ ~Current(s) \/ ~StillDue(s) \/ kind = "cash-deduct" \/ ~Claims(DueOf(s))
  /\ Done(s)
  /\ UNCHANGED <<day, order, request, history>>

\* The claim and the money row commit together ...
Book(s) ==
  LET p == DueOf(s) IN
  /\ At(s, "lock") /\ Current(s) /\ StillDue(s) /\ Claims(p)
  /\ runs' = runs \cup {p}
  /\ booked' = [booked EXCEPT ![p] = @ + 1]
  /\ Goes(s, "mark")
  /\ UNCHANGED <<day, kind, status, end, last, archived, request, closed, errors>>

\* ... or the claim without it, when the row fails: nobody tries again.
Entomb(s) ==
  /\ At(s, "lock") /\ Current(s) /\ StillDue(s) /\ Claims(DueOf(s))
  /\ runs' = runs \cup {DueOf(s)}
  /\ Done(s)
  /\ UNCHANGED <<day, kind, status, end, last, archived, request, history>>

\* markBooked
MarkBooked(s) ==
  /\ At(s, "mark")
  /\ last' = IF last < DueOf(s) THEN DueOf(s) ELSE last
  /\ Done(s)
  /\ UNCHANGED <<day, kind, status, end, archived, runs, request, history>>

\* The worker dies, or a statement fails: the rest of the scan is lost.
Lost(s) ==
  /\ ~At(s, "idle")
  /\ Done(s)
  /\ UNCHANGED <<day, order, request, history>>

-----------------------------------------------------------------------------
(* The owner. *)

Ask(q, pc) == request[q].pc = pc

Pause ==
  /\ status = "active" /\ status' = "paused"
  /\ UNCHANGED <<day, kind, end, last, archived, runs, scan, request, history>>

Remove ==
  /\ status # "removed" /\ status' = "removed" /\ runs' = {}
  /\ UNCHANGED <<day, kind, end, last, archived, scan, request, history>>

Archive ==
  /\ ~archived /\ archived' = TRUE
  /\ UNCHANGED <<day, kind, status, end, last, runs, scan, request, history>>

\* update
Reschedule ==
  /\ status # "removed"
  /\ \E e \in Ends : e # end /\ end' = e
  /\ UNCHANGED <<day, kind, status, last, archived, runs, scan, request, history>>

ElapsedDayBefore(e) == Due(e, day - 1) - 1

\* newestElapsedOccurrence: what has elapsed before today.
Elapsed(e) == Due(e, day - 1)

Resume(q) ==
  /\ Ask(q, "idle") /\ status = "paused"
  /\ request' = [request EXCEPT ![q] =
       [Idle EXCEPT !.pc = "resume", !.last = last, !.through = Elapsed(end)]]
  /\ UNCHANGED <<day, order, scan, history>>

\* A restore looks for active orders only; a paused one closes when it is resumed.
Restore(q) ==
  /\ Ask(q, "idle") /\ archived
  /\ request' = [request EXCEPT ![q] =
       IF status = "active"
       THEN [Idle EXCEPT !.pc = "restore", !.last = last, !.through = Elapsed(end)]
       ELSE [Idle EXCEPT !.pc = "open"]]
  /\ UNCHANGED <<day, order, scan, history>>

\* skipElapsedPeriod: claim what has elapsed, and raise the watermark to it.  The claim
\* of an order that is gone is an error.
CloseElapsed(q) ==
  LET r == request[q]
      elapsed == r.last < r.through
      skips == elapsed /\ status # "removed"
  IN /\ r.pc \in {"resume", "restore"}
     /\ runs' = IF skips THEN runs \cup {r.through} ELSE runs
     /\ last' = IF skips /\ last < r.through THEN r.through ELSE last
     /\ request' = [request EXCEPT ![q] =
          IF elapsed /\ ~skips THEN Idle
          ELSE [@ EXCEPT !.pc = IF r.pc = "resume" THEN "activate" ELSE "open",
                         !.made = skips /\ r.through \notin runs]]
     /\ UNCHANGED <<day, kind, status, end, archived, scan, history>>

\* What a request that lets the order back has closed.
Promised(q) == {p \in Anchors : p <= request[q].through}

Activate(q) ==
  /\ Ask(q, "activate")
  /\ IF status = "removed" THEN UNCHANGED <<status, closed>>
     ELSE status' = "active" /\ closed' = closed \cup Promised(q)
  /\ request' = [request EXCEPT ![q] = Idle]
  /\ UNCHANGED <<day, kind, end, last, archived, runs, scan, booked, errors>>

\* restorePortfolio: nothing, if somebody else has restored it; or an error.
Open(q) ==
  /\ Ask(q, "open") /\ archived
  /\ archived' = FALSE
  /\ closed' = IF status = "active" THEN closed \cup Promised(q) ELSE closed
  /\ request' = [request EXCEPT ![q] = Idle]
  /\ UNCHANGED <<day, kind, status, end, last, runs, scan, booked, errors>>

OpenFails(q) ==
  /\ Ask(q, "open")
  /\ ~archived \/ errors < MaxErrors
  /\ errors' = IF archived THEN errors + 1 ELSE errors
  /\ request' = [request EXCEPT ![q].pc = "failed"]
  /\ UNCHANGED <<day, order, scan, booked, closed>>

\* A portfolio that is open by now belongs to the restore that opened it.
OthersRestore(q) ==
  /\ Ask(q, "failed")
  /\ request' = [request EXCEPT ![q] = IF archived THEN [@ EXCEPT !.pc = "rollback"] ELSE Idle]
  /\ UNCHANGED <<day, order, scan, history>>

NotRewound(r) == last

\* The watermark falls back with the claim, unless a later period has raised it.
Rewound(r) == IF last = r.through THEN r.last ELSE last

\* rollbackSkippedPeriod, for a claim of this request's own.
Rollback(q) ==
  LET r == request[q]
      undoes == r.made /\ r.through \in runs
  IN /\ r.pc = "rollback"
     /\ runs' = IF undoes THEN runs \ {r.through} ELSE runs
     /\ last' = IF undoes THEN Rewound(r) ELSE last
     /\ request' = [request EXCEPT ![q] = Idle]
     /\ UNCHANGED <<day, kind, status, end, archived, scan, history>>

\* The process of a request dies.
Abandoned(q) ==
  /\ ~Ask(q, "idle")
  /\ request' = [request EXCEPT ![q] = Idle]
  /\ UNCHANGED <<day, order, scan, history>>

\* A request ends on the day it began; a scan may be held up.
NextDay ==
  /\ day < MaxDay
  /\ \A q \in Requests : Ask(q, "idle")
  /\ \A s \in Scans : ~At(s, "idle") => day + 1 - scan[s].today <= MaxStall
  /\ day' = day + 1
  /\ UNCHANGED <<order, scan, request, history>>

Step(s) == List(s) \/ Inspect(s) \/ Report(s) \/ Quote(s) \/ Declined(s) \/ Book(s)
           \/ Entomb(s) \/ MarkBooked(s)

Next ==
  \/ \E s \in Scans : Step(s) \/ Lost(s)
  \/ \E q \in Requests :
       \/ Resume(q) \/ Restore(q) \/ CloseElapsed(q) \/ Activate(q) \/ Open(q)
       \/ OpenFails(q) \/ OthersRestore(q) \/ Rollback(q) \/ Abandoned(q)
  \/ Pause \/ Remove \/ Archive \/ Reschedule \/ NextDay

Spec == Init /\ [][Next]_vars

-----------------------------------------------------------------------------
(* Properties. *)

\* However many scans overlap, die or are run again, a period gets one money row.
AtMostOnce == \A p \in Days : booked[p] <= 1

\* What elapsed while the order was paused or its portfolio archived is never booked
\* once it is let back, not even by a scan that was under way before.
NoBackfill == [][ \A p \in closed : booked'[p] = booked[p] ]_vars

\* The watermark never stands on a period the ledger does not know.
WatermarkIsClaimed == last # 0 /\ status # "removed" => last \in runs

\* A period the scan is about to report as dropped has no money row, although the
\* watermark may not have come as far as the bookings; or the owner removed the order.
DroppedIsNotBooked ==
  [][ \A s \in Scans : scan'[s].pc = "report" /\ scan[s].pc # "report" =>
        booked[scan'[s].drop] = 0 \/ status = "removed" ]_vars

\* Money is written only for an order that is in force: not paused or removed, not
\* in an archived portfolio, nor past the end date it has by now.
BookedInForce ==
  [][ \A p \in Days : booked'[p] # booked[p] =>
        status = "active" /\ ~archived /\ (end # 0 => p <= end) ]_vars
===============================================================================
