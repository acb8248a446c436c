------------------------- MODULE StandingOrdersProofs -------------------------
(***************************************************************************)
(* What the run ledger is worth, for any schedule, any number of days and  *)
(* any number of overlapping scans and requests.                           *)
(***************************************************************************)
EXTENDS StandingOrders, WellFoundedInduction, TLAPS

-----------------------------------------------------------------------------
(* The inductive invariant. *)

\* Money stands on a claim, until the order is removed with its ledger.
BookedIsClaimed ==
  status # "removed" => \A p \in Days : booked[p] # 0 => p \in runs

\* A claim that a request may take back is its own, and carries no money.
Owns(q) == request[q].made
OwnClaims ==
  status # "removed" => \A q \in Requests : Owns(q) =>
    /\ request[q].through \in runs /\ booked[request[q].through] = 0
    /\ \A r \in Requests \ {q} : Owns(r) => request[r].through # request[q].through

Safe == AtMostOnce /\ BookedIsClaimed /\ OwnClaims
IInv == TypeOK /\ Safe

-----------------------------------------------------------------------------
(* The schedule. *)

\* The newest of some days is one of them, or no day.
LEMMA NewestIsOne ==
  ASSUME NEW S \in SUBSET Days
  PROVE  Newest(S) \in S \cup {0} /\ \A x \in S : x <= Newest(S)
<1>1. MaxDay \in Nat BY StandingAssumption DEF StandingAssumption
<1> DEFINE N == {MaxDay - x : x \in S \cup {0}}
<1>2. N \subseteq Nat /\ N # {} BY <1>1 DEF Days
<1>3. PICK n \in N : \A m \in N : ~(<<m, n>> \in OpToRel(<, Nat))
  BY <1>2, NatLessThanWellFounded, WFMin
<1>4. \A m \in N : ~(m < n) BY <1>2, <1>3 DEF OpToRel
<1>5. PICK p \in S \cup {0} : MaxDay - p = n BY <1>3
<1>6. \A x \in S : x <= p
  <2> SUFFICES ASSUME NEW x \in S PROVE x <= p OBVIOUS
  <2>1. MaxDay - x \in N OBVIOUS
  <2>2. ~(MaxDay - x < MaxDay - p) BY <1>4, <1>5, <2>1
  <2>3. QED BY <1>1, <1>5, <2>2 DEF Days
<1>7. QED BY <1>5, <1>6 DEF Newest

\* A due occurrence is an anchor of the schedule, reached and within the end date.
LEMMA DueIsOne ==
  ASSUME NEW e, NEW d
  PROVE  /\ Due(e, d) \in 0 .. MaxDay
         /\ Due(e, d) # 0 => Due(e, d) \in Days /\ (e # 0 => Due(e, d) <= e)
<1>1. Occurrences(e, d) \in SUBSET Days
  BY StandingAssumption DEF StandingAssumption, Occurrences, Days
<1>2. Due(e, d) \in Occurrences(e, d) \cup {0} BY <1>1, NewestIsOne DEF Due
<1>3. QED BY <1>1, <1>2, StandingAssumption DEF StandingAssumption, Occurrences, Days

-----------------------------------------------------------------------------
(* Types. *)

LEMMA Bounds ==
  /\ MaxDay \in Nat \ {0} /\ Ends \subseteq 0 .. MaxDay /\ 0 \in Ends /\ Anchors \subseteq Days
  /\ MaxErrors \in Nat
BY StandingAssumption DEF StandingAssumption, Days

LEMMA AsleepIsOne == Asleep \in Scan /\ Asleep.pc = "idle"
BY Bounds DEF Asleep, Scan

LEMMA IdleIsOne == Idle \in Request /\ Idle.pc = "idle" /\ Idle.made = FALSE
BY Bounds DEF Idle, Request

LEMMA TypeInitially == Init => TypeOK
<1> SUFFICES ASSUME Init PROVE TypeOK OBVIOUS
<1>1. day \in Days BY Bounds DEF Init, Days
<1>2. kind \in Kinds /\ status \in {"active", "paused", "removed"} /\ end \in Ends
  BY Bounds DEF Init
<1>3. last \in 0 .. MaxDay /\ archived \in BOOLEAN /\ runs \subseteq Days BY Bounds DEF Init
<1>4. scan \in [Scans -> Scan] /\ request \in [Requests -> Request]
  BY AsleepIsOne, IdleIsOne DEF Init
<1>5. booked \in [Days -> Nat] /\ closed \subseteq Days /\ errors \in 0 .. MaxErrors
  BY Bounds DEF Init
<1>6. QED BY <1>1, <1>2, <1>3, <1>4, <1>5 DEF TypeOK

\* A scan ends, or moves on to another statement.
LEMMA ScanGoesOn ==
  ASSUME TypeOK, NEW s \in Scans,
         \/ Done(s)
         \/ \E pc \in {"lock", "mark"} : Goes(s, pc)
  PROVE  scan' \in [Scans -> Scan]
<1>1. CASE Done(s) BY <1>1, AsleepIsOne DEF Done, TypeOK
<1>2. ASSUME NEW pc \in {"lock", "mark"}, Goes(s, pc) PROVE scan' \in [Scans -> Scan]
  <2>1. [scan[s] EXCEPT !.pc = pc] \in Scan BY DEF TypeOK, Scan
  <2>2. scan' = [scan EXCEPT ![s] = [scan[s] EXCEPT !.pc = pc]] BY <1>2 DEF Goes, TypeOK
  <2>3. QED BY <2>1, <2>2 DEF TypeOK
<1>3. QED BY <1>1, <1>2

LEMMA TypeOfScans ==
  ASSUME TypeOK, NEW s \in Scans, Step(s) \/ Lost(s)
  PROVE  TypeOK'
<1>1. CASE List(s)
  <2> DEFINE r == [pc |-> "listed", today |-> day, last |-> last, end |-> end, drop |-> 0,
                   owed |-> TRUE]
  <2>1. r \in Scan BY Bounds DEF TypeOK, Scan, Days
  <2>2. scan' \in [Scans -> Scan] BY <1>1, <2>1 DEF List, TypeOK
  <2>3. QED BY <1>1, <2>2 DEF List, TypeOK, order, history
<1>2. CASE Inspect(s)
  <2> DEFINE missed == Skipped(scan[s].last, scan[s].end, scan[s].today) \ Settled
  <2> DEFINE owed == DueOf(s) \notin Settled
  <2>1. missed \in SUBSET Days BY Bounds DEF Skipped, Occurrences
  <2>2. Newest(missed) \in 0 .. MaxDay BY <2>1, NewestIsOne, Bounds DEF Days
  <2>3. [scan[s] EXCEPT !.pc = "report", !.last = 0, !.drop = Newest(missed), !.owed = owed]
          \in Scan
    <3>1. owed \in BOOLEAN OBVIOUS
    <3>2. HIDE DEF owed, missed
    <3>3. QED BY <2>2, <3>1, Bounds DEF TypeOK, Scan
  <2>4. [scan[s] EXCEPT !.pc = Prepare, !.last = 0] \in Scan
    BY Bounds DEF TypeOK, Scan, Prepare
  <2>5. scan' \in [Scans -> Scan] BY <1>2, <2>3, <2>4, AsleepIsOne DEF Inspect, TypeOK
  <2>6. QED BY <1>2, <2>5 DEF Inspect, TypeOK, order, history
<1>3. CASE Report(s)
  <2>1. [scan[s] EXCEPT !.pc = Prepare, !.drop = 0] \in Scan BY Bounds DEF TypeOK, Scan, Prepare
  <2>2. scan' \in [Scans -> Scan] BY <1>3, <2>1, AsleepIsOne DEF Report, TypeOK
  <2>3. QED BY <1>3, <2>2 DEF Report, TypeOK, order, history
<1>4. CASE Quote(s) \/ Declined(s) \/ Lost(s)
  <2>1. scan' \in [Scans -> Scan] BY <1>4, ScanGoesOn DEF Quote, Declined, Lost
  <2>2. QED BY <1>4, <2>1 DEF Quote, Declined, Lost, TypeOK, order, history
<1>5. CASE Book(s)
  <2>1. DueOf(s) \in Days BY <1>5, DueIsOne, Bounds DEF Book, Current, DueOf, TypeOK
  <2>2. scan' \in [Scans -> Scan] BY <1>5, ScanGoesOn DEF Book
  <2>3. booked' \in [Days -> Nat] BY <1>5, <2>1 DEF Book, TypeOK
  <2>4. QED BY <1>5, <2>1, <2>2, <2>3 DEF Book, TypeOK
<1>6. CASE Entomb(s)
  <2>1. DueOf(s) \in Days BY <1>6, DueIsOne, Bounds DEF Entomb, Current, DueOf, TypeOK
  <2>2. scan' \in [Scans -> Scan] BY <1>6, ScanGoesOn DEF Entomb
  <2>3. QED BY <1>6, <2>1, <2>2 DEF Entomb, TypeOK, history
<1>7. CASE MarkBooked(s)
  <2>1. DueOf(s) \in 0 .. MaxDay BY DueIsOne DEF DueOf
  <2>2. scan' \in [Scans -> Scan] BY <1>7, ScanGoesOn DEF MarkBooked
  <2>3. QED BY <1>7, <2>1, <2>2 DEF MarkBooked, TypeOK, history
<1>8. QED BY <1>1, <1>2, <1>3, <1>4, <1>5, <1>6, <1>7 DEF Step
LEMMA TypeOfRequests ==
  ASSUME TypeOK, NEW q \in Requests,
         \/ Resume(q) \/ Restore(q) \/ CloseElapsed(q) \/ Activate(q) \/ Open(q)
         \/ OpenFails(q) \/ OthersRestore(q) \/ Rollback(q) \/ Abandoned(q)
  PROVE  TypeOK'
<1>1. Elapsed(end) \in 0 .. MaxDay BY DueIsOne DEF Elapsed
<1>2. \A p \in {"resume", "restore"} :
        [Idle EXCEPT !.pc = p, !.last = last, !.through = Elapsed(end)] \in Request
  BY <1>1 DEF Idle, Request, TypeOK
<1>3. [Idle EXCEPT !.pc = "open"] \in Request BY Bounds DEF Idle, Request
<1>4. CASE Resume(q) \/ Restore(q)
  <2>1. request' \in [Requests -> Request] BY <1>2, <1>3, <1>4 DEF Resume, Restore, TypeOK
  <2>2. QED BY <1>4, <2>1 DEF Resume, Restore, TypeOK, order, history
<1>5. CASE CloseElapsed(q)
  <2> DEFINE elapsed == request[q].last < request[q].through
  <2> DEFINE skips == elapsed /\ status # "removed"
  <2> DEFINE mine == skips /\ request[q].through \notin runs
  <2>1. mine \in BOOLEAN OBVIOUS
  <2>2. \A pc \in {"activate", "open"}, b \in BOOLEAN :
          [request[q] EXCEPT !.pc = pc, !.made = b] \in Request
    BY DEF TypeOK, Request
  <2>3. \A pc \in {"activate", "open"} : [request[q] EXCEPT !.pc = pc, !.made = mine] \in Request
    BY <2>1, <2>2
  <2>4. request' \in [Requests -> Request] BY <1>5, <2>3, IdleIsOne DEF CloseElapsed, TypeOK
  <2>5. request[q].last \in 0 .. MaxDay /\ request[q].through \in 0 .. MaxDay
    BY DEF TypeOK, Request
  <2>6. skips => request[q].through \in Days BY <2>5, Bounds DEF Days
  <2>7. runs' \subseteq Days /\ last' \in 0 .. MaxDay
    BY <1>5, <2>5, <2>6 DEF CloseElapsed, TypeOK
  <2>8. QED BY <1>5, <2>4, <2>7 DEF CloseElapsed, TypeOK, history
<1>6. CASE Activate(q) \/ Open(q) \/ Abandoned(q)
  <2>1. request' \in [Requests -> Request]
    BY <1>6, IdleIsOne DEF Activate, Open, Abandoned, TypeOK
  <2>2. closed \cup Promised(q) \subseteq Days BY Bounds DEF Promised, TypeOK
  <2>3. status' \in {"active", "paused", "removed"} /\ archived' \in BOOLEAN /\ closed' \subseteq Days
    BY <1>6, <2>2 DEF Activate, Open, Abandoned, TypeOK, order, history
  <2>4. QED BY <1>6, <2>1, <2>3 DEF Activate, Open, Abandoned, TypeOK, order, history
<1>7. CASE OpenFails(q)
  <2>1. [request[q] EXCEPT !.pc = "failed"] \in Request BY DEF TypeOK, Request
  <2>2. request' \in [Requests -> Request]
    <3>1. request' = [request EXCEPT ![q] = [request[q] EXCEPT !.pc = "failed"]]
      BY <1>7 DEF OpenFails, TypeOK
    <3>2. QED BY <2>1, <3>1 DEF TypeOK
  <2>3. errors' \in 0 .. MaxErrors BY <1>7, Bounds DEF OpenFails, TypeOK
  <2>4. QED BY <1>7, <2>2, <2>3 DEF OpenFails, TypeOK, order
<1>8. CASE OthersRestore(q)
  <2>1. [request[q] EXCEPT !.pc = "rollback"] \in Request BY DEF TypeOK, Request
  <2>2. request' \in [Requests -> Request] BY <1>8, <2>1, IdleIsOne DEF OthersRestore, TypeOK
  <2>3. QED BY <1>8, <2>2 DEF OthersRestore, TypeOK, order, history
<1>9. CASE Rollback(q)
  <2>1. Rewound(request[q]) \in 0 .. MaxDay BY DEF Rewound, TypeOK, Request
  <2>2. request' \in [Requests -> Request] BY <1>9, IdleIsOne DEF Rollback, TypeOK
  <2>3. runs' \subseteq Days /\ last' \in 0 .. MaxDay BY <1>9, <2>1 DEF Rollback, TypeOK
  <2>4. QED BY <1>9, <2>2, <2>3 DEF Rollback, TypeOK, history
<1>10. QED BY <1>4, <1>5, <1>6, <1>7, <1>8, <1>9

LEMMA TypeStep == TypeOK /\ [Next]_vars => TypeOK'
<1> SUFFICES ASSUME TypeOK, [Next]_vars PROVE TypeOK' OBVIOUS
<1>1. ASSUME NEW s \in Scans, Step(s) \/ Lost(s) PROVE TypeOK' BY <1>1, TypeOfScans
<1>2. ASSUME NEW q \in Requests,
             \/ Resume(q) \/ Restore(q) \/ CloseElapsed(q) \/ Activate(q) \/ Open(q)
             \/ OpenFails(q) \/ OthersRestore(q) \/ Rollback(q) \/ Abandoned(q)
      PROVE TypeOK'
  BY <1>2, TypeOfRequests
<1>3. CASE Pause \/ Remove \/ Archive BY <1>3 DEF Pause, Remove, Archive, TypeOK, history
<1>4. CASE Reschedule BY <1>4 DEF Reschedule, TypeOK, history
<1>5. CASE NextDay
  <2>1. day' \in Days BY <1>5, Bounds DEF NextDay, TypeOK, Days
  <2>2. QED BY <1>5, <2>1 DEF NextDay, TypeOK, order, history
<1>6. CASE UNCHANGED vars BY <1>6 DEF vars, order, history, TypeOK
<1>7. CASE Next BY <1>1, <1>2, <1>3, <1>4, <1>5, <1>7 DEF Next
<1>8. QED BY <1>6, <1>7

-----------------------------------------------------------------------------
(* Claims and money. *)

\* Nothing that counts here changes, or a request gives up its claim.
LEMMA Aside ==
  ASSUME IInv, UNCHANGED <<booked, runs>>, status = "removed" => status' = "removed",
         \A q \in Requests : Owns(q)' =>
           Owns(q) /\ request'[q].through = request[q].through
  PROVE  Safe'
<1>1. AtMostOnce' BY DEF IInv, Safe, AtMostOnce
<1>2. BookedIsClaimed' BY DEF IInv, Safe, BookedIsClaimed
<1>3. OwnClaims' BY DEF IInv, Safe, OwnClaims
<1>4. QED BY <1>1, <1>2, <1>3 DEF Safe

\* The claim and the money row are written together, where there was neither.
LEMMA SafeBook ==
  ASSUME IInv, NEW s \in Scans, Book(s)
  PROVE  Safe'
<1>1. PICK p : p = DueOf(s) OBVIOUS
<1>2. p \notin runs /\ runs' = runs \cup {p} /\ booked' = [booked EXCEPT ![p] = @ + 1]
  BY <1>1 DEF Book, Claims
<1>3. status = "active" /\ status' = status /\ request' = request BY DEF Book, Current
<1>4. p \in Days BY <1>1, DueIsOne, Bounds DEF Book, Current, DueOf, IInv, TypeOK
<1>5. booked[p] = 0 BY <1>2, <1>3, <1>4 DEF IInv, Safe, BookedIsClaimed
<1>6. AtMostOnce' BY <1>2, <1>4, <1>5 DEF IInv, Safe, AtMostOnce, TypeOK
<1>7. BookedIsClaimed' BY <1>2, <1>3, <1>4 DEF IInv, Safe, BookedIsClaimed, TypeOK
<1>8. OwnClaims' BY <1>2, <1>3 DEF IInv, Safe, OwnClaims, Owns, TypeOK
<1>9. QED BY <1>6, <1>7, <1>8 DEF Safe

LEMMA SafeEntomb ==
  ASSUME IInv, NEW s \in Scans, Entomb(s)
  PROVE  Safe'
<1>1. runs \subseteq runs' /\ UNCHANGED <<status, request, booked>> BY DEF Entomb, history
<1>2. QED BY <1>1 DEF IInv, Safe, AtMostOnce, BookedIsClaimed, OwnClaims, Owns

\* A request claims a period nobody has claimed, hence one without money.
LEMMA SafeClose ==
  ASSUME IInv, NEW q \in Requests, CloseElapsed(q)
  PROVE  Safe'
<1>1. PICK p : p = request[q].through OBVIOUS
<1>2. UNCHANGED <<status, booked>> /\ runs \subseteq runs' BY DEF CloseElapsed, history
<1>3. \A r \in Requests \ {q} : request'[r] = request[r] BY DEF CloseElapsed, IInv, TypeOK
<1>4. Owns(q)' => /\ status # "removed" /\ p \notin runs /\ p \in runs'
                  /\ request'[q].through = p /\ p \in Days
  <2>1. CASE request' = [request EXCEPT ![q] = Idle]
    BY <2>1, IdleIsOne DEF Owns, IInv, TypeOK
  <2>2. CASE request' # [request EXCEPT ![q] = Idle]
    <3> DEFINE elapsed == request[q].last < request[q].through
    <3> DEFINE skips == elapsed /\ status # "removed"
    <3> DEFINE mine == skips /\ request[q].through \notin runs
    <3>1. PICK pc : request' = [request EXCEPT ![q] = [request[q] EXCEPT !.pc = pc, !.made = mine]]
      BY <2>2 DEF CloseElapsed
    <3>2. request'[q].made = mine /\ request'[q].through = p
      <4>1. request'[q] = [request[q] EXCEPT !.pc = pc, !.made = mine]
        BY <3>1 DEF IInv, TypeOK
      <4>2. \A b : /\ [request[q] EXCEPT !.pc = pc, !.made = b].made = b
                   /\ [request[q] EXCEPT !.pc = pc, !.made = b].through = p
        BY <1>1 DEF IInv, TypeOK, Request
      <4>3. QED BY <4>1, <4>2
    <3>3. skips => runs' = runs \cup {p} BY <1>1 DEF CloseElapsed
    <3>4. skips => p \in Days
      <4>1. request[q].last \in 0 .. MaxDay /\ p \in 0 .. MaxDay
        BY <1>1 DEF IInv, TypeOK, Request
      <4>2. QED BY <1>1, <4>1, Bounds DEF Days
    <3>5. QED BY <1>1, <3>2, <3>3, <3>4 DEF Owns
  <2>3. QED BY <2>1, <2>2
<1>5. AtMostOnce' /\ BookedIsClaimed' BY <1>2 DEF IInv, Safe, AtMostOnce, BookedIsClaimed
<1>6. OwnClaims'
  <2> SUFFICES ASSUME status # "removed", NEW r \in Requests, Owns(r)'
               PROVE  /\ request'[r].through \in runs' /\ booked[request'[r].through] = 0
                      /\ \A x \in Requests \ {r} : Owns(x)' =>
                           request'[x].through # request'[r].through
    BY <1>2 DEF OwnClaims
  <2>1. \A x \in Requests \ {q} : Owns(x)' =>
          /\ request'[x].through \in runs /\ booked[request'[x].through] = 0
          /\ request'[x].through = request[x].through /\ Owns(x)
    BY <1>3 DEF Owns, IInv, Safe, OwnClaims
  <2>2. Owns(q)' => booked[p] = 0 BY <1>4 DEF IInv, Safe, BookedIsClaimed
  <2>3. CASE r = q BY <1>4, <2>1, <2>2, <2>3
  <2>4. CASE r # q BY <1>2, <1>4, <2>1, <2>4 DEF IInv, Safe, OwnClaims
  <2>5. QED BY <2>3, <2>4
<1>7. QED BY <1>5, <1>6 DEF Safe
\* What is taken back carries no money and is nobody else's.
LEMMA SafeRollback ==
  ASSUME IInv, NEW q \in Requests, Rollback(q)
  PROVE  Safe'
<1>1. UNCHANGED <<status, booked>> BY DEF Rollback, history
<1>2. /\ ~Owns(q)'
      /\ \A r \in Requests \ {q} : request'[r] = request[r]
  BY IdleIsOne DEF Rollback, Owns, IInv, TypeOK
<1>3. CASE ~(Owns(q) /\ request[q].through \in runs)
  <2>1. runs' = runs BY <1>3 DEF Rollback, Owns
  <2>2. QED BY <1>1, <1>2, <2>1, Aside DEF Owns
<1>4. CASE Owns(q) /\ request[q].through \in runs
  <2>1. runs' = runs \ {request[q].through} BY <1>4 DEF Rollback, Owns
  <2>2. AtMostOnce' BY <1>1 DEF IInv, Safe, AtMostOnce
  <2>3. BookedIsClaimed' BY <1>1, <1>4, <2>1 DEF IInv, Safe, BookedIsClaimed, OwnClaims
  <2>4. OwnClaims' BY <1>1, <1>2, <1>4, <2>1 DEF IInv, Safe, OwnClaims, Owns
  <2>5. QED BY <2>2, <2>3, <2>4 DEF Safe
<1>5. QED BY <1>3, <1>4

\* The rest of what a request does.
LEMMA SafeRequests ==
  ASSUME IInv, NEW q \in Requests,
         \/ Resume(q) \/ Restore(q) \/ Activate(q) \/ Open(q)
         \/ OpenFails(q) \/ OthersRestore(q) \/ Abandoned(q)
  PROVE  Safe'
<1>1. UNCHANGED <<booked, runs>> /\ (status = "removed" => status' = "removed")
  BY DEF Resume, Restore, Activate, Open, OpenFails, OthersRestore, Abandoned, order, history
<1>2. \A r \in Requests \ {q} : request'[r] = request[r]
  BY DEF Resume, Restore, Activate, Open, OpenFails, OthersRestore, Abandoned, IInv, TypeOK
<1>3. Owns(q)' => Owns(q) /\ request'[q].through = request[q].through
  <2>1. CASE Resume(q) \/ Restore(q)
    <3>1. \/ request'[q] = [Idle EXCEPT !.pc = "open"]
          \/ \E pc \in {"resume", "restore"} :
               request'[q] = [Idle EXCEPT !.pc = pc, !.last = last, !.through = Elapsed(end)]
      BY <2>1 DEF Resume, Restore, IInv, TypeOK
    <3>2. request'[q].made = FALSE BY <3>1 DEF Idle
    <3>3. QED BY <3>2 DEF Owns
  <2>2. CASE Activate(q) \/ Open(q) \/ Abandoned(q)
    <3>1. request'[q] = Idle BY <2>2 DEF Activate, Open, Abandoned, IInv, TypeOK
    <3>2. QED BY <3>1, IdleIsOne DEF Owns
  <2>3. CASE OpenFails(q) \/ OthersRestore(q)
    <3>1. \/ request'[q] = Idle
          \/ \E pc \in {"failed", "rollback"} : request'[q] = [request[q] EXCEPT !.pc = pc]
      BY <2>3 DEF OpenFails, OthersRestore, IInv, TypeOK
    <3>2. CASE request'[q] = Idle BY <3>2, IdleIsOne DEF Owns
    <3>3. ASSUME NEW pc, request'[q] = [request[q] EXCEPT !.pc = pc]
          PROVE request'[q].made = request[q].made /\ request'[q].through = request[q].through
      BY <3>3 DEF IInv, TypeOK, Request
    <3>4. QED BY <3>1, <3>2, <3>3 DEF Owns
  <2>4. QED BY <2>1, <2>2, <2>3
<1>4. QED BY <1>1, <1>2, <1>3, Aside DEF Owns

LEMMA SafeRest ==
  ASSUME IInv,
         \/ \E s \in Scans : \/ List(s) \/ Inspect(s) \/ Report(s) \/ Quote(s) \/ Declined(s)
                             \/ MarkBooked(s) \/ Lost(s)
         \/ Pause \/ Archive \/ Reschedule \/ NextDay \/ UNCHANGED vars
  PROVE  Safe'
<1>1. UNCHANGED <<booked, runs, request>> /\ (status = "removed" => status' = "removed")
  BY DEF List, Inspect, Report, Quote, Declined, MarkBooked, Lost, Pause, Archive, Reschedule,
         NextDay, vars, order, history
<1>2. \A q \in Requests : Owns(q)' = Owns(q) /\ request'[q].through = request[q].through
  BY <1>1 DEF Owns
<1>3. QED BY <1>1, <1>2, Aside

LEMMA SafeInitially == Init => IInv
<1> SUFFICES ASSUME Init PROVE IInv OBVIOUS
<1>1. \A q \in Requests : ~Owns(q) BY IdleIsOne DEF Init, Owns
<1>2. Safe BY <1>1 DEF Init, Safe, AtMostOnce, BookedIsClaimed, OwnClaims
<1>3. QED BY <1>2, TypeInitially DEF IInv

LEMMA SafeStep == IInv /\ [Next]_vars => IInv'
<1> SUFFICES ASSUME IInv, [Next]_vars PROVE IInv' OBVIOUS
<1>1. SUFFICES Safe' BY TypeStep DEF IInv
<1>2. ASSUME NEW s \in Scans, Book(s) PROVE Safe' BY <1>2, SafeBook
<1>3. ASSUME NEW s \in Scans, Entomb(s) PROVE Safe' BY <1>3, SafeEntomb
<1>4. ASSUME NEW q \in Requests, CloseElapsed(q) PROVE Safe' BY <1>4, SafeClose
<1>5. ASSUME NEW q \in Requests, Rollback(q) PROVE Safe' BY <1>5, SafeRollback
<1>6. ASSUME NEW q \in Requests,
             \/ Resume(q) \/ Restore(q) \/ Activate(q) \/ Open(q)
             \/ OpenFails(q) \/ OthersRestore(q) \/ Abandoned(q)
      PROVE Safe'
  BY <1>6, SafeRequests
<1>7. CASE Remove
  <2>1. status' = "removed" /\ booked' = booked BY <1>7 DEF Remove, history
  <2>2. QED BY <2>1 DEF IInv, Safe, AtMostOnce, BookedIsClaimed, OwnClaims
<1>8. CASE UNCHANGED vars BY <1>8, SafeRest
<1>9. CASE Next /\ ~Remove
  <2>1. \/ \E s \in Scans : Book(s) \/ Entomb(s)
        \/ \E q \in Requests :
             \/ CloseElapsed(q) \/ Rollback(q)
             \/ Resume(q) \/ Restore(q) \/ Activate(q) \/ Open(q)
             \/ OpenFails(q) \/ OthersRestore(q) \/ Abandoned(q)
        \/ \E s \in Scans : \/ List(s) \/ Inspect(s) \/ Report(s) \/ Quote(s) \/ Declined(s)
                            \/ MarkBooked(s) \/ Lost(s)
        \/ Pause \/ Archive \/ Reschedule \/ NextDay
    BY <1>9 DEF Next, Step
  <2>2. QED BY <1>2, <1>3, <1>4, <1>5, <1>6, <2>1, SafeRest
<1>10. QED BY <1>7, <1>8, <1>9

-----------------------------------------------------------------------------
(* The theorems. *)

LEMMA Always == Spec => []IInv
BY SafeInitially, SafeStep, PTL DEF Spec

\* The state of an order, its scans and its requests has its type: a period is always a day
\* of the schedule, whatever end date the order had when the scan read it.
THEOREM TypeCorrect == Spec => []TypeOK
<1>1. IInv => TypeOK BY DEF IInv
<1>2. QED BY <1>1, Always, PTL

\* A period gets at most one money row, for any number of overlapping, dying and repeated
\* scans, and although a failed restore takes claims back (claimPeriod, rollbackSkippedPeriod).
THEOREM BooksAtMostOnce == Spec => []AtMostOnce
<1>1. IInv => AtMostOnce BY DEF IInv, Safe
<1>2. QED BY <1>1, Always, PTL

\* Only a booking writes money, and under the lock it reads what is in force.
LEMMA BookingStep ==
  ASSUME IInv, [Next]_vars, NEW p \in Days, booked'[p] # booked[p]
  PROVE  status = "active" /\ ~archived /\ (end # 0 => p <= end)
<1>1. \E s \in Scans : Book(s)
  BY DEF Next, Step, List, Inspect, Report, Quote, Declined, Entomb, MarkBooked, Lost, Resume,
         Restore, CloseElapsed, Activate, Open, OpenFails, OthersRestore, Rollback, Abandoned,
         Pause, Remove, Archive, Reschedule, NextDay, vars, history
<1>2. PICK s \in Scans : Book(s) BY <1>1
<1>3. p = DueOf(s) BY <1>2 DEF Book, IInv, TypeOK
<1>4. status = "active" /\ ~archived /\ last < DueOf(s) BY <1>2 DEF Book, Current
<1>5. DueOf(s) = Due(end, scan[s].today) BY <1>2 DEF Book, StillDue
<1>6. DueOf(s) # 0 BY <1>4 DEF IInv, TypeOK
<1>7. QED BY <1>3, <1>4, <1>5, <1>6, DueIsOne

\* No scan books a paused, removed or archived order, nor a period past the end date that
\* the order has when the money is written, however old the scan's own reading is.
THEOREM BooksOnlyInForce == Spec => BookedInForce
<1> DEFINE A == \A p \in Days : booked'[p] # booked[p] =>
                  status = "active" /\ ~archived /\ (end # 0 => p <= end)
<1>1. IInv /\ [Next]_vars => [A]_vars BY BookingStep
<1>2. QED BY <1>1, Always, PTL DEF Spec, BookedInForce

\* Only the inspection of the ledger finds a period to report, and one without a claim.
LEMMA ReportStep ==
  ASSUME IInv, [Next]_vars, NEW s \in Scans,
         scan'[s].pc = "report", scan[s].pc # "report"
  PROVE  booked[scan'[s].drop] = 0 \/ status = "removed"
<1>1. Inspect(s)
  <2>1. \A x \in Scans : scan[x] \in Scan BY DEF IInv, TypeOK
  <2>2. scan' # scan BY DEF IInv
  <2>3. PICK x \in Scans : Step(x) \/ Lost(x)
    BY <2>2 DEF Next, Resume, Restore, CloseElapsed, Activate, Open, OpenFails, OthersRestore,
                Rollback, Abandoned, Pause, Remove, Archive, Reschedule, NextDay, vars
  <2>4. CASE Done(x) BY <2>4, AsleepIsOne DEF Done, IInv, TypeOK
  <2>5. ASSUME NEW pc \in {"lock", "mark"}, Goes(x, pc) PROVE FALSE
    BY <2>1, <2>5 DEF Goes, IInv, TypeOK, Scan
  <2>6. CASE List(x) BY <2>6 DEF List, IInv, TypeOK
  <2>7. CASE Report(x)
    <3>1. [scan[x] EXCEPT !.pc = Prepare, !.drop = 0].pc \in {"quote", "lock"}
      BY <2>1 DEF Scan, Prepare
    <3>2. scan'[x].pc # "report" BY <2>7, <3>1, AsleepIsOne DEF Report, IInv, TypeOK
    <3>3. QED BY <2>7, <3>2 DEF Report, IInv, TypeOK
  <2>8. CASE Inspect(x) BY <2>8 DEF Inspect, IInv, TypeOK
  <2>9. QED BY <2>3, <2>4, <2>5, <2>6, <2>7, <2>8
        DEF Step, Lost, Quote, Declined, Book, Entomb, MarkBooked
<1> DEFINE missed == Skipped(scan[s].last, scan[s].end, scan[s].today) \ Settled
<1> DEFINE owed == DueOf(s) \notin Settled
<1>2. missed # {} /\ scan'[s].drop = Newest(missed)
  <2>1. scan[s] \in Scan BY DEF IInv, TypeOK
  <2>2. scan'[s] = IF missed # {}
          THEN [scan[s] EXCEPT !.pc = "report", !.last = 0, !.drop = Newest(missed), !.owed = owed]
          ELSE IF owed THEN [scan[s] EXCEPT !.pc = Prepare, !.last = 0] ELSE Asleep
    BY <1>1 DEF Inspect, IInv, TypeOK
  <2>3. [scan[s] EXCEPT !.pc = Prepare, !.last = 0].pc # "report" BY <2>1 DEF Scan, Prepare
  <2>4. missed # {} BY <2>2, <2>3, AsleepIsOne
  <2>5. \A n, b : [scan[s] EXCEPT !.pc = "report", !.last = 0, !.drop = n, !.owed = b].drop = n
    BY <2>1 DEF Scan
  <2>6. QED BY <2>2, <2>4, <2>5
<1>3. missed \in SUBSET Days BY Bounds DEF Skipped, Occurrences
<1>4. Newest(missed) \in missed
  <2>1. Newest(missed) \in missed \cup {0} /\ \A x \in missed : x <= Newest(missed)
    BY <1>3, NewestIsOne
  <2>2. PICK x \in missed : x <= Newest(missed) BY <1>2, <2>1
  <2>3. x # 0 /\ x \in Nat BY <1>3, Bounds DEF Days
  <2>4. QED BY <2>1, <2>2, <2>3, <1>3, Bounds DEF Days
<1>5. scan'[s].drop \in Days \ runs BY <1>2, <1>3, <1>4 DEF Settled
<1>6. QED BY <1>5 DEF IInv, Safe, BookedIsClaimed

\* A period that is reported to the owner as dropped has no money row: the report follows the
\* ledger, which a crash between the booking and the watermark does not mislead.
THEOREM DroppedHasNoMoney == Spec => DroppedIsNotBooked
<1> DEFINE A == \A s \in Scans : scan'[s].pc = "report" /\ scan[s].pc # "report" =>
                  booked[scan'[s].drop] = 0 \/ status = "removed"
<1>1. IInv /\ [Next]_vars => [A]_vars BY ReportStep
<1>2. QED BY <1>1, Always, PTL DEF Spec, DroppedIsNotBooked

-----------------------------------------------------------------------------
(* Restores on their own. *)

\* A rollback takes back a claim that another restore may rely on, so these theorems are
\* about behaviours in which no request of the owner is under way beside a restore.
Restoring == {"restore", "open", "failed", "rollback"}
Apart ==
  \A q, r \in Requests : q # r /\ request[q].pc \in Restoring => request[r].pc = "idle"

\* A scan raises the watermark to a period that has its money.
MarksAreBooked == \A s \in Scans : At(s, "mark") => DueOf(s) \in Days /\ booked[DueOf(s)] # 0

\* What was closed lies behind the watermark.
ClosedIsPast == status # "removed" => \A p \in closed : p <= last

\* A request knows a watermark that has been reached, and lets the order back behind one.
Reached(q) ==
  /\ request[q].pc \in {"resume", "restore"} => request[q].last <= last
  /\ request[q].pc \in {"activate", "open"} => request[q].through <= last

\* The watermark that a restore may go back to is claimed, and behind it lies what was
\* closed before.
MayRewind(q) == request[q].pc \in Restoring /\ (request[q].pc = "restore" \/ request[q].made)
Rewinds(q) == MayRewind(q) =>
  /\ request[q].last # 0 => request[q].last \in runs
  /\ \A p \in closed : p <= request[q].last
  /\ request[q].made => request[q].last < request[q].through
RequestsKeepUp == status # "removed" => \A q \in Requests : Reached(q) /\ Rewinds(q)

Past == WatermarkIsClaimed /\ ClosedIsPast /\ RequestsKeepUp
Orderly == MarksAreBooked /\ Past

\* The watermark moves up, to what is claimed, and nothing is closed.
LEMMA Onward ==
  ASSUME IInv, Past, status = "removed" => status' = "removed",
         UNCHANGED <<closed, request>>, runs \subseteq runs',
         last' \in Nat, last <= last', last' # last => last' \in runs'
  PROVE  Past'
<1>1. last \in Nat /\ closed \subseteq Nat BY Bounds DEF IInv, TypeOK, Days
<1>2. \A q \in Requests : request[q].last \in Nat /\ request[q].through \in Nat
  BY Bounds DEF IInv, TypeOK, Request
<1>3. WatermarkIsClaimed' BY DEF Past, WatermarkIsClaimed
<1>4. ClosedIsPast' BY <1>1 DEF Past, ClosedIsPast
<1>5. RequestsKeepUp' BY <1>1, <1>2 DEF Past, RequestsKeepUp, Reached, Rewinds, MayRewind
<1>6. QED BY <1>3, <1>4, <1>5 DEF Past

\* As before, with one request that moves, and may let the order back.
LEMMA OneMoves ==
  ASSUME IInv, Past, status = "removed" => status' = "removed", NEW q \in Requests,
         \A r \in Requests \ {q} : request'[r] = request[r],
         runs \subseteq runs', last' \in Nat, last <= last', last' # last => last' \in runs',
         status' # "removed" => Reached(q)' /\ Rewinds(q)',
         \/ closed' = closed
         \/ /\ status # "removed" => \A p \in closed' : p <= last'
            /\ \A r \in Requests \ {q} : request[r].pc \notin Restoring
  PROVE  Past'
<1>1. last \in Nat /\ closed \subseteq Nat BY Bounds DEF IInv, TypeOK, Days
<1>2. \A r \in Requests : request[r].last \in Nat /\ request[r].through \in Nat
  BY Bounds DEF IInv, TypeOK, Request
<1>3. WatermarkIsClaimed'
  <2> SUFFICES ASSUME last' # 0, status' # "removed" PROVE last' \in runs'
    BY DEF WatermarkIsClaimed
  <2>1. CASE last' # last BY <2>1
  <2>2. CASE last' = last
    <3>1. last \in runs BY <2>2 DEF Past, WatermarkIsClaimed
    <3>2. QED BY <2>2, <3>1
  <2>3. QED BY <2>1, <2>2
<1>4. ClosedIsPast'
  <2> SUFFICES ASSUME status # "removed", NEW p \in closed' PROVE p <= last'
    BY DEF ClosedIsPast
  <2>1. CASE closed' = closed
    <3>1. p <= last BY <2>1 DEF Past, ClosedIsPast
    <3>2. p \in Nat BY <1>1, <2>1
    <3>3. QED BY <1>1, <3>1, <3>2
  <2>2. CASE closed' # closed BY <2>2
  <2>3. QED BY <2>1, <2>2
<1>5. ASSUME status' # "removed", NEW r \in Requests \ {q} PROVE Reached(r)' /\ Rewinds(r)'
  <2>1. Reached(r) /\ Rewinds(r) BY <1>5 DEF Past, RequestsKeepUp
  <2>2. Reached(r)' BY <1>1, <1>2, <2>1 DEF Reached
  <2>3. Rewinds(r)' BY <2>1 DEF Rewinds, MayRewind
  <2>4. QED BY <2>2, <2>3
<1>6. RequestsKeepUp' BY <1>5 DEF RequestsKeepUp
<1>7. QED BY <1>3, <1>4, <1>6 DEF Past

\* An idle request has nothing to keep up with.
LEMMA IdleKeepsUp ==
  ASSUME NEW q \in Requests, request'[q] = Idle
  PROVE  Reached(q)' /\ Rewinds(q)'
BY IdleIsOne DEF Reached, Rewinds, MayRewind, Restoring

-----------------------------------------------------------------------------
(* A step of a scan, and of the owner. *)

LEMMA MarksStep ==
  ASSUME IInv, MarksAreBooked, [Next]_vars
  PROVE  MarksAreBooked'
<1> SUFFICES ASSUME NEW s \in Scans, At(s, "mark")'
             PROVE  DueOf(s)' \in Days /\ booked'[DueOf(s)'] # 0
  BY DEF MarksAreBooked
<1>1. booked \in [Days -> Nat] /\ scan \in [Scans -> Scan] BY DEF IInv, TypeOK
<1>2. \A p \in Days : booked[p] # 0 => booked'[p] # 0
  <2>1. CASE booked' = booked BY <2>1
  <2>2. ASSUME NEW x \in Scans, Book(x) PROVE \A p \in Days : booked[p] # 0 => booked'[p] # 0
    BY <1>1, <2>2 DEF Book
  <2>3. QED
    BY <2>1, <2>2 DEF Next, Step, List, Inspect, Report, Quote, Declined, Entomb, MarkBooked,
       Lost, Resume, Restore, CloseElapsed, Activate, Open, OpenFails, OthersRestore, Rollback,
       Abandoned, Pause, Remove, Archive, Reschedule, NextDay, vars, history
<1>3. CASE scan'[s] = scan[s]
  <2>1. At(s, "mark") /\ DueOf(s)' = DueOf(s) BY <1>3 DEF At, DueOf, Due, Occurrences, Newest
  <2>2. QED BY <1>2, <2>1 DEF MarksAreBooked
<1>4. CASE Book(s)
  <2>1. DueOf(s) \in Days BY <1>4, DueIsOne, Bounds DEF Book, Current, DueOf, IInv, TypeOK
  <2>2. scan'[s].today = scan[s].today /\ scan'[s].end = scan[s].end
    BY <1>1, <1>4 DEF Book, Goes, Scan
  <2>3. DueOf(s)' = DueOf(s) BY <2>2 DEF DueOf, Due, Occurrences, Newest
  <2>4. booked'[DueOf(s)] = booked[DueOf(s)] + 1 BY <1>1, <1>4, <2>1 DEF Book
  <2>5. QED BY <1>1, <2>1, <2>3, <2>4
<1>5. CASE scan'[s] # scan[s] /\ ~Book(s)
  <2>1. scan' # scan BY <1>5
  <2>2. PICK x \in Scans : Step(x) \/ Lost(x)
    BY <2>1 DEF Next, Resume, Restore, CloseElapsed, Activate, Open, OpenFails, OthersRestore,
                Rollback, Abandoned, Pause, Remove, Archive, Reschedule, NextDay, vars
  <2>3. CASE Done(x) BY <1>1, <1>5, <2>3, AsleepIsOne DEF Done, At
  <2>4. CASE Goes(x, "lock") BY <1>1, <1>5, <2>4 DEF Goes, At, Scan
  <2>5. CASE List(x) BY <1>1, <1>5, <2>5 DEF List, At
  <2>6. CASE Inspect(x)
    <3> DEFINE missed == Skipped(scan[x].last, scan[x].end, scan[x].today) \ Settled
    <3> DEFINE owed == DueOf(x) \notin Settled
    <3>1. scan[x] \in Scan BY <1>1
    <3>2. \A n, b : [scan[x] EXCEPT !.pc = "report", !.last = 0, !.drop = n, !.owed = b].pc
                      = "report"
      BY <3>1 DEF Scan
    <3>3. [scan[x] EXCEPT !.pc = Prepare, !.last = 0].pc # "mark" BY <3>1 DEF Scan, Prepare
    <3>4. scan'[x] =
            IF missed # {}
            THEN [scan[x] EXCEPT !.pc = "report", !.last = 0, !.drop = Newest(missed),
                                 !.owed = owed]
            ELSE IF owed THEN [scan[x] EXCEPT !.pc = Prepare, !.last = 0] ELSE Asleep
      BY <1>1, <2>6 DEF Inspect
    <3>5. scan'[x].pc # "mark" BY <3>2, <3>3, <3>4, AsleepIsOne
    <3>6. scan'[s] = scan[s] \/ s = x BY <1>1, <2>6 DEF Inspect
    <3>7. QED BY <1>5, <3>5, <3>6 DEF At
  <2>7. CASE Report(x)
    <3>1. [scan[x] EXCEPT !.pc = Prepare, !.drop = 0].pc # "mark" BY <1>1 DEF Scan, Prepare
    <3>2. scan'[x].pc # "mark" BY <1>1, <2>7, <3>1, AsleepIsOne DEF Report
    <3>3. QED BY <1>1, <1>5, <2>7, <3>2 DEF Report, At
  <2>8. CASE Book(x) BY <1>1, <1>5, <2>8 DEF Book, Goes
  <2>9. QED BY <2>2, <2>3, <2>4, <2>5, <2>6, <2>7, <2>8
        DEF Step, Lost, Quote, Declined, Entomb, MarkBooked
<1>6. QED BY <1>3, <1>4, <1>5

\* Money is claimed when it is written, so the watermark goes up to a claimed period.
LEMMA PastMark ==
  ASSUME IInv, Orderly, NEW s \in Scans, MarkBooked(s)
  PROVE  Past'
<1>1. DueOf(s) \in Days /\ booked[DueOf(s)] # 0 BY DEF MarkBooked, Orderly, MarksAreBooked
<1>2. CASE status = "removed"
  <2>1. status' = "removed" BY <1>2 DEF MarkBooked
  <2>2. QED BY <2>1 DEF Past, WatermarkIsClaimed, ClosedIsPast, RequestsKeepUp
<1>3. CASE status # "removed"
  <2>1. DueOf(s) \in runs BY <1>1, <1>3 DEF IInv, Safe, BookedIsClaimed
  <2>2. last \in Nat /\ DueOf(s) \in Nat BY <1>1, Bounds DEF IInv, TypeOK, Days
  <2>3. last' \in Nat /\ last <= last' /\ (last' # last => last' \in runs)
    BY <2>1, <2>2 DEF MarkBooked
  <2>4. UNCHANGED <<closed, request, runs, status>> BY DEF MarkBooked, history
  <2>5. QED BY <2>3, <2>4, Onward DEF Orderly
<1>4. QED BY <1>2, <1>3

LEMMA PastRest ==
  ASSUME IInv, Past,
         \/ \E s \in Scans : \/ List(s) \/ Inspect(s) \/ Report(s) \/ Quote(s) \/ Declined(s)
                             \/ Book(s) \/ Entomb(s) \/ Lost(s)
         \/ Pause \/ Archive \/ Reschedule \/ NextDay \/ UNCHANGED vars
  PROVE  Past'
<1>1. UNCHANGED <<closed, request, last>> /\ runs \subseteq runs'
      /\ (status = "removed" => status' = "removed")
  BY DEF List, Inspect, Report, Quote, Declined, Book, Entomb, Lost, Pause, Archive, Reschedule,
         NextDay, vars, order, history
<1>2. last \in Nat BY Bounds DEF IInv, TypeOK
<1>3. QED BY <1>1, <1>2, Onward

-----------------------------------------------------------------------------
(* A step of a request. *)

LEMMA PastResume ==
  ASSUME IInv, Past, NEW q \in Requests, Resume(q) \/ Restore(q)
  PROVE  Past'
<1>1. UNCHANGED <<status, closed, runs, last>> BY DEF Resume, Restore, order, history
<1>2. \A r \in Requests \ {q} : request'[r] = request[r] BY DEF Resume, Restore, IInv, TypeOK
<1>3. last \in Nat BY Bounds DEF IInv, TypeOK
<1>4. ASSUME status # "removed" PROVE Reached(q)' /\ Rewinds(q)'
  <2>1. CASE request'[q] = [Idle EXCEPT !.pc = "open"]
    <3>1. request'[q].pc = "open" /\ request'[q].through = 0 /\ request'[q].made = FALSE
      BY <2>1 DEF Idle
    <3>2. QED BY <1>1, <1>3, <3>1 DEF Reached, Rewinds, MayRewind
  <2>2. ASSUME NEW pc \in {"resume", "restore"},
               request'[q] = [Idle EXCEPT !.pc = pc, !.last = last, !.through = Elapsed(end)]
        PROVE  Reached(q)' /\ Rewinds(q)'
    <3>1. request'[q].pc = pc /\ request'[q].last = last /\ request'[q].made = FALSE
      BY <2>2 DEF Idle
    <3>2. last # 0 => last \in runs BY <1>4 DEF Past, WatermarkIsClaimed
    <3>3. \A p \in closed : p <= last BY <1>4 DEF Past, ClosedIsPast
    <3>4. Reached(q)' BY <1>1, <1>3, <3>1 DEF Reached
    <3>5. Rewinds(q)' BY <1>1, <3>1, <3>2, <3>3 DEF Rewinds
    <3>6. QED BY <3>4, <3>5
  <2>3. QED BY <2>1, <2>2 DEF Resume, Restore, IInv, TypeOK
<1>5. QED BY <1>1, <1>2, <1>3, <1>4, OneMoves

\* What has elapsed is claimed and behind the watermark before the order is let back.
LEMMA PastClose ==
  ASSUME IInv, Past, NEW q \in Requests, CloseElapsed(q)
  PROVE  Past'
<1> DEFINE r == request[q]
<1> DEFINE skips == r.last < r.through /\ status # "removed"
<1> DEFINE mine == skips /\ r.through \notin runs
<1>1. r \in Request /\ r.last \in Nat /\ r.through \in Nat /\ last \in Nat
  BY Bounds DEF IInv, TypeOK, Request
<1>2. UNCHANGED <<status, closed>> BY DEF CloseElapsed, history
<1>3. \A x \in Requests \ {q} : request'[x] = request[x] BY DEF CloseElapsed, IInv, TypeOK
<1>4. /\ runs' = IF skips THEN runs \cup {r.through} ELSE runs
      /\ last' = IF skips /\ last < r.through THEN r.through ELSE last
  BY DEF CloseElapsed
<1>5. runs \subseteq runs' /\ last' \in Nat /\ last <= last' /\ (last' # last => last' \in runs')
  BY <1>1, <1>4
<1>6. ASSUME status # "removed" PROVE Reached(q)' /\ Rewinds(q)'
  <2>1. Reached(q) /\ Rewinds(q) BY <1>6 DEF Past, RequestsKeepUp
  <2>2. r.pc \in {"resume", "restore"} BY DEF CloseElapsed
  <2>3. r.last <= last BY <2>1, <2>2 DEF Reached
  <2>4. r.through <= last' BY <1>1, <1>4, <1>6, <2>3
  <2>5. request'[q] = [r EXCEPT !.pc = IF r.pc = "resume" THEN "activate" ELSE "open",
                                !.made = mine]
    BY <1>6 DEF CloseElapsed, IInv, TypeOK
  <2>6. \A pc, b : LET x == [r EXCEPT !.pc = pc, !.made = b]
                   IN x.pc = pc /\ x.made = b /\ x.last = r.last /\ x.through = r.through
    BY <1>1 DEF Request
  <2>7. /\ request'[q].pc = IF r.pc = "resume" THEN "activate" ELSE "open"
        /\ request'[q].made = mine
        /\ request'[q].last = r.last /\ request'[q].through = r.through
    BY <2>5, <2>6
  <2>8. Reached(q)' BY <2>4, <2>7 DEF Reached
  <2>9. Rewinds(q)'
    <3>1. CASE r.pc = "resume" BY <2>7, <3>1 DEF Rewinds, MayRewind, Restoring
    <3>2. CASE r.pc = "restore"
      <4>1. (r.last # 0 => r.last \in runs) /\ \A p \in closed : p <= r.last
        BY <2>1, <3>2 DEF Rewinds, MayRewind, Restoring
      <4>2. QED BY <1>2, <1>5, <2>7, <4>1 DEF Rewinds
    <3>3. QED BY <2>2, <3>1, <3>2
  <2>10. QED BY <2>8, <2>9
<1>7. QED BY <1>2, <1>3, <1>5, <1>6, OneMoves

\* An order is let back with the watermark past what elapsed.
LEMMA PastLet ==
  ASSUME IInv, Past, Apart, NEW q \in Requests, Activate(q) \/ Open(q)
  PROVE  Past'
<1>1. request[q] \in Request /\ last \in Nat BY Bounds DEF IInv, TypeOK
<1>2. request[q].pc \in {"activate", "open"} BY DEF Activate, Open, Ask
<1>3. \A r \in Requests \ {q} : request[r].pc \notin Restoring
  <2> SUFFICES ASSUME NEW r \in Requests \ {q}, request[r].pc \in Restoring PROVE FALSE OBVIOUS
  <2>1. request[q].pc = "idle" BY DEF Apart
  <2>2. QED BY <1>2, <2>1
<1>4. UNCHANGED <<last, runs>> /\ (status = "removed" => status' = "removed")
      /\ closed' \subseteq closed \cup Promised(q)
  BY DEF Activate, Open
<1>5. request'[q] = Idle /\ \A r \in Requests \ {q} : request'[r] = request[r]
  BY DEF Activate, Open, IInv, TypeOK
<1>6. ASSUME status # "removed", NEW p \in closed' PROVE p <= last
  <2>1. CASE p \in closed BY <1>6, <2>1 DEF Past, ClosedIsPast
  <2>2. CASE p \in Promised(q)
    <3>1. p \in Nat /\ p <= request[q].through BY <2>2, Bounds DEF Promised, Days
    <3>2. request[q].through \in Nat /\ request[q].through <= last
      BY <1>1, <1>2, <1>6, Bounds DEF Past, RequestsKeepUp, Reached, Request
    <3>3. QED BY <1>1, <3>1, <3>2
  <2>3. QED BY <1>4, <1>6, <2>1, <2>2
<1>7. Reached(q)' /\ Rewinds(q)' BY <1>5, IdleKeepsUp
<1>8. QED BY <1>1, <1>3, <1>4, <1>5, <1>6, <1>7, OneMoves

LEMMA PastFails ==
  ASSUME IInv, Past, NEW q \in Requests, OpenFails(q) \/ OthersRestore(q) \/ Abandoned(q)
  PROVE  Past'
<1>1. UNCHANGED <<status, last, runs, closed>>
  BY DEF OpenFails, OthersRestore, Abandoned, order, history
<1>2. \A r \in Requests \ {q} : request'[r] = request[r]
  BY DEF OpenFails, OthersRestore, Abandoned, IInv, TypeOK
<1>3. last \in Nat BY Bounds DEF IInv, TypeOK
<1>4. ASSUME status # "removed" PROVE Reached(q)' /\ Rewinds(q)'
  <2>1. CASE request'[q] = Idle BY <2>1, IdleKeepsUp
  <2>2. ASSUME NEW pc \in {"failed", "rollback"}, request[q].pc \in {"open", "failed"},
               request'[q] = [request[q] EXCEPT !.pc = pc]
        PROVE  Reached(q)' /\ Rewinds(q)'
    <3>1. /\ request'[q].pc = pc /\ request'[q].made = request[q].made
          /\ request'[q].last = request[q].last /\ request'[q].through = request[q].through
      BY <2>2 DEF IInv, TypeOK, Request
    <3>2. Rewinds(q) BY <1>4 DEF Past, RequestsKeepUp
    <3>3. Reached(q)' BY <3>1 DEF Reached
    <3>4. MayRewind(q)' => MayRewind(q) BY <2>2, <3>1 DEF MayRewind, Restoring
    <3>5. Rewinds(q)' BY <1>1, <3>1, <3>2, <3>4 DEF Rewinds
    <3>6. QED BY <3>3, <3>5
  <2>3. \/ request'[q] = Idle
        \/ /\ request[q].pc \in {"open", "failed"}
           /\ \E pc \in {"failed", "rollback"} : request'[q] = [request[q] EXCEPT !.pc = pc]
    BY DEF OpenFails, OthersRestore, Abandoned, Ask, IInv, TypeOK
  <2>4. QED BY <2>1, <2>2, <2>3
<1>5. QED BY <1>1, <1>2, <1>3, <1>4, OneMoves

\* The watermark goes back to a claimed one, behind which lies all that was closed; and no
\* other request is under way that has relied on the later one.
LEMMA PastRollback ==
  ASSUME IInv, Past, Apart, NEW q \in Requests, Rollback(q)
  PROVE  Past'
<1> DEFINE r == request[q]
<1>1. r \in Request /\ r.last \in Nat /\ r.through \in Nat /\ last \in Nat /\ closed \subseteq Nat
  BY Bounds DEF IInv, TypeOK, Request, Days
<1>2. r.pc = "rollback" /\ UNCHANGED <<status, closed>> BY DEF Rollback, history
<1>3. \A x \in Requests : request'[x].pc = "idle" \/ request'[x] = Idle
  <2>1. \A x \in Requests \ {q} : request'[x] = request[x] /\ request[x].pc = "idle"
    BY <1>2 DEF Rollback, Apart, Restoring, IInv, TypeOK
  <2>2. request'[q] = Idle BY DEF Rollback, IInv, TypeOK
  <2>3. QED BY <2>1, <2>2
<1>4. RequestsKeepUp'
  BY <1>3, IdleIsOne DEF RequestsKeepUp, Reached, Rewinds, MayRewind, Restoring
<1>5. CASE ~(r.made /\ r.through \in runs)
  <2>1. UNCHANGED <<runs, last>> BY <1>5 DEF Rollback
  <2>2. QED BY <1>2, <1>4, <2>1 DEF Past, WatermarkIsClaimed, ClosedIsPast
<1>6. CASE r.made /\ r.through \in runs
  <2>1. runs' = runs \ {r.through} /\ last' = Rewound(r) BY <1>6 DEF Rollback
  <2>2. ASSUME status # "removed"
        PROVE  /\ last # 0 => last \in runs
               /\ \A p \in closed : p <= last /\ p <= r.last
               /\ r.last # 0 => r.last \in runs
               /\ r.last < r.through
    BY <1>2, <1>6, <2>2
    DEF Past, WatermarkIsClaimed, ClosedIsPast, RequestsKeepUp, Rewinds, MayRewind, Restoring
  <2>3. CASE last = r.through
    <3>1. last' = r.last BY <2>1, <2>3 DEF Rewound
    <3>2. WatermarkIsClaimed' BY <1>1, <1>2, <2>1, <2>2, <3>1 DEF WatermarkIsClaimed
    <3>3. ClosedIsPast' BY <1>2, <2>2, <3>1 DEF ClosedIsPast
    <3>4. QED BY <1>4, <3>2, <3>3 DEF Past
  <2>4. CASE last # r.through
    <3>1. last' = last BY <2>1, <2>4 DEF Rewound
    <3>2. WatermarkIsClaimed' BY <1>2, <2>1, <2>2, <2>4, <3>1 DEF WatermarkIsClaimed
    <3>3. ClosedIsPast' BY <1>2, <2>2, <3>1 DEF ClosedIsPast
    <3>4. QED BY <1>4, <3>2, <3>3 DEF Past
  <2>5. QED BY <2>3, <2>4
<1>7. QED BY <1>5, <1>6

-----------------------------------------------------------------------------
(* The theorems about restores on their own. *)

LEMMA OrderlyInitially == Init => Orderly
<1> SUFFICES ASSUME Init PROVE Orderly OBVIOUS
<1>1. MarksAreBooked BY AsleepIsOne DEF Init, MarksAreBooked, At
<1>2. WatermarkIsClaimed /\ ClosedIsPast BY DEF Init, WatermarkIsClaimed, ClosedIsPast
<1>3. RequestsKeepUp
  BY IdleIsOne DEF Init, RequestsKeepUp, Reached, Rewinds, MayRewind, Restoring
<1>4. QED BY <1>1, <1>2, <1>3 DEF Orderly, Past

LEMMA OrderlyStep == IInv /\ Orderly /\ Apart /\ [Next]_vars => Orderly'
<1> SUFFICES ASSUME IInv, Orderly, Apart, [Next]_vars PROVE Orderly' OBVIOUS
<1>1. MarksAreBooked' BY MarksStep DEF Orderly
<1>2. Past BY DEF Orderly
<1>3. CASE Remove
  <2>1. status' = "removed" BY <1>3 DEF Remove
  <2>2. QED BY <1>1, <2>1 DEF Orderly, Past, WatermarkIsClaimed, ClosedIsPast, RequestsKeepUp
<1>4. ASSUME NEW s \in Scans, MarkBooked(s) PROVE Past' BY <1>4, PastMark
<1>5. ASSUME NEW q \in Requests,
             \/ Resume(q) \/ Restore(q) \/ CloseElapsed(q) \/ Activate(q) \/ Open(q)
             \/ OpenFails(q) \/ OthersRestore(q) \/ Rollback(q) \/ Abandoned(q)
      PROVE Past'
  BY <1>2, <1>5, PastResume, PastClose, PastLet, PastFails, PastRollback
<1>6. CASE ~Remove
  <2>1. \/ \E s \in Scans : MarkBooked(s)
        \/ \E q \in Requests :
             \/ Resume(q) \/ Restore(q) \/ CloseElapsed(q) \/ Activate(q) \/ Open(q)
             \/ OpenFails(q) \/ OthersRestore(q) \/ Rollback(q) \/ Abandoned(q)
        \/ \E s \in Scans : \/ List(s) \/ Inspect(s) \/ Report(s) \/ Quote(s) \/ Declined(s)
                            \/ Book(s) \/ Entomb(s) \/ Lost(s)
        \/ Pause \/ Archive \/ Reschedule \/ NextDay \/ UNCHANGED vars
    BY <1>6 DEF Next, Step
  <2>2. Past' BY <1>2, <1>4, <1>5, <2>1, PastRest
  <2>3. QED BY <1>1, <2>2 DEF Orderly
<1>7. QED BY <1>3, <1>6

LEMMA AlwaysOrderly == Spec /\ []Apart => []Orderly
BY OrderlyInitially, OrderlyStep, Always, PTL DEF Spec

\* While no request runs beside a restore, the watermark stands on a claimed period, also
\* after a failed restore has put it back (skipElapsedPeriod, rollbackSkippedPeriod,
\* markBooked).
THEOREM WatermarkStandsOnClaim == Spec /\ []Apart => []WatermarkIsClaimed
<1>1. Orderly => WatermarkIsClaimed BY DEF Orderly, Past
<1>2. QED BY <1>1, AlwaysOrderly, PTL

\* A booking is of a period beyond the watermark, and what is closed lies behind it.
LEMMA BackfillStep ==
  ASSUME IInv, Orderly, [Next]_vars, NEW p \in closed
  PROVE  booked'[p] = booked[p]
<1>1. CASE booked' = booked BY <1>1
<1>2. ASSUME NEW s \in Scans, Book(s) PROVE booked'[p] = booked[p]
  <2>1. status = "active" /\ last < DueOf(s) BY <1>2 DEF Book, Current
  <2>2. p \in Nat /\ p <= last /\ last \in Nat
    BY <2>1, Bounds DEF Orderly, Past, ClosedIsPast, IInv, TypeOK, Days
  <2>3. DueOf(s) \in 0 .. MaxDay BY DueIsOne DEF DueOf
  <2>4. p # DueOf(s) BY <2>1, <2>2, <2>3, Bounds
  <2>5. QED BY <1>2, <2>4 DEF Book, IInv, TypeOK
<1>3. QED
  BY <1>1, <1>2 DEF Next, Step, List, Inspect, Report, Quote, Declined, Entomb, MarkBooked,
     Lost, Resume, Restore, CloseElapsed, Activate, Open, OpenFails, OthersRestore, Rollback,
     Abandoned, Pause, Remove, Archive, Reschedule, NextDay, vars, history

\* While no request runs beside a restore, what elapsed while an order was paused or its
\* portfolio archived is never booked once the order is let back, by however many scans that
\* were under way before (newestElapsedOccurrence, skipElapsedPeriod, withActivePortfolioLock).
THEOREM NothingIsBackfilled == Spec /\ []Apart => NoBackfill
<1> DEFINE A == \A p \in closed : booked'[p] = booked[p]
<1>1. IInv /\ Orderly /\ [Next]_vars => [A]_vars BY BackfillStep
<1>2. QED BY <1>1, Always, AlwaysOrderly, PTL DEF Spec, NoBackfill
=============================================================================
