------------------------- MODULE WebhookDeliveryProofs -------------------------
(***************************************************************************)
(* What the delivery log and the streak of a webhook keep for any number   *)
(* of deliveries, jobs and attempts, and whichever workers die.            *)
(***************************************************************************)
EXTENDS WebhookDelivery, FiniteSetTheorems, TLAPS

-----------------------------------------------------------------------------
(* The inductive invariant. *)

\* A delivery that was counted, or is being counted, has its row in the log, so that
\* no other job inserts it; and only one job is counting it.
Booked ==
  /\ row \subseteq counted
  /\ exists => \A d \in counted : log[d] # "none"
  /\ \A j \in Jobs : At(j, "count") =>
       job[j].d \notin counted /\ (exists => log[job[j].d] # "none")
  /\ \A i, j \in Jobs : At(i, "count") /\ At(j, "count") /\ job[i].d = job[j].d => i = j

\* The log goes with the subscription.
Cleared == ~exists => \A d \in Deliveries : log[d] = "none"

IInv == TypeOK /\ Booked /\ Cleared /\ StreakIsDistinct /\ FailureIsCounted

-----------------------------------------------------------------------------
(* A step of one job. *)

\* What is known of a job that is under way.
LEMMA JobIsOne ==
  ASSUME TypeOK, NEW j \in Jobs, ~At(j, "free")
  PROVE  job[j] \in Job /\ job[j].d \in Deliveries
BY DEF TypeOK, Job, Free, At

\* A job that goes on with another step stays the job of its delivery.
LEMMA JobGoes ==
  ASSUME TypeOK, NEW j \in Jobs, ~At(j, "free"), NEW pc \in Steps, Goes(j, pc)
  PROVE  /\ job' \in [Jobs -> Job \cup {Free}]
         /\ job'[j].pc = pc /\ job'[j].d = job[j].d
         /\ \A i \in Jobs : i # j => job'[i] = job[i]
<1>1. job[j] \in Job BY JobIsOne
<1>2. [job[j] EXCEPT !.pc = pc] \in Job BY <1>1 DEF Job
<1>3. job' = [job EXCEPT ![j] = [job[j] EXCEPT !.pc = pc]] BY DEF Goes
<1>4. job'[j] = [job[j] EXCEPT !.pc = pc] BY <1>3 DEF TypeOK
<1>5. job'[j].pc = pc /\ job'[j].d = job[j].d BY <1>1, <1>4 DEF Job
<1>6. QED BY <1>2, <1>3, <1>5 DEF TypeOK

\* A job that ends leaves its place free.
LEMMA JobEnds ==
  ASSUME TypeOK, NEW j \in Jobs, Ends(j)
  PROVE  /\ job' \in [Jobs -> Job \cup {Free}]
         /\ job'[j].pc = "free"
         /\ \A i \in Jobs : i # j => job'[i] = job[i]
BY DEF TypeOK, Ends, Free

\* A step of one job in which it neither begins to count nor counts.
QuietJob(j) ==
  /\ job' \in [Jobs -> Job \cup {Free}]
  /\ job[j].pc # "count" /\ job'[j].pc # "count"
  /\ \A i \in Jobs : i # j => job'[i] = job[i]

\* Nobody begins to count, nothing is counted, and no row of the log is dropped.
LEMMA QuietStep ==
  ASSUME IInv, NEW j \in Jobs, QuietJob(j),
         UNCHANGED <<exists, streak, history>>,
         NEW d \in Deliveries, NEW outcome \in Outcomes \ {"none", "failed"},
         (exists /\ log' = [log EXCEPT ![d] = outcome]) \/ UNCHANGED log
  PROVE  Booked' /\ Cleared' /\ StreakIsDistinct' /\ FailureIsCounted'
<1> USE DEF IInv
<1>1. log \in [Deliveries -> Outcomes] BY DEF TypeOK
<1>2. \A e \in Deliveries : log'[e] = log[e] \/ (e = d /\ log'[e] = outcome) BY <1>1
<1>3. \A e \in Deliveries : log[e] # "none" => log'[e] # "none" BY <1>2
<1>4. \A i \in Jobs : At(i, "count")' <=> At(i, "count")
  BY DEF At, QuietJob
<1>5. \A i \in Jobs : At(i, "count") => job'[i] = job[i] /\ job[i].d \in Deliveries
  BY JobIsOne DEF At, QuietJob
<1>6. counted \subseteq Deliveries BY DEF TypeOK
<1>7. Booked'
  <2>1. (row \subseteq counted)' BY DEF Booked, history
  <2>2. (exists => \A e \in counted : log[e] # "none")' BY <1>3, <1>6 DEF Booked, history
  <2>3. ASSUME NEW i \in Jobs, At(i, "count")'
        PROVE  (job[i].d \notin counted /\ (exists => log[job[i].d] # "none"))'
    <3>1. At(i, "count") /\ job'[i] = job[i] /\ job[i].d \in Deliveries BY <1>4, <1>5, <2>3
    <3>2. job[i].d \notin counted /\ (exists => log[job[i].d] # "none") BY <3>1 DEF Booked
    <3>3. QED BY <3>1, <3>2, <1>3 DEF history
  <2>4. (\A i, k \in Jobs : At(i, "count") /\ At(k, "count") /\ job[i].d = job[k].d => i = k)'
    BY <1>4, <1>5 DEF Booked
  <2>5. QED BY <2>1, <2>2, <2>3, <2>4 DEF Booked
<1>8. Cleared' BY <1>2 DEF Cleared
<1>9. StreakIsDistinct' BY DEF StreakIsDistinct, history
<1>10. FailureIsCounted'
  <2>1. \A e \in Deliveries : log'[e] = "failed" => log[e] = "failed" BY <1>2
  <2>2. QED BY <2>1, <1>4, <1>5 DEF FailureIsCounted, history
<1>11. QED BY <1>7, <1>8, <1>9, <1>10

-----------------------------------------------------------------------------
(* The actions. *)

\* Every action keeps the types.
LEMMA TypeStep == TypeOK /\ [Next]_vars => TypeOK'
<1> SUFFICES ASSUME TypeOK, [Next]_vars PROVE TypeOK' OBVIOUS
<1>1. ASSUME NEW j \in Jobs, NEW d \in Deliveries, Bridge(j, d) PROVE TypeOK'
  <2>1. [pc |-> "queued", d |-> d, attempt |-> 1] \in Job
    BY WebhookAssumption DEF Job, Steps
  <2>2. QED BY <1>1, <2>1 DEF Bridge, TypeOK, owned, history
<1>2. ASSUME NEW j \in Jobs, Drop(j) \/ Unsubscribed(j) PROVE TypeOK'
  <2>1. job' \in [Jobs -> Job \cup {Free}] BY <1>2, JobEnds DEF Drop, Unsubscribed
  <2>2. log' \in [Deliveries -> Outcomes] BY <1>2 DEF Drop, Unsubscribed, TypeOK, Outcomes
  <2>3. QED BY <1>2, <2>1, <2>2 DEF Drop, Unsubscribed, TypeOK, owned, history
<1>3. ASSUME NEW j \in Jobs, Send(j) \/ Accepted(j) \/ Refused(j) PROVE TypeOK'
  <2>1. PICK pc \in Steps : Goes(j, pc) BY <1>3 DEF Send, Accepted, Refused, Steps
  <2>2. ~At(j, "free") BY <1>3 DEF Send, Accepted, Refused, At
  <2>3. job' \in [Jobs -> Job \cup {Free}] BY <2>1, <2>2, JobGoes
  <2>4. QED BY <1>3, <2>3 DEF Send, Accepted, Refused, TypeOK, owned, history
<1>4. ASSUME NEW j \in Jobs, Failed(j) PROVE TypeOK'
  <2>1. job[j] \in Job BY <1>4, JobIsOne DEF Failed, At
  <2>2. ASSUME AttemptsLeft(j)
        PROVE  [job[j] EXCEPT !.pc = "queued", !.attempt = job[j].attempt + 1] \in Job
    <3>1. job[j].attempt \in 1 .. MaxAttempts BY <2>1 DEF Job
    <3>2. job[j].attempt + 1 \in 1 .. MaxAttempts
      BY <2>2, <3>1, WebhookAssumption DEF AttemptsLeft, WebhookAssumption
    <3>3. "queued" \in Steps BY DEF Steps
    <3>4. QED BY <2>1, <3>2, <3>3 DEF Job
  <2>3. Goes(j, "terminal") => job' \in [Jobs -> Job \cup {Free}]
    BY <1>4, JobGoes DEF Failed, At, Steps
  <2>4. job' \in [Jobs -> Job \cup {Free}] BY <1>4, <2>2, <2>3 DEF Failed, TypeOK
  <2>5. QED BY <1>4, <2>4 DEF Failed, TypeOK, owned, history
<1>5. ASSUME NEW j \in Jobs, RecordDelivered(j) \/ RecordFailed(j) PROVE TypeOK'
  <2>1. ~At(j, "free") BY <1>5 DEF RecordDelivered, RecordFailed, At
  <2>2. Ends(j) \/ Goes(j, "reset") \/ Goes(j, "count")
    BY <1>5 DEF RecordDelivered, RecordFailed
  <2>3. job' \in [Jobs -> Job \cup {Free}] BY <2>1, <2>2, JobGoes, JobEnds DEF Steps
  <2>4. log' \in [Deliveries -> Outcomes]
    BY <1>5 DEF RecordDelivered, RecordFailed, TypeOK, Outcomes
  <2>5. QED BY <1>5, <2>3, <2>4 DEF RecordDelivered, RecordFailed, TypeOK, owned, history
<1>6. ASSUME NEW j \in Jobs, RecordSuccess(j) PROVE TypeOK'
  <2>1. job' \in [Jobs -> Job \cup {Free}] BY <1>6, JobEnds DEF RecordSuccess
  <2>2. QED BY <1>6, <2>1 DEF RecordSuccess, Reset, TypeOK, owned
<1>7. ASSUME NEW j \in Jobs, Count(j) PROVE TypeOK'
  <2>1. ~At(j, "free") /\ (Goes(j, "disable") \/ Ends(j)) BY <1>7 DEF Count, At
  <2>2. job' \in [Jobs -> Job \cup {Free}] BY <2>1, JobGoes, JobEnds DEF Steps
  <2>3. job[j].d \in Deliveries BY <2>1, JobIsOne
  <2>4. streak' \in Nat /\ row' \subseteq Deliveries /\ counted' \subseteq Deliveries
    BY <1>7, <2>3 DEF Count, TypeOK
  <2>5. QED BY <1>7, <2>2, <2>4 DEF Count, TypeOK, owned
<1>8. ASSUME NEW j \in Jobs, Disable(j) PROVE TypeOK'
  <2>1. job' \in [Jobs -> Job \cup {Free}] BY <1>8, JobEnds DEF Disable
  <2>2. QED BY <1>8, <2>1 DEF Disable, TypeOK, history
<1>9. ASSUME NEW j \in Jobs, Crash(j) PROVE TypeOK'
  <2>1. ~At(j, "free") BY <1>9 DEF Crash, At
  <2>2. job' \in [Jobs -> Job \cup {Free}] BY <1>9, <2>1, JobGoes DEF Crash, Steps
  <2>3. job[j].d \in Deliveries BY <2>1, JobIsOne
  <2>4. crashes' \in 0 .. MaxCrashes BY <1>9, WebhookAssumption DEF Crash, TypeOK
  <2>5. QED BY <1>9, <2>2, <2>3, <2>4 DEF Crash, TypeOK, owned
<1>10. CASE SwitchOn \/ SwitchOff \/ ChangeTypes
  <2>1. CASE SwitchOn BY <2>1 DEF SwitchOn, Reset, TypeOK
  <2>2. CASE SwitchOff BY <2>2 DEF SwitchOff, TypeOK, history
  <2>3. CASE ChangeTypes BY <2>3 DEF ChangeTypes, TypeOK, history
  <2>4. QED BY <1>10, <2>1, <2>2, <2>3
<1>11. CASE Delete BY <1>11 DEF Delete, TypeOK, Outcomes, history
<1>12. CASE UNCHANGED vars BY <1>12 DEF vars, TypeOK, owned, history
<1>13. QED
  BY <1>1, <1>2, <1>3, <1>4, <1>5, <1>6, <1>7, <1>8, <1>9, <1>10, <1>11, <1>12 DEF Next

Kept == Booked' /\ Cleared' /\ StreakIsDistinct' /\ FailureIsCounted'

\* A step in which no job begins, or ends, to count, and nothing is recorded.
LEMMA QuietActions ==
  ASSUME IInv, NEW j \in Jobs,
         \/ \E d \in Deliveries : Bridge(j, d)
         \/ Drop(j) \/ Unsubscribed(j) \/ Send(j) \/ Accepted(j) \/ Refused(j) \/ Failed(j)
         \/ RecordDelivered(j) \/ Disable(j) \/ (Crash(j) /\ ~At(j, "count"))
  PROVE  Kept
<1> USE DEF IInv
<1>1. UNCHANGED <<exists, streak, row, counted>>
  BY DEF Bridge, Drop, Unsubscribed, Send, Accepted, Refused, Failed, RecordDelivered,
         Disable, Crash, owned, history
<1>2. UNCHANGED uncounted
  BY DEF Bridge, Drop, Unsubscribed, Send, Accepted, Refused, Failed, RecordDelivered,
         Disable, Crash, history, At
<1>3. UNCHANGED history BY <1>1, <1>2 DEF history
<1>4. job[j].pc # "count"
  BY DEF Bridge, Drop, Unsubscribed, Send, Accepted, Refused, Failed, RecordDelivered,
         Disable, Crash, At
<1>5. CASE \E d \in Deliveries : Bridge(j, d)
  <2>1. PICK d \in Deliveries : Bridge(j, d) BY <1>5
  <2>2. TypeOK' BY <2>1, TypeStep DEF Next
  <2>3. QuietJob(j) BY <1>4, <2>1, <2>2 DEF QuietJob, Bridge, TypeOK
  <2>4. QED BY <1>1, <1>3, <2>1, <2>3, QuietStep DEF Bridge, Kept, Outcomes
<1>6. CASE Drop(j) \/ Unsubscribed(j) \/ Disable(j)
  <2>1. Ends(j) BY <1>6 DEF Drop, Unsubscribed, Disable
  <2>2. QuietJob(j) BY <1>4, <2>1, JobEnds DEF QuietJob
  <2>3. ~At(j, "free") BY <1>6 DEF Drop, Unsubscribed, Disable, At
  <2>4. job[j].d \in Deliveries BY <2>3, JobIsOne
  <2>5. (exists /\ log' = [log EXCEPT ![job[j].d] = "unsubscribed"]) \/ UNCHANGED log
    BY <1>6 DEF Drop, Unsubscribed, Disable
  <2>6. QED BY <1>1, <1>3, <2>2, <2>4, <2>5, QuietStep DEF Kept, Outcomes
<1>7. CASE Send(j) \/ Accepted(j) \/ Refused(j) \/ (Crash(j) /\ ~At(j, "count"))
  <2>1. ~At(j, "free") BY <1>7 DEF Send, Accepted, Refused, Crash, At
  <2>2. PICK pc \in Steps \ {"count"} : Goes(j, pc)
    BY <1>7 DEF Send, Accepted, Refused, Crash, Steps
  <2>3. QuietJob(j) BY <1>4, <2>1, <2>2, JobGoes DEF QuietJob
  <2>4. job[j].d \in Deliveries BY <2>1, JobIsOne
  <2>5. UNCHANGED log BY <1>7 DEF Send, Accepted, Refused, Crash
  <2>6. QED BY <1>1, <1>3, <2>3, <2>4, <2>5, QuietStep DEF Kept, Outcomes
<1>8. CASE Failed(j)
  <2>1. ~At(j, "free") /\ job[j] \in Job BY <1>8, JobIsOne DEF Failed, At
  <2>2. job' \in [Jobs -> Job \cup {Free}] BY <1>8, TypeStep DEF Next, TypeOK
  <2>3. ASSUME Goes(j, "terminal") PROVE QuietJob(j)
    BY <1>4, <2>1, <2>3, JobGoes DEF QuietJob, Steps
  <2>4. ASSUME job' = [job EXCEPT ![j] =
                  [@ EXCEPT !.pc = "queued", !.attempt = job[j].attempt + 1]]
        PROVE  QuietJob(j)
    <3>1. job'[j] = [job[j] EXCEPT !.pc = "queued", !.attempt = job[j].attempt + 1]
      BY <2>4 DEF TypeOK
    <3>2. job'[j].pc = "queued" BY <2>1, <3>1 DEF Job
    <3>3. \A i \in Jobs : i # j => job'[i] = job[i] BY <2>4 DEF TypeOK
    <3>4. QED BY <1>4, <2>2, <3>2, <3>3 DEF QuietJob
  <2>5. QuietJob(j) BY <1>8, <2>3, <2>4 DEF Failed
  <2>6. job[j].d \in Deliveries BY <2>1 DEF Job
  <2>7. QED BY <1>1, <1>3, <1>8, <2>5, <2>6, QuietStep DEF Failed, Kept, Outcomes
<1>9. CASE RecordDelivered(j)
  <2>1. ~At(j, "free") BY <1>9 DEF RecordDelivered, At
  <2>2. Goes(j, "reset") \/ Ends(j) BY <1>9 DEF RecordDelivered
  <2>3. QuietJob(j) BY <1>4, <2>1, <2>2, JobGoes, JobEnds DEF QuietJob, Steps
  <2>4. job[j].d \in Deliveries BY <2>1, JobIsOne
  <2>5. (exists /\ log' = [log EXCEPT ![job[j].d] = "success"]) \/ UNCHANGED log
    BY <1>9 DEF RecordDelivered
  <2>6. QED BY <1>1, <1>3, <2>3, <2>4, <2>5, QuietStep DEF Kept, Outcomes
<1>10. QED BY <1>5, <1>6, <1>7, <1>8, <1>9

\* The row of a failure, which its job goes on to count if nobody had written it.
LEMMA FailureRecorded ==
  ASSUME IInv, NEW j \in Jobs, RecordFailed(j)
  PROVE  Kept
<1> USE DEF IInv
<1>1. job[j].d \in Deliveries /\ ~At(j, "free") BY JobIsOne DEF RecordFailed, At
<1>2. UNCHANGED <<exists, streak, row, counted, uncounted>>
  BY DEF RecordFailed, owned, history
<1>3. CASE exists /\ log[job[j].d] = "none"
  <2>1. log' = [log EXCEPT ![job[j].d] = "failed"] /\ Goes(j, "count")
    BY <1>3 DEF RecordFailed, Inserts, Counts
  <2>2. /\ job'[j].pc = "count" /\ job'[j].d = job[j].d
        /\ \A i \in Jobs : i # j => job'[i] = job[i]
    BY <1>1, <2>1, JobGoes DEF Steps
  <2>3. /\ log'[job[j].d] = "failed"
        /\ \A e \in Deliveries : e # job[j].d => log'[e] = log[e]
    BY <1>1, <2>1 DEF TypeOK
  <2>4. counted \subseteq Deliveries BY DEF TypeOK
  <2>5. job[j].d \notin counted BY <1>3 DEF Booked
  <2>6. \A i \in Jobs : At(i, "count") => job[i].d # job[j].d /\ job[i].d \in Deliveries
    BY <1>3, JobIsOne DEF Booked, At
  <2>7. \A i \in Jobs : i # j => (At(i, "count")' <=> At(i, "count")) BY <2>2 DEF At
  <2>8. Booked'
    <3>1. (row \subseteq counted /\ (exists => \A d \in counted : log[d] # "none"))'
      BY <1>2, <2>3, <2>4 DEF Booked
    <3>2. ASSUME NEW i \in Jobs, At(i, "count")'
          PROVE  (job[i].d \notin counted /\ (exists => log[job[i].d] # "none"))'
      <4>1. CASE i = j BY <1>2, <2>2, <2>3, <2>5, <4>1
      <4>2. CASE i # j
        <5>1. At(i, "count") /\ job'[i] = job[i] BY <2>2, <2>7, <3>2, <4>2
        <5>2. QED BY <1>2, <2>3, <2>6, <5>1 DEF Booked
      <4>3. QED BY <4>1, <4>2
    <3>3. ASSUME NEW i \in Jobs, NEW k \in Jobs,
                 At(i, "count")', At(k, "count")', (job[i].d = job[k].d)'
          PROVE  i = k
      <4>1. CASE i # j /\ k # j
        <5>1. At(i, "count") /\ At(k, "count") /\ job[i].d = job[k].d
          BY <2>2, <2>7, <3>3, <4>1
        <5>2. QED BY <5>1 DEF Booked
      <4>2. CASE i = j \/ k = j BY <2>2, <2>6, <2>7, <3>3, <4>2
      <4>3. QED BY <4>1, <4>2
    <3>4. QED BY <3>1, <3>2, <3>3 DEF Booked
  <2>9. Cleared' /\ StreakIsDistinct' BY <1>2, <1>3 DEF Cleared, StreakIsDistinct
  <2>10. FailureIsCounted'
    <3>1. ASSUME NEW d \in Deliveries, log'[d] = "failed"
          PROVE  d \in counted' \cup uncounted'
                 \/ \E i \in Jobs : At(i, "count")' /\ job'[i].d = d
      <4>1. CASE d = job[j].d BY <2>2, <4>1 DEF At
      <4>2. CASE d # job[j].d
        <5>1. log[d] = "failed" BY <2>3, <3>1, <4>2
        <5>2. d \in counted \cup uncounted \/ \E i \in Jobs : At(i, "count") /\ job[i].d = d
          BY <5>1 DEF FailureIsCounted
        <5>3. ~At(j, "count") BY DEF RecordFailed, At
        <5>4. QED BY <1>2, <2>2, <2>7, <5>2, <5>3
      <4>3. QED BY <4>1, <4>2
    <3>2. QED BY <3>1 DEF FailureIsCounted
  <2>11. QED BY <2>8, <2>9, <2>10 DEF Kept
<1>4. CASE ~(exists /\ log[job[j].d] = "none")
  <2>1. UNCHANGED log /\ Ends(j) BY <1>4 DEF RecordFailed, Inserts, Counts
  <2>2. QuietJob(j) BY <2>1, JobEnds DEF QuietJob, RecordFailed, At
  <2>3. QED BY <1>1, <1>2, <2>1, <2>2, QuietStep DEF Kept, history, Outcomes
<1>5. QED BY <1>3, <1>4

\* What a job that counts, or dies before it counts, or a reset leaves of the rest:
\* the jobs still counting were counting before.
LEMMA FewerCount ==
  ASSUME TypeOK, Booked, NEW j \in Jobs, UNCHANGED <<exists, log>>, row' \subseteq counted',
         job'[j].pc # "count", \A i \in Jobs : i # j => job'[i] = job[i],
         counted' = counted
         \/ (exists /\ At(j, "count") /\ counted' = counted \cup {job[j].d})
  PROVE  Booked'
<1>1. \A i \in Jobs : At(i, "count")' => i # j /\ At(i, "count") /\ job'[i] = job[i]
  BY DEF At
<1>2. (exists => \A d \in counted : log[d] # "none")' BY DEF Booked
<1>3. ASSUME NEW i \in Jobs, At(i, "count")'
      PROVE  (job[i].d \notin counted /\ (exists => log[job[i].d] # "none"))'
  <2>1. i # j /\ At(i, "count") /\ job'[i] = job[i] BY <1>1, <1>3
  <2>2. job[i].d \notin counted /\ (exists => log[job[i].d] # "none") BY <2>1 DEF Booked
  <2>3. At(j, "count") => job[i].d # job[j].d BY <2>1 DEF Booked
  <2>4. QED BY <2>1, <2>2, <2>3
<1>4. (\A i, k \in Jobs : At(i, "count") /\ At(k, "count") /\ job[i].d = job[k].d => i = k)'
  BY <1>1 DEF Booked
<1>5. QED BY <1>2, <1>3, <1>4 DEF Booked

\* A failure is counted, or its worker dies before it is, and the streak is reset.
LEMMA Counting ==
  ASSUME IInv, NEW j \in Jobs, Count(j) \/ RecordSuccess(j) \/ (Crash(j) /\ At(j, "count"))
  PROVE  Kept
<1> USE DEF IInv
<1>1. ~At(j, "free") BY DEF Count, RecordSuccess, Crash, At
<1>2. job[j].d \in Deliveries BY <1>1, JobIsOne
<1>3. UNCHANGED <<exists, log>> BY DEF Count, RecordSuccess, Crash, owned
<1>4. job'[j].pc # "count" /\ \A i \in Jobs : i # j => job'[i] = job[i]
  <2>1. Ends(j) \/ Goes(j, "disable") \/ Goes(j, "queued") BY DEF Count, RecordSuccess, Crash
  <2>2. QED BY <1>1, <2>1, JobEnds, JobGoes DEF Steps
<1>5. /\ row' \subseteq counted'
      /\ counted' = counted \/ (exists /\ At(j, "count") /\ counted' = counted \cup {job[j].d})
  BY DEF Count, RecordSuccess, Reset, Crash, Booked
<1>6. Booked' BY <1>3, <1>4, <1>5, FewerCount
<1>7. Cleared' BY <1>3 DEF Cleared
<1>8. StreakIsDistinct'
  <2>1. IsFiniteSet(row) BY FS_Subset, WebhookAssumption DEF TypeOK
  <2>2. CASE UNCHANGED <<streak, row>> BY <2>2 DEF StreakIsDistinct
  <2>3. CASE streak' = 0 /\ row' = {} BY <2>3, FS_EmptySet DEF StreakIsDistinct
  <2>4. CASE Count(j) /\ exists
    <3>1. job[j].d \notin row BY <2>4 DEF Count, Booked
    <3>2. streak' = streak + 1 /\ row' = row \cup {job[j].d} BY <2>4 DEF Count
    <3>3. Cardinality(row') = Cardinality(row) + 1 BY <2>1, <3>1, <3>2, FS_AddElement
    <3>4. QED BY <3>2, <3>3 DEF StreakIsDistinct
  <2>5. QED BY <2>2, <2>3, <2>4 DEF Count, RecordSuccess, Reset, Crash
<1>9. FailureIsCounted'
  <2>1. ASSUME NEW d \in Deliveries, log[d] = "failed"
        PROVE  d \in counted' \cup uncounted'
               \/ \E i \in Jobs : At(i, "count")' /\ job'[i].d = d
    <3>1. counted \subseteq counted' /\ uncounted \subseteq uncounted'
      BY <1>5 DEF Count, RecordSuccess, Crash
    <3>2. CASE At(j, "count") /\ job[j].d = d
      <4>1. exists BY <2>1 DEF Cleared
      <4>2. QED BY <3>2, <4>1 DEF Count, RecordSuccess, Crash, At
    <3>3. CASE ~(At(j, "count") /\ job[j].d = d)
      <4>1. d \in counted \cup uncounted
            \/ \E i \in Jobs : i # j /\ At(i, "count") /\ job[i].d = d
        BY <2>1, <3>3 DEF FailureIsCounted
      <4>2. QED BY <1>4, <3>1, <4>1 DEF At
    <3>4. QED BY <3>2, <3>3
  <2>2. QED BY <1>3, <2>1 DEF FailureIsCounted
<1>10. QED BY <1>6, <1>7, <1>8, <1>9 DEF Kept

\* The owner's switches, and the deletion.
LEMMA OwnerActs ==
  ASSUME IInv, SwitchOn \/ SwitchOff \/ ChangeTypes \/ Delete \/ UNCHANGED vars
  PROVE  Kept
<1> USE DEF IInv
<1>1. UNCHANGED <<job, counted, uncounted>>
  BY DEF SwitchOn, SwitchOff, ChangeTypes, Delete, vars, history
<1>2. \A i \in Jobs : At(i, "count")' <=> At(i, "count") BY <1>1 DEF At
<1>3. CASE SwitchOn
  <2>1. UNCHANGED <<exists, log>> /\ streak' = 0 /\ row' = {} BY <1>3 DEF SwitchOn, Reset
  <2>2. Booked' BY <1>1, <1>2, <2>1 DEF Booked
  <2>3. Cleared' /\ StreakIsDistinct' BY <2>1, FS_EmptySet DEF Cleared, StreakIsDistinct
  <2>4. FailureIsCounted' BY <1>1, <1>2, <2>1 DEF FailureIsCounted
  <2>5. QED BY <2>2, <2>3, <2>4 DEF Kept
<1>4. CASE SwitchOff \/ ChangeTypes \/ UNCHANGED vars
  <2>1. UNCHANGED <<exists, log, streak, row>>
    BY <1>4 DEF SwitchOff, ChangeTypes, vars, owned, history
  <2>2. Booked' BY <1>1, <1>2, <2>1 DEF Booked
  <2>3. Cleared' /\ StreakIsDistinct' BY <2>1 DEF Cleared, StreakIsDistinct
  <2>4. FailureIsCounted' BY <1>1, <1>2, <2>1 DEF FailureIsCounted
  <2>5. QED BY <2>2, <2>3, <2>4 DEF Kept
<1>5. CASE Delete
  <2>1. /\ UNCHANGED <<streak, row>> /\ ~exists'
        /\ log' = [d \in Deliveries |-> "none"]
    BY <1>5 DEF Delete, history
  <2>2. Booked' BY <1>1, <1>2, <2>1 DEF Booked
  <2>3. Cleared' /\ StreakIsDistinct' BY <2>1 DEF Cleared, StreakIsDistinct
  <2>4. FailureIsCounted' BY <2>1 DEF FailureIsCounted
  <2>5. QED BY <2>2, <2>3, <2>4 DEF Kept
<1>6. QED BY <1>3, <1>4, <1>5

-----------------------------------------------------------------------------
(* The theorems. *)

LEMMA Initially == Init => IInv
<1> SUFFICES ASSUME Init PROVE IInv OBVIOUS
<1>1. TypeOK BY WebhookAssumption DEF Init, TypeOK, Outcomes
<1>2. \A j \in Jobs : ~At(j, "count") BY DEF Init, At, Free
<1>3. Booked /\ Cleared BY <1>2 DEF Init, Booked, Cleared
<1>4. StreakIsDistinct /\ FailureIsCounted
  BY FS_EmptySet DEF Init, StreakIsDistinct, FailureIsCounted
<1>5. QED BY <1>1, <1>3, <1>4 DEF IInv

LEMMA Inductive == IInv /\ [Next]_vars => IInv'
<1> SUFFICES ASSUME IInv, [Next]_vars PROVE IInv' OBVIOUS
<1>1. TypeOK' BY TypeStep DEF IInv
<1>2. Kept
  <2>1. CASE UNCHANGED vars \/ SwitchOn \/ SwitchOff \/ ChangeTypes \/ Delete
    BY <2>1, OwnerActs
  <2>2. ASSUME NEW j \in Jobs,
               \/ \E d \in Deliveries : Bridge(j, d)
               \/ Drop(j) \/ Unsubscribed(j) \/ Send(j) \/ Accepted(j) \/ Refused(j)
               \/ Failed(j) \/ RecordDelivered(j) \/ RecordSuccess(j) \/ RecordFailed(j)
               \/ Count(j) \/ Disable(j) \/ Crash(j)
        PROVE  Kept
    <3>1. CASE RecordFailed(j) BY <3>1, FailureRecorded
    <3>2. CASE Count(j) \/ RecordSuccess(j) \/ (Crash(j) /\ At(j, "count"))
      BY <3>2, Counting
    <3>3. QED BY <2>2, <3>1, <3>2, QuietActions
  <2>3. QED BY <2>1, <2>2 DEF Next
<1>3. QED BY <1>1, <1>2 DEF IInv, Kept

LEMMA Invariance == Spec => []IInv
BY Initially, Inductive, PTL DEF Spec

\* Whatever jobs do side by side, a job has a delivery, and an attempt that it may make.
THEOREM TypeCorrect == Spec => []TypeOK
<1>1. IInv => TypeOK BY DEF IInv
<1>2. QED BY <1>1, Invariance, PTL

\* The streak that switches a webhook off counts a delivery once, however often it is
\* queued, attempted or taken up again by another worker.
THEOREM StreakCountsOnce == Spec => []StreakIsDistinct
<1>1. IInv => StreakIsDistinct BY DEF IInv
<1>2. QED BY <1>1, Invariance, PTL

\* A failure in the log is missing from the streak only if a worker died between the
\* two, or has yet to count it.
THEOREM FailuresAreCounted == Spec => []FailureIsCounted
<1>1. IInv => FailureIsCounted BY DEF IInv
<1>2. QED BY <1>1, Invariance, PTL

\* A failure recorded late, by another run of the same delivery, never overwrites its
\* success.
THEOREM DeliveredForGood == Spec => DeliveredStaysDelivered
<1>1. ASSUME TypeOK, [Next]_vars
      PROVE  [\A d \in Deliveries : log[d] = "success" /\ exists' => log'[d] = "success"]_vars
  <2>1. SUFFICES ASSUME Next, NEW d \in Deliveries, log[d] = "success", exists'
                 PROVE  log'[d] = "success"
    BY <1>1
  <2>2. log \in [Deliveries -> Outcomes] BY <1>1 DEF TypeOK
  <2>3. ASSUME NEW j \in Jobs, RecordFailed(j) \/ Unsubscribed(j) PROVE log'[d] = "success"
    BY <2>1, <2>2, <2>3 DEF RecordFailed, Unsubscribed, Inserts
  <2>4. ASSUME NEW j \in Jobs, RecordDelivered(j) PROVE log'[d] = "success"
    BY <2>1, <2>2, <2>4 DEF RecordDelivered
  <2>5. ASSUME NEW j \in Jobs,
               \/ \E e \in Deliveries : Bridge(j, e)
               \/ Drop(j) \/ Send(j) \/ Accepted(j) \/ Refused(j) \/ Failed(j)
               \/ RecordSuccess(j) \/ Count(j) \/ Disable(j) \/ Crash(j)
        PROVE  UNCHANGED log
    BY <2>5 DEF Bridge, Drop, Send, Accepted, Refused, Failed, RecordSuccess, Count, Disable,
                Crash
  <2>6. CASE SwitchOn \/ SwitchOff \/ ChangeTypes \/ Delete
    BY <2>1, <2>6 DEF SwitchOn, SwitchOff, ChangeTypes, Delete
  <2>7. QED BY <2>1, <2>3, <2>4, <2>5, <2>6 DEF Next
<1>2. QED BY <1>1, TypeCorrect, PTL DEF Spec, DeliveredStaysDelivered

=============================================================================
