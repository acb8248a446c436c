------------------------------- MODULE ChainLog -------------------------------
(***************************************************************************)
(* What a group portfolio promises its members, whatever happens below:    *)
(* one log that only active members write, every guarded write made        *)
(* against the latest op on its row, and copies that learn the log in      *)
(* order until they leave (design, sections 2 and 3).                      *)
(***************************************************************************)
EXTENDS MirrorLog

CONSTANTS Founder, MainNames

VARIABLES
  log,     \* the ops of the chain
  seen,    \* how many of them each copy has taken over
  roster   \* out, active, ended

vars == <<log, seen, roster>>

Init ==
  /\ \E name \in MainNames :
       log = <<ChainOp(Founder), CreateOp(Founder, Main, name, None)>>
  /\ seen = [c \in Copies |-> IF c = Founder THEN 2 ELSE 0]
  /\ roster = [c \in Copies |-> IF c = Founder THEN "active" ELSE "out"]

\* An active member's write: one guarded op, or creates of rows the log lacks.
Publish(c) ==
  LET ops == SubSeq(log', Len(log) + 1, Len(log')) IN
  /\ roster[c] = "active"
  /\ ops # <<>> /\ log' = log \o ops
  /\ \A i \in DOMAIN ops : ops[i].by = c
  /\ \/ ops = <<ops[1]>> /\ Guarded(ops[1]) /\ Current(log, ops[1])
     \/ \A i \in Len(log) + 1 .. Len(log') :
          log'[i].kind = "create" /\ \A j \in 1 .. i - 1 : log'[j].row # log'[i].row
  /\ UNCHANGED <<seen, roster>>

\* A membership event, on record before or after the roster changes.
Announce(c) ==
  /\ roster[c] # "out"
  /\ log' = Append(log, ChainOp(c))
  /\ UNCHANGED <<seen, roster>>

\* The next op, or all of the copy's own ops that are next.
Learn(c) ==
  /\ roster[c] = "active"
  /\ \E n \in seen[c] + 1 .. Len(log) :
       /\ n > seen[c] + 1 => \A i \in seen[c] + 1 .. n : log[i].by = c
       /\ seen' = [seen EXCEPT ![c] = n]
  /\ UNCHANGED <<log, roster>>

Join(c) ==
  /\ roster[c] = "out"
  /\ roster' = [roster EXCEPT ![c] = "active"]
  /\ UNCHANGED <<log, seen>>

Sever(c) ==
  /\ roster[c] = "active"
  /\ roster' = [roster EXCEPT ![c] = "ended"]
  /\ UNCHANGED <<log, seen>>

Next == \E c \in Copies : Publish(c) \/ Announce(c) \/ Learn(c) \/ Join(c) \/ Sever(c)

Spec == Init /\ [][Next]_vars
=============================================================================
