------------------------------ MODULE MirrorLog ------------------------------
(***************************************************************************)
(* The op log of a MIRRORCHAIN group portfolio: what an op is, and the     *)
(* questions the code asks of the log (mirrorchainRepository.ts).          *)
(*                                                                         *)
(* A row is a mirror id.  `val' is the whole state an op leaves its row    *)
(* in (ops carry full state, never a diff), so a delete carries None.      *)
(* `src' is the cash source an entry is booked on, `base' the seq of the   *)
(* latest op on the row its author had seen.                               *)
(***************************************************************************)
EXTENDS Integers, Sequences

CONSTANTS
  Copies,    \* member portfolios; a member who rejoins gets a new one
  Sources,   \* mirror ids of cash sources
  Txs,       \* mirror ids of transactions
  Moves,     \* mirror ids of cash movements and dividends
  Main,      \* the Main cash source, which every copy has from birth
  Values,    \* row states, as far as ops tell them apart
  None

ASSUME RowsAssumption ==
  /\ Main \in Sources
  /\ Sources \cap Txs = {} /\ Sources \cap Moves = {} /\ Txs \cap Moves = {}
  /\ None \notin Copies \cup Sources \cup Txs \cup Moves \cup Values

Rows == Sources \cup Txs \cup Moves

Kinds == {"chain", "create", "update", "delete"}

Op == [kind : Kinds, row : Rows \cup {None}, val : Values \cup {None},
       src : Sources \cup {None}, by : Copies, base : Nat]

\* Genesis, joins, departures: ops that change no ledger row.
ChainOp(c) == [kind |-> "chain", row |-> None, val |-> None, src |-> None,
               by |-> c, base |-> 0]

CreateOp(c, r, v, s) == [kind |-> "create", row |-> r, val |-> v, src |-> s,
                         by |-> c, base |-> 0]

UpdateOp(c, r, v, s, b) == [kind |-> "update", row |-> r, val |-> v, src |-> s,
                            by |-> c, base |-> b]

DeleteOp(c, r, b) == [kind |-> "delete", row |-> r, val |-> None, src |-> None,
                      by |-> c, base |-> b]

\* An op that carries a baseSeq, the only ops an append checks.
Guarded(op) == op.kind \in {"update", "delete"}

\* k is the seq of the latest op on r among the first n, 0 when there is none.
LatestAmong(log, n, r, k) ==
  /\ k \in 0 .. n
  /\ k > 0 => log[k].row = r
  /\ \A i \in 1 .. n : i > k => log[i].row # r

LatestSeq(log, r, k) == LatestAmong(log, Len(log), r, k)

\* The stale-edit and terminal-delete guard: the op was made against the latest
\* op on its row, and that op did not delete the row.
Current(log, op) ==
  /\ LatestSeq(log, op.row, op.base)
  /\ op.base > 0 => log[op.base].kind # "delete"

\* firstOpForEntity finds the create: the only op that names a transaction's asset.
CreatedFirst(log, r) ==
  \E i \in 1 .. Len(log) :
    /\ log[i].row = r /\ log[i].kind = "create"
    /\ \A j \in 1 .. i - 1 : log[j].row # r

\* The state of row r in a ledger that holds exactly the first n ops.
StateAt(log, n, r) ==
  LET touching == {k \in 1 .. n : log[k].row = r} IN
  IF touching = {} THEN None
  ELSE log[CHOOSE k \in touching : \A i \in touching : i <= k].val
=============================================================================
