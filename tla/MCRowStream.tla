------------------------------ MODULE MCRowStream ------------------------------
(* Small instances of RowStream for TLC.                                    *)
EXTENDS RowStream

CONSTANTS A, B            \* the tables

\* Rows of A straddle slabs; the last slab of B is short.
MCRowBytes == [t \in Tables |-> IF t = A THEN 3 ELSE 1]
MCNRows == [t \in Tables |-> IF t = A THEN 2 ELSE 3]

N(op, t, c) == [op |-> op, table |-> t, computed |-> c]
GatherOf(t) == N("gather", t, FALSE)
Topk == N("topk", A, FALSE)

\* One gather per group: a barrier stands between any two.
SpacedGraphs ==
  {<<GatherOf(A), Topk, N("index", B, FALSE), N("gather", B, TRUE), Topk>>,
   <<GatherOf(A), Topk, N("index", B, FALSE), N("gather", B, TRUE), N("use", B, FALSE)>>,
   <<N("index", B, FALSE), N("gather", B, TRUE), N("use", A, FALSE), Topk, GatherOf(A)>>}
\* Two gathers with no barrier between them.
AdjacentGraphs == {<<GatherOf(A), GatherOf(B), Topk>>}
=============================================================================
