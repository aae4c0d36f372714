------------------------------- MODULE RouteTrace -------------------------------
(***************************************************************************)
(* What RouterHook::flush_pending writes of a layer's routing: one row for    *)
(* each of the nu experts of each of the nt tokens, and which row carries the *)
(* bytes that were read.  "pending" is the record of PendingLayer; its arrays *)
(* are functions on the rows 0, 1, ..., and those of residency and drops may  *)
(* be shorter than the one of the experts.                                    *)
(***************************************************************************)
EXTENDS Integers, FiniteSets

RouteMiss == 0

Rows(pending) == 0..(pending.nu * pending.nt - 1)
Residency(pending, row) ==
  IF row \in DOMAIN pending.residency THEN pending.residency[row] ELSE RouteMiss
Dropped(pending, row) == row \in DOMAIN pending.dropped /\ pending.dropped[row]

\* A batch of "span" tokens from "base" on. The last layer routes only the tokens
\* whose logits are wanted: a single one is the last.
PositionOf(base, span, nt, token) ==
  IF nt = span THEN base + token ELSE IF nt = 1 THEN base + span - 1 ELSE -1

\* A miss that was not dropped is read, once for all the rows that route it: the
\* first of them carries its bytes.
Reads(pending, row) == Residency(pending, row) = RouteMiss /\ ~Dropped(pending, row)
Charged(pending, row) ==
  /\ Reads(pending, row)
  /\ \A before \in 0..(row - 1) : Reads(pending, before) => pending.ids[before] # pending.ids[row]

FlushPending(pending, base, span, expert_bytes) ==
  [row \in Rows(pending) |->
     [step         |-> PositionOf(base, span, pending.nt, row \div pending.nu),
      slot         |-> row % pending.nu,
      expert       |-> pending.ids[row],
      residency    |-> Residency(pending, row),
      dropped      |-> Dropped(pending, row),
      expert_bytes |-> IF Charged(pending, row) THEN expert_bytes ELSE 0]]
=============================================================================
