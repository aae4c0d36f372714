---------------------------- MODULE MCSessionOpen ----------------------------
(***************************************************************************)
(* Small instances of SessionOpen: two sessions and two address ranges, on   *)
(* one file or on two.                                                       *)
(***************************************************************************)
EXTENDS SessionOpen, TLC

CONSTANTS s1, s2, a1, a2

MCDense == [r \in Ranges |-> CASE r = "dense" -> 2 [] r = "table" -> 3 [] r = "huge" -> 5]
Plain == [Closed EXCEPT !.name = "f"]
Anon == [Plain EXCEPT !.stream = TRUE]
Auto == [Anon EXCEPT !.cacheAuto = TRUE, !.floor = 1, !.wants = {"predict_prefetch"}]
Released == [Anon EXCEPT !.release = TRUE, !.name = "g"]
OpenModes ==
  {Plain, [Anon EXCEPT !.dense = "mmap"], Auto, [Auto EXCEPT !.rows = TRUE, !.ceil = 2],
   [Anon EXCEPT !.overlap = TRUE, !.cache = 2, !.wants = {"two_wave", "drop_cold"}],
   Released, [Released EXCEPT !.overlap = TRUE, !.rows = TRUE, !.name = "f"],
   [Released EXCEPT !.mtp = TRUE, !.dense = "pinned"], [Released EXCEPT !.dense = "mmap"]}
RowModes == {[Released EXCEPT !.rows = TRUE]}
RowBudgetModes == {[Auto EXCEPT !.rows = TRUE]}
GapModes == {Plain, Released}
\* Sound although Listed CHOOSEs a region: with no peril allowed a session
\* has one mapping at most, so that there is nothing to choose.
MCSymmetry == Permutations({s1, s2}) \cup Permutations({a1, a2})
=============================================================================
