-------------------------------- MODULE MCRouter --------------------------------
(* Small instances of Router for TLC.                                      *)
EXTENDS Router

Off == [drop |-> FALSE, prefill |-> FALSE, lambda |-> 0, ahead |-> 0, predict |-> FALSE,
        probe |-> FALSE, hint |-> FALSE, trace |-> FALSE, draft |-> FALSE,
        row |-> "F32", weight |-> "F16"]

\* A policy of each kind alone, and the pairs whose handlers meet.
PolicyModes ==
  {[Off EXCEPT !.drop = TRUE, !.trace = TRUE], [Off EXCEPT !.drop = TRUE, !.draft = TRUE],
   [Off EXCEPT !.drop = TRUE, !.prefill = TRUE],
   [Off EXCEPT !.ahead = 1], [Off EXCEPT !.ahead = 2], [Off EXCEPT !.probe = TRUE],
   [Off EXCEPT !.predict = TRUE], [Off EXCEPT !.hint = TRUE, !.trace = TRUE],
   [Off EXCEPT !.lambda = 1],
   [Off EXCEPT !.ahead = 1, !.weight = "BF16"], [Off EXCEPT !.predict = TRUE, !.row = "BF16"],
   [Off EXCEPT !.probe = TRUE, !.weight = "BF16"]}

SubstituteAndAhead == {[Off EXCEPT !.lambda = 1, !.ahead = 1]}

MCChains == {<<0>>, <<0, 2>>}
MCScores == [Experts -> 0..1]
=============================================================================
