--------------------------- MODULE MCExpertStream ---------------------------
(* Small instances of ExpertStream for TLC.                                *)
EXTENDS ExpertStreamInv, TLC

CONSTANTS A, B            \* the layers

MCBytes == [il \in Layers |-> IF il = A THEN 2 ELSE 1]

M(c, w, a) == [cached |-> c, twoWave |-> w, loadAll |-> a, aborts |-> TRUE, resizes |-> FALSE]
TwoWaveMode == M(TRUE, TRUE, FALSE)

\* Every configuration with decodes that may be cancelled, and one whose
\* budget changes between complete decodes.
SafeModes ==
  {M(FALSE, FALSE, FALSE), M(FALSE, FALSE, TRUE), M(TRUE, FALSE, FALSE),
   TwoWaveMode, M(TRUE, TRUE, TRUE),
   [TwoWaveMode EXCEPT !.aborts = FALSE, !.resizes = TRUE]}
LiveModes == {TwoWaveMode}
CancelledResize == {[TwoWaveMode EXCEPT !.resizes = TRUE]}

MCSymmetry == Permutations(Lanes) \cup Permutations(Threads)
=============================================================================
