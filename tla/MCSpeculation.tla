----------------------------- MODULE MCSpeculation -----------------------------
(* Small instances of Speculation for TLC.                                  *)
EXTENDS Speculation

M(a, o, f) == [adopt |-> a, overlap |-> o, readsFail |-> f]
\* A guessing predictor, whose reads may fail; overlap makes no difference.
GuessModes == {M(FALSE, TRUE, TRUE)}
\* Route-ahead, serial and overlapped, every read succeeding.
AdoptModes == {M(TRUE, o, FALSE) : o \in BOOLEAN}
SoundModes == GuessModes \cup AdoptModes
AdoptFailing == {M(TRUE, o, TRUE) : o \in BOOLEAN}
=============================================================================
