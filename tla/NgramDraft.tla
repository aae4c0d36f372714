------------------------------ MODULE NgramDraft ------------------------------
(***************************************************************************)
(* Prompt-lookup drafting (ngram_draft): the tokens that followed the       *)
(* longest earlier occurrence of the end of the text are proposed as its    *)
(* continuation.  The text is the context and the token just confirmed.     *)
(***************************************************************************)
EXTENDS Integers, Sequences

\* The least of two bounds.
Fewer(a, b) == IF a < b THEN a ELSE b

\* The last m tokens of the text end at j too.
Matches(c, j, m) == \A k \in 0..(m - 1) : c[j - k] = c[Len(c) - k]

\* The length of the longest match that ends at j, most at most; a match may
\* overlap the end of the text.
Length(c, j, most) ==
  CHOOSE m \in 0..Fewer(most, j) :
    /\ Matches(c, j, m)
    /\ \A n \in (m + 1)..Fewer(most, j) : ~Matches(c, j, n)

\* A match ends before the text does and has room for the shortest one.  The
\* longest is best, and of several the most recent.
Candidates(c, least) == least..(Len(c) - 1)
Best(c, j, least, most) ==
  \A i \in Candidates(c, least) :
    \/ Length(c, i, most) < Length(c, j, most)
    \/ Length(c, i, most) = Length(c, j, most) /\ i <= j

\* What is drafted after ctx and last, room tokens at most: nothing without a
\* match of min tokens.
NgramDraft(ctx, last, room, min, max) ==
  LET c == Append(ctx, last)
      least == IF min < 1 THEN 1 ELSE min
      Found(j) == Best(c, j, least, max) /\ Length(c, j, max) >= least
  IN  IF room <= 0 \/ max < least \/ ~ \E j \in Candidates(c, least) : Found(j)
        THEN << >>
        ELSE LET j == CHOOSE j \in Candidates(c, least) : Found(j)
             IN  SubSeq(c, j + 1, j + Fewer(room, Len(c) - j))
=============================================================================
