-------------------------- MODULE SessionTurnProofs --------------------------
(***************************************************************************)
(* Whatever the memory, the drafts, the context policy, the failures and the *)
(* cancels of a session: seen from outside its turns are all or nothing, as  *)
(* Conversation has it; and what its KV holds is what its records say and    *)
(* what its conversation reads, on the conditions stated there.             *)
(***************************************************************************)
EXTENDS SessionTurn, FiniteSetTheorems, SequenceTheorems, WellFoundedInduction, TLAPS

\* A set of natural numbers has a least one.
LEMMA LeastNatural ==
  ASSUME NEW T, T \subseteq Nat, T # {}
  PROVE  \E x \in T : \A y \in T : x <= y
<1>1. PICK x \in T : \A y \in T : ~ (<<y, x>> \in OpToRel(<, Nat))
  BY NatLessThanWellFounded, WFMin
<1>2. ASSUME NEW y \in T PROVE x <= y
  <2>1. y < x => <<y, x>> \in OpToRel(<, Nat)
    BY DEF OpToRel
  <2>2. ~(y < x)
    BY <2>1, <1>1
  <2>3. x \in Nat /\ y \in Nat
    OBVIOUS
  <2> QED BY <2>2, <2>3
<1> QED BY <1>2

\* A bounded set of natural numbers has a greatest one.
LEMMA GreatestNatural ==
  ASSUME NEW n \in Nat, NEW T, T \subseteq 0..n, T # {}
  PROVE  \E x \in T : \A y \in T : y <= x
<1> DEFINE U == {u \in 0..n : n - u \in T}
<1>1. \A y \in T : n - y \in U
  OBVIOUS
<1>2. PICK u \in U : \A v \in U : u <= v
  <2>1. PICK y \in T : TRUE
    OBVIOUS
  <2>2. n - y \in U
    BY <1>1
  <2>3. U \subseteq Nat
    OBVIOUS
  <2> HIDE DEF U
  <2> QED BY <2>2, <2>3, LeastNatural
<1>3. n - u \in T
  OBVIOUS
<1>4. ASSUME NEW y \in T PROVE y <= n - u
  <2>1. u <= n - y
    BY <1>1, <1>2
  <2> QED BY <2>1
<1> QED BY <1>3, <1>4

\* The length of a match that ends at j is that of a match, and of the
\* longest within the bound.
LEMMA LengthIsLongest ==
  ASSUME NEW c, NEW j \in Nat, NEW most \in Nat
  PROVE  /\ Length(c, j, most) \in 0..Fewer(most, j)
         /\ Matches(c, j, Length(c, j, most))
         /\ \A n \in 0..Fewer(most, j) : Matches(c, j, n) => n <= Length(c, j, most)
<1> DEFINE T == {m \in 0..Fewer(most, j) : Matches(c, j, m)}
<1>1. Fewer(most, j) \in Nat
  BY DEF Fewer
<1>2. 0 \in T
  BY <1>1 DEF Matches
<1>3. PICK m \in T : \A n \in T : n <= m
  <2>1. T \subseteq 0..Fewer(most, j) /\ T # {}
    BY <1>2
  <2> HIDE DEF T
  <2> QED BY <2>1, <1>1, GreatestNatural
<1>4. \E l \in 0..Fewer(most, j) :
        /\ Matches(c, j, l)
        /\ \A n \in (l + 1)..Fewer(most, j) : ~Matches(c, j, n)
  <2>1. \A n \in (m + 1)..Fewer(most, j) : ~Matches(c, j, n)
    BY <1>1, <1>3
  <2> QED BY <2>1, <1>3
<1>5. /\ Length(c, j, most) \in 0..Fewer(most, j)
      /\ Matches(c, j, Length(c, j, most))
      /\ \A n \in (Length(c, j, most) + 1)..Fewer(most, j) : ~Matches(c, j, n)
  BY <1>4 DEF Length
<1> QED BY <1>1, <1>5

\* A draft fits the room it was asked for, and is what followed an earlier
\* occurrence of the last tokens of the text, of one as long as the shortest
\* match allowed at least: a source that finds none drafts nothing.
THEOREM DraftContinuesMatch ==
  ASSUME NEW S, NEW ctx \in Seq(S), NEW last \in S,
         NEW room \in Int, NEW min \in Int, NEW max \in Int
  PROVE  LET d == NgramDraft(ctx, last, room, min, max)
             c == Append(ctx, last)
         IN  /\ d \in Seq(S)
             /\ d # << >> =>
                  /\ Len(d) <= room
                  /\ \E j \in 1..(Len(c) - 1) :
                       /\ j >= min
                       /\ \A k \in 0..(min - 1) : c[j - k] = c[Len(c) - k]
                       /\ d = SubSeq(c, j + 1, j + Len(d))
<1> DEFINE d == NgramDraft(ctx, last, room, min, max)
           c == Append(ctx, last)
           least == IF min < 1 THEN 1 ELSE min
           Found(j) == Best(c, j, least, max) /\ Length(c, j, max) >= least
<1>1. CASE room <= 0 \/ max < least \/ ~ \E j \in Candidates(c, least) : Found(j)
  <2>1. d = << >>
    BY <1>1 DEF NgramDraft
  <2> QED BY <2>1
<1>2. CASE ~(room <= 0 \/ max < least \/ ~ \E j \in Candidates(c, least) : Found(j))
  <2> DEFINE j == CHOOSE i \in Candidates(c, least) : Found(i)
  <2>1. d = SubSeq(c, j + 1, j + Fewer(room, Len(c) - j))
    BY <1>2 DEF NgramDraft
  <2>2. j \in Candidates(c, least) /\ Found(j)
    BY <1>2
  <2>3. c \in Seq(S) /\ Len(c) \in Nat
    OBVIOUS
  <2> HIDE DEF c, d
  <2>4. least \in Nat /\ least >= 1 /\ least >= min /\ room \in Nat /\ max \in Nat
    BY <1>2
  <2>5. Length(c, j, max) >= least
    BY <2>2
  <2> HIDE DEF least
  <2>6. j \in 1..(Len(c) - 1) /\ j >= least
    BY <2>2, <2>3, <2>4 DEF Candidates
  <2> HIDE DEF j, Found
  <2>7. Fewer(room, Len(c) - j) \in 0..(Len(c) - j) /\ Fewer(room, Len(c) - j) <= room
    BY <2>3, <2>4, <2>6 DEF Fewer
  <2>8. d \in Seq(S) /\ Len(d) = Fewer(room, Len(c) - j)
    BY <2>1, <2>3, <2>6, <2>7
  <2>9. /\ Matches(c, j, Length(c, j, max))
        /\ Length(c, j, max) \in Nat
    BY <2>4, <2>6, LengthIsLongest DEF Fewer
  <2>10. \A k \in 0..(min - 1) : c[j - k] = c[Len(c) - k]
    BY <2>4, <2>5, <2>9 DEF Matches
  <2>11. /\ j \in 1..(Len(c) - 1) /\ j >= min
         /\ d = SubSeq(c, j + 1, j + Len(d))
    <3>1. j \in 1..(Len(c) - 1) /\ j >= min
      BY <2>3, <2>4, <2>6
    <3> HIDE DEF c, d
    <3>2. d = SubSeq(c, j + 1, j + Len(d))
      BY <2>1, <2>8, Zenon
    <3> QED BY <3>1, <3>2
  <2>12. /\ d \in Seq(S) /\ Len(d) <= room
         /\ \E i \in 1..(Len(c) - 1) :
              /\ i >= min
              /\ \A k \in 0..(min - 1) : c[i - k] = c[Len(c) - k]
              /\ d = SubSeq(c, i + 1, i + Len(d))
    BY <2>7, <2>8, <2>10, <2>11
  <2> QED BY <2>12 DEF c, d
<1> QED BY <1>1, <1>2
-----------------------------------------------------------------------------

\* What a turn owes its rollback: the history without its request, or under a
\* context policy a copy; the sampler as it found it until it samples; and a
\* cancelled turn had a cancel.
IsASequence(s) == \E M : s \in Seq(M)
Phases == {"idle", "room", "regrow", "prefill", "gen", "decode", "replay", "finish", "score"}
ChatInv ==
  /\ IsASequence(history) /\ IsASequence(before.history)
  /\ rng \in Nat /\ before.rng \in Nat
  /\ pc \in Phases
UndoInv ==
  ~Quiet => /\ before.rng <= rng
            /\ pc \in {"room", "prefill"} => rng = before.rng
            /\ PriorHistory = before.history
OutcomeInv ==
  /\ pc = "finish" => outcome \in {"ok", "cancelled", "exhausted"}
  /\ pc = "finish" /\ outcome = "cancelled" => cancel
  /\ pc = "score" => history = << >> /\ rng = 0
SessionInv == ChatInv /\ UndoInv /\ OutcomeInv

\* What a step inside a turn may do to the conversation: nothing; drop its
\* oldest messages, under a policy; put back what there was; add a reply.
Works ==
  /\ ~Quiet /\ pc # "finish" /\ pc' \in Phases \ {"idle", "score"}
  /\ UNCHANGED <<mode, history, before, cancel>>
  /\ rng' \in {rng, rng + 1}
  /\ pc' \in {"room", "prefill"} => pc \in {"room", "prefill"} /\ rng' = rng
  /\ pc' = "finish" => /\ outcome' \in {"ok", "cancelled", "exhausted"}
                       /\ outcome' = "cancelled" => cancel
Compacts ==
  /\ pc \in {"room", "regrow"} /\ PolicyOn
  /\ IsASequence(history') /\ Conv!Shortened(history, history')
  /\ UNCHANGED <<mode, before, rng, cancel, pc>>
Endings == {"cancelled", "failed", "rejected", "exhausted"}
Undone(how) ==
  /\ ~Quiet
  /\ how \in Endings
  /\ how = "cancelled" => cancel
  /\ history' = before.history /\ rng' = before.rng
  /\ outcome' = how /\ pc' = "idle" /\ before' = NotBegun
  /\ UNCHANGED cancel
Replied ==
  /\ ~Quiet
  /\ \E text : history' = Append(history, Reply(text))
  /\ rng' = rng /\ outcome' = "ok" /\ pc' = "idle" /\ before' = NotBegun
  /\ UNCHANGED cancel
Scores ==
  /\ pc = "score" /\ pc' \in {"score", "idle"}
  /\ history' = << >> /\ rng' = 0
  /\ UNCHANGED <<before, cancel, outcome>>
Inside ==
  Works \/ Compacts \/ (\E how \in Endings : Undone(how)) \/ Replied \/ Scores
------------------------------------------------------------------------------
(* Sequences.                                                                *)

\* A new chat has no messages, and that is a conversation.
LEMMA NoMessages == IsASequence(<< >>)
<1>1. << >> \in Seq({})
  OBVIOUS
<1> QED BY <1>1 DEF IsASequence

\* A message added can be taken off again: what rollback_history pops is what
\* the request pushed.
LEMMA OneMore ==
  ASSUME NEW s, IsASequence(s), NEW x
  PROVE  /\ IsASequence(Append(s, x)) /\ Append(s, x) # << >>
         /\ Front(Append(s, x)) = s /\ Last(Append(s, x)) = x
         /\ \E i \in DOMAIN Append(s, x) : Append(s, x)[i] = x
<1>1. PICK M : s \in Seq(M)
  BY DEF IsASequence
<1> DEFINE L == M \cup {x}
           t == Append(s, x)
<1>2. s \in Seq(L) /\ x \in L
  BY <1>1, SeqMonotonic
<1> HIDE DEF L
<1>3. /\ t \in Seq(L) /\ t # << >> /\ Len(t) = Len(s) + 1
      /\ \A i \in 1..Len(s) : t[i] = s[i]
      /\ t[Len(s) + 1] = x
  BY <1>2, AppendProperties
<1>4. Len(s) \in Nat /\ DOMAIN t = 1..Len(t)
  BY <1>2, <1>3, LenProperties
<1> HIDE DEF t
<1>5. /\ SubSeq(t, 1, Len(s)) \in Seq(L) /\ Len(SubSeq(t, 1, Len(s))) = Len(s)
      /\ \A i \in 1..Len(s) : SubSeq(t, 1, Len(s))[i] = t[i]
  <2>1. \A i \in 1..Len(s) : t[i] \in L
    BY <1>3, <1>4, ElementOfSeq
  <2>2. /\ SubSeq(t, 1, Len(s)) \in Seq(L)
        /\ Len(SubSeq(t, 1, Len(s))) = IF 1 <= Len(s) THEN Len(s) - 1 + 1 ELSE 0
        /\ \A i \in 1..(Len(s) - 1 + 1) : SubSeq(t, 1, Len(s))[i] = t[1 + i - 1]
    BY <1>4, <2>1, SubSeqProperties
  <2> QED BY <1>4, <2>2
<1>6. SubSeq(t, 1, Len(s)) = s
  BY <1>2, <1>3, <1>5, SeqEqual
<1>7. Front(t) = s /\ Last(t) = x
  BY <1>3, <1>4, <1>6 DEF Front, Last
<1>8. Len(s) + 1 \in DOMAIN t
  BY <1>3, <1>4
<1> QED BY <1>3, <1>7, <1>8 DEF IsASequence, t

\* Messages first up to end, end excluded, give way to at most one.
LEMMA WithoutShortens ==
  ASSUME NEW M, NEW p \in Seq(M), NEW first \in 1..Len(p), NEW end \in 1..Len(p),
         first < end, p[end].role = "user",
         NEW note \in Seq(M), Len(note) = 0 \/ (Len(note) = 1 /\ end - first > 1)
  PROVE  /\ IsASequence(Take(p, first - 1) \o note \o SubSeq(p, end, Len(p)))
         /\ Conv!Shortened(p, Take(p, first - 1) \o note \o SubSeq(p, end, Len(p)))
<1> DEFINE head == SubSeq(p, 1, first - 1)
           tail == SubSeq(p, end, Len(p))
           start == head \o note
           q == start \o tail
<1>0. /\ Len(p) \in Nat /\ first \in Int /\ end \in Int /\ Len(note) \in Nat
      /\ \A i \in 1..Len(p) : p[i] \in M
  BY LenProperties, ElementOfSeq
<1>1. Take(p, first - 1) = head
  BY <1>0 DEF Take
<1>2. head \in Seq(M) /\ Len(head) = first - 1
  <2>1. \A i \in 1..(first - 1) : p[i] \in M
    BY <1>0
  <2>2. /\ head \in Seq(M)
        /\ Len(head) = IF 1 <= first - 1 THEN first - 1 - 1 + 1 ELSE 0
    BY <1>0, <2>1, SubSeqProperties
  <2> QED BY <1>0, <2>2
<1>3. tail \in Seq(M) /\ Len(tail) = Len(p) - end + 1
  <2>1. \A i \in end..Len(p) : p[i] \in M
    BY <1>0
  <2>2. /\ tail \in Seq(M)
        /\ Len(tail) = IF end <= Len(p) THEN Len(p) - end + 1 ELSE 0
    BY <1>0, <2>1, SubSeqProperties
  <2> QED BY <1>0, <2>2
<1> HIDE DEF head, tail
<1>4. /\ start \in Seq(M) /\ Len(start) = first - 1 + Len(note)
      /\ Len(note) = 1 => start[first] = note[1]
  <2>1. /\ start \in Seq(M) /\ Len(start) = Len(head) + Len(note)
        /\ \A i \in 1..Len(head) + Len(note) : start[i] =
             IF i <= Len(head) THEN head[i] ELSE note[i - Len(head)]
    BY <1>2, ConcatProperties
  <2> HIDE DEF start
  <2> QED BY <1>0, <1>2, <2>1
<1> HIDE DEF start
<1>5. /\ q \in Seq(M) /\ Len(q) = first - 1 + Len(note) + (Len(p) - end + 1)
      /\ Len(note) = 1 => q[first] = note[1]
  <2>1. /\ q \in Seq(M) /\ Len(q) = Len(start) + Len(tail)
        /\ \A i \in 1..Len(start) + Len(tail) : q[i] =
             IF i <= Len(start) THEN start[i] ELSE tail[i - Len(start)]
    <3>1. start \in Seq(M) /\ tail \in Seq(M)
      BY <1>3, <1>4
    <3> QED BY <3>1, ConcatProperties
  <2> HIDE DEF q
  <2>2. Len(q) = first - 1 + Len(note) + (Len(p) - end + 1)
    BY <1>3, <1>4, <2>1
  <2>3. Len(note) = 1 => q[first] = note[1]
    <3>1. Len(start) \in Nat /\ Len(tail) \in Nat
      BY <1>3, <1>4, LenProperties
    <3>2. Len(note) = 1 => first \in 1..Len(start) + Len(tail) /\ first <= Len(start)
      BY <1>0, <1>4, <3>1
    <3> QED BY <1>4, <2>1, <3>2
  <2> QED BY <2>1, <2>2, <2>3
<1> HIDE DEF q
<1>6. Len(q) < Len(p) /\ first - 1 \in 0..Len(q)
  <2>1. Len(q) = first - 1 + Len(note) + (Len(p) - end + 1)
    BY <1>5
  <2>2. CASE Len(note) = 0
    BY <1>0, <2>1, <2>2
  <2>3. CASE Len(note) = 1 /\ end - first > 1
    BY <1>0, <2>1, <2>3
  <2> QED BY <2>2, <2>3
<1>7. Conv!NewestFrom(p, end)
  <2>1. end \in end..Len(p)
    BY <1>0
  <2> QED BY <2>1 DEF Conv!NewestFrom
<1>8. ASSUME Len(note) = 0 PROVE Conv!Shortened(p, q)
  <2>1. note = << >>
    BY <1>8, EmptySeq
  <2>2. start = head
    BY <1>2, <2>1, ConcatEmptySeq DEF start
  <2>3. q = SubSeq(p, 1, first - 1) \o SubSeq(p, end, Len(p))
    BY <2>2 DEF q, head, tail
  <2> HIDE DEF start
  <2> QED BY <2>3, <1>0, <1>6, <1>7 DEF Conv!Shortened
<1>9. ASSUME Len(note) = 1, end - first > 1 PROVE Conv!Shortened(p, q)
  <2>1. first - 1 < Len(q) /\ q[first] = note[1] /\ (first - 1) + 1 = first
    BY <1>0, <1>5, <1>9
  <2>2. note = <<note[1]>>
    <3>1. 1 \in 1..Len(note)
      BY <1>9
    <3>2. note[1] \in M
      BY <3>1, ElementOfSeq
    <3>3. <<note[1]>> \in Seq(M) /\ Len(<<note[1]>>) = 1 /\ <<note[1]>>[1] = note[1]
      BY <3>2
    <3> QED BY <3>3, <1>9, SeqEqual
  <2>3. q = SubSeq(p, 1, first - 1) \o <<q[(first - 1) + 1]>> \o SubSeq(p, end, Len(p))
    BY <2>1, <2>2 DEF q, start, head, tail
  <2> HIDE DEF start
  <2> QED BY <2>1, <2>3, <1>6, <1>7 DEF Conv!Shortened
<1> HIDE DEF start
<1>10. Conv!Shortened(p, q)
  BY <1>8, <1>9
<1> QED BY <1>1, <1>5, <1>10 DEF IsASequence, q, start, head, tail
------------------------------------------------------------------------------
(* What the steps of a turn do to the conversation.                          *)

\* The turn that makes room is an old one: another follows it.
LEMMA OldTurnIsFollowed ==
  ASSUME NEW M, history \in Seq(M), OldTurn
  PROVE  /\ OldStart \in 1..Len(history) /\ OldEnd \in 1..Len(history)
         /\ OldStart < OldEnd /\ history[OldEnd].role = "user"
<1>1. Len(history) \in Nat /\ DOMAIN history = 1..Len(history)
  BY LenProperties
<1>2. Users \subseteq 1..Len(history) /\ Users \subseteq Nat
  BY <1>1 DEF Users
<1>3. IsFiniteSet(Users)
  <2>1. IsFiniteSet(1..Len(history))
    BY <1>1, FS_Interval
  <2> QED BY <2>1, <1>2, FS_Subset
<1>4. Users # {}
  BY <1>3, FS_EmptySet DEF OldTurn
<1>5. OldStart \in Users /\ \A j \in Users : OldStart <= j
  <2>1. \E i \in Users : \A j \in Users : i <= j
    BY <1>2, <1>4, LeastNatural
  <2> QED BY <2>1 DEF OldStart
<1>6. Users \ {OldStart} # {}
  <2>1. Cardinality({OldStart}) = 1
    BY FS_Singleton
  <2>2. Cardinality(Users) # 1
    BY <1>3, FS_CardinalityType DEF OldTurn
  <2>3. Users # {OldStart}
    BY <2>1, <2>2
  <2> QED BY <2>3, <1>5
<1>7. OldEnd \in Users \ {OldStart}
  <2> DEFINE Others == Users \ {OldStart}
  <2>1. Others \subseteq Nat /\ Others # {}
    BY <1>2, <1>6
  <2>2. \E i \in Others : \A j \in Others : i <= j
    <3> HIDE DEF Others
    <3> QED BY <2>1, LeastNatural
  <2> QED BY <2>2 DEF OldEnd
<1>8. OldStart < OldEnd
  BY <1>2, <1>5, <1>7
<1> QED BY <1>2, <1>5, <1>7, <1>8 DEF Users

\* make_context_room drops an old turn or replaces it by its summary, and only
\* under a policy.
LEMMA RoomCompacts ==
  ASSUME IsASequence(history), RoomSummarize \/ RoomTrim
  PROVE  Compacts
<1>1. PICK M : history \in Seq(M)
  BY DEF IsASequence
<1> DEFINE note == IF RoomTrim THEN << >> ELSE <<User(Summary)>>
           L == M \cup {User(Summary)}
<1>2. history \in Seq(L)
  BY <1>1, SeqMonotonic
<1>3. OldTurn /\ PolicyOn /\ Making
  BY DEF RoomSummarize, RoomTrim, Crowded
<1> HIDE DEF L
<1>4. /\ OldStart \in 1..Len(history) /\ OldEnd \in 1..Len(history)
      /\ OldStart < OldEnd /\ history[OldEnd].role = "user"
  BY <1>2, <1>3, OldTurnIsFollowed
<1>5. CASE RoomTrim
  <2>1. << >> \in Seq(L) /\ Len(<< >>) = 0
    OBVIOUS
  <2>2. IsASequence(Without(<< >>)) /\ Conv!Shortened(history, Without(<< >>))
    BY <1>2, <1>4, <2>1, WithoutShortens DEF Without
  <2> QED BY <2>2, <1>3, <1>5 DEF Compacts, RoomTrim, Making
<1>6. CASE RoomSummarize
  <2>1. User(Summary) \in L
    BY DEF L
  <2>2. <<User(Summary)>> \in Seq(L) /\ Len(<<User(Summary)>>) = 1
    BY <2>1
  <2>3. OldEnd - OldStart > 1
    BY <1>6 DEF RoomSummarize
  <2>4. /\ IsASequence(Without(<<User(Summary)>>))
        /\ Conv!Shortened(history, Without(<<User(Summary)>>))
    BY <1>2, <1>4, <2>2, <2>3, WithoutShortens DEF Without
  <2> QED BY <2>4, <1>3, <1>6 DEF Compacts, RoomSummarize, Making
<1> QED BY <1>5, <1>6

\* A rollback is told how it ended.
LEMMA RollbackUndoes ==
  ASSUME SessionInv, ~Quiet, NEW m, NEW how \in Endings,
         how = "cancelled" => cancel, Rollback(m, how)
  PROVE  Inside
<1>1. Undone(how)
  BY DEF Rollback, Undone, EndTurn, SessionInv, UndoInv, PriorSampler, Endings
<1> QED BY <1>1 DEF Inside

\* A step of generate() or perplexity() is one of these, whatever fails in it.
LEMMA ServeIsInside ==
  ASSUME SessionInv, Serve
  PROVE  Inside
<1> USE DEF Phases, Quiet, Making, Endings
<1>0. pc \in Phases /\ rng \in Nat
  BY DEF SessionInv, ChatInv
<1>1. CASE RoomGrow
  BY <1>0, <1>1 DEF RoomGrow, Inside, Works
<1>2. CASE RoomSummarize \/ RoomTrim
  BY <1>2, RoomCompacts DEF Inside, SessionInv, ChatInv
<1>3. CASE Refuse
  <2>1. Undone("rejected")
    BY <1>3 DEF Refuse, Undone, EndTurn, SessionInv, UndoInv
  <2> QED BY <2>1 DEF Inside
<1>4. CASE Admit
  <2>1. /\ pc = "room" /\ UNCHANGED rng
        /\ \/ history' = PriorHistory /\ EndTurn("rejected")
           \/ pc' = "prefill" /\ UNCHANGED <<mode, history, cancel, outcome, before, turns>>
    BY <1>4, Zenon DEF Admit
  <2>2. CASE history' = PriorHistory /\ EndTurn("rejected")
    <3>1. Undone("rejected")
      BY <2>1, <2>2 DEF Undone, EndTurn, SessionInv, UndoInv
    <3> QED BY <3>1 DEF Inside
  <2>3. CASE pc' = "prefill" /\ UNCHANGED <<mode, history, cancel, outcome, before, turns>>
    BY <1>0, <2>1, <2>3 DEF Inside, Works
  <2> QED BY <2>1, <2>2, <2>3
<1>5. CASE Prefill
  <2>1. /\ pc = "prefill" /\ UNCHANGED <<mode, history, cancel, before>>
        /\ \/ UNCHANGED <<rng, pc>>
           \/ rng' = Drawn /\ pc' = "gen"
    BY <1>5, Zenon DEF Prefill
  <2> QED BY <1>0, <2>1 DEF Inside, Works, Drawn
<1>6. CASE PrefillFails
  <2>1. pc = "prefill" /\ \E m : Rollback(m, Failure) \/ Rollback(m, "failed")
    BY <1>6, Zenon DEF PrefillFails
  <2>2. Failure \in {"cancelled", "failed"} /\ (Failure = "cancelled" => cancel)
    BY DEF Failure
  <2> QED BY <2>1, <2>2, RollbackUndoes
<1>7. CASE Decode
  <2>1. /\ Decoding /\ UNCHANGED <<mode, history, cancel, before>>
        /\ \/ pc' = "finish" /\ outcome' = "ok" /\ UNCHANGED rng
           \/ pc' = "gen" /\ rng' = Drawn
    BY <1>7, Zenon DEF Decode
  <2> QED BY <1>0, <2>1 DEF Inside, Works, Drawn, Decoding
<1>8. CASE DecodeFails
  <2>1. CASE cancel
    BY <1>0, <1>8, <2>1 DEF DecodeFails, Decoding, Inside, Works
  <2>2. CASE ~cancel
    <3>1. Decoding /\ Rollback(Mem, "failed")
      BY <1>8, <2>2 DEF DecodeFails
    <3> QED BY <3>1, RollbackUndoes DEF Decoding
  <2> QED BY <2>1, <2>2
<1>9. CASE DraftFails
  <2>1. Decoding /\ \E m : Rollback(m, "failed")
    BY <1>9, Zenon DEF DraftFails
  <2> QED BY <2>1, RollbackUndoes DEF Decoding
<1>10. CASE GenerateEnds
  BY <1>0, <1>10 DEF GenerateEnds, Inside, Works
<1>11. CASE ContextGrows
  BY <1>0, <1>11 DEF ContextGrows, Inside, Works
<1>12. CASE ContextFills
  BY <1>0, <1>12 DEF ContextFills, Inside, Works
<1>13. CASE ContextRebuilt
  BY <1>0, <1>13 DEF ContextRebuilt, Inside, Works
<1>14. CASE ContextExhausted
  BY <1>0, <1>14 DEF ContextExhausted, Inside, Works
<1>15. CASE Replay
  <2>1. /\ pc = "replay" /\ pc' \in {"replay", "decode"}
        /\ UNCHANGED <<mode, history, rng, cancel, before>>
    BY <1>15, Zenon DEF Replay
  <2> QED BY <1>0, <2>1 DEF Inside, Works
<1>16. CASE ReplayFails
  <2>1. pc = "replay" /\ \E m : Rollback(m, "failed")
    BY <1>16, Zenon DEF ReplayFails
  <2> QED BY <2>1, RollbackUndoes
<1>17. CASE Finish
  <2>1. pc = "finish" /\ outcome \in {"ok", "cancelled", "exhausted"}
    BY <1>17 DEF Finish, SessionInv, OutcomeInv
  <2>2. CASE outcome = "exhausted"
    <3>1. history' = PriorHistory /\ rng' = PriorSampler /\ EndTurn("exhausted")
      BY <1>17, <2>2 DEF Finish
    <3>2. Undone("exhausted")
      BY <2>1, <3>1 DEF Undone, EndTurn, PriorSampler, SessionInv, UndoInv
    <3> QED BY <3>2 DEF Inside
  <2>3. CASE outcome = "cancelled"
    <3>1. Rollback(Trimmed, "cancelled")
      BY <1>17, <2>3 DEF Finish
    <3>2. cancel
      BY <2>1, <2>3 DEF SessionInv, OutcomeInv
    <3> QED BY <2>1, <3>1, <3>2, RollbackUndoes
  <2>4. CASE outcome = "ok"
    <3>1. /\ history' = Append(history, Reply(turn.emitted)) /\ UNCHANGED rng
          /\ EndTurn("ok")
      BY <1>17, <2>4 DEF Finish
    <3>2. Replied
      BY <2>1, <3>1 DEF Replied, EndTurn
    <3> QED BY <3>2 DEF Inside
  <2> QED BY <2>1, <2>2, <2>3, <2>4
<1>18. CASE Score
  <2>1. pc = "score" /\ UNCHANGED <<history, rng, pc, before, cancel, outcome>>
    BY <1>18, Zenon DEF Score
  <2> QED BY <2>1 DEF Inside, Scores, SessionInv, OutcomeInv
<1>19. CASE ScoreEnds
  BY <1>19 DEF ScoreEnds, Forgotten, Inside, Scores
<1> QED BY <1>1, <1>2, <1>3, <1>4, <1>5, <1>6, <1>7, <1>8, <1>9, <1>10, <1>11, <1>12,
           <1>13, <1>14, <1>15, <1>16, <1>17, <1>18, <1>19 DEF Serve
------------------------------------------------------------------------------
(* What a request hands over.                                                *)

\* A transcript handed to generate() is a sequence of messages with a user
\* message in it.
LEMMA TranscriptAsks ==
  ASSUME NEW h, IsASequence(h), NEW u, NEW request \in Transcripts(h, u)
  PROVE  IsASequence(request) /\ Conv!Asks(request)
<1>1. User(u).role = "user"
  BY DEF User
<1>2. ASSUME NEW s, IsASequence(s), request = Append(s, User(u))
      PROVE  IsASequence(request) /\ Conv!Asks(request)
  BY <1>1, <1>2, OneMore DEF Conv!Asks
<1>3. CASE request = Append(h, User(u))
  BY <1>2, <1>3
<1>4. CASE request = Append(Edited(h), User(u))
  <2>1. PICK M : h \in Seq(M)
    BY DEF IsASequence
  <2>2. Len(h) \in Nat /\ DOMAIN h = 1..Len(h)
    BY <2>1, LenProperties
  <2> DEFINE e == Edited(h)
             L == {e[i] : i \in 1..Len(h)}
  <2>3. e \in [1..Len(h) -> L]
    BY <2>2 DEF Edited
  <2>4. e \in Seq(L)
    <3> HIDE DEF e, L
    <3> QED BY <2>2, <2>3, SeqDef
  <2>5. IsASequence(Edited(h))
    BY <2>4 DEF IsASequence
  <2> QED BY <1>2, <1>4, <2>5
<1>5. CASE request = <<User(u)>>
  <2>1. <<User(u)>> \in Seq({User(u)}) /\ 1 \in DOMAIN <<User(u)>> /\ <<User(u)>>[1] = User(u)
    OBVIOUS
  <2> QED BY <1>1, <1>5, <2>1 DEF IsASequence, Conv!Asks
<1> QED BY <1>3, <1>4, <1>5 DEF Transcripts

\* How a turn begins.
Begins(h) ==
  /\ pc = "idle" /\ pc' = "room" /\ cancel' = FALSE /\ outcome' = "none"
  /\ rng' \in {0, rng} /\ before'.rng = rng' /\ before'.history = h
  /\ IsASequence(history') /\ Conv!Asks(history')
  /\ PriorHistory' = before'.history
  /\ \/ h = history /\ rng' = rng
     \/ h = << >> /\ rng' = 0

\* generate() begins a turn from the conversation or from nothing, and can
\* give back what it found.
LEMMA GenerateBegins ==
  ASSUME SessionInv, NEW u, NEW clear \in BOOLEAN, Generate(u, clear)
  PROVE  \E h : IsASequence(h) /\ Begins(h)
<1> DEFINE h == IF clear THEN << >> ELSE history
<1>1. IsASequence(h)
  BY NoMessages DEF SessionInv, ChatInv
<1>2. /\ pc = "idle" /\ pc' = "room" /\ cancel' = FALSE /\ outcome' = "none"
      /\ rng' = IF clear THEN 0 ELSE rng
      /\ \/ history' = Append(h, User(u)) /\ before' = [history |-> h, rng |-> rng', pushed |-> TRUE]
         \/ /\ history' \in Transcripts(h, u)
            /\ before' = [history |-> h, rng |-> rng', pushed |-> FALSE]
  BY DEF Generate
<1>3. history' \in Transcripts(h, u)
  BY <1>2 DEF Transcripts
<1>4. \/ h = history /\ rng' = rng
      \/ h = << >> /\ rng' = 0
  <2>1. CASE clear
    BY <1>2, <2>1
  <2>2. CASE ~clear
    BY <1>2, <2>2
  <2> QED BY <2>1, <2>2
<1> HIDE DEF h
<1>5. IsASequence(history') /\ Conv!Asks(history')
  BY <1>1, <1>3, TranscriptAsks
<1>6. before'.rng = rng' /\ before'.history = h
  BY <1>2
<1>7. PriorHistory' = before'.history
  <2>1. CASE history' = Append(h, User(u))
    BY <1>1, <1>2, <2>1, OneMore DEF PriorHistory, PopOnly
  <2>2. CASE before' = [history |-> h, rng |-> rng', pushed |-> FALSE]
    BY <2>2 DEF PriorHistory, PopOnly
  <2> QED BY <1>2, <2>1, <2>2
<1> QED BY <1>1, <1>2, <1>4, <1>5, <1>6, <1>7 DEF Begins
------------------------------------------------------------------------------
(* The invariant.                                                            *)

\* No turn has begun, so nothing is owed.
LEMMA SessionInvInit == Init => SessionInv
BY NoMessages DEF Init, SessionInv, ChatInv, UndoInv, OutcomeInv, NotBegun, Phases, Quiet

\* Every step keeps what a turn owes its rollback.
LEMMA SessionInvNext ==
  ASSUME SessionInv, [Next]_vars
  PROVE  SessionInv'
<1> USE DEF Phases, Quiet
<1>0. ChatInv /\ UndoInv /\ OutcomeInv
  BY DEF SessionInv
<1>1. CASE \E u \in Prompts, clear \in BOOLEAN : Generate(u, clear)
  <2>1. PICK h : IsASequence(h) /\ Begins(h)
    BY <1>1, GenerateBegins
  <2> QED BY <1>0, <2>1 DEF Begins, SessionInv, ChatInv, UndoInv, OutcomeInv
<1>2. CASE \E n \in Texts : Perplexity(n)
  <2>1. /\ pc = "idle" /\ UNCHANGED <<before, outcome>>
        /\ \/ UNCHANGED <<history, rng, pc>>
           \/ history' = << >> /\ rng' = 0 /\ pc' = "score"
    BY <1>2, Zenon DEF Perplexity, Forgotten
  <2> QED BY <1>0, <2>1, NoMessages DEF SessionInv, ChatInv, UndoInv, OutcomeInv
<1>3. CASE Serve
  <2>1. Inside
    BY <1>3, ServeIsInside
  <2>2. CASE Works
    <3>1. PriorHistory' = PriorHistory
      BY <2>2 DEF Works, PriorHistory, PopOnly, PolicyOn
    <3> QED BY <1>0, <2>2, <3>1 DEF Works, SessionInv, ChatInv, UndoInv, OutcomeInv
  <2>3. CASE Compacts
    <3>1. PriorHistory' = before'.history
      BY <2>3 DEF Compacts, PriorHistory, PolicyOn
    <3> QED BY <1>0, <2>3, <3>1 DEF Compacts, SessionInv, ChatInv, UndoInv, OutcomeInv
  <2>4. CASE \E how \in Endings : Undone(how)
    BY <1>0, <2>4, NoMessages DEF Undone, NotBegun, SessionInv, ChatInv, UndoInv, OutcomeInv
  <2>5. CASE Replied
    BY <1>0, <2>5, NoMessages, OneMore
       DEF Replied, NotBegun, SessionInv, ChatInv, UndoInv, OutcomeInv
  <2>6. CASE Scores
    BY <1>0, <2>6, NoMessages DEF Scores, SessionInv, ChatInv, UndoInv, OutcomeInv
  <2> QED BY <2>1, <2>2, <2>3, <2>4, <2>5, <2>6 DEF Inside
<1>4. CASE Cancel
  BY <1>0, <1>4 DEF Cancel, memVars, SessionInv, ChatInv, UndoInv, OutcomeInv,
                    PriorHistory, PopOnly, PolicyOn
<1>5. CASE UNCHANGED vars
  BY <1>0, <1>5 DEF vars, memVars, SessionInv, ChatInv, UndoInv, OutcomeInv,
                    PriorHistory, PopOnly, PolicyOn
<1> QED BY <1>1, <1>2, <1>3, <1>4, <1>5 DEF Next
------------------------------------------------------------------------------
(* The refinement.                                                           *)

\* A session opens as an empty conversation.
LEMMA ImplementsInit == Init => Conv!CInit
BY DEF Init, Quiet, Conv!CInit

\* A step of the session is a step of the conversation or is not seen from
\* outside.
LEMMA ImplementsNext ==
  ASSUME SessionInv, SessionInv', [Next]_vars
  PROVE  [Conv!CNext]_(Conv!cvars)
<1> USE DEF Phases, Quiet
<1>0. ChatInv /\ UndoInv /\ OutcomeInv /\ ChatInv'
  BY DEF SessionInv
<1>1. CASE \E u \in Prompts, clear \in BOOLEAN : Generate(u, clear)
  <2>1. PICK h : IsASequence(h) /\ Begins(h)
    BY <1>1, GenerateBegins
  <2>2. \E clear \in BOOLEAN : Conv!Begin(clear, history')
    BY <2>1 DEF Begins, Conv!Begin, Conv!Base
  <2> QED BY <2>1, <2>2 DEF Begins, Conv!CNext
<1>2. CASE \E n \in Texts : Perplexity(n)
  <2>1. /\ pc = "idle" /\ UNCHANGED <<before, outcome>> /\ cancel' = FALSE
        /\ \/ UNCHANGED <<history, rng, pc>>
           \/ history' = << >> /\ rng' = 0 /\ pc' = "score"
    BY <1>2, Zenon DEF Perplexity, Forgotten
  <2>2. Conv!Score
    BY <2>1 DEF Conv!Score
  <2> QED BY <2>2 DEF Conv!CNext
<1>3. CASE Serve
  <2>1. Inside
    BY <1>3, ServeIsInside
  <2>2. CASE Works
    BY <2>2 DEF Works, Conv!cvars
  <2>3. CASE Compacts
    <3>1. Conv!Shorten
      BY <2>3 DEF Compacts, Conv!Shorten
    <3> QED BY <3>1 DEF Conv!CNext
  <2>4. CASE \E how \in Endings : Undone(how)
    <3>1. PICK how \in Endings : Undone(how)
      BY <2>4
    <3>2. Conv!Abandon(how)
      BY <1>0, <3>1 DEF Undone, Conv!Abandon
    <3> QED BY <3>1, <3>2 DEF Conv!CNext, Conv!Outcomes, Endings
  <2>5. CASE Replied
    <3>1. PICK text : history' = Append(history, Reply(text))
      BY <2>5 DEF Replied
    <3>2. history' # << >> /\ Conv!Last(history') = Reply(text)
      BY <1>0, <3>1, OneMore DEF ChatInv, Last, Conv!Last
    <3>3. Conv!Commit(Conv!Last(history'))
      BY <1>0, <2>5, <3>1, <3>2 DEF Replied, Conv!Commit, Reply, ChatInv, UndoInv
    <3>4. (IF Quiet THEN history ELSE before.history)' = history'
      BY <2>5 DEF Replied
    <3>5. /\ (IF Quiet THEN history ELSE before.history)' # << >>
          /\ Conv!Commit(Conv!Last((IF Quiet THEN history ELSE before.history)'))
      BY <3>2, <3>3, <3>4
    <3>6. Conv!CNext
      BY <3>5, Zenon DEF Conv!CNext
    <3> QED BY <3>6
  <2>6. CASE Scores
    BY <1>0, <2>6 DEF Scores, OutcomeInv, Conv!cvars
  <2> QED BY <2>1, <2>2, <2>3, <2>4, <2>5, <2>6 DEF Inside
<1>4. CASE Cancel
  <2>1. Conv!Cancel
    BY <1>4 DEF Cancel, memVars, Conv!Cancel
  <2> QED BY <2>1 DEF Conv!CNext
<1>5. CASE UNCHANGED vars
  BY <1>5 DEF vars, memVars, Conv!cvars
<1> QED BY <1>1, <1>2, <1>3, <1>4, <1>5 DEF Next

\* Session::generate, cancel and perplexity, whatever fails or is cancelled
\* in them: the caller sees turns that are committed whole or not at all, and
\* a conversation that is only shortened by turns that end well.
THEOREM TurnsAreAllOrNothing == Spec => ImplementsConversation
<1>1. Spec => []SessionInv
  BY SessionInvInit, SessionInvNext, PTL DEF Spec
<1>2. SessionInv /\ SessionInv' /\ [Next]_vars => [Conv!CNext]_(Conv!cvars)
  BY ImplementsNext
<1> QED BY <1>1, <1>2, ImplementsInit, PTL DEF Spec, ImplementsConversation, Conv!CSpec
-----------------------------------------------------------------------------
(* Taking and flattening.                                                    *)

\* What Take returns: a sequence of the same elements, of the length asked for
\* or of all there is.
LEMMA TakeKeeps ==
  ASSUME NEW S, NEW s \in Seq(S), NEW n \in Nat
  PROVE  /\ Take(s, n) \in Seq(S)
         /\ Len(Take(s, n)) = IF n < Len(s) THEN n ELSE Len(s)
         /\ \A i \in 1..Len(Take(s, n)) : Take(s, n)[i] = s[i]
<1> DEFINE most == IF n < Len(s) THEN n ELSE Len(s)
<1>1. Len(s) \in Nat /\ most \in 0..Len(s)
  BY LenProperties
<1>2. \A i \in 1..most : s[i] \in S
  BY <1>1, ElementOfSeq
<1>3. Take(s, n) = SubSeq(s, 1, most)
  BY DEF Take
<1> HIDE DEF most
<1>4. /\ SubSeq(s, 1, most) \in Seq(S)
      /\ Len(SubSeq(s, 1, most)) = most
      /\ \A i \in 1..most : SubSeq(s, 1, most)[i] = s[i]
  <2>1. /\ SubSeq(s, 1, most) \in Seq(S)
        /\ Len(SubSeq(s, 1, most)) = IF 1 <= most THEN most - 1 + 1 ELSE 0
        /\ \A i \in 1..(most - 1 + 1) : SubSeq(s, 1, most)[i] = s[1 + i - 1]
    BY <1>1, <1>2, SubSeqProperties
  <2> QED BY <1>1, <2>1
<1> QED BY <1>3, <1>4 DEF most

\* A beginning at least as long as the sequence is all of it.
LEMMA TakeAll ==
  ASSUME NEW S, NEW s \in Seq(S), NEW n \in Nat, Len(s) <= n
  PROVE  Take(s, n) = s
<1>1. Len(s) \in Nat
  BY LenProperties
<1>2. Len(Take(s, n)) = Len(s)
  BY <1>1, TakeKeeps
<1> QED BY <1>2, TakeKeeps, SeqEqual

\* The beginning of length zero is empty.
LEMMA TakeNone ==
  ASSUME NEW S, NEW s \in Seq(S)
  PROVE  Take(s, 0) = << >>
<1>1. Len(s) \in Nat
  BY LenProperties
<1>2. Take(s, 0) \in Seq(S) /\ Len(Take(s, 0)) = 0
  BY <1>1, TakeKeeps
<1> QED BY <1>2, EmptySeq

\* A beginning of a beginning is one of the whole, if it is not longer.
LEMMA TakeTake ==
  ASSUME NEW S, NEW s \in Seq(S), NEW n \in Nat, NEW k \in 0..n
  PROVE  Take(Take(s, n), k) = Take(s, k)
<1>1. Len(s) \in Nat /\ k \in Nat
  BY LenProperties
<1>2. /\ Take(s, n) \in Seq(S) /\ Take(s, k) \in Seq(S)
      /\ Len(Take(s, n)) = IF n < Len(s) THEN n ELSE Len(s)
      /\ Len(Take(s, k)) = IF k < Len(s) THEN k ELSE Len(s)
      /\ \A i \in 1..Len(Take(s, n)) : Take(s, n)[i] = s[i]
      /\ \A i \in 1..Len(Take(s, k)) : Take(s, k)[i] = s[i]
  BY <1>1, TakeKeeps
<1> DEFINE t == Take(s, n)
<1>3. t \in Seq(S)
  BY <1>2
<1> HIDE DEF t
<1>4. /\ Take(t, k) \in Seq(S)
      /\ Len(Take(t, k)) = IF k < Len(t) THEN k ELSE Len(t)
      /\ \A i \in 1..Len(Take(t, k)) : Take(t, k)[i] = t[i]
  BY <1>1, <1>3, TakeKeeps
<1>5. Len(Take(t, k)) = Len(Take(s, k)) /\ Len(Take(t, k)) <= Len(t)
  BY <1>1, <1>2, <1>4 DEF t
<1>6. \A i \in 1..Len(Take(t, k)) : Take(t, k)[i] = Take(s, k)[i]
  BY <1>1, <1>2, <1>4, <1>5 DEF t
<1> QED BY <1>2, <1>4, <1>5, <1>6, SeqEqual DEF t

\* A beginning within the first of two joined sequences is one of it alone:
\* what is cut at a prefix does not depend on what was decoded behind it.
LEMMA TakeHead ==
  ASSUME NEW S, NEW s \in Seq(S), NEW t \in Seq(S), NEW k \in 0..Len(s)
  PROVE  Take(s \o t, k) = Take(s, k)
<1> DEFINE st == s \o t
<1>1. Len(s) \in Nat /\ Len(t) \in Nat /\ k \in Nat
  BY LenProperties
<1>2. /\ st \in Seq(S) /\ Len(st) = Len(s) + Len(t)
      /\ \A i \in 1..(Len(s) + Len(t)) : st[i] = IF i <= Len(s) THEN s[i] ELSE t[i - Len(s)]
  BY ConcatProperties
<1> HIDE DEF st
<1>3. /\ Take(st, k) \in Seq(S) /\ Take(s, k) \in Seq(S)
      /\ Len(Take(st, k)) = IF k < Len(st) THEN k ELSE Len(st)
      /\ Len(Take(s, k)) = IF k < Len(s) THEN k ELSE Len(s)
      /\ \A i \in 1..Len(Take(st, k)) : Take(st, k)[i] = st[i]
      /\ \A i \in 1..Len(Take(s, k)) : Take(s, k)[i] = s[i]
  BY <1>1, <1>2, TakeKeeps
<1>4. Len(Take(st, k)) = k /\ Len(Take(s, k)) = k
  BY <1>1, <1>2, <1>3
<1>5. ASSUME NEW i \in 1..k PROVE Take(st, k)[i] = Take(s, k)[i]
  <2>1. Take(st, k)[i] = st[i] /\ Take(s, k)[i] = s[i]
    BY <1>3, <1>4
  <2>2. i \in 1..(Len(s) + Len(t)) /\ i <= Len(s)
    BY <1>1
  <2> QED BY <1>2, <2>1, <2>2
<1>6. Take(st, k) = Take(s, k)
  BY <1>3, <1>4, <1>5, SeqEqual
<1> QED BY <1>6 DEF st

\* A beginning that reaches beyond the first of two joined sequences takes all
\* of it: a removal after the confirmed tokens leaves the KV and those tokens.
LEMMA TakeJoin ==
  ASSUME NEW S, NEW s \in Seq(S), NEW t \in Seq(S), NEW k \in Nat
  PROVE  Take(s \o t, Len(s) + k) = s \o Take(t, k)
<1> DEFINE st == s \o t
           tk == Take(t, k)
           sk == s \o tk
           n == Len(s) + k
<1>1. Len(s) \in Nat /\ Len(t) \in Nat
  BY LenProperties
<1>2. /\ st \in Seq(S) /\ Len(st) = Len(s) + Len(t)
      /\ \A i \in 1..(Len(s) + Len(t)) : st[i] = IF i <= Len(s) THEN s[i] ELSE t[i - Len(s)]
  BY ConcatProperties
<1> HIDE DEF st
<1>3. /\ tk \in Seq(S)
      /\ Len(tk) = IF k < Len(t) THEN k ELSE Len(t)
      /\ \A i \in 1..Len(tk) : tk[i] = t[i]
  BY TakeKeeps
<1> HIDE DEF tk
<1>4. /\ sk \in Seq(S) /\ Len(sk) = Len(s) + Len(tk)
      /\ \A i \in 1..(Len(s) + Len(tk)) : sk[i] = IF i <= Len(s) THEN s[i] ELSE tk[i - Len(s)]
  BY <1>3, ConcatProperties
<1> HIDE DEF sk
<1>5. n \in Nat
  BY <1>1
<1>6. /\ Take(st, n) \in Seq(S)
      /\ Len(Take(st, n)) = IF n < Len(st) THEN n ELSE Len(st)
      /\ \A i \in 1..Len(Take(st, n)) : Take(st, n)[i] = st[i]
  <2> HIDE DEF n
  <2> QED BY <1>2, <1>5, TakeKeeps
<1>7. Len(Take(st, n)) = Len(sk)
  BY <1>1, <1>2, <1>3, <1>4, <1>6
<1>8. \A i \in 1..Len(sk) : Take(st, n)[i] = sk[i]
  <2> SUFFICES ASSUME NEW i \in 1..Len(sk) PROVE Take(st, n)[i] = sk[i]
    OBVIOUS
  <2>1. Take(st, n)[i] = st[i]
    BY <1>6, <1>7
  <2>2. i \in 1..(Len(s) + Len(t)) /\ i \in 1..(Len(s) + Len(tk))
    BY <1>1, <1>3, <1>4
  <2>3. CASE i <= Len(s)
    BY <1>2, <1>4, <2>1, <2>2, <2>3
  <2>4. CASE ~(i <= Len(s))
    <3>1. i - Len(s) \in 1..Len(tk)
      BY <1>1, <1>3, <2>2, <2>4
    <3>2. st[i] = t[i - Len(s)] /\ sk[i] = tk[i - Len(s)]
      BY <1>2, <1>4, <2>2, <2>4
    <3> QED BY <1>3, <2>1, <3>1, <3>2
  <2> QED BY <2>3, <2>4
<1>9. Take(st, n) = sk
  <2> HIDE DEF n
  <2> QED BY <1>4, <1>6, <1>7, <1>8, SeqEqual
<1> QED BY <1>9 DEF st, sk, tk

\* A beginning and the chunk after it are a longer beginning: a prefill by
\* chunks decodes the prompt.
LEMMA TakeChunk ==
  ASSUME NEW S, NEW s \in Seq(S), NEW i \in 0..Len(s), NEW j \in i..Len(s)
  PROVE  Take(s, i) \o SubSeq(s, i + 1, j) = Take(s, j)
<1>1. Len(s) \in Nat /\ i \in Nat /\ j \in Nat
  BY LenProperties
<1>2. Take(s, i) = SubSeq(s, 1, i) /\ Take(s, j) = SubSeq(s, 1, j)
  BY <1>1 DEF Take
<1>3. SubSeq(s, 1, i) \o SubSeq(s, i + 1, j) = SubSeq(s, 1, j)
  <2>1. 1 \in 1..(Len(s) + 1) /\ i \in (1 - 1)..Len(s)
    BY <1>1
  <2> QED BY <2>1, ConcatAdjacentSubSeq
<1> QED BY <1>2, <1>3

\* A sequence is its front and its last element: the accepted drafts are those
\* emitted and, if they end in it, the end of generation.
LEMMA FrontAndLast ==
  ASSUME NEW S, NEW s \in Seq(S), s # << >>
  PROVE  /\ Front(s) \in Seq(S) /\ Last(s) \in S
         /\ Front(s) \o <<Last(s)>> = s
         /\ Len(s) = Len(Front(s)) + 1
<1>1. Len(s) \in Nat \ {0}
  BY EmptySeq
<1>2. SubSeq(s, 1, Len(s)) = SubSeq(s, 1, Len(s) - 1) \o <<s[Len(s)]>>
  <2>1. 1 \in 1..Len(s) /\ Len(s) \in 1..Len(s)
    BY <1>1
  <2> QED BY <2>1, SubSeqRecursiveSecond
<1>3. SubSeq(s, 1, Len(s)) = s
  BY SubSeqFull
<1>4. s[Len(s)] \in S
  BY <1>1, ElementOfSeq
<1>5. SubSeq(s, 1, Len(s) - 1) \in Seq(S) /\ Len(SubSeq(s, 1, Len(s) - 1)) = Len(s) - 1
  <2>1. \A i \in 1..(Len(s) - 1) : s[i] \in S
    BY <1>1, ElementOfSeq
  <2> DEFINE n == Len(s) - 1
  <2>2. n \in Nat
    BY <1>1
  <2>3. \A i \in 1..n : s[i] \in S
    BY <2>1
  <2> HIDE DEF n
  <2>4. SubSeq(s, 1, n) \in Seq(S) /\ Len(SubSeq(s, 1, n)) = IF 1 <= n THEN n - 1 + 1 ELSE 0
    BY <2>2, <2>3, SubSeqProperties
  <2>5. Len(SubSeq(s, 1, n)) = n
    BY <2>2, <2>4
  <2> QED BY <2>4, <2>5 DEF n
<1>6. Front(s) = SubSeq(s, 1, Len(s) - 1) /\ Last(s) = s[Len(s)]
  BY DEF Front, Last
<1>7. Front(s) \o <<Last(s)>> = s
  BY <1>2, <1>3, <1>6, Zenon
<1>8. Len(s) = Len(Front(s)) + 1
  BY <1>1, <1>5, <1>6
<1> QED BY <1>4, <1>5, <1>6, <1>7, <1>8

\* f holds the beginnings of a flattened sequence of sequences.
FlattensUpTo(f, seqs, n) ==
  f = [i \in 1..n |-> IF i = 1 THEN seqs[i] ELSE f[i - 1] \o seqs[i]]

\* Every sequence of sequences has such beginnings.  No induction: the
\* shortest that had none would have a shorter one.
LEMMA FlattensExist ==
  ASSUME NEW S, NEW seqs \in Seq(Seq(S))
  PROVE  \A n \in 1..Len(seqs) : \E f \in [1..n -> Seq(S)] : FlattensUpTo(f, seqs, n)
<1> DEFINE Bad == {n \in 1..Len(seqs) : ~ \E f \in [1..n -> Seq(S)] : FlattensUpTo(f, seqs, n)}
<1>1. Len(seqs) \in Nat /\ \A i \in 1..Len(seqs) : seqs[i] \in Seq(S)
  BY LenProperties, ElementOfSeq
<1>2. ASSUME Bad # {} PROVE FALSE
  <2>1. PICK n \in Bad : \A k \in Bad : n <= k
    <3>1. Bad \subseteq Nat
      BY <1>1
    <3> HIDE DEF Bad
    <3> QED BY <1>2, <3>1, LeastNatural
  <2>2. n \in 1..Len(seqs) /\ n \in Nat
    BY <1>1, <2>1
  <2>3. CASE n = 1
    <3> DEFINE f == [i \in 1..1 |-> seqs[1]]
    <3>1. f \in [1..1 -> Seq(S)]
      BY <1>1, <2>2, <2>3
    <3>2. f = [i \in 1..1 |-> IF i = 1 THEN seqs[i] ELSE f[i - 1] \o seqs[i]]
      OBVIOUS
    <3>3. FlattensUpTo(f, seqs, 1)
      BY <3>2, Zenon DEF FlattensUpTo
    <3> HIDE DEF f
    <3> QED BY <2>1, <2>3, <3>1, <3>3
  <2>4. CASE n # 1
    <3>1. n - 1 \in 1..Len(seqs) /\ n - 1 \notin Bad
      <4>1. n - 1 \in 1..Len(seqs) /\ ~(n <= n - 1)
        BY <1>1, <2>2, <2>4
      <4> HIDE DEF Bad
      <4> QED BY <2>1, <4>1
    <3>2. PICK f \in [1..(n - 1) -> Seq(S)] : FlattensUpTo(f, seqs, n - 1)
      BY <3>1
    <3> DEFINE g == [i \in 1..n |-> IF i = 1 THEN seqs[i] ELSE f[i - 1] \o seqs[i]]
    <3>3. ASSUME NEW i \in 1..n, i # 1 PROVE i - 1 \in 1..(n - 1) /\ f[i - 1] \in Seq(S)
      BY <2>2, <3>2, <3>3
    <3>4. g \in [1..n -> Seq(S)]
      <4>1. ASSUME NEW i \in 1..n
            PROVE  (IF i = 1 THEN seqs[i] ELSE f[i - 1] \o seqs[i]) \in Seq(S)
        <5>1. seqs[i] \in Seq(S)
          BY <1>1, <2>2
        <5>2. i # 1 => f[i - 1] \o seqs[i] \in Seq(S)
          BY <3>3, <5>1, ConcatProperties
        <5> QED BY <5>1, <5>2
      <4> QED BY <4>1
    <3>5. \A i \in 1..(n - 1) : f[i] = IF i = 1 THEN seqs[i] ELSE f[i - 1] \o seqs[i]
      BY <3>2, Zenon DEF FlattensUpTo
    <3>6. \A i \in 1..(n - 1) : i \in 1..n /\ g[i] = f[i]
      <4>1. \A i \in 1..(n - 1) : i \in 1..n
        BY <2>2
      <4> QED BY <3>5, <4>1
    <3>7. \A i \in 1..n : i # 1 => g[i - 1] = f[i - 1]
      BY <3>3, <3>6
    <3>8. g = [i \in 1..n |-> IF i = 1 THEN seqs[i] ELSE g[i - 1] \o seqs[i]]
      BY <3>7
    <3>9. FlattensUpTo(g, seqs, n)
      BY <3>8, Zenon DEF FlattensUpTo
    <3> HIDE DEF g
    <3> QED BY <2>1, <3>4, <3>9
  <2> QED BY <2>3, <2>4
<1> QED BY <1>2

\* A flattened sequence of sequences is a sequence of their elements.
LEMMA FlattenType ==
  ASSUME NEW S, NEW seqs \in Seq(Seq(S))
  PROVE  FlattenSeq(seqs) \in Seq(S)
<1>1. Len(seqs) \in Nat
  BY LenProperties
<1>2. CASE Len(seqs) = 0
  <2>1. seqs = << >>
    BY <1>2, EmptySeq
  <2> QED BY <2>1, <1>2, EmptySeq DEF FlattenSeq
<1>3. CASE Len(seqs) # 0
  <2> DEFINE n == Len(seqs)
             flatten == CHOOSE f : f = [i \in 1..n |-> IF i = 1 THEN seqs[i] ELSE f[i - 1] \o seqs[i]]
  <2>1. n \in 1..n
    BY <1>1, <1>3
  <2>2. PICK f \in [1..n -> Seq(S)] : FlattensUpTo(f, seqs, n)
    BY <2>1, FlattensExist
  <2>3. flatten = [i \in 1..n |-> IF i = 1 THEN seqs[i] ELSE flatten[i - 1] \o seqs[i]]
    BY <2>2, Zenon DEF FlattensUpTo
  <2>4. FlattenSeq(seqs) = flatten[n]
    BY <1>3 DEF FlattenSeq
  <2> HIDE DEF flatten
  <2>5. \A i \in 1..n : flatten[i] = IF i = 1 THEN seqs[i] ELSE flatten[i - 1] \o seqs[i]
    BY <2>3, Zenon
  <2> DEFINE Bad == {i \in 1..n : flatten[i] \notin Seq(S)}
  <2>6. ASSUME Bad # {} PROVE FALSE
    <3>1. PICK i \in Bad : \A k \in Bad : i <= k
      <4>1. Bad \subseteq Nat
        OBVIOUS
      <4> HIDE DEF Bad
      <4> QED BY <2>6, <4>1, LeastNatural
    <3>2. i \in 1..n /\ flatten[i] \notin Seq(S)
      BY <3>1
    <3>3. seqs[i] \in Seq(S)
      BY <3>2, ElementOfSeq
    <3>4. CASE i = 1
      BY <2>5, <3>2, <3>3, <3>4
    <3>5. CASE i # 1
      <4>1. i - 1 \in 1..n /\ ~(i <= i - 1)
        BY <1>1, <3>2, <3>5
      <4>2. i - 1 \notin Bad
        <5> HIDE DEF Bad
        <5> QED BY <3>1, <4>1
      <4>3. flatten[i - 1] \in Seq(S)
        BY <4>1, <4>2
      <4>4. flatten[i - 1] \o seqs[i] \in Seq(S)
        BY <3>3, <4>3, ConcatProperties
      <4> QED BY <2>5, <3>2, <3>5, <4>4
    <3> QED BY <3>4, <3>5
  <2> QED BY <2>1, <2>4, <2>6
<1> QED BY <1>2, <1>3

\* Two sequences of tokens joined.
LEMMA TokensJoin ==
  ASSUME NEW s \in Seq(Token), NEW t \in Seq(Token)
  PROVE  /\ s \o t \in Seq(Token) /\ Len(s \o t) = Len(s) + Len(t)
         /\ \A k \in Nat : Take(s \o t, Len(s) + k) = s \o Take(t, k)
         /\ \A u \in Seq(Token) : (s \o t) \o u = s \o (t \o u)
<1>1. s \o t \in Seq(Token) /\ Len(s \o t) = Len(s) + Len(t)
  BY ConcatProperties
<1>2. \A k \in Nat : Take(s \o t, Len(s) + k) = s \o Take(t, k)
  BY TakeJoin
<1>3. \A u \in Seq(Token) : (s \o t) \o u = s \o (t \o u)
  BY ConcatAssociative
<1> QED BY <1>1, <1>2, <1>3
-----------------------------------------------------------------------------
(* Conversations and what a turn makes of them.                              *)

\* A message of a conversation.
Message == [role : {"user", "assistant"}, content : Seq(Token)]

\* The template renders a conversation into tokens, one at least: the mark
\* after which the assistant speaks.
LEMMA RenderType ==
  ASSUME NEW h \in Seq(Message)
  PROVE  Render(h) \in Seq(Token) /\ Len(Render(h)) \in Nat \ {0}
<1> DEFINE parts == [i \in DOMAIN h |-> RenderMessage(h[i])]
<1>1. Len(h) \in Nat /\ DOMAIN h = 1..Len(h)
  BY LenProperties
<1>2. Asst \in Token
  BY DEF Token
<1>3. ASSUME NEW m \in Message PROVE RenderMessage(m) \in Seq(Token)
  <2>1. m.content \in Seq(Token)
    BY DEF Message
  <2>2. <<Asst>> \in Seq(Token)
    BY <1>2
  <2>3. <<Asst>> \o m.content \in Seq(Token)
    BY <2>1, <2>2, ConcatProperties
  <2> QED BY <2>1, <2>3 DEF RenderMessage
<1>4. parts \in [1..Len(h) -> Seq(Token)]
  <2>1. \A i \in 1..Len(h) : h[i] \in Message
    BY ElementOfSeq
  <2> QED BY <1>1, <1>3, <2>1
<1>5. parts \in Seq(Seq(Token))
  <2> HIDE DEF parts
  <2> QED BY <1>1, <1>4, SeqDef
<1>6. FlattenSeq(parts) \in Seq(Token)
  <2> HIDE DEF parts
  <2> QED BY <1>5, FlattenType
<1>7. <<Asst>> \in Seq(Token)
  BY <1>2
<1>8. Render(h) = FlattenSeq(parts) \o <<Asst>>
  BY DEF Render
<1> HIDE DEF parts
<1>9. Render(h) \in Seq(Token) /\ Len(Render(h)) = Len(FlattenSeq(parts)) + Len(<<Asst>>)
  BY <1>6, <1>7, <1>8, ConcatProperties
<1>10. Len(FlattenSeq(parts)) \in Nat /\ Len(<<Asst>>) = 1
  BY <1>6, LenProperties
<1> QED BY <1>9, <1>10

\* A reply, its reasoning stripped, is a message.
LEMMA ReplyType ==
  ASSUME NEW s \in Seq(Token)
  PROVE  Reply(s) \in Message
<1> DEFINE parts == [i \in DOMAIN s |-> Shown(s[i])]
<1>1. Len(s) \in Nat /\ DOMAIN s = 1..Len(s)
  BY LenProperties
<1>2. parts \in [1..Len(s) -> Seq(Token)]
  <2>1. \A i \in 1..Len(s) : s[i] \in Token
    BY ElementOfSeq
  <2>2. ASSUME NEW t \in Token PROVE Shown(t) \in Seq(Token)
    BY DEF Shown
  <2> QED BY <1>1, <2>1, <2>2
<1>3. parts \in Seq(Seq(Token))
  <2> HIDE DEF parts
  <2> QED BY <1>1, <1>2, SeqDef
<1>4. FlattenSeq(parts) \in Seq(Token)
  <2> HIDE DEF parts
  <2> QED BY <1>3, FlattenType
<1>5. Reply(s) = [role |-> "assistant", content |-> FlattenSeq(parts)]
  BY DEF Reply
<1> HIDE DEF parts
<1> QED BY <1>4, <1>5 DEF Message

\* A prompt is a message.
LEMMA UserType ==
  ASSUME NEW u \in Token
  PROVE  User(u) \in Message
BY DEF User, Message

\* Whatever transcript a client sends, edited or anew, is a conversation.
LEMMA TranscriptType ==
  ASSUME NEW h \in Seq(Message), NEW u \in Token, NEW request \in Transcripts(h, u)
  PROVE  request \in Seq(Message) /\ Append(h, User(u)) \in Seq(Message)
<1>1. User(u) \in Message
  BY UserType
<1>2. Edited(h) \in Seq(Message)
  <2>1. Len(h) \in Nat /\ DOMAIN h = 1..Len(h) /\ \A i \in 1..Len(h) : h[i] \in Message
    BY LenProperties, ElementOfSeq
  <2>2. << >> \in Seq(Token)
    BY EmptySeq
  <2>3. ASSUME NEW m \in Message PROVE [m EXCEPT !.content = << >>] \in Message
    BY <2>2 DEF Message
  <2>4. Edited(h) \in [1..Len(h) -> Message]
    BY <2>1, <2>3 DEF Edited
  <2> QED BY <2>1, <2>4, SeqDef
<1>3. <<User(u)>> \in Seq(Message)
  BY <1>1
<1>4. Append(h, User(u)) \in Seq(Message) /\ Append(Edited(h), User(u)) \in Seq(Message)
  BY <1>1, <1>2, AppendProperties
<1>5. request \in {Append(h, User(u)), Append(Edited(h), User(u)), <<User(u)>>}
  BY DEF Transcripts
<1> QED BY <1>3, <1>4, <1>5

\* Without its last element a sequence is one still.
LEMMA FrontType ==
  ASSUME NEW S, NEW s \in Seq(S)
  PROVE  Front(s) \in Seq(S)
<1> DEFINE n == Len(s) - 1
<1>1. n \in Int /\ \A i \in 1..n : s[i] \in S
  BY LenProperties, ElementOfSeq
<1> HIDE DEF n
<1>2. SubSeq(s, 1, n) \in Seq(S)
  BY <1>1, SubSeqProperties
<1> QED BY <1>2 DEF Front, n

\* What a trim or a summary leaves is a conversation.
LEMMA WithoutType ==
  ASSUME history \in Seq(Message), OldTurn, NEW note \in Seq(Message)
  PROVE  Without(note) \in Seq(Message)
<1>1. OldStart \in 1..Len(history) /\ OldEnd \in 1..Len(history) /\ Len(history) \in Nat
  BY OldTurnIsFollowed, LenProperties
<1>2. Take(history, OldStart - 1) \in Seq(Message)
  <2>1. OldStart - 1 \in Nat
    BY <1>1
  <2> QED BY <2>1, TakeKeeps
<1>3. SubSeq(history, OldEnd, Len(history)) \in Seq(Message)
  <2>1. \A i \in OldEnd..Len(history) : history[i] \in Message
    BY <1>1, ElementOfSeq
  <2>2. OldEnd \in Int /\ Len(history) \in Int
    BY <1>1
  <2> QED BY <2>1, <2>2, SubSeqProperties
<1>4. Take(history, OldStart - 1) \o note \in Seq(Message)
  BY <1>2, ConcatProperties
<1> QED BY <1>3, <1>4, ConcatProperties DEF Without

\* What a turn is charged for its tokens is a number, whatever its budget.
LEMMA ChargedInt ==
  ASSUME NEW s \in Seq(Token), turn.budget \in Int
  PROVE  Charged(s) \in Int
<1>1. Len(s) \in Nat /\ DOMAIN s = 1..Len(s)
  BY LenProperties
<1>2. InSpan(s) \subseteq 1..Len(s)
  BY <1>1 DEF InSpan
<1>3. Cardinality(InSpan(s)) \in Nat
  <2>1. IsFiniteSet(1..Len(s))
    BY <1>1, FS_Interval
  <2>2. IsFiniteSet(InSpan(s))
    BY <1>2, <2>1, FS_Subset
  <2> QED BY <2>2, FS_CardinalityType
<1>4. Allowance \in Int
  BY DEF Allowance, EndTag
<1> QED BY <1>1, <1>3, <1>4 DEF Charged, Least

\* The prefix reused is common to the records and to the prompt, and leaves at
\* least one token of the prompt to decode.
LEMMA CommonPrefixIs ==
  ASSUME NEW s \in Seq(Token), NEW t, NEW most \in Nat, Take(s, 0) = Take(t, 0)
  PROVE  /\ CommonPrefix(s, t, most) \in 0..Len(s)
         /\ CommonPrefix(s, t, most) <= most
         /\ Take(s, CommonPrefix(s, t, most)) = Take(t, CommonPrefix(s, t, most))
<1> DEFINE SharedTo == {n \in 0..Len(s) : n <= most /\ Take(s, n) = Take(t, n)}
<1>1. Len(s) \in Nat
  BY LenProperties
<1>2. 0 \in SharedTo
  BY <1>1
<1>3. PICK n \in SharedTo : \A k \in SharedTo : k <= n
  <2>1. SharedTo \subseteq 0..Len(s) /\ SharedTo # {}
    BY <1>2
  <2> HIDE DEF SharedTo
  <2> QED BY <1>1, <2>1, GreatestNatural
<1>4. \A k \in (n + 1)..Len(s) : k > most \/ Take(s, k) # Take(t, k)
  <2> SUFFICES ASSUME NEW k \in (n + 1)..Len(s), ~(k > most), Take(s, k) = Take(t, k) PROVE FALSE
    OBVIOUS
  <2>1. n \in 0..Len(s)
    BY <1>3
  <2>2. k \in 0..Len(s) /\ k <= most /\ ~(k <= n)
    BY <1>1, <2>1
  <2>3. k \in SharedTo
    BY <2>2
  <2> HIDE DEF SharedTo
  <2> QED BY <1>3, <2>2, <2>3
<1>5. \E c \in 0..Len(s) :
        /\ c <= most /\ Take(s, c) = Take(t, c)
        /\ \A k \in (c + 1)..Len(s) : k > most \/ Take(s, k) # Take(t, k)
  BY <1>3, <1>4
<1>6. /\ CommonPrefix(s, t, most) \in 0..Len(s)
      /\ CommonPrefix(s, t, most) <= most
      /\ Take(s, CommonPrefix(s, t, most)) = Take(t, CommonPrefix(s, t, most))
  BY <1>5, Zenon DEF CommonPrefix
<1> QED BY <1>6
-----------------------------------------------------------------------------
(* The memory: what a removal and a decode leave.                            *)

\* The KV, what the last ubatch left to undo, the draft context's KV and the
\* records.
MemType == [kv : Seq(Token), last : Int, draft : Seq(Token), tokens : Seq(Token)]

\* What a turn keeps between two decodes.
Turn == [budget : Int, tokens : Seq(Token), common : Nat, i : Nat, emitted : Seq(Token),
         tok : Token, nPast : Nat, changed : BOOLEAN, tried : BOOLEAN]

\* The data of a session have their types.
DataInv ==
  /\ mode \in Modes /\ ctxSize \in Int
  /\ history \in Seq(Message) /\ before.history \in Seq(Message)
  /\ turn \in Turn
  /\ Mem \in MemType

\* The KV is what the records say, and the draft context's is the same.
Mirrored == kv = kvTokens /\ (Mtp => draftKv = kv)

\* A cleared memory is empty, and so are its records.
LEMMA ClearedType ==
  /\ Cleared \in MemType
  /\ Cleared.kv = << >> /\ Cleared.tokens = << >> /\ Cleared.draft = << >>
<1>1. << >> \in Seq(Token)
  BY EmptySeq
<1> QED BY <1>1 DEF Cleared, MemType

\* What truncate_context leaves: a prefix of the KV, of the draft's KV and of
\* the records, or, refused, nothing of any of them.  A removal by the end of
\* the last ubatch has to stay within it.
LEMMA TruncatedIs ==
  ASSUME NEW m \in MemType, NEW keep \in Nat, NEW keepTokens \in Nat, NEW inLast \in BOOLEAN,
         inLast => Len(m.kv) <= keep \/ Len(m.kv) - keep < m.last
  PROVE  LET r == Truncated(m, keep, keepTokens, inLast)
         IN  /\ r \in MemType
             /\ \/ ~Truncates(m, keep, inLast) /\ r = Cleared
                \/ /\ Truncates(m, keep, inLast)
                   /\ r.kv = Take(m.kv, keep) /\ r.draft = Take(m.draft, keep)
                   /\ r.tokens = Take(m.tokens, keepTokens)
<1> DEFINE r == Truncated(m, keep, keepTokens, inLast)
           k == Kept(m, keep)
<1>0. /\ m.kv \in Seq(Token) /\ m.draft \in Seq(Token) /\ m.tokens \in Seq(Token) /\ m.last \in Int
      /\ Len(m.kv) \in Nat
  BY LenProperties DEF MemType
<1>1. CASE ~Truncates(m, keep, inLast)
  BY <1>1, ClearedType DEF Truncated
<1>2. CASE Truncates(m, keep, inLast)
  <2>1. r = [k EXCEPT !.draft = Take(@, keep), !.tokens = Take(@, keepTokens)]
    BY <1>2 DEF Truncated
  <2>2. ~(mode.memory = "snapshots" /\ Len(m.kv) > keep /\ ~inLast)
    BY <1>2 DEF Truncates, SnapshotUnsafe
  <2>3. Take(m.kv, keep) \in Seq(Token) /\ Take(m.draft, keep) \in Seq(Token)
        /\ Take(m.tokens, keepTokens) \in Seq(Token)
    BY <1>0, TakeKeeps
  <2>4. k \in MemType /\ k.kv = Take(m.kv, keep) /\ k.draft = m.draft /\ k.tokens = m.tokens
    <3>1. CASE Len(m.kv) - keep <= 0
      <4>1. k = m
        BY <3>1 DEF Kept
      <4>2. Take(m.kv, keep) = m.kv
        BY <1>0, <3>1, TakeAll
      <4> QED BY <4>1, <4>2
    <3>2. CASE ~(Len(m.kv) - keep <= 0)
      <4>1. ~(mode.memory = "snapshots" /\ keep > 0 /\ Len(m.kv) - keep >= m.last)
        BY <1>0, <2>2, <3>2
      <4>2. k = [m EXCEPT !.kv = Take(m.kv, keep),
                          !.last = IF Len(m.kv) - keep < @ THEN @ - (Len(m.kv) - keep) ELSE 0]
        BY <3>2, <4>1 DEF Kept
      <4>3. (IF Len(m.kv) - keep < m.last THEN m.last - (Len(m.kv) - keep) ELSE 0) \in Int
        BY <1>0
      <4> HIDE DEF k
      <4> QED BY <2>3, <4>2, <4>3 DEF MemType
    <3> QED BY <3>1, <3>2
  <2> HIDE DEF k, r
  <2>5. /\ r \in MemType /\ r.kv = Take(m.kv, keep) /\ r.draft = Take(m.draft, keep)
        /\ r.tokens = Take(m.tokens, keepTokens)
    BY <2>1, <2>3, <2>4 DEF MemType
  <2> QED BY <1>2, <2>5 DEF r
<1> QED BY <1>1, <1>2

\* What a rollback to a prefix leaves: that prefix of everything, or nothing.
LEMMA RolledBackIs ==
  ASSUME NEW m \in MemType, NEW keep \in Nat
  PROVE  /\ Truncated(m, keep, keep, FALSE) \in MemType
         /\ \/ Truncated(m, keep, keep, FALSE) = Cleared
            \/ /\ Truncated(m, keep, keep, FALSE).kv = Take(m.kv, keep)
               /\ Truncated(m, keep, keep, FALSE).draft = Take(m.draft, keep)
               /\ Truncated(m, keep, keep, FALSE).tokens = Take(m.tokens, keep)
BY TruncatedIs

\* Whatever prefix a turn rolls back to, the KV and its records agree if that
\* prefix of them did.
LEMMA RolledBackMirrors ==
  ASSUME NEW m \in MemType, NEW keep \in Nat,
         Take(m.kv, keep) = Take(m.tokens, keep),
         Mtp => Take(m.draft, keep) = Take(m.kv, keep)
  PROVE  LET r == Truncated(m, keep, keep, FALSE)
         IN  /\ r \in MemType /\ r.kv = r.tokens
             /\ Mtp => r.draft = r.kv
<1> DEFINE r == Truncated(m, keep, keep, FALSE)
<1>1. /\ r \in MemType
      /\ \/ r = Cleared
         \/ /\ r.kv = Take(m.kv, keep) /\ r.draft = Take(m.draft, keep)
            /\ r.tokens = Take(m.tokens, keep)
  BY RolledBackIs
<1> HIDE DEF r
<1>2. r.kv = r.tokens /\ (Mtp => r.draft = r.kv)
  BY <1>1, ClearedType
<1> QED BY <1>1, <1>2 DEF r

\* What the assumptions say of a mode.
LEMMA ModeFacts ==
  ASSUME mode \in Modes
  PROVE  /\ mode.ubatch \in Nat \ {0} /\ mode.batch \in Nat \ {0} /\ MaxCtx \in Nat
         /\ mode.ctx \in Nat
         /\ mode.spec # "off" => mode.ubatch >= DraftMax + 1
         /\ DraftMax \in Nat /\ NPredict \in Nat
BY SessionTurnAssumption DEF ModeType, ValidMode

\* A remainder is a number.
LEMMA RemainderInt ==
  ASSUME NEW n \in Nat, NEW d \in Nat \ {0}
  PROVE  n % d \in Int
OBVIOUS

\* A decode puts its batch behind the KV and leaves the records; a batch of
\* one ubatch is undone whole.
LEMMA DecodedIs ==
  ASSUME mode \in Modes, NEW m \in MemType, NEW batch \in Seq(Token)
  PROVE  /\ Decoded(m, batch) \in MemType
         /\ Decoded(m, batch).kv = m.kv \o batch
         /\ Decoded(m, batch).draft = m.draft /\ Decoded(m, batch).tokens = m.tokens
         /\ Len(batch) <= mode.ubatch /\ Len(batch) > 0 => Decoded(m, batch).last = Len(batch)
<1> DEFINE last == IF Len(batch) < mode.ubatch THEN Len(batch) ELSE LastUbatch(Len(batch))
<1>1. Len(batch) \in Nat /\ mode.ubatch \in Nat \ {0}
  BY LenProperties, ModeFacts
<1>2. last \in Int
  BY <1>1, RemainderInt DEF LastUbatch
<1>3. Len(batch) <= mode.ubatch /\ Len(batch) > 0 => last = Len(batch)
  <2>1. CASE Len(batch) < mode.ubatch
    BY <2>1
  <2>2. CASE Len(batch) = mode.ubatch
    <3>1. \A n \in Nat \ {0} : n % n = 0
      OBVIOUS
    <3> QED BY <1>1, <2>2, <3>1 DEF LastUbatch
  <2> QED BY <1>1, <2>1, <2>2
<1>4. m.kv \o batch \in Seq(Token)
  <2>1. m.kv \in Seq(Token)
    BY DEF MemType
  <2> QED BY <2>1, ConcatProperties
<1>5. Decoded(m, batch) = [m EXCEPT !.kv = m.kv \o batch, !.last = last]
  BY DEF Decoded
<1> HIDE DEF last
<1> QED BY <1>2, <1>3, <1>4, <1>5 DEF MemType

\* A decode that fails leaves a part of its batch behind the KV, and the
\* records and the draft context as they were.
LEMMA FailedIs ==
  ASSUME mode \in Modes, NEW m \in MemType, NEW batch \in Seq(Token),
         NEW x \in Unfinished(m, batch) \cup Undrafted(m, batch)
  PROVE  /\ x \in MemType /\ x.tokens = m.tokens /\ x.draft = m.draft
         /\ \E part \in Seq(Token) : x.kv = m.kv \o part
<1>1. CASE x \in Undrafted(m, batch)
  BY <1>1, DecodedIs DEF Undrafted
<1>2. CASE x \in Unfinished(m, batch)
  <2>1. PICK part \in PartOf(batch) : x = LeftBy(m, part)
    BY <1>2 DEF Unfinished
  <2>2. PICK k \in 0..((Len(batch) - 1) \div mode.ubatch) : part = Take(batch, k * mode.ubatch)
    BY <2>1 DEF PartOf
  <2>3. k * mode.ubatch \in Nat
    <3>1. k \in Nat /\ mode.ubatch \in Nat
      BY ModeFacts
    <3>2. \A a, b \in Nat : a * b \in Nat
      OBVIOUS
    <3> QED BY <3>1, <3>2
  <2>4. part \in Seq(Token)
    BY <2>2, <2>3, TakeKeeps
  <2>5. CASE part = << >>
    <3>1. m.kv \o part = m.kv
      <4>1. m.kv \in Seq(Token)
        BY DEF MemType
      <4> QED BY <2>5, <4>1, ConcatEmptySeq
    <3> QED BY <2>1, <2>4, <2>5, <3>1 DEF LeftBy
  <2>6. CASE part # << >>
    BY <2>1, <2>4, <2>6, DecodedIs DEF LeftBy
  <2> QED BY <2>5, <2>6
<1> QED BY <1>1, <1>2
-----------------------------------------------------------------------------
(* KV and records: the invariant, and the steps outside the decodes.         *)

\* Where an end of generation was drafted and confirmed it is in the KV and not
\* in the records, and the last ubatch undoes it.
Overshot == SpecOn /\ kv = kvTokens \o <<Eog>> /\ lastDecode > 1 /\ (Mtp => draftKv = kv)

\* KV and records, phase by phase: the same at rest and between two decodes;
\* during a prefill the records hold the prefix reused and the KV what was
\* decoded; during a replay no record at all; at the end one token may be over.
MirrorInv ==
  /\ pc \in {"idle", "room", "regrow", "gen", "decode"} => Mirrored
  /\ pc = "prefill" =>
       /\ turn.common <= turn.i /\ turn.i <= Len(turn.tokens)
       /\ kvTokens = Take(turn.tokens, turn.common)
       /\ kv = Take(turn.tokens, turn.i) /\ (Mtp => draftKv = kv)
  /\ pc = "replay" =>
       /\ turn.i <= Len(ReplayOf)
       /\ kvTokens = << >> /\ kv = Take(ReplayOf, turn.i) /\ (Mtp => draftKv = kv)
  /\ pc = "finish" /\ outcome # "exhausted" =>
       /\ kvTokens = ReplayOf
       /\ Mirrored \/ Overshot

\* The text of a turn is the rendered history; what is drafted or sampled
\* follows the text and what was emitted since, at its position in the KV; and
\* a turn that ended decodes no more.
TextInv ==
  /\ pc \in {"prefill", "gen", "decode", "replay"} => turn.tokens = Render(history)
  /\ pc \in {"room", "prefill"} => turn.emitted = << >>
  /\ pc \in {"gen", "decode"} => kv = ReplayOf /\ turn.nPast = Len(kv)
  /\ pc \in {"decode", "replay", "regrow"} => ~Ended

\* A turn's rollback point is not behind what the KV holds.  The rebuild of a
\* compacted context breaks it: the prefix captured at admission
\* (session_generate.cpp:376) is not reset with n_common (:628), and may be
\* longer than what the rebuilt context holds.  Only a failure of the draft
\* context then cuts there.
RollbackReaches == Mtp /\ pc \in {"gen", "decode"} => turn.common <= Len(kvTokens)

\* The invariant: types, memory and text.
KvInv == DataInv /\ MirrorInv /\ TextInv

\* The data invariant, field by field.
LEMMA DataFacts ==
  ASSUME DataInv
  PROVE  /\ kv \in Seq(Token) /\ draftKv \in Seq(Token) /\ kvTokens \in Seq(Token)
         /\ lastDecode \in Int
         /\ Mem.kv = kv /\ Mem.last = lastDecode /\ Mem.draft = draftKv /\ Mem.tokens = kvTokens
         /\ turn.tokens \in Seq(Token) /\ turn.emitted \in Seq(Token)
         /\ turn.common \in Nat /\ turn.i \in Nat /\ turn.nPast \in Nat
         /\ turn.budget \in Int /\ turn.tok \in Token
         /\ Len(kv) \in Nat /\ Len(kvTokens) \in Nat /\ Len(turn.tokens) \in Nat
         /\ Len(turn.emitted) \in Nat
         /\ ReplayOf \in Seq(Token) /\ Len(ReplayOf) = Len(turn.tokens) + Len(turn.emitted)
<1>1. /\ kv \in Seq(Token) /\ draftKv \in Seq(Token) /\ kvTokens \in Seq(Token)
      /\ lastDecode \in Int
  BY DEF DataInv, Mem, MemType
<1>2. /\ turn.tokens \in Seq(Token) /\ turn.emitted \in Seq(Token)
      /\ turn.common \in Nat /\ turn.i \in Nat /\ turn.nPast \in Nat
      /\ turn.budget \in Int /\ turn.tok \in Token
  BY DEF DataInv, Turn
<1>3. /\ Len(kv) \in Nat /\ Len(kvTokens) \in Nat /\ Len(turn.tokens) \in Nat
      /\ Len(turn.emitted) \in Nat
  BY <1>1, <1>2, LenProperties
<1>4. ReplayOf \in Seq(Token) /\ Len(ReplayOf) = Len(turn.tokens) + Len(turn.emitted)
  BY <1>2, ConcatProperties DEF ReplayOf
<1> QED BY <1>1, <1>2, <1>3, <1>4 DEF Mem

\* Between turns there is no text, and nothing that began.
LEMMA NoTurnType == NoTurn \in Turn /\ NotBegun.history = << >>
<1>1. << >> \in Seq(Token) /\ Eog \in Token
  BY EmptySeq DEF Token
<1> QED BY <1>1 DEF NoTurn, Turn, NotBegun

\* What a step that sets the memory sets.
LEMMA SetMemIs ==
  ASSUME NEW m, m \in MemType, SetMem(m)
  PROVE  /\ Mem' \in MemType
         /\ kv' = m.kv /\ draftKv' = m.draft /\ kvTokens' = m.tokens /\ lastDecode' = m.last
BY DEF SetMem, Mem, MemType

\* A turn that ended, however: it is enough that the memory it leaves agrees
\* with its records.
LEMMA EndedKeeps ==
  ASSUME DataInv, NEW how, NEW m \in MemType, SetMem(m), EndTurn(how), ctxSize' \in Int,
         history' \in Seq(Message),
         m.kv = m.tokens, Mtp => m.draft = m.kv
  PROVE  KvInv'
<1>1. mode' = mode /\ pc' = "idle" /\ turn' = NoTurn /\ before' = NotBegun
  BY DEF EndTurn
<1>2. /\ Mem' \in MemType
      /\ kv' = m.kv /\ draftKv' = m.draft /\ kvTokens' = m.tokens
  BY SetMemIs
<1>3. << >> \in Seq(Message)
  BY EmptySeq
<1>4. DataInv'
  BY <1>1, <1>2, <1>3, NoTurnType DEF DataInv
<1>5. Mirrored'
  BY <1>1, <1>2 DEF Mirrored, Mtp
<1>6. MirrorInv' /\ TextInv'
  BY <1>1, <1>5 DEF MirrorInv, TextInv
<1> QED BY <1>4, <1>6 DEF KvInv

\* The history a turn puts back is a conversation.
LEMMA PriorHistoryType ==
  ASSUME DataInv
  PROVE  PriorHistory \in Seq(Message)
BY FrontType DEF DataInv, PriorHistory, PopOnly

\* A turn rolled back: KV, draft and records are cut to the same prefix.
LEMMA RollbackKeeps ==
  ASSUME DataInv, NEW m \in MemType, NEW how, Rollback(m, how), UNCHANGED ctxSize,
         Take(m.kv, turn.common) = Take(m.tokens, turn.common),
         Mtp => Take(m.draft, turn.common) = Take(m.kv, turn.common)
  PROVE  KvInv'
<1> DEFINE r == Truncated(m, turn.common, turn.common, FALSE)
<1>1. SetMem(r) /\ history' = PriorHistory /\ EndTurn(how)
  BY DEF Rollback, RolledBack
<1>2. turn.common \in Nat
  BY DataFacts
<1>3. r \in MemType /\ r.kv = r.tokens /\ (Mtp => r.draft = r.kv)
  BY <1>2, RolledBackMirrors
<1> HIDE DEF r
<1>4. history' \in Seq(Message) /\ ctxSize' \in Int
  BY <1>1, PriorHistoryType DEF DataInv
<1> QED BY <1>1, <1>3, <1>4, EndedKeeps

\* What a turn needs of its context is a number.
LEMMA NeedInt ==
  ASSUME DataInv
  PROVE  Need \in Int /\ Len(Render(history)) \in Nat
<1>1. Len(Render(history)) \in Nat
  BY RenderType DEF DataInv
<1>2. Slack \in Nat /\ NPredict \in Nat
  BY SessionTurnAssumption
<1>3. Reserve \in Int
  BY <1>2, DataFacts DEF Reserve, Larger
<1> QED BY <1>1, <1>3 DEF Need

\* A session opens with nothing decoded and nothing recorded.
LEMMA KvInit == Init => KvInv
<1> SUFFICES ASSUME Init PROVE KvInv
  OBVIOUS
<1>1. << >> \in Seq(Message) /\ << >> \in Seq(Token)
  BY EmptySeq
<1>2. DataInv
  <2>1. ctxSize \in Int
    BY ModeFacts DEF Init
  <2> QED BY <1>1, <2>1, NoTurnType DEF Init, DataInv, Mem, MemType
<1>3. MirrorInv /\ TextInv
  BY DEF Init, MirrorInv, TextInv, Mirrored
<1> QED BY <1>2, <1>3 DEF KvInv

\* The start of a turn: the history may be cleared, and with it the memory.
LEMMA GenerateKeeps ==
  ASSUME KvInv, NEW u \in Prompts, NEW clear \in BOOLEAN, Generate(u, clear)
  PROVE  KvInv'
<1> DEFINE h == IF clear THEN << >> ELSE history
<1>1. /\ pc = "idle" /\ pc' = "room" /\ UNCHANGED <<mode, ctxSize>>
      /\ IF clear THEN SetMem(Cleared) ELSE UNCHANGED memVars
      /\ history' = Append(h, User(u)) \/ history' \in Transcripts(h, u)
      /\ before'.history = h
      /\ \E b \in mode.budgets : turn' = [NoTurn EXCEPT !.budget = b]
  BY DEF Generate
<1>2. DataInv /\ Mirrored
  BY <1>1 DEF KvInv, MirrorInv
<1>3. h \in Seq(Message) /\ u \in Token
  BY <1>2, EmptySeq DEF DataInv, Token
<1>4. history' \in Seq(Message)
  <2> HIDE DEF h
  <2>1. Append(h, User(u)) \in Seq(Message)
    BY <1>3, UserType, AppendProperties
  <2>2. history' \in Transcripts(h, u) => history' \in Seq(Message)
    BY <1>3, TranscriptType
  <2> QED BY <1>1, <2>1, <2>2
<1>5. turn' \in Turn /\ turn'.emitted = << >>
  <2>1. PICK b \in mode.budgets : turn' = [NoTurn EXCEPT !.budget = b]
    BY <1>1
  <2>2. b \in Int
    <3>1. mode.budgets \subseteq -1..MaxCtx
      BY <1>2, SessionTurnAssumption DEF DataInv, ModeType
    <3> QED BY <3>1, ModeFacts, <1>2 DEF DataInv
  <2>3. NoTurn \in Turn
    BY NoTurnType
  <2>4. NoTurn.emitted = << >>
    BY DEF NoTurn
  <2> QED BY <2>1, <2>2, <2>3, <2>4 DEF Turn
<1>6. Mem' \in MemType /\ Mirrored'
  <2>1. CASE clear
    <3>1. SetMem(Cleared)
      BY <1>1, <2>1
    <3> QED BY <1>1, <3>1, ClearedType, SetMemIs DEF Mirrored
  <2>2. CASE ~clear
    BY <1>1, <1>2, <2>2 DEF memVars, Mem, DataInv, Mirrored, Mtp
  <2> QED BY <2>1, <2>2
<1>7. DataInv'
  BY <1>1, <1>2, <1>3, <1>4, <1>5, <1>6 DEF DataInv
<1>8. MirrorInv' /\ TextInv'
  BY <1>1, <1>5, <1>6 DEF MirrorInv, TextInv
<1> QED BY <1>7, <1>8 DEF KvInv

\* A text to score empties the memory, or is refused.
LEMMA PerplexityKeeps ==
  ASSUME KvInv, NEW n \in Texts, Perplexity(n)
  PROVE  KvInv'
<1>1. pc = "idle" /\ UNCHANGED <<mode, ctxSize, before, outcome>> /\ n \in Nat
  BY SessionTurnAssumption DEF Perplexity
<1>2. DataInv /\ Mirrored
  BY <1>1 DEF KvInv, MirrorInv
<1>3. CASE n < 2 \/ n > ctxSize
  <2>1. UNCHANGED <<memVars, history, pc, turn>>
    BY <1>3 DEF Perplexity
  <2>2. DataInv' /\ Mirrored'
    BY <1>1, <1>2, <2>1 DEF DataInv, Mirrored, Mtp, Mem, memVars
  <2> QED BY <1>1, <2>1, <2>2 DEF KvInv, MirrorInv, TextInv
<1>4. CASE ~(n < 2 \/ n > ctxSize)
  <2> DEFINE text == [i \in 1..n |-> Scored]
  <2>1. SetMem(Cleared) /\ history' = << >> /\ turn' = [NoTurn EXCEPT !.tokens = text] /\ pc' = "score"
    BY <1>4 DEF Perplexity, Forgotten
  <2>2. text \in Seq(Token)
    <3>1. Scored \in Token
      BY DEF Token
    <3>2. text \in [1..n -> Token]
      BY <3>1
    <3> HIDE DEF text
    <3> QED BY <1>1, <3>2, SeqDef
  <2>3. turn' \in Turn
    <3> HIDE DEF text
    <3> QED BY <2>1, <2>2, NoTurnType DEF Turn
  <2>4. Mem' \in MemType
    BY <2>1, ClearedType, SetMemIs
  <2>5. << >> \in Seq(Message)
    BY EmptySeq
  <2>6. DataInv'
    BY <1>1, <1>2, <2>1, <2>3, <2>4, <2>5 DEF DataInv
  <2> QED BY <2>1, <2>6 DEF KvInv, MirrorInv, TextInv
<1> QED BY <1>3, <1>4

\* A step that leaves the memory alone leaves it in agreement.
LEMMA StaysMirrored ==
  ASSUME DataInv, Mirrored, UNCHANGED <<mode, memVars>>
  PROVE  Mem' \in MemType /\ Mirrored'
BY DEF DataInv, Mirrored, Mtp, Mem, memVars

\* Room is made by a new context, which is empty, or in the history alone.
LEMMA RoomKeeps ==
  ASSUME KvInv, RoomGrow \/ RoomSummarize \/ RoomTrim
  PROVE  KvInv'
<1>1. /\ pc \in {"room", "regrow"} /\ UNCHANGED <<mode, pc, before, outcome>>
  BY DEF RoomGrow, RoomSummarize, RoomTrim, Making
<1>2. DataInv /\ Mirrored /\ TextInv
  BY <1>1 DEF KvInv, MirrorInv
<1>3. Mem' \in MemType /\ Mirrored' /\ ctxSize' \in Int
  <2>1. CASE RoomGrow
    <3>1. SetMem(Cleared) /\ ctxSize' = Grown(Need)
      BY <2>1 DEF RoomGrow, Resize
    <3>2. Grown(Need) \in Int
      BY <1>2, NeedInt, ModeFacts DEF Grown, Uncapped, Larger, DataInv
    <3> QED BY <3>1, <3>2, ClearedType, SetMemIs DEF Mirrored
  <2>2. CASE RoomSummarize \/ RoomTrim
    <3>1. UNCHANGED <<memVars, ctxSize>>
      BY <2>2 DEF RoomSummarize, RoomTrim
    <3> QED BY <1>1, <1>2, <3>1, StaysMirrored DEF DataInv
  <2> QED BY <2>1, <2>2
<1>4. history' \in Seq(Message)
  <2>1. CASE RoomGrow
    BY <1>2, <2>1 DEF RoomGrow, DataInv
  <2>2. CASE RoomSummarize
    <3>1. <<User(Summary)>> \in Seq(Message)
      <4>1. Summary \in Token
        BY DEF Token
      <4> QED BY <4>1, UserType
    <3>2. history' = Without(<<User(Summary)>>) /\ OldTurn
      BY <2>2 DEF RoomSummarize
    <3> QED BY <1>2, <3>1, <3>2, WithoutType DEF DataInv
  <2>3. CASE RoomTrim
    <3>1. << >> \in Seq(Message)
      BY EmptySeq
    <3>2. history' = Without(<< >>) /\ OldTurn
      BY <2>3 DEF RoomTrim
    <3> QED BY <1>2, <3>1, <3>2, WithoutType DEF DataInv
  <2> QED BY <2>1, <2>2, <2>3
<1>5. /\ turn' \in Turn /\ turn'.emitted = turn.emitted /\ turn'.tok = turn.tok
      /\ turn'.budget = turn.budget
  <2>1. \/ turn' = [turn EXCEPT !.changed = TRUE]
        \/ turn' = [turn EXCEPT !.changed = TRUE, !.tried = TRUE]
    BY DEF RoomGrow, RoomSummarize, RoomTrim
  <2>2. turn \in Turn
    BY <1>2 DEF DataInv
  <2> QED BY <2>1, <2>2 DEF Turn
<1>6. DataInv'
  BY <1>1, <1>2, <1>3, <1>4, <1>5 DEF DataInv
<1>7. Ended' = Ended
  BY <1>5 DEF Ended, Charged, Allowance, Budgeted
<1>8. MirrorInv' /\ TextInv'
  BY <1>1, <1>2, <1>3, <1>5, <1>7 DEF MirrorInv, TextInv
<1> QED BY <1>6, <1>8 DEF KvInv

\* A request refused before its admission has decoded nothing.
LEMMA RefuseKeeps ==
  ASSUME KvInv, Refuse
  PROVE  KvInv'
<1>1. /\ pc = "room" /\ history' = PriorHistory /\ EndTurn("rejected")
      /\ UNCHANGED <<ctxSize, memVars>>
  BY DEF Refuse
<1>2. DataInv /\ Mirrored
  BY <1>1 DEF KvInv, MirrorInv
<1>3. SetMem(Mem)
  BY <1>1 DEF SetMem, Mem, memVars
<1>4. Mem \in MemType /\ Mem.kv = Mem.tokens /\ (Mtp => Mem.draft = Mem.kv)
  BY <1>2, DataFacts DEF DataInv, Mirrored
<1>5. history' \in Seq(Message) /\ ctxSize' \in Int
  BY <1>1, <1>2, PriorHistoryType DEF DataInv
<1> QED BY <1>1, <1>2, <1>3, <1>4, <1>5, EndedKeeps
-----------------------------------------------------------------------------
(* Admission, prefill and scoring.                                           *)

\* The admission: what is reused of the KV is the prefix the prompt shares with
\* the records; a refused removal reuses nothing.
LEMMA AdmitKeeps ==
  ASSUME KvInv, Admit
  PROVE  KvInv'
<1> DEFINE tokens == Render(history)
           reuse == kvTokens # << >>
           n == CommonPrefix(kvTokens, tokens, Len(tokens) - 1)
           trims == reuse /\ (n < Len(kvTokens) \/ Mtp)
           m == IF trims THEN Truncated(Mem, n, n, FALSE) ELSE Mem
           common == IF ~reuse \/ (trims /\ ~Truncates(Mem, n, FALSE)) THEN 0 ELSE n
           reserve == IF ~PolicyOn \/ mode.auto THEN NPredict + Allowance ELSE 1
<1>1. /\ pc = "room" /\ SetMem(m) /\ UNCHANGED <<ctxSize, rng>>
      /\ \/ history' = PriorHistory /\ EndTurn("rejected")
         \/ /\ turn' = [turn EXCEPT !.tokens = tokens, !.common = common, !.i = common]
            /\ pc' = "prefill"
            /\ UNCHANGED <<mode, history, cancel, outcome, before, turns>>
  BY Zenon DEF Admit
<1>2. DataInv /\ Mirrored /\ turn.emitted = << >>
  BY <1>1 DEF KvInv, MirrorInv, TextInv
<1>3. tokens \in Seq(Token) /\ Len(tokens) \in Nat \ {0}
  BY <1>2, RenderType DEF DataInv
<1> HIDE DEF tokens
<1>4. /\ n \in Nat /\ n <= Len(kvTokens) /\ n <= Len(tokens) - 1
      /\ Take(kvTokens, n) = Take(tokens, n)
  <2>1. Len(tokens) - 1 \in Nat
    BY <1>3
  <2>2. Take(kvTokens, 0) = Take(tokens, 0)
    BY <1>2, <1>3, DataFacts, TakeNone
  <2>3. n \in 0..Len(kvTokens) /\ n <= Len(tokens) - 1 /\ Take(kvTokens, n) = Take(tokens, n)
    BY <1>2, <2>1, <2>2, DataFacts, CommonPrefixIs
  <2> QED BY <1>2, <2>3, DataFacts
<1> HIDE DEF n
<1>5. Mem \in MemType /\ Mem.kv = kv /\ Mem.draft = draftKv /\ Mem.tokens = kvTokens
      /\ kv = kvTokens /\ (Mtp => draftKv = kv)
  BY <1>2, DataFacts DEF DataInv, Mirrored
<1>6. /\ m \in MemType /\ m.kv = m.tokens /\ (Mtp => m.draft = m.kv)
      /\ common \in Nat /\ common <= Len(tokens) /\ m.kv = Take(tokens, common)
  <2>1. Take(tokens, 0) = << >>
    BY <1>3, TakeNone
  <2>2. CASE ~reuse
    BY <1>3, <1>5, <2>1, <2>2
  <2>3. CASE trims
    <3> DEFINE r == Truncated(Mem, n, n, FALSE)
    <3>1. /\ r \in MemType
          /\ \/ ~Truncates(Mem, n, FALSE) /\ r = Cleared
             \/ /\ Truncates(Mem, n, FALSE)
                /\ r.kv = Take(Mem.kv, n) /\ r.draft = Take(Mem.draft, n)
                /\ r.tokens = Take(Mem.tokens, n)
      BY <1>4, <1>5, TruncatedIs
    <3>2. m = r /\ common = IF ~Truncates(Mem, n, FALSE) THEN 0 ELSE n
      BY <2>3
    <3> HIDE DEF r, m, common, trims, reuse
    <3>3. CASE ~Truncates(Mem, n, FALSE)
      <4>1. m = Cleared /\ common = 0
        BY <3>1, <3>2, <3>3, Zenon
      <4> QED BY <1>3, <2>1, <4>1, ClearedType
    <3>4. CASE Truncates(Mem, n, FALSE)
      <4>1. /\ m \in MemType /\ common = n
            /\ m.kv = Take(Mem.kv, n) /\ m.draft = Take(Mem.draft, n) /\ m.tokens = Take(Mem.tokens, n)
        BY <3>1, <3>2, <3>4, Zenon
      <4> QED BY <1>3, <1>4, <1>5, <4>1
    <3> QED BY <3>3, <3>4
  <2>4. CASE reuse /\ ~trims
    <3>1. m = Mem /\ common = n /\ ~(n < Len(kvTokens))
      BY <2>4
    <3>2. Take(kvTokens, n) = kvTokens
      BY <1>2, <1>4, <3>1, DataFacts, TakeAll
    <3> HIDE DEF m, common, trims, reuse
    <3> QED BY <1>3, <1>4, <1>5, <3>1, <3>2
  <2> QED BY <2>2, <2>3, <2>4
<1> HIDE DEF m, common
<1>7. CASE history' = PriorHistory /\ EndTurn("rejected")
  <2>1. history' \in Seq(Message) /\ ctxSize' \in Int
    BY <1>1, <1>2, <1>7, PriorHistoryType DEF DataInv
  <2> QED BY <1>1, <1>2, <1>6, <1>7, <2>1, EndedKeeps
<1>8. CASE /\ turn' = [turn EXCEPT !.tokens = tokens, !.common = common, !.i = common]
           /\ pc' = "prefill"
           /\ UNCHANGED <<mode, history, cancel, outcome, before, turns>>
  <2>1. /\ Mem' \in MemType
        /\ kv' = m.kv /\ draftKv' = m.draft /\ kvTokens' = m.tokens
    BY <1>1, <1>6, SetMemIs
  <2>2. /\ turn' \in Turn /\ turn'.tokens = tokens /\ turn'.common = common /\ turn'.i = common
        /\ turn'.emitted = << >>
    BY <1>2, <1>3, <1>6, <1>8 DEF DataInv, Turn
  <2>3. DataInv'
    BY <1>1, <1>2, <1>8, <2>1, <2>2 DEF DataInv
  <2>4. mode' = mode /\ pc' = "prefill"
    BY <1>8
  <2>5. kvTokens' = kv' /\ (Mtp => draftKv' = kv') /\ kv' = Take(tokens, common)
    BY <1>6, <2>1
  <2>6. common \in Nat /\ common <= Len(tokens)
    BY <1>6
  <2>7. MirrorInv'
    BY <2>2, <2>4, <2>5, <2>6 DEF MirrorInv, Mtp
  <2>8. TextInv'
    BY <1>8, <2>2 DEF TextInv, tokens
  <2> QED BY <2>3, <2>7, <2>8 DEF KvInv
<1> QED BY <1>1, <1>7, <1>8

\* The next chunk of a prompt or of a replay continues what was decoded.
LEMMA ChunkIs ==
  ASSUME DataInv, NEW s \in Seq(Token), turn.i <= Len(s)
  PROVE  /\ Chunk(s) \in Seq(Token)
         /\ \E j \in turn.i..Len(s) :
              Len(Chunk(s)) = j - turn.i /\ Take(s, turn.i) \o Chunk(s) = Take(s, j)
<1> DEFINE j == IF turn.i + mode.batch < Len(s) THEN turn.i + mode.batch ELSE Len(s)
<1>1. turn.i \in Nat /\ mode.batch \in Nat /\ Len(s) \in Nat
  BY DataFacts, ModeFacts, LenProperties DEF DataInv
<1>2. j \in turn.i..Len(s) /\ Chunk(s) = SubSeq(s, turn.i + 1, j) /\ turn.i \in 0..Len(s)
  BY <1>1 DEF Chunk
<1> HIDE DEF j
<1>3. Take(s, turn.i) \o Chunk(s) = Take(s, j)
  BY <1>2, TakeChunk
<1>4. Chunk(s) \in Seq(Token) /\ Len(Chunk(s)) = j - turn.i
  <2> DEFINE i == turn.i + 1
  <2>1. i \in Int /\ j \in Int /\ (\A x \in i..j : s[x] \in Token)
    BY <1>1, <1>2, ElementOfSeq
  <2>2. Chunk(s) = SubSeq(s, i, j)
    BY <1>2
  <2> HIDE DEF i
  <2>3. SubSeq(s, i, j) \in Seq(Token) /\ Len(SubSeq(s, i, j)) = IF i <= j THEN j - i + 1 ELSE 0
    BY <2>1, SubSeqProperties
  <2> QED BY <1>1, <1>2, <2>2, <2>3 DEF i
<1> QED BY <1>2, <1>3, <1>4

\* The draft context follows the target by the same batch.
LEMMA ProcessedIs ==
  ASSUME NEW m \in MemType, NEW batch \in Seq(Token)
  PROVE  /\ Processed(m, batch) \in MemType
         /\ Processed(m, batch).kv = m.kv /\ Processed(m, batch).tokens = m.tokens
         /\ Processed(m, batch).last = m.last
         /\ Mtp => Processed(m, batch).draft = m.draft \o batch
<1>1. m.draft \in Seq(Token)
  BY DEF MemType
<1>2. m.draft \o batch \in Seq(Token)
  BY <1>1, ConcatProperties
<1> QED BY <1>2 DEF Processed, MemType

\* A chunk of the prompt is decoded; after the last the records are completed
\* to the prompt.
LEMMA PrefillKeeps ==
  ASSUME KvInv, Prefill
  PROVE  KvInv'
<1> DEFINE chunk == Chunk(turn.tokens)
           m == Processed(Decoded(Mem, chunk), chunk)
           more == turn.i + Len(chunk) < Len(turn.tokens)
           rest == SubSeq(turn.tokens, turn.common + 1, Len(turn.tokens))
<1>1. /\ pc = "prefill" /\ UNCHANGED <<mode, ctxSize, history, outcome, before>>
      /\ IF more
           THEN SetMem(m) /\ turn' = [turn EXCEPT !.i = @ + Len(chunk)] /\ UNCHANGED pc
           ELSE /\ SetMem([m EXCEPT !.tokens = @ \o rest])
                /\ \E t \in Sampled(<< >>) :
                     turn' = [turn EXCEPT !.tok = t, !.i = 0, !.nPast = Len(turn.tokens)]
                /\ pc' = "gen"
  BY Zenon DEF Prefill
<1>2. /\ DataInv /\ turn.common <= turn.i /\ turn.i <= Len(turn.tokens)
      /\ kvTokens = Take(turn.tokens, turn.common)
      /\ kv = Take(turn.tokens, turn.i) /\ (Mtp => draftKv = kv)
      /\ turn.tokens = Render(history) /\ turn.emitted = << >>
  BY <1>1 DEF KvInv, MirrorInv, TextInv
<1>3. chunk \in Seq(Token) /\ mode \in Modes
  BY <1>2, DataFacts, ChunkIs DEF DataInv
<1>4. PICK j \in turn.i..Len(turn.tokens) :
        Len(chunk) = j - turn.i /\ Take(turn.tokens, turn.i) \o chunk = Take(turn.tokens, j)
  BY <1>2, DataFacts, ChunkIs
<1> HIDE DEF chunk
<1>5. /\ m \in MemType /\ m.kv = Take(turn.tokens, j) /\ m.tokens = kvTokens
      /\ Mtp => m.draft = m.kv
  <2>1. Mem \in MemType /\ Mem.kv = kv /\ Mem.draft = draftKv /\ Mem.tokens = kvTokens
    BY <1>2, DataFacts DEF DataInv
  <2>2. /\ Decoded(Mem, chunk) \in MemType /\ Decoded(Mem, chunk).kv = Take(turn.tokens, j)
        /\ Decoded(Mem, chunk).draft = draftKv /\ Decoded(Mem, chunk).tokens = kvTokens
    <3>1. /\ Decoded(Mem, chunk) \in MemType /\ Decoded(Mem, chunk).kv = Mem.kv \o chunk
          /\ Decoded(Mem, chunk).draft = Mem.draft /\ Decoded(Mem, chunk).tokens = Mem.tokens
      BY <1>3, <2>1, DecodedIs
    <3>2. Mem.kv \o chunk = Take(turn.tokens, j)
      BY <1>2, <1>4, <2>1
    <3> QED BY <2>1, <3>1, <3>2
  <2> DEFINE d == Decoded(Mem, chunk)
  <2>3. d \in MemType /\ m = Processed(d, chunk)
    BY <2>2
  <2> HIDE DEF d, m
  <2>4. /\ m \in MemType /\ m.kv = d.kv /\ m.tokens = d.tokens
        /\ Mtp => m.draft = d.draft \o chunk
    BY <1>3, <2>3, ProcessedIs
  <2> QED BY <1>2, <1>4, <2>2, <2>4 DEF d
<1> HIDE DEF m
<1>6. turn.i \in Nat /\ turn.common \in Nat /\ Len(turn.tokens) \in Nat /\ turn.tokens \in Seq(Token)
  BY <1>2, DataFacts
<1>7. CASE more
  <2>1. /\ Mem' \in MemType
        /\ kv' = m.kv /\ draftKv' = m.draft /\ kvTokens' = m.tokens
    BY <1>1, <1>5, <1>7, SetMemIs
  <2>2. /\ turn' \in Turn /\ turn'.tokens = turn.tokens /\ turn'.common = turn.common /\ turn'.i = j
        /\ turn'.emitted = << >>
    <3>1. turn.i + Len(chunk) = j /\ j \in Nat
      BY <1>4, <1>6
    <3>2. turn' = [turn EXCEPT !.i = j]
      BY <1>1, <1>7, <3>1
    <3> QED BY <1>2, <3>1, <3>2 DEF DataInv, Turn
  <2>3. DataInv'
    BY <1>1, <1>2, <2>1, <2>2 DEF DataInv
  <2>4. MirrorInv'
    BY <1>1, <1>2, <1>4, <1>5, <1>6, <1>7, <2>1, <2>2 DEF MirrorInv, Mtp
  <2>5. TextInv'
    BY <1>1, <1>2, <1>7, <2>2 DEF TextInv
  <2> QED BY <2>3, <2>4, <2>5 DEF KvInv
<1>8. CASE ~more
  <2>1. j = Len(turn.tokens)
    BY <1>4, <1>6, <1>8
  <2>2. m.kv = turn.tokens
    BY <1>5, <1>6, <2>1, TakeAll
  <2>3. m.tokens \o rest = turn.tokens
    <3>1. Take(turn.tokens, turn.common) \o rest = Take(turn.tokens, Len(turn.tokens))
      <4>1. turn.common \in 0..Len(turn.tokens) /\ Len(turn.tokens) \in turn.common..Len(turn.tokens)
        BY <1>2, <1>6
      <4> QED BY <1>6, <4>1, TakeChunk
    <3>2. Take(turn.tokens, Len(turn.tokens)) = turn.tokens
      BY <1>6, TakeAll
    <3> QED BY <1>2, <1>5, <3>1, <3>2
  <2> DEFINE done == [m EXCEPT !.tokens = @ \o rest]
  <2>4. /\ done \in MemType /\ done.kv = turn.tokens /\ done.tokens = turn.tokens
        /\ Mtp => done.draft = turn.tokens
    BY <1>5, <1>6, <2>2, <2>3 DEF MemType
  <2>5. SetMem(done)
    BY <1>1, <1>8
  <2> HIDE DEF done
  <2>6. /\ Mem' \in MemType
        /\ kv' = turn.tokens /\ (Mtp => draftKv' = turn.tokens) /\ kvTokens' = turn.tokens
    BY <2>4, <2>5, SetMemIs
  <2>7. /\ turn' \in Turn /\ turn'.tokens = turn.tokens /\ turn'.emitted = << >>
        /\ turn'.nPast = Len(turn.tokens)
    <3>1. PICK t \in Sampled(<< >>) :
            turn' = [turn EXCEPT !.tok = t, !.i = 0, !.nPast = Len(turn.tokens)]
      BY <1>1, <1>8
    <3>2. t \in Token
      BY DEF Sampled, Token
    <3> QED BY <1>2, <1>6, <3>1, <3>2 DEF DataInv, Turn
  <2>8. DataInv'
    BY <1>1, <1>2, <2>6, <2>7 DEF DataInv
  <2>9. pc' = "gen"
    BY <1>1, <1>8
  <2>10. MirrorInv'
    BY <1>1, <2>6, <2>9 DEF MirrorInv, Mirrored, Mtp
  <2>11. ReplayOf' = turn.tokens
    BY <1>6, <2>7, ConcatEmptySeq DEF ReplayOf
  <2>12. TextInv'
    BY <1>1, <1>2, <2>6, <2>7, <2>9, <2>11 DEF TextInv
  <2> QED BY <2>8, <2>10, <2>12 DEF KvInv
<1> QED BY <1>7, <1>8

\* A prefill that fails, in either context: what was decoded since the reused
\* prefix is cut off again.
LEMMA PrefillFailsKeeps ==
  ASSUME KvInv, PrefillFails
  PROVE  KvInv'
<1> DEFINE chunk == Chunk(turn.tokens)
<1>1. /\ pc = "prefill" /\ UNCHANGED ctxSize
      /\ \E m \in Unfinished(Mem, chunk) \cup Undrafted(Mem, chunk) : \E how : Rollback(m, how)
  BY Zenon DEF PrefillFails
<1>2. /\ DataInv /\ turn.common <= turn.i /\ turn.i <= Len(turn.tokens)
      /\ kvTokens = Take(turn.tokens, turn.common)
      /\ kv = Take(turn.tokens, turn.i) /\ (Mtp => draftKv = kv)
  BY <1>1 DEF KvInv, MirrorInv
<1>3. chunk \in Seq(Token) /\ mode \in Modes
  BY <1>2, DataFacts, ChunkIs DEF DataInv
<1> HIDE DEF chunk
<1>4. PICK m \in Unfinished(Mem, chunk) \cup Undrafted(Mem, chunk) : \E how : Rollback(m, how)
  BY <1>1
<1>5. Mem \in MemType /\ Mem.kv = kv /\ Mem.draft = draftKv /\ Mem.tokens = kvTokens
  BY <1>2, DataFacts DEF DataInv
<1>6. /\ m \in MemType /\ m.tokens = kvTokens /\ m.draft = draftKv
      /\ \E part \in Seq(Token) : m.kv = kv \o part
  BY <1>3, <1>5, FailedIs
<1>7. PICK part \in Seq(Token) : m.kv = kv \o part
  BY <1>6
<1>8. /\ turn.i \in Nat /\ turn.common \in Nat /\ Len(turn.tokens) \in Nat /\ turn.tokens \in Seq(Token)
      /\ kv \in Seq(Token)
  BY <1>2, DataFacts
<1>9. Len(kv) = turn.i
  BY <1>2, <1>8, TakeKeeps
<1>10. Take(m.kv, turn.common) = Take(kv, turn.common)
  BY <1>2, <1>7, <1>8, <1>9, TakeHead
<1>11. Take(kv, turn.common) = Take(turn.tokens, turn.common)
  BY <1>2, <1>8, TakeTake
<1>12. Take(kvTokens, turn.common) = Take(turn.tokens, turn.common)
  BY <1>2, <1>8, TakeTake
<1> QED BY <1>1, <1>2, <1>4, <1>6, <1>10, <1>11, <1>12, RollbackKeeps

\* A text is scored without a record of it.
LEMMA ScoreKeeps ==
  ASSUME KvInv, Score
  PROVE  KvInv'
<1>1. /\ pc = "score" /\ UNCHANGED <<mode, ctxSize, history, pc, before, outcome>>
      /\ \E chunk \in ScoreChunks : SetMem(Decoded(Mem, chunk)) /\ turn' = [turn EXCEPT !.i = @ + Len(chunk)]
      /\ turn.i < Len(turn.tokens)
  BY DEF Score
<1>2. DataInv
  BY DEF KvInv
<1>3. PICK chunk \in ScoreChunks : SetMem(Decoded(Mem, chunk)) /\ turn' = [turn EXCEPT !.i = @ + Len(chunk)]
  BY <1>1
<1>4. chunk \in Seq(Token)
  <2>1. Chunk(turn.tokens) \in Seq(Token)
    BY <1>1, <1>2, DataFacts, ChunkIs
  <2> DEFINE n == IF turn.i = 0 THEN Prefix ELSE 1
  <2>2. n \in 1..Len(turn.tokens)
    <3>1. Skip \in Nat
      BY SessionTurnAssumption
    <3> QED BY <1>1, <1>2, <3>1, DataFacts DEF Prefix, Larger, Least
  <2>3. SubSeq(turn.tokens, 1, n) \in Seq(Token)
    <3>1. n \in Int /\ \A i \in 1..n : turn.tokens[i] \in Token
      BY <1>2, <2>2, DataFacts, ElementOfSeq
    <3> HIDE DEF n
    <3> QED BY <3>1, SubSeqProperties
  <2> QED BY <2>1, <2>3 DEF ScoreChunks
<1>5. Mem' \in MemType
  BY <1>2, <1>3, <1>4, DecodedIs, SetMemIs DEF DataInv
<1>6. turn' \in Turn
  <2>1. Len(chunk) \in Nat
    BY <1>4, LenProperties
  <2>2. turn.i + Len(chunk) \in Nat
    BY <1>2, <2>1, DataFacts
  <2> QED BY <1>2, <1>3, <2>2 DEF DataInv, Turn
<1>7. DataInv'
  BY <1>1, <1>2, <1>5, <1>6 DEF DataInv
<1> QED BY <1>1, <1>7 DEF KvInv, MirrorInv, TextInv

\* The end of a scoring leaves nothing of the text.
LEMMA ScoreEndsKeeps ==
  ASSUME KvInv, ScoreEnds
  PROVE  KvInv'
<1>1. /\ SetMem(Cleared) /\ history' = << >> /\ pc' = "idle" /\ turn' = NoTurn
      /\ UNCHANGED <<mode, ctxSize, outcome, before>>
  BY DEF ScoreEnds, Forgotten
<1>2. /\ Mem' \in MemType /\ Mirrored'
  BY <1>1, ClearedType, SetMemIs DEF Mirrored
<1>3. << >> \in Seq(Message)
  BY EmptySeq
<1>4. DataInv'
  BY <1>1, <1>2, <1>3, NoTurnType DEF KvInv, DataInv
<1> QED BY <1>1, <1>2, <1>4 DEF KvInv, MirrorInv, TextInv
-----------------------------------------------------------------------------
(* Generation.                                                               *)

\* What is drafted is a sequence of tokens that leaves room for the token
\* confirmed before it, and fits one ubatch with it.
LEMMA DraftsFit ==
  ASSUME DataInv, ~Ended, NEW drafts \in Drafts
  PROVE  /\ drafts \in Seq(Token) /\ Len(drafts) <= DraftMax
         /\ Len(drafts) <= NPredict - Charged(turn.emitted) - 1
         /\ Charged(turn.emitted) \in Int
         /\ Len(drafts) > 0 => SpecOn
<1>1. Charged(turn.emitted) \in Int /\ turn.nPast \in Int /\ ctxSize \in Int
  <2>1. turn.emitted \in Seq(Token) /\ turn.budget \in Int /\ turn.nPast \in Int
    BY DataFacts
  <2>2. ctxSize \in Int
    BY DEF DataInv
  <2> QED BY <2>1, <2>2, ChargedInt
<1>2. DraftMax \in Nat /\ NPredict \in Nat
  BY ModeFacts DEF DataInv
<1>3. NPredict - Charged(turn.emitted) - 1 >= 0
  BY <1>1, <1>2 DEF Ended
<1>4. /\ DraftRoom \in Nat /\ DraftRoom <= DraftMax
      /\ DraftRoom <= NPredict - Charged(turn.emitted) - 1
      /\ ~SpecOn => DraftRoom = 0
  BY <1>1, <1>2, <1>3 DEF DraftRoom, Larger, Least
<1>5. drafts \in Seq(Token) /\ Len(drafts) <= DraftRoom
  <2>1. CASE SpecOn /\ mode.spec = "ngram"
    <3> DEFINE d == NgramDraft(turn.tokens \o turn.emitted, turn.tok, DraftRoom, MinMatch, MaxMatch)
    <3>1. drafts = d
      BY <2>1 DEF Drafts
    <3>2. turn.tokens \o turn.emitted \in Seq(Token) /\ turn.tok \in Token
      BY DataFacts DEF ReplayOf
    <3>3. MinMatch \in Int /\ MaxMatch \in Int /\ DraftRoom \in Int
      BY <1>4, SessionTurnAssumption
    <3>4. d \in Seq(Token) /\ (d # << >> => Len(d) <= DraftRoom)
      BY <3>2, <3>3, DraftContinuesMatch
    <3> HIDE DEF d
    <3> QED BY <1>4, <3>1, <3>4, EmptySeq
  <2>2. CASE ~(SpecOn /\ mode.spec = "ngram")
    <3>1. drafts \in UNION {[1..n -> Out \cup {Eog}] : n \in 0..DraftRoom}
      BY <2>2 DEF Drafts
    <3>2. PICK n \in 0..DraftRoom : drafts \in [1..n -> Out \cup {Eog}]
      BY <3>1
    <3>3. Out \cup {Eog} \subseteq Token
      BY DEF Token
    <3>4. n \in Nat /\ drafts \in [1..n -> Token]
      BY <1>4, <3>2, <3>3
    <3>5. drafts \in Seq(Token)
      BY <3>4, SeqDef
    <3>6. Len(drafts) = n
      <4>1. DOMAIN drafts = 1..n /\ DOMAIN drafts = 1..Len(drafts) /\ Len(drafts) \in Nat
        BY <3>4, <3>5, LenProperties
      <4> QED BY <3>4, <4>1
    <3> QED BY <1>4, <3>5, <3>6
  <2> QED BY <2>1, <2>2
<1>6. Len(drafts) \in Nat
  BY <1>5, LenProperties
<1> QED BY <1>1, <1>2, <1>4, <1>5, <1>6

\* Where a decode begins, KV, records and text agree.
LEMMA DecodePc ==
  ASSUME KvInv, Decoding
  PROVE  /\ DataInv /\ Mirrored /\ ~Ended /\ pc \in {"gen", "decode"}
         /\ kv = ReplayOf /\ turn.nPast = Len(kv) /\ turn.tokens = Render(history)
BY DEF KvInv, MirrorInv, TextInv, Decoding

\* Draft, verify, accept, emit: of what the target decoded the confirmed tokens
\* stay, the records gain what is emitted, and these are the same but for an
\* end of generation, with which the turn ends.
LEMMA DecodeKeeps ==
  ASSUME KvInv, Decode
  PROVE  KvInv'
<1>0. Decoding
  BY DEF Decode
<1>30. PICK drafts \in Drafts : \E acc \in Accepted(drafts) :
       LET n == Len(drafts)
           verified == Decoded(Mem, <<turn.tok>> \o drafts)
           kept == Kept(verified, turn.nPast + 1 + Len(acc))
           caughtUp == Processed(kept, <<turn.tok>> \o acc)
           out == Take(Emits(acc), NPredict - Charged(turn.emitted))
       IN
       /\ SetMem([caughtUp EXCEPT !.tokens = @ \o out])
       /\ IF EndsIn(acc, Eog)
            THEN /\ turn' = [turn EXCEPT !.emitted = @ \o out]
                 /\ pc' = "finish" /\ outcome' = "ok"
            ELSE /\ \E t \in Sampled(turn.emitted \o out) :
                      turn' = [turn EXCEPT !.emitted = @ \o out, !.tok = t,
                                           !.nPast = @ + 1 + Len(acc)]
                 /\ pc' = "gen" /\ UNCHANGED outcome
  BY Zenon DEF Decode
<1>1. PICK acc \in Accepted(drafts) :
       LET n == Len(drafts)
           verified == Decoded(Mem, <<turn.tok>> \o drafts)
           kept == Kept(verified, turn.nPast + 1 + Len(acc))
           caughtUp == Processed(kept, <<turn.tok>> \o acc)
           out == Take(Emits(acc), NPredict - Charged(turn.emitted))
       IN
       /\ SetMem([caughtUp EXCEPT !.tokens = @ \o out])
       /\ IF EndsIn(acc, Eog)
            THEN /\ turn' = [turn EXCEPT !.emitted = @ \o out]
                 /\ pc' = "finish" /\ outcome' = "ok"
            ELSE /\ \E t \in Sampled(turn.emitted \o out) :
                      turn' = [turn EXCEPT !.emitted = @ \o out, !.tok = t,
                                           !.nPast = @ + 1 + Len(acc)]
                 /\ pc' = "gen" /\ UNCHANGED outcome
  BY <1>30, Zenon
<1>2. UNCHANGED <<mode, ctxSize, history, before>>
  BY DEF Decode
<1>3. /\ DataInv /\ Mirrored /\ ~Ended /\ kv = ReplayOf /\ turn.nPast = Len(kv)
      /\ turn.tokens = Render(history) /\ mode \in Modes
  BY <1>0, DecodePc DEF DataInv
<1>4. /\ drafts \in Seq(Token) /\ Len(drafts) \in Nat /\ Len(drafts) <= DraftMax
      /\ Len(drafts) <= NPredict - Charged(turn.emitted) - 1
      /\ Charged(turn.emitted) \in Int /\ NPredict \in Nat
      /\ Len(drafts) > 0 => SpecOn
  BY <1>3, DraftsFit, LenProperties, ModeFacts
<1>5. PICK k \in 0..Len(drafts) : acc = Take(drafts, k)
  BY DEF Accepted
<1>6. acc \in Seq(Token) /\ Len(acc) = k /\ k \in Nat
  BY <1>4, <1>5, TakeKeeps
<1> DEFINE one == <<turn.tok>>
           batch == one \o drafts
           verified == Decoded(Mem, batch)
           keep == turn.nPast + 1 + Len(acc)
           kept == Kept(verified, keep)
           confirmed == one \o acc
           caughtUp == Processed(kept, confirmed)
           out == Take(Emits(acc), NPredict - Charged(turn.emitted))
           settled == [caughtUp EXCEPT !.tokens = @ \o out]
<1>7. /\ SetMem(settled)
      /\ IF EndsIn(acc, Eog)
           THEN /\ turn' = [turn EXCEPT !.emitted = @ \o out]
                /\ pc' = "finish" /\ outcome' = "ok"
           ELSE /\ \E t \in Sampled(turn.emitted \o out) :
                     turn' = [turn EXCEPT !.emitted = @ \o out, !.tok = t,
                                          !.nPast = @ + 1 + Len(acc)]
                /\ pc' = "gen" /\ UNCHANGED outcome
  BY <1>1
<1>8. one \in Seq(Token) /\ Len(one) = 1
  BY <1>3, DataFacts
<1> HIDE DEF one
<1>9. batch \in Seq(Token) /\ Len(batch) = 1 + Len(drafts)
  BY <1>4, <1>8, ConcatProperties
<1>10. confirmed \in Seq(Token) /\ Len(confirmed) = 1 + k
  <2>1. acc \in Seq(Token) /\ Len(acc) = k
    BY <1>6
  <2>2. one \o acc \in Seq(Token) /\ Len(one \o acc) = Len(one) + Len(acc)
    BY <1>8, <2>1, TokensJoin
  <2> QED BY <1>8, <2>1, <2>2
<1>11. Take(batch, 1 + k) = confirmed
  BY <1>4, <1>5, <1>6, <1>8, TakeJoin
<1> HIDE DEF batch, confirmed
<1>12. /\ Mem \in MemType /\ Mem.kv = kv /\ Mem.draft = draftKv /\ Mem.tokens = kvTokens
       /\ kv \in Seq(Token) /\ Len(kv) \in Nat /\ kvTokens = kv /\ (Mtp => draftKv = kv)
  BY <1>3, DataFacts DEF DataInv, Mirrored
<1>13. Len(batch) <= mode.ubatch
  <2>1. CASE Len(drafts) = 0
    BY <1>3, <1>9, <2>1, ModeFacts
  <2>2. CASE Len(drafts) > 0
    BY <1>3, <1>4, <1>9, <2>2, ModeFacts DEF SpecOn
  <2> QED BY <1>4, <2>1, <2>2
<1>14. /\ verified \in MemType /\ verified.kv = kv \o batch /\ verified.draft = draftKv
       /\ verified.tokens = kv /\ verified.last = Len(batch)
  <2>1. Len(batch) > 0
    BY <1>4, <1>9
  <2>2. /\ verified \in MemType /\ verified.kv = Mem.kv \o batch /\ verified.draft = Mem.draft
        /\ verified.tokens = Mem.tokens /\ verified.last = Len(batch)
    BY <1>3, <1>9, <1>12, <1>13, <2>1, DecodedIs
  <2> QED BY <1>12, <2>2
<1> HIDE DEF verified
<1>15. /\ keep = Len(kv) + (1 + k) /\ keep \in Nat
       /\ Len(verified.kv) = Len(kv) + Len(batch)
       /\ Take(kv \o batch, keep) = kv \o confirmed
  <2>1. keep = Len(kv) + (1 + k) /\ keep \in Nat
    BY <1>3, <1>6, <1>12
  <2>2. Len(verified.kv) = Len(kv) + Len(batch)
    <3>1. batch \in Seq(Token) /\ kv \in Seq(Token)
      BY <1>9, <1>12
    <3>2. Len(kv \o batch) = Len(kv) + Len(batch)
      BY <3>1, TokensJoin
    <3> QED BY <1>14, <3>2
  <2>3. Take(kv \o batch, Len(kv) + (1 + k)) = kv \o Take(batch, 1 + k)
    <3>1. batch \in Seq(Token) /\ kv \in Seq(Token) /\ 1 + k \in Nat
      BY <1>6, <1>9, <1>12
    <3> QED BY <3>1, TokensJoin
  <2> QED BY <1>11, <2>1, <2>2, <2>3
<1> HIDE DEF keep
<1>16. /\ kept \in MemType /\ kept.kv = kv \o confirmed /\ kept.draft = draftKv
       /\ kept.tokens = kv /\ kept.last = 1 + k
  <2>1. CASE Len(drafts) = k
    <3>1. kept = verified
      BY <1>4, <1>9, <1>15, <2>1 DEF Kept
    <3>2. acc = drafts
      BY <1>4, <1>5, <2>1, TakeAll
    <3>3. batch = confirmed
      BY <3>2 DEF batch, confirmed
    <3> HIDE DEF kept
    <3> QED BY <1>9, <1>14, <2>1, <3>1, <3>3
  <2>2. CASE Len(drafts) # k
    <3>1. Len(verified.kv) - keep = Len(drafts) - k /\ Len(drafts) - k > 0
          /\ Len(drafts) - k < verified.last
      BY <1>4, <1>5, <1>6, <1>9, <1>12, <1>14, <1>15, <2>2
    <3> DEFINE n == Len(verified.kv) - keep
    <3>2. n \in Int /\ ~(n <= 0) /\ verified.last \in Int /\ ~(n >= verified.last) /\ n < verified.last
          /\ verified.last - n = 1 + k
      BY <1>4, <1>6, <1>9, <1>14, <3>1
    <3>3. kept = [verified EXCEPT !.kv = Take(verified.kv, keep), !.last = 1 + k]
      <4>1. kept = IF n <= 0 THEN verified
                   ELSE [verified EXCEPT !.kv = IF mode.memory = "snapshots" /\ keep > 0 /\ n >= verified.last
                                                  THEN [i \in 1..keep |-> Wrong] ELSE Take(verified.kv, keep),
                                         !.last = IF n < verified.last THEN verified.last - n ELSE 0]
        BY DEF Kept
      <4> HIDE DEF kept, n
      <4> QED BY <3>2, <4>1
    <3> HIDE DEF kept, n
    <3>4. Take(verified.kv, keep) = kv \o confirmed /\ 1 + k \in Int
      BY <1>6, <1>14, <1>15
    <3>5. kv \o confirmed \in Seq(Token)
      BY <1>10, <1>12, ConcatProperties
    <3> QED BY <1>14, <3>3, <3>4, <3>5 DEF MemType
  <2> QED BY <2>1, <2>2
<1> HIDE DEF kept
<1>17. /\ caughtUp \in MemType /\ caughtUp.kv = kv \o confirmed /\ caughtUp.tokens = kv
       /\ caughtUp.last = 1 + k /\ (Mtp => caughtUp.draft = kv \o confirmed)
  <2>1. /\ caughtUp \in MemType /\ caughtUp.kv = kept.kv /\ caughtUp.tokens = kept.tokens
        /\ caughtUp.last = kept.last /\ (Mtp => caughtUp.draft = kept.draft \o confirmed)
    BY <1>10, <1>16, ProcessedIs
  <2> QED BY <1>12, <1>16, <2>1
<1> HIDE DEF caughtUp
<1>18. out \in Seq(Token) /\ confirmed = IF EndsIn(acc, Eog) THEN out \o <<Eog>> ELSE out
  <2> DEFINE budget == NPredict - Charged(turn.emitted)
  <2>1. budget \in Nat /\ k + 1 <= budget
    BY <1>4, <1>5, <1>6
  <2>2. out = Take(Emits(acc), budget)
    OBVIOUS
  <2> HIDE DEF budget, out
  <2>3. CASE EndsIn(acc, Eog)
    <3>1. acc # << >> /\ Last(acc) = Eog /\ Emits(acc) = one \o Front(acc)
      BY <2>3 DEF EndsIn, Emits, one
    <3>2. /\ Front(acc) \in Seq(Token) /\ Front(acc) \o <<Eog>> = acc
          /\ Len(acc) = Len(Front(acc)) + 1 /\ Eog \in Token
      BY <1>6, <3>1, FrontAndLast
    <3>3. Emits(acc) \in Seq(Token) /\ Len(Emits(acc)) = 1 + Len(Front(acc)) /\ Len(Front(acc)) \in Nat
      <4>1. Len(one \o Front(acc)) = Len(one) + Len(Front(acc)) /\ one \o Front(acc) \in Seq(Token)
        BY <1>8, <3>2, ConcatProperties
      <4>2. Len(Front(acc)) \in Nat
        BY <3>2, LenProperties
      <4> QED BY <1>8, <3>1, <4>1, <4>2
    <3>4. out = Emits(acc)
      BY <1>6, <2>1, <2>2, <3>2, <3>3, TakeAll
    <3>5. (one \o Front(acc)) \o <<Eog>> = one \o (Front(acc) \o <<Eog>>)
      <4> DEFINE f == Front(acc)
                 e == <<Eog>>
      <4>1. one \in Seq(Token) /\ f \in Seq(Token) /\ e \in Seq(Token)
        BY <1>8, <3>2
      <4> HIDE DEF f, e
      <4>2. (one \o f) \o e = one \o (f \o e)
        BY <4>1, TokensJoin
      <4> QED BY <4>2 DEF f, e
    <3>6. confirmed = out \o <<Eog>>
      BY <3>1, <3>2, <3>4, <3>5 DEF confirmed
    <3> QED BY <2>3, <3>3, <3>4, <3>6
  <2>4. CASE ~EndsIn(acc, Eog)
    <3>1. Emits(acc) = confirmed
      BY <2>4 DEF Emits, one, confirmed
    <3>2. out = confirmed
      BY <1>6, <1>10, <2>1, <2>2, <3>1, TakeAll
    <3> QED BY <1>10, <2>4, <3>2
  <2> QED BY <2>3, <2>4
<1> HIDE DEF out
<1>19. kv \o out \in Seq(Token) /\ turn.emitted \o out \in Seq(Token)
       /\ turn.tokens \o (turn.emitted \o out) = kv \o out
  <2>1. turn.emitted \in Seq(Token) /\ turn.tokens \in Seq(Token) /\ out \in Seq(Token)
    BY <1>3, <1>18, DataFacts
  <2>2. (turn.tokens \o turn.emitted) \o out = turn.tokens \o (turn.emitted \o out)
    <3> DEFINE s == turn.tokens
               t == turn.emitted
    <3>1. s \in Seq(Token) /\ t \in Seq(Token)
      BY <2>1
    <3> HIDE DEF s, t
    <3>2. (s \o t) \o out = s \o (t \o out)
      <4>1. out \in Seq(Token)
        BY <2>1
      <4> QED BY <3>1, <4>1, TokensJoin
    <3> QED BY <3>2 DEF s, t
  <2>3. kv = turn.tokens \o turn.emitted
    BY <1>3 DEF ReplayOf
  <2>4. kv \o out \in Seq(Token) /\ turn.emitted \o out \in Seq(Token)
    BY <1>12, <1>18, <2>1, ConcatProperties
  <2> QED BY <2>2, <2>3, <2>4
<1>20. /\ settled \in MemType /\ settled.kv = kv \o confirmed /\ settled.tokens = kv \o out
       /\ settled.last = 1 + k /\ (Mtp => settled.draft = kv \o confirmed)
  BY <1>17, <1>19 DEF MemType
<1> HIDE DEF settled
<1>21. /\ Mem' \in MemType /\ kv' = kv \o confirmed /\ kvTokens' = kv \o out
       /\ lastDecode' = 1 + k /\ (Mtp => draftKv' = kv')
  BY <1>7, <1>20, SetMemIs
<1>22. CASE EndsIn(acc, Eog)
  <2>1. /\ turn' = [turn EXCEPT !.emitted = @ \o out]
        /\ pc' = "finish" /\ outcome' = "ok"
    BY <1>7, <1>22
  <2>2. /\ turn' \in Turn /\ turn'.tokens = turn.tokens /\ turn'.emitted = turn.emitted \o out
        /\ turn'.budget = turn.budget
    BY <1>3, <1>19, <2>1 DEF DataInv, Turn
  <2>3. DataInv'
    BY <1>2, <1>3, <1>21, <2>2 DEF DataInv
  <2>4. kvTokens' = ReplayOf'
    BY <1>19, <1>21, <2>2 DEF ReplayOf
  <2>5. kv' = kvTokens' \o <<Eog>>
    <3>1. <<Eog>> \in Seq(Token)
      BY DEF Token
    <3>2. kv \o (out \o <<Eog>>) = (kv \o out) \o <<Eog>>
      BY <1>12, <1>18, <3>1, TokensJoin
    <3> QED BY <1>18, <1>21, <1>22, <3>2
  <2>6. lastDecode' > 1 /\ SpecOn'
    <3>1. k > 0
      <4>1. acc # << >>
        BY <1>22 DEF EndsIn
      <4> QED BY <1>6, <4>1, EmptySeq
    <3>2. SpecOn
      BY <1>4, <1>5, <1>6, <3>1
    <3> QED BY <1>2, <1>6, <1>21, <2>2, <3>1, <3>2 DEF SpecOn, Budgeted
  <2>7. Overshot'
    BY <1>2, <1>21, <2>5, <2>6 DEF Overshot, Mtp
  <2>8. MirrorInv' /\ TextInv'
    BY <2>1, <2>4, <2>7 DEF MirrorInv, TextInv
  <2> QED BY <2>3, <2>8 DEF KvInv
<1>23. CASE ~EndsIn(acc, Eog)
  <2>1. PICK t \in Sampled(turn.emitted \o out) :
          turn' = [turn EXCEPT !.emitted = @ \o out, !.tok = t, !.nPast = @ + 1 + Len(acc)]
    BY <1>7, <1>23
  <2>2. pc' = "gen"
    BY <1>7, <1>23
  <2>3. t \in Token
    BY <2>1 DEF Sampled, Token
  <2>4. turn.nPast + 1 + Len(acc) \in Nat
    BY <1>15 DEF keep
  <2>5. /\ turn' \in Turn /\ turn'.tokens = turn.tokens /\ turn'.emitted = turn.emitted \o out
        /\ turn'.nPast = turn.nPast + 1 + Len(acc)
    BY <1>3, <1>19, <2>1, <2>3, <2>4 DEF DataInv, Turn
  <2>6. DataInv'
    BY <1>2, <1>3, <1>21, <2>5 DEF DataInv
  <2>7. kv' = kvTokens' /\ kv' = ReplayOf'
    BY <1>18, <1>19, <1>21, <1>23, <2>5 DEF ReplayOf
  <2>8. Mirrored'
    BY <1>2, <1>21, <2>7 DEF Mirrored, Mtp
  <2>9. turn'.nPast = Len(kv')
    <3>1. Len(kv \o confirmed) = Len(kv) + Len(confirmed)
      BY <1>10, <1>12, ConcatProperties
    <3> QED BY <1>3, <1>6, <1>10, <1>12, <1>21, <2>5, <3>1
  <2>10. turn'.tokens = Render(history')
    BY <1>2, <1>3, <2>5
  <2>11. MirrorInv' /\ TextInv'
    BY <2>2, <2>7, <2>8, <2>9, <2>10 DEF MirrorInv, TextInv
  <2> QED BY <2>6, <2>11 DEF KvInv
<1> QED BY <1>22, <1>23
-----------------------------------------------------------------------------
(* Failures, a full context, the replay.                                     *)

\* A decode that fails, or is cancelled, added nothing to the KV that its
\* rollback would not cut off.
LEMMA DecodeFailsKeeps ==
  ASSUME KvInv, DecodeFails
  PROVE  KvInv'
<1>1. Decoding /\ UNCHANGED ctxSize
  BY DEF DecodeFails
<1>2. /\ DataInv /\ Mirrored /\ kv = ReplayOf /\ pc \in {"gen", "decode"}
  BY <1>1, DecodePc
<1>3. CASE cancel
  <2>1. /\ outcome' = "cancelled" /\ pc' = "finish"
        /\ UNCHANGED <<mode, memVars, history, turn, before>>
    BY <1>3 DEF DecodeFails
  <2>2. DataInv' /\ Mirrored' /\ kvTokens' = ReplayOf'
    BY <1>1, <1>2, <2>1 DEF DataInv, Mem, memVars, Mirrored, Mtp, ReplayOf
  <2> QED BY <2>1, <2>2 DEF KvInv, MirrorInv, TextInv
<1>4. CASE ~cancel
  <2>1. Rollback(Mem, "failed")
    BY <1>4 DEF DecodeFails
  <2>2. Mem \in MemType /\ Mem.kv = kv /\ Mem.draft = draftKv /\ Mem.tokens = kvTokens
    BY <1>2, DataFacts DEF DataInv
  <2>3. /\ Take(Mem.kv, turn.common) = Take(Mem.tokens, turn.common)
        /\ Mtp => Take(Mem.draft, turn.common) = Take(Mem.kv, turn.common)
    BY <1>2, <2>2 DEF Mirrored
  <2> QED BY <1>1, <1>2, <2>1, <2>2, <2>3, RollbackKeeps
<1> QED BY <1>3, <1>4

\* A draft context that fails on a verified batch leaves the target ahead: the
\* rollback cuts both, if it reaches back to what they share.
LEMMA DraftFailsKeeps ==
  ASSUME KvInv, RollbackReaches, DraftFails
  PROVE  KvInv'
<1>1. Decoding /\ UNCHANGED ctxSize
  BY DEF DraftFails
<1>2. /\ DataInv /\ Mirrored /\ ~Ended /\ kv = ReplayOf /\ pc \in {"gen", "decode"}
  BY <1>1, DecodePc
<1>3. PICK drafts \in Drafts : \E m \in Undrafted(Mem, <<turn.tok>> \o drafts) : Rollback(m, "failed")
  BY DEF DraftFails
<1> DEFINE batch == <<turn.tok>> \o drafts
<1>4. PICK m \in Undrafted(Mem, batch) : Rollback(m, "failed")
  BY <1>3
<1>5. batch \in Seq(Token)
  <2>1. <<turn.tok>> \in Seq(Token) /\ drafts \in Seq(Token)
    BY <1>2, DataFacts, DraftsFit
  <2> QED BY <2>1, ConcatProperties
<1>6. Mtp
  BY <1>4 DEF Undrafted
<1> HIDE DEF batch
<1>7. Mem \in MemType /\ Mem.kv = kv /\ Mem.draft = draftKv /\ Mem.tokens = kvTokens /\ mode \in Modes
  BY <1>2, DataFacts DEF DataInv
<1>8. /\ m \in MemType /\ m.tokens = kvTokens /\ m.draft = draftKv
      /\ \E part \in Seq(Token) : m.kv = kv \o part
  BY <1>4, <1>5, <1>7, FailedIs
<1>9. PICK part \in Seq(Token) : m.kv = kv \o part
  BY <1>8
<1>10. /\ turn.common \in 0..Len(kv) /\ kv \in Seq(Token) /\ kvTokens = kv /\ draftKv = kv
  BY <1>2, <1>6, DataFacts DEF RollbackReaches, Mirrored
<1>11. Take(m.kv, turn.common) = Take(kv, turn.common)
  BY <1>9, <1>10, TakeHead
<1> QED BY <1>1, <1>2, <1>4, <1>8, <1>10, <1>11, RollbackKeeps

\* The steps that leave the memory alone.
LEMMA GenerateEndsKeeps ==
  ASSUME KvInv, GenerateEnds \/ ContextFills \/ ContextExhausted \/ Cancel \/ UNCHANGED vars
  PROVE  KvInv'
<1>1. /\ UNCHANGED <<mode, ctxSize, memVars, history, before>> /\ DataInv
      /\ \/ UNCHANGED turn
         \/ turn' = [turn EXCEPT !.changed = FALSE, !.tried = FALSE]
  BY DEF GenerateEnds, ContextFills, ContextExhausted, Cancel, vars, KvInv
<1>2. /\ turn' \in Turn /\ turn'.tokens = turn.tokens /\ turn'.emitted = turn.emitted
      /\ turn'.tok = turn.tok /\ turn'.budget = turn.budget /\ turn'.common = turn.common
      /\ turn'.i = turn.i /\ turn'.nPast = turn.nPast
  BY <1>1 DEF DataInv, Turn
<1>3. /\ DataInv' /\ Mirrored' = Mirrored /\ ReplayOf' = ReplayOf /\ Ended' = Ended
      /\ Overshot' = Overshot
  BY <1>1, <1>2 DEF DataInv, Mem, memVars, Mirrored, Mtp, ReplayOf, Ended, Charged, Allowance,
                    Budgeted, Overshot, SpecOn
<1>4. CASE GenerateEnds
  BY <1>1, <1>3, <1>4 DEF GenerateEnds, KvInv, MirrorInv, TextInv, Mirrored, memVars
<1>5. CASE ContextFills
  BY <1>1, <1>3, <1>5 DEF ContextFills, KvInv, MirrorInv, TextInv
<1>6. CASE ContextExhausted
  BY <1>1, <1>3, <1>6 DEF ContextExhausted, KvInv, MirrorInv, TextInv
<1>7. CASE Cancel \/ UNCHANGED vars
  <2>1. UNCHANGED <<pc, outcome, turn>>
    BY <1>7 DEF Cancel, vars
  <2> QED BY <1>1, <1>3, <2>1 DEF KvInv, MirrorInv, TextInv, Mtp, memVars
<1> QED BY <1>4, <1>5, <1>6, <1>7

\* A context that is grown or rebuilt is empty, its records too, and the turn
\* is replayed from its start.
LEMMA ContextGrowsKeeps ==
  ASSUME KvInv, ContextGrows \/ ContextRebuilt
  PROVE  KvInv'
<1>1. /\ pc' = "replay" /\ SetMem(Cleared) /\ UNCHANGED <<mode, history, outcome, before>>
      /\ pc \in {"gen", "regrow"}
  BY DEF ContextGrows, ContextRebuilt, Resize
<1>2. DataInv
  BY DEF KvInv
<1>3. ~Ended
  BY DEF ContextGrows, ContextRebuilt, KvInv, TextInv
<1>4. ctxSize' \in Int
  <2>1. Grown(0) \in Int
    BY <1>2, ModeFacts DEF Grown, Uncapped, Larger, DataInv
  <2> QED BY <1>2, <2>1 DEF ContextGrows, ContextRebuilt, Resize, DataInv
<1>5. /\ turn' \in Turn /\ turn'.i = 0 /\ turn'.tokens = Render(history)
      /\ turn'.emitted = turn.emitted /\ turn'.tok = turn.tok /\ turn'.budget = turn.budget
  <2>1. CASE ContextGrows
    <3>1. turn' = [turn EXCEPT !.i = 0] /\ turn.tokens = Render(history)
      BY <2>1 DEF ContextGrows, KvInv, TextInv
    <3> QED BY <1>2, <3>1 DEF DataInv, Turn
  <2>2. CASE ContextRebuilt
    <3>1. turn' = [turn EXCEPT !.i = 0, !.tokens = Render(history)]
      BY <2>2 DEF ContextRebuilt
    <3>2. Render(history) \in Seq(Token)
      BY <1>2, RenderType DEF DataInv
    <3> QED BY <1>2, <3>1, <3>2 DEF DataInv, Turn
  <2> QED BY <2>1, <2>2
<1>6. /\ Mem' \in MemType /\ kv' = << >> /\ draftKv' = << >> /\ kvTokens' = << >>
  BY <1>1, ClearedType, SetMemIs
<1>7. DataInv'
  BY <1>1, <1>2, <1>4, <1>5, <1>6 DEF DataInv
<1>8. turn'.i <= Len(ReplayOf') /\ kv' = Take(ReplayOf', turn'.i)
  <2>1. ReplayOf' \in Seq(Token)
    <3>1. turn'.tokens \in Seq(Token) /\ turn'.emitted \in Seq(Token)
      BY <1>5 DEF Turn
    <3> QED BY <3>1, ConcatProperties DEF ReplayOf
  <2> DEFINE s == ReplayOf'
  <2>2. s \in Seq(Token)
    BY <2>1
  <2> HIDE DEF s
  <2>3. Take(s, 0) = << >> /\ Len(s) \in Nat
    BY <2>2, TakeNone, LenProperties
  <2> QED BY <1>5, <1>6, <2>3 DEF s
<1>9. ~Ended'
  BY <1>3, <1>5 DEF Ended, Charged, Allowance, Budgeted
<1>10. MirrorInv' /\ TextInv'
  BY <1>1, <1>5, <1>6, <1>8, <1>9 DEF MirrorInv, TextInv
<1> QED BY <1>7, <1>10 DEF KvInv

\* A replay decodes the prompt and what was emitted, then records them.
LEMMA ReplayKeeps ==
  ASSUME KvInv, Replay
  PROVE  KvInv'
<1> DEFINE chunk == Chunk(ReplayOf)
           m == Processed(Decoded(Mem, chunk), chunk)
           more == turn.i + Len(chunk) < Len(ReplayOf)
<1>1. /\ pc = "replay" /\ UNCHANGED <<mode, ctxSize, history, outcome, before>>
      /\ SetMem(IF more THEN m ELSE [m EXCEPT !.tokens = ReplayOf])
      /\ turn' = [turn EXCEPT !.i = IF more THEN @ + Len(chunk) ELSE 0,
                              !.nPast = IF more THEN @ ELSE Len(ReplayOf)]
      /\ pc' = IF more THEN "replay" ELSE "decode"
  BY Zenon DEF Replay
<1>2. /\ DataInv /\ turn.i <= Len(ReplayOf)
      /\ kvTokens = << >> /\ kv = Take(ReplayOf, turn.i) /\ (Mtp => draftKv = kv)
      /\ turn.tokens = Render(history) /\ ~Ended
  BY <1>1 DEF KvInv, MirrorInv, TextInv
<1>3. chunk \in Seq(Token) /\ mode \in Modes
  BY <1>2, DataFacts, ChunkIs DEF DataInv
<1>4. PICK j \in turn.i..Len(ReplayOf) :
        Len(chunk) = j - turn.i /\ Take(ReplayOf, turn.i) \o chunk = Take(ReplayOf, j)
  BY <1>2, DataFacts, ChunkIs
<1> HIDE DEF chunk
<1>5. /\ m \in MemType /\ m.kv = Take(ReplayOf, j) /\ m.tokens = << >>
      /\ Mtp => m.draft = m.kv
  <2>1. Mem \in MemType /\ Mem.kv = kv /\ Mem.draft = draftKv /\ Mem.tokens = kvTokens
    BY <1>2, DataFacts DEF DataInv
  <2>2. /\ Decoded(Mem, chunk) \in MemType /\ Decoded(Mem, chunk).kv = Take(ReplayOf, j)
        /\ Decoded(Mem, chunk).draft = draftKv /\ Decoded(Mem, chunk).tokens = kvTokens
    <3>1. /\ Decoded(Mem, chunk) \in MemType /\ Decoded(Mem, chunk).kv = Mem.kv \o chunk
          /\ Decoded(Mem, chunk).draft = Mem.draft /\ Decoded(Mem, chunk).tokens = Mem.tokens
      BY <1>3, <2>1, DecodedIs
    <3>2. Mem.kv \o chunk = Take(ReplayOf, j)
      BY <1>2, <1>4, <2>1
    <3> QED BY <2>1, <3>1, <3>2
  <2> DEFINE d == Decoded(Mem, chunk)
  <2>3. d \in MemType /\ m = Processed(d, chunk)
    BY <2>2
  <2> HIDE DEF d, m
  <2>4. /\ m \in MemType /\ m.kv = d.kv /\ m.tokens = d.tokens
        /\ Mtp => m.draft = d.draft \o chunk
    BY <1>3, <2>3, ProcessedIs
  <2> QED BY <1>2, <1>4, <2>2, <2>4 DEF d
<1> HIDE DEF m
<1>6. turn.i \in Nat /\ Len(ReplayOf) \in Nat /\ ReplayOf \in Seq(Token)
      /\ turn.i + Len(chunk) = j /\ j \in Nat
  <2>1. turn.i \in Nat /\ ReplayOf \in Seq(Token)
    BY <1>2, DataFacts
  <2>2. Len(ReplayOf) \in Nat
    BY <2>1, LenProperties
  <2> QED BY <1>4, <2>1, <2>2
<1>7. /\ turn' \in Turn /\ turn'.tokens = turn.tokens /\ turn'.emitted = turn.emitted
      /\ turn'.tok = turn.tok /\ turn'.budget = turn.budget
      /\ turn'.i = (IF more THEN j ELSE 0)
      /\ turn'.nPast = (IF more THEN turn.nPast ELSE Len(ReplayOf))
  <2>1. turn' = [turn EXCEPT !.i = IF more THEN j ELSE 0,
                             !.nPast = IF more THEN turn.nPast ELSE Len(ReplayOf)]
    BY <1>1, <1>6
  <2>2. (IF more THEN j ELSE 0) \in Nat /\ (IF more THEN turn.nPast ELSE Len(ReplayOf)) \in Nat
    BY <1>2, <1>6, DataFacts
  <2> HIDE DEF more
  <2> QED BY <1>2, <2>1, <2>2 DEF DataInv, Turn
<1>8. ReplayOf' = ReplayOf /\ ~Ended'
  BY <1>2, <1>7 DEF ReplayOf, Ended, Charged, Allowance, Budgeted
<1>9. CASE more
  <2>1. SetMem(m) /\ pc' = "replay"
    BY <1>1, <1>9
  <2>2. /\ Mem' \in MemType
        /\ kv' = m.kv /\ draftKv' = m.draft /\ kvTokens' = m.tokens
    BY <1>5, <2>1, SetMemIs
  <2>3. DataInv'
    BY <1>1, <1>2, <1>7, <2>2 DEF DataInv
  <2>4. MirrorInv'
    BY <1>1, <1>4, <1>5, <1>6, <1>7, <1>8, <1>9, <2>1, <2>2 DEF MirrorInv, Mtp
  <2>5. TextInv'
    BY <1>1, <1>2, <1>7, <1>8, <2>1 DEF TextInv
  <2> QED BY <2>3, <2>4, <2>5 DEF KvInv
<1>10. CASE ~more
  <2>1. j = Len(ReplayOf)
    BY <1>4, <1>6, <1>10
  <2>2. m.kv = ReplayOf
    BY <1>5, <1>6, <2>1, TakeAll
  <2> DEFINE done == [m EXCEPT !.tokens = ReplayOf]
  <2>3. /\ done \in MemType /\ done.kv = ReplayOf /\ done.tokens = ReplayOf
        /\ Mtp => done.draft = ReplayOf
    BY <1>5, <1>6, <2>2 DEF MemType
  <2>4. SetMem(done) /\ pc' = "decode"
    BY <1>1, <1>10
  <2> HIDE DEF done
  <2>5. /\ Mem' \in MemType
        /\ kv' = ReplayOf /\ (Mtp => draftKv' = ReplayOf) /\ kvTokens' = ReplayOf
    BY <2>3, <2>4, SetMemIs
  <2>6. DataInv'
    BY <1>1, <1>2, <1>7, <2>5 DEF DataInv
  <2>7. MirrorInv'
    BY <1>1, <2>4, <2>5 DEF MirrorInv, Mirrored, Mtp
  <2>8. TextInv'
    BY <1>1, <1>2, <1>7, <1>8, <1>10, <2>4, <2>5 DEF TextInv
  <2> QED BY <2>6, <2>7, <2>8 DEF KvInv
<1> QED BY <1>9, <1>10

\* A replay that fails and leaves nothing in the KV leaves none in the draft
\* and none in the records.
LEMMA ReplayFailsKeeps ==
  ASSUME KvInv, ReplayFails, kv' = << >>
  PROVE  KvInv'
<1> DEFINE chunk == Chunk(ReplayOf)
<1>1. /\ pc = "replay" /\ UNCHANGED ctxSize
      /\ \E m \in Unfinished(Mem, chunk) \cup Undrafted(Mem, chunk) : Rollback(m, "failed")
  BY Zenon DEF ReplayFails
<1>2. /\ DataInv /\ turn.i <= Len(ReplayOf)
      /\ kvTokens = << >> /\ (Mtp => draftKv = kv)
  BY <1>1 DEF KvInv, MirrorInv
<1>3. chunk \in Seq(Token) /\ mode \in Modes
  BY <1>2, DataFacts, ChunkIs DEF DataInv
<1> HIDE DEF chunk
<1>4. PICK m \in Unfinished(Mem, chunk) \cup Undrafted(Mem, chunk) : Rollback(m, "failed")
  BY <1>1
<1>5. Mem \in MemType /\ Mem.kv = kv /\ Mem.draft = draftKv /\ Mem.tokens = kvTokens
      /\ kv \in Seq(Token) /\ draftKv \in Seq(Token) /\ turn.common \in Nat
  BY <1>2, DataFacts DEF DataInv
<1>6. /\ m \in MemType /\ m.tokens = << >> /\ m.draft = draftKv
      /\ \E part \in Seq(Token) : m.kv = kv \o part
  BY <1>2, <1>3, <1>5, FailedIs
<1>7. PICK part \in Seq(Token) : m.kv = kv \o part
  BY <1>6
<1> DEFINE r == Truncated(m, turn.common, turn.common, FALSE)
<1>8. SetMem(r) /\ history' = PriorHistory /\ EndTurn("failed")
  BY <1>4 DEF Rollback, RolledBack
<1>9. /\ r \in MemType
      /\ \/ r = Cleared
         \/ /\ r.kv = Take(m.kv, turn.common) /\ r.draft = Take(m.draft, turn.common)
            /\ r.tokens = Take(m.tokens, turn.common)
  <2>1. m \in MemType /\ turn.common \in Nat
    BY <1>5, <1>6
  <2> QED BY <2>1, RolledBackIs
<1> HIDE DEF r
<1>10. r.kv = << >>
  BY <1>8, <1>9, SetMemIs
<1>11. Take(<< >>, turn.common) = << >>
  <2> DEFINE e == << >>
             k == turn.common
  <2>1. e \in Seq(Token) /\ Len(e) = 0 /\ k \in Nat
    BY <1>5, EmptySeq
  <2> HIDE DEF e, k
  <2>2. Len(e) <= k
    BY <2>1
  <2>3. Take(e, k) = e
    BY <2>1, <2>2, TakeAll
  <2> QED BY <2>3 DEF e, k
<1>12. r.tokens = << >>
  BY <1>6, <1>9, <1>11, ClearedType
<1>13. Mtp => r.draft = << >>
  <2>1. CASE r = Cleared
    BY <2>1, ClearedType
  <2>2. CASE /\ r.kv = Take(m.kv, turn.common) /\ r.draft = Take(m.draft, turn.common)
    <3>1. CASE turn.common = 0
      BY <1>5, <1>6, <2>2, <3>1, TakeNone
    <3>2. CASE turn.common # 0
      <4>1. m.kv \in Seq(Token) /\ Len(m.kv) \in Nat
        BY <1>6, LenProperties DEF MemType
      <4>2. Len(m.kv) = 0
        <5>1. Len(Take(m.kv, turn.common)) = 0
          BY <1>10, <2>2, EmptySeq
        <5> QED BY <1>5, <3>2, <4>1, <5>1, TakeKeeps
      <4>3. Len(kv) = 0
        <5>1. Len(kv) \in Nat /\ Len(part) \in Nat /\ Len(m.kv) = Len(kv) + Len(part)
          BY <1>5, <1>7, ConcatProperties, LenProperties
        <5> QED BY <4>2, <5>1
      <4>4. kv = << >>
        BY <1>5, <4>3, EmptySeq
      <4> QED BY <1>2, <1>6, <1>11, <2>2, <4>4
    <3> QED BY <3>1, <3>2
  <2> QED BY <1>9, <2>1, <2>2
<1>14. history' \in Seq(Message) /\ ctxSize' \in Int
  BY <1>1, <1>2, <1>8, PriorHistoryType DEF DataInv
<1> QED BY <1>2, <1>8, <1>9, <1>10, <1>12, <1>13, <1>14, EndedKeeps
-----------------------------------------------------------------------------
(* The end of a turn, and every step.                                        *)

\* At the end of a turn the KV is cut to what was emitted: the one token it may
\* be ahead is within the last ubatch, so that no memory refuses.
LEMMA TrimmedIs ==
  ASSUME KvInv, pc = "finish", outcome # "exhausted"
  PROVE  /\ Trimmed \in MemType /\ Trimmed.kv = Trimmed.tokens
         /\ Mtp => Trimmed.draft = Trimmed.kv
<1>1. DataInv /\ kvTokens = ReplayOf /\ (Mirrored \/ Overshot)
  BY DEF KvInv, MirrorInv
<1>2. /\ Mem \in MemType /\ Mem.kv = kv /\ Mem.draft = draftKv /\ Mem.tokens = kvTokens
      /\ Mem.last = lastDecode /\ lastDecode \in Int
      /\ kv \in Seq(Token) /\ kvTokens \in Seq(Token)
  BY <1>1, DataFacts DEF DataInv
<1>3. CASE ~SpecOn
  <2>1. Mirrored /\ Trimmed = Mem
    BY <1>1, <1>3 DEF Overshot, Trimmed
  <2> QED BY <1>2, <2>1 DEF Mirrored
<1>4. CASE SpecOn
  <2> DEFINE end == EmittedEnd
             r == Truncated(Mem, end, Len(kvTokens), TRUE)
  <2>1. end = Len(kvTokens) /\ end \in Nat
    BY <1>1, DataFacts DEF EmittedEnd
  <2>2. Trimmed = r
    BY <1>4 DEF Trimmed
  <2>3. Take(kvTokens, end) = kvTokens
    BY <1>2, <2>1, TakeAll
  <2> HIDE DEF end
  <2>4. /\ Take(kv, end) = kvTokens
        /\ Len(kv) <= end \/ Len(kv) - end < lastDecode
        /\ Mtp => draftKv = kv
    <3>1. CASE Mirrored
      BY <2>1, <2>3, <3>1 DEF Mirrored
    <3>2. CASE Overshot
      <4> DEFINE e == <<Eog>>
      <4>1. e \in Seq(Token) /\ Len(e) = 1 /\ kv = kvTokens \o e /\ lastDecode > 1
            /\ (Mtp => draftKv = kv)
        BY <3>2 DEF Overshot, Token
      <4> HIDE DEF e
      <4>2. Len(kv) = end + 1
        <5>1. Len(kvTokens \o e) = Len(kvTokens) + Len(e)
          BY <1>2, <4>1, ConcatProperties
        <5> QED BY <2>1, <4>1, <5>1
      <4>3. Take(kv, end) = Take(kvTokens, end)
        <5>1. end \in 0..Len(kvTokens)
          BY <2>1
        <5> QED BY <1>2, <4>1, <5>1, TakeHead
      <4> QED BY <1>2, <2>1, <2>3, <4>1, <4>2, <4>3
    <3> QED BY <1>1, <3>1, <3>2
  <2>5. /\ r \in MemType
        /\ \/ r = Cleared
           \/ /\ r.kv = Take(Mem.kv, end) /\ r.draft = Take(Mem.draft, end)
              /\ r.tokens = Take(Mem.tokens, Len(kvTokens))
    BY <1>2, <2>1, <2>4, TruncatedIs
  <2> HIDE DEF r
  <2> QED BY <1>2, <2>1, <2>2, <2>3, <2>4, <2>5, ClearedType
<1> QED BY <1>3, <1>4

\* The end of a turn: cleared, rolled back, or trimmed and its reply added.
LEMMA FinishKeeps ==
  ASSUME KvInv, Finish
  PROVE  KvInv'
<1>1. pc = "finish" /\ UNCHANGED ctxSize /\ DataInv
  BY DEF Finish, KvInv
<1>2. CASE outcome = "exhausted"
  <2>1. SetMem(Cleared) /\ history' = PriorHistory /\ EndTurn("exhausted")
    BY <1>2 DEF Finish
  <2>2. history' \in Seq(Message) /\ ctxSize' \in Int
    BY <1>1, <2>1, PriorHistoryType DEF DataInv
  <2> QED BY <1>1, <2>1, <2>2, ClearedType, EndedKeeps
<1>3. CASE outcome # "exhausted"
  <2>1. /\ Trimmed \in MemType /\ Trimmed.kv = Trimmed.tokens
        /\ Mtp => Trimmed.draft = Trimmed.kv
    BY <1>1, <1>3, TrimmedIs
  <2>2. CASE outcome = "cancelled"
    <3>1. Rollback(Trimmed, "cancelled")
      BY <2>2 DEF Finish
    <3>2. /\ Take(Trimmed.kv, turn.common) = Take(Trimmed.tokens, turn.common)
          /\ Mtp => Take(Trimmed.draft, turn.common) = Take(Trimmed.kv, turn.common)
      BY <2>1
    <3> QED BY <1>1, <2>1, <3>1, <3>2, RollbackKeeps
  <2>3. CASE outcome # "cancelled"
    <3>1. SetMem(Trimmed) /\ history' = Append(history, Reply(turn.emitted)) /\ EndTurn("ok")
      BY <1>3, <2>3 DEF Finish
    <3>2. Append(history, Reply(turn.emitted)) \in Seq(Message)
      <4>1. history \in Seq(Message) /\ Reply(turn.emitted) \in Message
        BY <1>1, DataFacts, ReplyType DEF DataInv
      <4> QED BY <4>1, AppendProperties
    <3>3. history' \in Seq(Message) /\ ctxSize' \in Int
      BY <1>1, <3>1, <3>2 DEF DataInv
    <3> QED BY <1>1, <2>1, <3>1, <3>3, EndedKeeps
  <2> QED BY <2>2, <2>3
<1> QED BY <1>2, <1>3

\* A replay that fails leaves no position in the KV.  The code does not ensure
\* it: that is the defect the run session_replay_failed shows.
FailedReplayLeavesNothing == [][ReplayFails => kv' = << >>]_vars

\* Every step keeps the invariant, given the two conditions.
LEMMA KvNext ==
  ASSUME KvInv, RollbackReaches, [Next]_vars, [ReplayFails => kv' = << >>]_vars
  PROVE  KvInv'
<1>1. CASE \E u \in Prompts, clear \in BOOLEAN : Generate(u, clear)
  BY <1>1, GenerateKeeps
<1>2. CASE \E n \in Texts : Perplexity(n)
  BY <1>2, PerplexityKeeps
<1>3. CASE Serve
  <2>1. CASE RoomGrow \/ RoomSummarize \/ RoomTrim
    BY <2>1, RoomKeeps
  <2>2. CASE Refuse
    BY <2>2, RefuseKeeps
  <2>3. CASE Admit
    BY <2>3, AdmitKeeps
  <2>4. CASE Prefill
    BY <2>4, PrefillKeeps
  <2>5. CASE PrefillFails
    BY <2>5, PrefillFailsKeeps
  <2>6. CASE Decode
    BY <2>6, DecodeKeeps
  <2>7. CASE DecodeFails
    BY <2>7, DecodeFailsKeeps
  <2>8. CASE DraftFails
    BY <2>8, DraftFailsKeeps
  <2>9. CASE GenerateEnds \/ ContextFills \/ ContextExhausted
    BY <2>9, GenerateEndsKeeps
  <2>10. CASE ContextGrows \/ ContextRebuilt
    BY <2>10, ContextGrowsKeeps
  <2>11. CASE Replay
    BY <2>11, ReplayKeeps
  <2>12. CASE ReplayFails
    <3>1. kv' = << >> \/ UNCHANGED vars
      BY <2>12
    <3> QED BY <2>12, <3>1, ReplayFailsKeeps, GenerateEndsKeeps
  <2>13. CASE Finish
    BY <2>13, FinishKeeps
  <2>14. CASE Score
    BY <2>14, ScoreKeeps
  <2>15. CASE ScoreEnds
    BY <2>15, ScoreEndsKeeps
  <2> QED BY <1>3, <2>1, <2>2, <2>3, <2>4, <2>5, <2>6, <2>7, <2>8, <2>9, <2>10, <2>11, <2>12,
             <2>13, <2>14, <2>15 DEF Serve
<1>4. CASE Cancel \/ UNCHANGED vars
  BY <1>4, GenerateEndsKeeps
<1> QED BY <1>1, <1>2, <1>3, <1>4 DEF Next

\* KvMirrorsRecords for any memory, drafts, context policy, failures and
\* cancels: between turns and between decodes the KV holds what its records say
\* and the draft context the same, unless a replay fails after it decoded, or
\* a rebuilt context is shorter than the prefix its turn would roll back to.
THEOREM KvAndRecordsAgree ==
  Spec /\ []RollbackReaches /\ FailedReplayLeavesNothing => []KvMirrorsRecords
<1>1. KvInv => KvMirrorsRecords
  BY DEF KvInv, MirrorInv, Mirrored, KvMirrorsRecords
<1>2. KvInv /\ RollbackReaches /\ [Next]_vars /\ [ReplayFails => kv' = << >>]_vars => KvInv'
  BY KvNext
<1> QED BY <1>1, <1>2, KvInit, PTL DEF Spec, FailedReplayLeavesNothing

\* GeneratesFromConversation under the same conditions: whatever was reused,
\* replayed or drafted, each token is sampled behind the rendered prompt and the
\* tokens emitted since.
THEOREM SamplesFollowTheConversation ==
  Spec /\ []RollbackReaches /\ FailedReplayLeavesNothing => []GeneratesFromConversation
<1>1. KvInv => GeneratesFromConversation
  BY DEF KvInv, TextInv, ReplayOf, GeneratesFromConversation
<1>2. KvInv /\ RollbackReaches /\ [Next]_vars /\ [ReplayFails => kv' = << >>]_vars => KvInv'
  BY KvNext
<1> QED BY <1>1, <1>2, KvInit, PTL DEF Spec, FailedReplayLeavesNothing
-----------------------------------------------------------------------------
(* A context that keeps its size.                                            *)

\* A context that is never resized is never replayed, and a turn rolls back to
\* a prefix of its own prompt.
FixedInv ==
  /\ pc \notin {"replay", "decode"} /\ ~turn.changed
  /\ pc = "gen" => turn.common <= Len(turn.tokens)

\* The steps of a turn keep that.
LEMMA FixedServe ==
  ASSUME KvInv, FixedInv, Serve, ~PolicyOn
  PROVE  FixedInv'
<1>0. turn \in Turn /\ ~turn.changed /\ pc \notin {"replay", "decode"}
  BY DEF KvInv, DataInv, FixedInv
<1>1. ~RoomGrow /\ ~RoomSummarize /\ ~RoomTrim /\ ~ContextGrows /\ ~ContextRebuilt
  BY <1>0 DEF RoomGrow, RoomSummarize, RoomTrim, Crowded, ContextGrows, ContextRebuilt, MayGrow,
              PolicyOn
<1>2. ASSUME pc' = "idle" /\ turn' = NoTurn PROVE FixedInv'
  BY <1>2 DEF FixedInv, NoTurn
<1>3. CASE Admit
  <2>1. \/ \E how : EndTurn(how)
        \/ pc' = "prefill" /\ \E s, n : turn' = [turn EXCEPT !.tokens = s, !.common = n, !.i = n]
    BY <1>3, Zenon DEF Admit
  <2>2. CASE \E how : EndTurn(how)
    BY <1>2, <2>2 DEF EndTurn
  <2>3. CASE pc' = "prefill" /\ \E s, n : turn' = [turn EXCEPT !.tokens = s, !.common = n, !.i = n]
    BY <1>0, <2>3 DEF FixedInv, Turn
  <2> QED BY <2>1, <2>2, <2>3
<1>4. CASE Prefill
  <2>1. /\ pc = "prefill"
        /\ \/ UNCHANGED pc /\ \E k : turn' = [turn EXCEPT !.i = k]
           \/ pc' = "gen" /\ \E t, k : turn' = [turn EXCEPT !.tok = t, !.i = 0, !.nPast = k]
    BY <1>4, Zenon DEF Prefill
  <2>2. turn.common <= Len(turn.tokens)
    <3>1. turn.common <= turn.i /\ turn.i <= Len(turn.tokens) /\ DataInv
      BY <2>1 DEF KvInv, MirrorInv
    <3> QED BY <3>1, DataFacts
  <2>3. ~turn'.changed /\ turn'.common = turn.common /\ turn'.tokens = turn.tokens
    BY <1>0, <2>1 DEF Turn
  <2> QED BY <2>1, <2>2, <2>3 DEF FixedInv
<1>5. CASE PrefillFails
  BY <1>2, <1>5 DEF PrefillFails, Rollback, EndTurn
<1>6. CASE Decode
  <2>1. /\ Decoding
        /\ \/ pc' = "finish" /\ \E s : turn' = [turn EXCEPT !.emitted = s]
           \/ pc' = "gen" /\ \E s, t, k : turn' = [turn EXCEPT !.emitted = s, !.tok = t, !.nPast = k]
    BY <1>6, Zenon DEF Decode
  <2>2. ~turn'.changed /\ turn'.common = turn.common /\ turn'.tokens = turn.tokens
    BY <1>0, <2>1 DEF Turn
  <2> QED BY <1>0, <2>1, <2>2 DEF FixedInv, Decoding
<1>7. CASE DecodeFails
  <2>1. CASE cancel
    BY <1>7, <2>1 DEF DecodeFails, FixedInv
  <2>2. CASE ~cancel
    BY <1>2, <1>7, <2>2 DEF DecodeFails, Rollback, EndTurn
  <2> QED BY <2>1, <2>2
<1>8. CASE DraftFails
  BY <1>2, <1>8 DEF DraftFails, Rollback, EndTurn
<1>9. CASE GenerateEnds \/ ContextExhausted
  BY <1>9 DEF GenerateEnds, ContextExhausted, FixedInv
<1>10. CASE ContextFills
  BY <1>0, <1>10 DEF ContextFills, FixedInv, Turn
<1>11. CASE Replay \/ ReplayFails
  BY <1>0, <1>11 DEF Replay, ReplayFails
<1>12. CASE Finish
  BY <1>2, <1>12 DEF Finish, Rollback, EndTurn
<1>13. CASE Score
  <2>1. pc = "score" /\ UNCHANGED pc /\ \E k : turn' = [turn EXCEPT !.i = k]
    BY <1>13, Zenon DEF Score
  <2> QED BY <1>0, <2>1 DEF FixedInv, Turn
<1>14. CASE ScoreEnds
  BY <1>2, <1>14 DEF ScoreEnds
<1>15. CASE Refuse
  BY <1>2, <1>15 DEF Refuse, EndTurn
<1> QED BY <1>1, <1>3, <1>4, <1>5, <1>6, <1>7, <1>8, <1>9, <1>10, <1>11, <1>12, <1>13, <1>14,
           <1>15 DEF Serve

\* So does every step.
LEMMA FixedNext ==
  ASSUME KvInv, FixedInv, [Next]_vars, ~PolicyOn
  PROVE  FixedInv'
<1>1. CASE \E u \in Prompts, clear \in BOOLEAN : Generate(u, clear)
  <2>1. pc' = "room" /\ \E b : turn' = [NoTurn EXCEPT !.budget = b]
    BY <1>1, Zenon DEF Generate
  <2> QED BY <2>1 DEF FixedInv, NoTurn
<1>2. CASE \E n \in Texts : Perplexity(n)
  <2>1. \/ UNCHANGED <<pc, turn>>
        \/ pc' = "score" /\ \E s : turn' = [NoTurn EXCEPT !.tokens = s]
    BY <1>2, Zenon DEF Perplexity
  <2> QED BY <2>1 DEF FixedInv, NoTurn
<1>3. CASE Serve
  BY <1>3, FixedServe
<1>4. CASE Cancel \/ UNCHANGED vars
  BY <1>4 DEF Cancel, vars, FixedInv
<1> QED BY <1>1, <1>2, <1>3, <1>4 DEF Next

\* Without a context policy, as sessions open by default (config.h:422-424),
\* both hold with no condition: nothing is resized, so that nothing is replayed.
THEOREM FixedContextAgrees ==
  ASSUME \A m \in Modes : ~m.grow /\ ~m.trim /\ ~m.summarize
  PROVE  Spec => [](KvMirrorsRecords /\ GeneratesFromConversation)
<1>1. Init => FixedInv
  BY DEF Init, FixedInv, NoTurn
<1>2. KvInv => ~PolicyOn
  BY DEF KvInv, DataInv, PolicyOn
<1>3. KvInv /\ FixedInv => RollbackReaches
  <2> SUFFICES ASSUME KvInv, FixedInv, pc \in {"gen", "decode"}
               PROVE  turn.common <= Len(kvTokens)
    BY DEF RollbackReaches
  <2> DEFINE c == turn.common
             n == Len(turn.tokens)
             e == Len(turn.emitted)
             k == Len(kvTokens)
  <2>1. DataInv /\ c <= n /\ kvTokens = ReplayOf
    BY DEF KvInv, MirrorInv, TextInv, FixedInv, Mirrored
  <2>2. c \in Nat /\ n \in Nat /\ e \in Nat
    BY <2>1, DataFacts
  <2>3. k = n + e
    <3>1. Len(ReplayOf) = n + e
      BY <2>1, DataFacts
    <3> QED BY <2>1, <3>1
  <2> HIDE DEF c, n, e, k
  <2>4. c <= k
    BY <2>1, <2>2, <2>3
  <2> QED BY <2>4 DEF c, k
<1>4. FixedInv => ~ReplayFails
  BY DEF FixedInv, ReplayFails
<1>5. KvInv /\ FixedInv /\ [Next]_vars => KvInv' /\ FixedInv'
  BY <1>2, <1>3, <1>4, KvNext, FixedNext
<1>6. KvInv => KvMirrorsRecords /\ GeneratesFromConversation
  BY DEF KvInv, MirrorInv, TextInv, ReplayOf, Mirrored, KvMirrorsRecords, GeneratesFromConversation
<1> QED BY <1>1, <1>5, <1>6, KvInit, PTL DEF Spec
=============================================================================
