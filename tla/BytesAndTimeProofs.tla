--------------------------- MODULE BytesAndTimeProofs ---------------------------
(***************************************************************************)
(* What can be touched without its neighbours, and that a read returns what *)
(* was asked, for every size, offset, page and alignment.  And what the     *)
(* engine counts is what happened: the stalled time is exact and never      *)
(* shrinks, for any threads and times, and the trace charges each read      *)
(* once, for any batch.                                                     *)
(***************************************************************************)
EXTENDS ModelFile, StallUnion, RouteTrace, FiniteSetTheorems, WellFoundedInduction, TLAPS

(***************************************************************************)
(* Pages and ranges of bytes.                                              *)
(***************************************************************************)

\* Rounding goes to a multiple of the grain, by less than one.
LEMMA DownIsMultiple ==
  ASSUME NEW x \in Int, NEW g \in Nat \ {0}
  PROVE  /\ Down(x, g) \in Int /\ Down(x, g) <= x /\ x < Down(x, g) + g
         /\ Down(x, g) = g * (x \div g)
<1>1. x = g * (x \div g) + (x % g) /\ x % g \in 0..(g - 1) /\ x \div g \in Int
  OBVIOUS
<1> QED BY <1>1 DEF Down

LEMMA UpIsAbove ==
  ASSUME NEW x \in Int, NEW g \in Nat \ {0}
  PROVE  Up(x, g) \in Int /\ x <= Up(x, g) /\ Up(x, g) < x + g
<1>1. x + g - 1 \in Int
  OBVIOUS
<1> QED BY <1>1, DownIsMultiple DEF Up

\* Of two multiples, the greater is a whole grain further.
LEMMA MultiplesApart ==
  ASSUME NEW g \in Nat, NEW p \in Int, NEW q \in Int, p < q
  PROVE  g * p + g <= g * q
<1>1. q - p - 1 \in Nat
  OBVIOUS
<1>2. g * (q - p - 1) \in Nat
  BY <1>1
<1>3. g * (q - p - 1) = g * q - g * p - g
  OBVIOUS
<1> QED BY <1>2, <1>3

\* A multiple that is not above a number is not above what it rounds to.
LEMMA DownKeepsMultiples ==
  ASSUME NEW x \in Int, NEW g \in Nat \ {0}, NEW q \in Int, g * q <= x
  PROVE  g * q <= Down(x, g)
<1> DEFINE p == x \div g
<1>1. p \in Int /\ Down(x, g) = g * p /\ x < g * p + g
  <2>1. x \div g \in Int
    OBVIOUS
  <2>2. Down(x, g) = g * (x \div g) /\ x < Down(x, g) + g
    BY DownIsMultiple
  <2> QED BY <2>1, <2>2
<1> HIDE DEF p
<1>2. ~(p < q)
  <2>1. SUFFICES ASSUME p < q PROVE FALSE
    OBVIOUS
  <2>2. g * p + g <= g * q
    BY <1>1, <2>1, MultiplesApart
  <2>3. g * p \in Int /\ g * q \in Int
    BY <1>1
  <2> QED BY <1>1, <2>2, <2>3
<1>3. p = q \/ q < p
  BY <1>1, <1>2
<1>4. CASE q < p
  <2>1. g * q + g <= g * p
    BY <1>1, <1>4, MultiplesApart
  <2>2. g * p \in Int /\ g * q \in Int
    BY <1>1
  <2> QED BY <1>1, <2>1, <2>2
<1>5. CASE p = q
  BY <1>1, <1>5
<1> QED BY <1>3, <1>4, <1>5

\* What is rounded inward is inside, what is rounded outward outside.
LEMMA RoundedRanges ==
  ASSUME NEW g \in Nat \ {0}, NEW r \in [from : Int, to : Int]
  PROVE  /\ Bytes(Inward(r, g)) \subseteq Bytes(r)
         /\ Bytes(r) \subseteq Bytes(Outward(r, g))
<1>1. r.from \in Int /\ r.to \in Int
  OBVIOUS
<1>2. /\ Up(r.from, g) \in Int /\ r.from <= Up(r.from, g)
      /\ Up(r.to, g) \in Int /\ r.to <= Up(r.to, g)
  BY <1>1, UpIsAbove
<1>3. /\ Down(r.to, g) \in Int /\ Down(r.to, g) <= r.to
      /\ Down(r.from, g) \in Int /\ Down(r.from, g) <= r.from
  BY <1>1, DownIsMultiple
<1> QED BY <1>1, <1>2, <1>3 DEF Inward, Outward, Bytes

\* The slices of two experts have no byte in common.
LEMMA SlicesApart ==
  ASSUME NEW e \in Nat, NEW f \in Nat, e # f, NEW size \in Nat
  PROVE  Apart(Slice(e, size), Slice(f, size))
<1>1. e * size \in Int /\ f * size \in Int /\ e * size = size * e /\ f * size = size * f
  OBVIOUS
<1>2. CASE e < f
  <2>1. size * e + size <= size * f
    BY <1>2, MultiplesApart
  <2> QED BY <1>1, <2>1 DEF Apart, Bytes, Slice
<1>3. CASE f < e
  <2>1. size * f + size <= size * e
    BY <1>3, MultiplesApart
  <2> QED BY <1>1, <2>1 DEF Apart, Bytes, Slice
<1> QED BY <1>2, <1>3

\* An expert can be read into and evicted without its neighbours: the pages
\* committed for it hold all of it, and those its eviction returns hold no byte
\* of another, however the slices lie on the pages (release_entry_pages).
THEOREM EvictionSparesNeighbours ==
  ASSUME NEW e \in Nat, NEW f \in Nat, e # f, NEW size \in Nat, NEW g \in Nat \ {0}
  PROVE  /\ Bytes(Slice(e, size)) \subseteq Bytes(Committed(e, size, g))
         /\ Apart(Evicted(e, size, g), Slice(f, size))
<1>1. Slice(e, size) \in [from : Int, to : Int]
  BY DEF Slice
<1>2. /\ Bytes(Inward(Slice(e, size), g)) \subseteq Bytes(Slice(e, size))
      /\ Bytes(Slice(e, size)) \subseteq Bytes(Outward(Slice(e, size), g))
  BY <1>1, RoundedRanges
<1>3. Bytes(Slice(e, size)) \cap Bytes(Slice(f, size)) = {}
  BY SlicesApart DEF Apart
<1> QED BY <1>2, <1>3 DEF Apart, Evicted, Committed

\* The slabs of a row table are apart too, with all the pages committed for
\* them, as the slab size is a multiple of the page: none of them is committed,
\* read or evicted with another, each has room for its bytes, and none reaches
\* past the reservation (fetch_slab, evict_to_budget).
THEOREM SlabsAreApart ==
  ASSUME NEW g \in Nat \ {0}, NEW k \in Nat \ {0},
         NEW size \in Nat, NEW span \in Nat, size <= span,
         NEW s \in Nat, s * (g * k) < size, NEW t \in Nat, s # t
  PROVE  LET slab == g * k IN
           /\ Bytes(Slab(s, slab, size)) # {}
           /\ Bytes(Slab(s, slab, size)) \subseteq Bytes(SlabPages(s, slab, size, span, g))
           /\ SlabPages(s, slab, size, span, g).to <= span
           /\ t * slab < size =>
                Apart(SlabPages(s, slab, size, span, g), SlabPages(t, slab, size, span, g))
<1> DEFINE slab == g * k
<1>0. slab \in Nat \ {0}
  OBVIOUS
<1>1. ASSUME NEW u \in Nat, u * slab < size
      PROVE  LET len == SlabLen(u, slab, size) IN
               /\ u * slab \in Nat /\ len \in Nat \ {0} /\ u * slab + len <= size
               /\ Up(len, g) \in Int /\ len <= Up(len, g) /\ Up(len, g) <= slab
  <2> DEFINE len == SlabLen(u, slab, size)
  <2>1. u * slab \in Nat /\ len \in Nat \ {0} /\ u * slab + len <= size /\ len <= slab
    <3>1. u * slab \in Nat
      BY <1>0
    <3> HIDE DEF slab
    <3> QED BY <1>0, <1>1, <3>1 DEF SlabLen, Least
  <2> HIDE DEF len
  <2>2. Up(len, g) \in Int /\ len <= Up(len, g) /\ Up(len, g) < len + g
    BY <2>1, UpIsAbove
  <2>3. Up(len, g) <= slab
    <3> DEFINE q == (len + g - 1) \div g
    <3>1. q \in Int /\ Up(len, g) = g * q
      <4>1. len + g - 1 \in Int
        BY <2>1
      <4>2. (len + g - 1) \div g \in Int
        BY <4>1
      <4> QED BY <4>1, <4>2, DownIsMultiple DEF Up
    <3> HIDE DEF q
    <3>2. g * q < g * k + g
      BY <2>1, <2>2, <3>1
    <3>3. ~(k < q)
      <4>1. k < q => g * k + g <= g * q
        BY <3>1, MultiplesApart
      <4>2. g * q \in Int /\ g * k \in Int
        BY <3>1
      <4> QED BY <3>2, <4>1, <4>2
    <3>4. q < k \/ q = k
      BY <3>1, <3>3
    <3>5. CASE q < k
      <4>1. g * q + g <= g * k
        BY <3>1, <3>5, MultiplesApart
      <4>2. g * q \in Int /\ g * k \in Int
        BY <3>1
      <4> QED BY <3>1, <4>1, <4>2
    <3> QED BY <3>1, <3>4, <3>5
  <2> QED BY <2>1, <2>2, <2>3 DEF len
<1> HIDE DEF slab
<1>2. ASSUME NEW u \in Nat, u * slab < size
      PROVE  LET P == SlabPages(u, slab, size, span, g) IN
               /\ u * slab \in Nat /\ P.from = u * slab
               /\ P.to \in Int /\ P.to <= span /\ P.to <= u * slab + slab
               /\ u * slab + SlabLen(u, slab, size) <= P.to
  <2> DEFINE len == SlabLen(u, slab, size)
  <2>1. /\ u * slab \in Nat /\ len \in Nat \ {0} /\ u * slab + len <= size
        /\ Up(len, g) \in Int /\ len <= Up(len, g) /\ Up(len, g) <= slab
    BY <1>1, <1>2
  <2> HIDE DEF len
  <2>2. SlabPages(u, slab, size, span, g) =
          [from |-> u * slab, to |-> u * slab + Least(Up(len, g), span - u * slab)]
    BY DEF SlabPages, len
  <2> QED BY <1>0, <2>1, <2>2 DEF Least, len
<1>3. s * slab < size
  BY DEF slab
<1>4. LET P == SlabPages(s, slab, size, span, g) IN
        /\ s * slab \in Nat /\ P.from = s * slab
        /\ P.to \in Int /\ P.to <= span /\ P.to <= s * slab + slab
        /\ s * slab + SlabLen(s, slab, size) <= P.to
  BY <1>2, <1>3
<1>5. SlabLen(s, slab, size) \in Nat \ {0}
  BY <1>1, <1>3 DEF slab
<1>6. t * slab < size => Apart(SlabPages(s, slab, size, span, g), SlabPages(t, slab, size, span, g))
  <2>1. SUFFICES ASSUME t * slab < size
                 PROVE  Apart(SlabPages(s, slab, size, span, g), SlabPages(t, slab, size, span, g))
    OBVIOUS
  <2>2. LET P == SlabPages(t, slab, size, span, g) IN
          /\ t * slab \in Nat /\ P.from = t * slab
          /\ P.to \in Int /\ P.to <= span /\ P.to <= t * slab + slab
    BY <1>2, <2>1
  <2>3. s * slab = slab * s /\ t * slab = slab * t
    BY <1>0
  <2>4. CASE s < t
    <3>1. slab * s + slab <= slab * t
      BY <1>0, <2>4, MultiplesApart
    <3> QED BY <1>0, <1>4, <2>2, <2>3, <3>1 DEF Apart, Bytes
  <2>5. CASE t < s
    <3>1. slab * t + slab <= slab * s
      BY <1>0, <2>5, MultiplesApart
    <3> QED BY <1>0, <1>4, <2>2, <2>3, <3>1 DEF Apart, Bytes
  <2> QED BY <2>4, <2>5
<1>7. /\ Bytes(Slab(s, slab, size)) # {}
      /\ Bytes(Slab(s, slab, size)) \subseteq Bytes(SlabPages(s, slab, size, span, g))
      /\ SlabPages(s, slab, size, span, g).to <= span
  <2>1. Slab(s, slab, size).from = s * slab /\ Slab(s, slab, size).to = s * slab + SlabLen(s, slab, size)
    BY DEF Slab
  <2>2. s * slab \in Bytes(Slab(s, slab, size))
    BY <1>4, <1>5, <2>1 DEF Bytes
  <2> QED BY <1>4, <1>5, <2>1, <2>2 DEF Bytes
<1> QED BY <1>6, <1>7 DEF slab

\* Taking a tensor out of the dense ranges takes its bytes out and no other,
\* and ranges that were apart stay so (subtract_range).
THEOREM WithoutIsDifference ==
  ASSUME NEW R \in SUBSET [from : Int, to : Int], NEW a \in Int, NEW b \in Int, a < b
  PROVE  /\ AllBytes(Without(R, a, b)) = AllBytes(R) \ (a..(b - 1))
         /\ (\A q, r \in R : q # r => Apart(q, r)) =>
              \A q, r \in Without(R, a, b) : q # r => Apart(q, r)
<1>1. ASSUME NEW r \in [from : Int, to : Int]
      PROVE  /\ \A q \in Pieces(r, a, b) : q.from \in Int /\ q.to \in Int
             /\ AllBytes(Pieces(r, a, b)) = Bytes(r) \ (a..(b - 1))
             /\ \A p, q \in Pieces(r, a, b) : p # q => Apart(p, q)
  <2>1. r.from \in Int /\ r.to \in Int
    OBVIOUS
  <2>2. CASE b <= r.from \/ a >= r.to
    <3>1. Pieces(r, a, b) = {r}
      BY <2>2 DEF Pieces
    <3>2. AllBytes(Pieces(r, a, b)) = Bytes(r)
      BY <3>1 DEF AllBytes
    <3> QED BY <2>1, <2>2, <3>1, <3>2 DEF Bytes
  <2>3. CASE ~(b <= r.from \/ a >= r.to)
    <3> DEFINE lo == [from |-> r.from, to |-> a]
               hi == [from |-> b, to |-> r.to]
    <3>1. Pieces(r, a, b) = {q \in {lo, hi} : q.from < q.to}
      BY <2>3 DEF Pieces
    <3>2. /\ lo.from = r.from /\ lo.to = a /\ hi.from = b /\ hi.to = r.to
      OBVIOUS
    <3> HIDE DEF lo, hi
    <3>3. ASSUME NEW x \in Int
          PROVE  x \in AllBytes(Pieces(r, a, b)) <=> x \in Bytes(r) \ (a..(b - 1))
      BY <2>1, <2>3, <3>1, <3>2 DEF AllBytes, Bytes
    <3>4. AllBytes(Pieces(r, a, b)) \subseteq Int
      BY <3>1 DEF AllBytes, Bytes
    <3>5. Bytes(r) \subseteq Int
      BY DEF Bytes
    <3>6. Apart(lo, hi) /\ Apart(hi, lo)
      BY <2>1, <3>2 DEF Apart, Bytes
    <3> QED BY <2>1, <3>1, <3>2, <3>3, <3>4, <3>5, <3>6
  <2> QED BY <2>2, <2>3
<1>2. ASSUME NEW x PROVE x \in AllBytes(Without(R, a, b)) <=> x \in AllBytes(R) \ (a..(b - 1))
  <2>1. x \in AllBytes(Without(R, a, b)) <=> \E r \in R : x \in AllBytes(Pieces(r, a, b))
    BY DEF AllBytes, Without
  <2>2. (\E r \in R : x \in AllBytes(Pieces(r, a, b))) <=> (\E r \in R : x \in Bytes(r) \ (a..(b - 1)))
    BY <1>1
  <2> QED BY <2>1, <2>2 DEF AllBytes
<1>3. ASSUME \A q, r \in R : q # r => Apart(q, r),
             NEW p \in Without(R, a, b), NEW q \in Without(R, a, b), p # q
      PROVE  Apart(p, q)
  <2>1. PICK r \in R : p \in Pieces(r, a, b)
    BY DEF Without
  <2>2. PICK u \in R : q \in Pieces(u, a, b)
    BY DEF Without
  <2>3. CASE r = u
    BY <1>1, <1>3, <2>1, <2>2, <2>3
  <2>4. CASE r # u
    <3>1. Bytes(p) \subseteq AllBytes(Pieces(r, a, b)) /\ Bytes(q) \subseteq AllBytes(Pieces(u, a, b))
      BY <2>1, <2>2 DEF AllBytes
    <3>2. AllBytes(Pieces(r, a, b)) \subseteq Bytes(r) /\ AllBytes(Pieces(u, a, b)) \subseteq Bytes(u)
      BY <1>1
    <3>3. Bytes(r) \cap Bytes(u) = {}
      BY <1>3, <2>4 DEF Apart
    <3> QED BY <3>1, <3>2, <3>3 DEF Apart
  <2> QED BY <2>3, <2>4
<1> QED BY <1>2, <1>3

\* Of the marks on a line, those at one side of a point have a nearest.
HighestUpTo(T, x, y) == y <= x /\ \A u \in T : u <= x => u <= y

\* The nearest mark below.
LEMMA NearestBelow ==
  ASSUME NEW T, T \subseteq Int, NEW x \in Int, \E z \in T : z <= x
  PROVE  \E y \in T : HighestUpTo(T, x, y)
<1> DEFINE D == {d \in Nat : x - d \in T}
<1>1. D \subseteq Nat /\ D # {}
  <2> PICK z \in T : z <= x
    OBVIOUS
  <2>1. x - z \in Nat /\ x - (x - z) = z
    OBVIOUS
  <2> QED BY <2>1
<1>2. PICK d \in D : \A c \in D : ~ (<<c, d>> \in OpToRel(<, Nat))
  BY <1>1, NatLessThanWellFounded, WFMin
<1>3. ASSUME NEW u \in T, u <= x PROVE u <= x - d
  <2>1. x - u \in Nat /\ x - (x - u) = u
    BY <1>3
  <2>2. x - u \in D
    BY <2>1
  <2>3. ~(x - u < d)
    BY <1>1, <1>2, <2>1, <2>2 DEF OpToRel
  <2> QED BY <1>1, <2>1, <2>3
<1>4. x - d \in T /\ x - d <= x
  BY <1>1
<1> QED BY <1>3, <1>4 DEF HighestUpTo

LowestFrom(T, x, y) == x <= y /\ \A u \in T : x <= u => y <= u

\* The nearest mark above.
LEMMA NearestAbove ==
  ASSUME NEW T, T \subseteq Int, NEW x \in Int, \E z \in T : x <= z
  PROVE  \E y \in T : LowestFrom(T, x, y)
<1> DEFINE D == {d \in Nat : x + d \in T}
<1>1. D \subseteq Nat /\ D # {}
  <2> PICK z \in T : x <= z
    OBVIOUS
  <2>1. z - x \in Nat /\ x + (z - x) = z
    OBVIOUS
  <2> QED BY <2>1
<1>2. PICK d \in D : \A c \in D : ~ (<<c, d>> \in OpToRel(<, Nat))
  BY <1>1, NatLessThanWellFounded, WFMin
<1>3. ASSUME NEW u \in T, x <= u PROVE x + d <= u
  <2>1. u - x \in Nat /\ x + (u - x) = u
    BY <1>3
  <2>2. u - x \in D
    BY <2>1
  <2>3. ~(u - x < d)
    BY <1>1, <1>2, <2>1, <2>2 DEF OpToRel
  <2> QED BY <1>1, <2>1, <2>3
<1>4. x + d \in T /\ x <= x + d
  BY <1>1
<1> QED BY <1>3, <1>4 DEF LowestFrom

\* The dense ranges of a file are exactly what the experts leave of it: no
\* dense byte goes unread, no expert's byte is read as dense (byte_ranges).
THEOREM GapsAreTheRest ==
  ASSUME NEW n \in Nat, NEW E \in SUBSET [from : 0..n, to : 0..n]
  PROVE  AllBytes(Gaps(E, n)) = (0..(n - 1)) \ AllBytes(E)
<1>1. \A e \in E : e.from \in 0..n /\ e.to \in 0..n
  OBVIOUS
<1> DEFINE Starts == {0} \cup {e.to : e \in E}
           Ends == {n} \cup {e.from : e \in E}
<1>2. Starts \subseteq 0..n /\ Ends \subseteq 0..n
  BY <1>1
<1>3. ASSUME NEW x \in AllBytes(Gaps(E, n)) PROVE x \in (0..(n - 1)) \ AllBytes(E)
  <2>1. PICK r \in Gaps(E, n) : x \in Bytes(r)
    BY DEF AllBytes
  <2>2. r.from \in Starts /\ r.to \in Ends /\ \A e \in E : e.to <= r.from \/ r.to <= e.from
    BY DEF Gaps
  <2>3. r.from \in 0..n /\ r.to \in 0..n
    BY <1>2, <2>2
  <2>4. x \in Int /\ r.from <= x /\ x < r.to
    BY <2>1, <2>3 DEF Bytes
  <2>5. ASSUME NEW e \in E PROVE x \notin Bytes(e)
    BY <1>1, <2>2, <2>3, <2>4 DEF Bytes
  <2> QED BY <2>3, <2>4, <2>5 DEF AllBytes
<1>4. ASSUME NEW x \in 0..(n - 1), x \notin AllBytes(E) PROVE x \in AllBytes(Gaps(E, n))
  <2>1. ASSUME NEW e \in E PROVE e.to <= x \/ x + 1 <= e.from
    BY <1>1, <1>4 DEF AllBytes, Bytes
  <2>2. \E y \in Starts : HighestUpTo(Starts, x, y)
    <3>1. Starts \subseteq Int /\ x \in Int
      BY <1>2
    <3>2. \E z \in Starts : z <= x
      OBVIOUS
    <3> HIDE DEF Starts, Ends
    <3> QED BY <3>1, <3>2, NearestBelow
  <2>3. \E y \in Ends : LowestFrom(Ends, x + 1, y)
    <3>1. Ends \subseteq Int /\ x + 1 \in Int
      BY <1>2
    <3>2. \E z \in Ends : x + 1 <= z
      OBVIOUS
    <3> HIDE DEF Starts, Ends
    <3> QED BY <3>1, <3>2, NearestAbove
  <2>4. PICK a \in Starts : a <= x /\ \A u \in Starts : u <= x => u <= a
    BY <2>2 DEF HighestUpTo
  <2>5. PICK b \in Ends : x + 1 <= b /\ \A u \in Ends : x + 1 <= u => b <= u
    BY <2>3 DEF LowestFrom
  <2> DEFINE r == [from |-> a, to |-> b]
  <2>6. r \in [from : Starts, to : Ends] /\ r.from = a /\ r.to = b
    OBVIOUS
  <2>7. a \in Int /\ b \in Int /\ x \in Int
    BY <1>2
  <2>8. ASSUME NEW e \in E PROVE e.to <= a \/ b <= e.from
    <3>1. e.to \in Starts /\ e.from \in Ends
      OBVIOUS
    <3> QED BY <2>1, <2>4, <2>5, <3>1
  <2> HIDE DEF r, Starts, Ends
  <2>9. r \in Gaps(E, n)
    BY <2>4, <2>5, <2>6, <2>7, <2>8 DEF Gaps, Starts, Ends
  <2>10. x \in Bytes(r)
    BY <2>4, <2>5, <2>6, <2>7 DEF Bytes
  <2> QED BY <2>9, <2>10 DEF AllBytes
<1> QED BY <1>3, <1>4

\* Where a read that is not refused goes: blocks of the direct descriptor that
\* start and end on the alignment, then the rest of the file; both within the
\* window, and what was asked for within both.
ReadsBlocks(off, n, size, g) ==
  LET w == Window(off, n, g)
      bulk == Bulk(off, n, size, g)
      tail == LastBlock(off, n, size, g)
  IN  /\ bulk.from = w.from /\ bulk.to = tail.from /\ tail.to = ReadEnd(off, n, size, g)
      /\ w.from \in Nat /\ w.to \in Int /\ bulk.to \in Int /\ tail.to \in Int
      /\ bulk.from <= bulk.to /\ bulk.to <= tail.to /\ tail.to <= w.to /\ tail.to <= size
      /\ bulk.from <= off /\ off + n <= tail.to
      /\ \E p, q \in Int : bulk.from = g * p /\ bulk.to = g * q

\* Every read that is not refused does.
LEMMA ReadGoes ==
  ASSUME NEW g \in Nat \ {0}, NEW size \in Nat, NEW off \in Nat, NEW n \in Nat \ {0},
         ~Refused(off, n, size)
  PROVE  ReadsBlocks(off, n, size, g)
<1> DEFINE a0 == Down(off, g)
           a1 == Up(off + n, g)
           end == IF size # 0 /\ a1 > size THEN size ELSE a1
           p == off \div g
           q == end \div g
<1>1. Window(off, n, g) = [from |-> a0, to |-> a1]
  BY DEF Window, Outward
<1>2. ReadEnd(off, n, size, g) = end
  BY <1>1 DEF ReadEnd
<1>3. off + n <= size
  BY DEF Refused
<1>4. a0 \in Int /\ a0 <= off /\ off < a0 + g /\ a0 = g * p /\ p \in Int
  <2>1. off \div g \in Int /\ off \in Int
    OBVIOUS
  <2>2. /\ Down(off, g) \in Int /\ Down(off, g) <= off /\ off < Down(off, g) + g
        /\ Down(off, g) = g * (off \div g)
    BY <2>1, DownIsMultiple
  <2> QED BY <2>1, <2>2
<1>5. a1 \in Int /\ off + n <= a1
  <2>1. off + n \in Int
    OBVIOUS
  <2> QED BY <2>1, UpIsAbove
<1>6. a0 \in Nat
  <2>1. g * 0 <= off
    OBVIOUS
  <2>2. g * 0 <= Down(off, g)
    BY <2>1, DownKeepsMultiples
  <2> QED BY <1>4, <2>2
<1> HIDE DEF a0, a1, p
<1>7. end \in Int /\ off + n <= end /\ end <= a1 /\ end <= size
  BY <1>3, <1>5
<1> HIDE DEF end
<1>8. Down(end, g) \in Int /\ Down(end, g) <= end /\ Down(end, g) = g * q /\ q \in Int
  <2>1. end \div g \in Int
    BY <1>7
  <2> QED BY <1>7, <2>1, DownIsMultiple
<1> HIDE DEF q
<1>9. a0 <= Down(end, g)
  <2>1. g * p <= end
    BY <1>4, <1>7
  <2> QED BY <1>4, <1>7, <2>1, DownKeepsMultiples
<1>10. /\ Window(off, n, g).from = a0 /\ Window(off, n, g).to = a1
       /\ Bulk(off, n, size, g).from = a0 /\ Bulk(off, n, size, g).to = Down(end, g)
       /\ LastBlock(off, n, size, g).from = Down(end, g) /\ LastBlock(off, n, size, g).to = end
  BY <1>1, <1>2 DEF Bulk, LastBlock
<1> QED BY <1>2, <1>4, <1>5, <1>6, <1>7, <1>8, <1>9, <1>10 DEF ReadsBlocks

\* An aligned read returns the bytes of the descriptors its blocks came from.
LEMMA AlignedReturns ==
  ASSUME NEW g \in Nat \ {0}, NEW size \in Nat, NEW off \in Nat, NEW n \in Nat \ {0},
         ~Refused(off, n, size), NEW file, NEW direct, NEW buffered,
         \A b \in Bytes(Bulk(off, n, size, g)) : direct[b] = file[b],
         \A b \in Bytes(LastBlock(off, n, size, g)) : buffered[b] = file[b]
  PROVE  Aligned(off, n, size, g, direct, buffered) = [i \in 0..(n - 1) |-> file[off + i]]
<1> DEFINE bulk == Bulk(off, n, size, g)
           tail == LastBlock(off, n, size, g)
           end == ReadEnd(off, n, size, g)
           Fill == Filled(off, n, size, g, direct, buffered)
<1>1. /\ bulk.to = tail.from /\ tail.to = end
      /\ bulk.from \in Int /\ bulk.to \in Int /\ tail.to \in Int
      /\ bulk.from <= off /\ off + n <= tail.to
  <2>1. ReadsBlocks(off, n, size, g)
    BY ReadGoes
  <2> QED BY <2>1 DEF ReadsBlocks
<1>2. Fill = [i \in 0..(end - bulk.from - 1) |->
                IF bulk.from + i \in Bytes(tail) THEN buffered[bulk.from + i] ELSE direct[bulk.from + i]]
  BY DEF Filled
<1>3. Aligned(off, n, size, g, direct, buffered) = [i \in 0..(n - 1) |-> Fill[off - bulk.from + i]]
  BY DEF Aligned
<1> HIDE DEF bulk, tail, end, Fill
<1>4. ASSUME NEW i \in 0..(n - 1) PROVE Fill[off - bulk.from + i] = file[off + i]
  <2> DEFINE j == off - bulk.from + i
  <2>1. j \in 0..(end - bulk.from - 1) /\ bulk.from + j = off + i
    BY <1>1
  <2> HIDE DEF j
  <2>2. Fill[j] = IF off + i \in Bytes(tail) THEN buffered[off + i] ELSE direct[off + i]
    BY <1>2, <2>1
  <2>3. off + i \notin Bytes(tail) => off + i \in Bytes(bulk)
    BY <1>1 DEF Bytes
  <2>4. Fill[j] = file[off + i]
    BY <2>2, <2>3 DEF bulk, tail
  <2> QED BY <2>4 DEF j
<1> QED BY <1>3, <1>4

\* A read returns the bytes it was asked for, whatever its offset and length
\* and however the reader was opened, where the descriptors show the file: what
\* is copied out was filled by one of the two loops. The blocks taken directly
\* start and end on the alignment, and a bounce that there is has room for all
\* (FileReader::read).
THEOREM ReadReturnsWhatWasAsked ==
  ASSUME NEW g \in Nat \ {0}, NEW size \in Nat, NEW off \in Nat, NEW n \in Nat \ {0},
         ~Refused(off, n, size), NEW opened, NEW bounce \in Nat,
         NEW file, NEW direct, NEW buffered,
         opened.aligned =>
           /\ \A b \in Bytes(Bulk(off, n, size, g)) : direct[b] = file[b]
           /\ \A b \in Bytes(LastBlock(off, n, size, g)) : buffered[b] = file[b],
         ~opened.aligned => \A b \in 0..(size - 1) : direct[b] = file[b]
  PROVE  /\ Read(opened, off, n, size, g, direct, buffered) = [i \in 0..(n - 1) |-> file[off + i]]
         /\ \E p, q \in Int : /\ Bulk(off, n, size, g).from = g * p
                              /\ Bulk(off, n, size, g).to = g * q
         /\ \A room \in Grown(bounce, WindowLen(off, n, g)) :
              room # 0 => ReadEnd(off, n, size, g) - Bulk(off, n, size, g).from <= room
<1>1. Read(opened, off, n, size, g, direct, buffered) = [i \in 0..(n - 1) |-> file[off + i]]
  <2>1. CASE opened.aligned
    <3>1. /\ \A b \in Bytes(Bulk(off, n, size, g)) : direct[b] = file[b]
          /\ \A b \in Bytes(LastBlock(off, n, size, g)) : buffered[b] = file[b]
      BY <2>1
    <3>2. Aligned(off, n, size, g, direct, buffered) = [i \in 0..(n - 1) |-> file[off + i]]
      BY <3>1, AlignedReturns
    <3>3. Read(opened, off, n, size, g, direct, buffered) = Aligned(off, n, size, g, direct, buffered)
      BY <2>1 DEF Read
    <3> QED BY <3>2, <3>3
  <2>2. CASE ~opened.aligned
    <3>1. Read(opened, off, n, size, g, direct, buffered) = [i \in 0..(n - 1) |-> direct[off + i]]
      BY <2>2 DEF Read, Plain
    <3>2. ASSUME NEW i \in 0..(n - 1) PROVE direct[off + i] = file[off + i]
      <4>1. off + i \in 0..(size - 1)
        BY DEF Refused
      <4> QED BY <2>2, <4>1
    <3> QED BY <3>1, <3>2
  <2> QED BY <2>1, <2>2
<1>2. ReadsBlocks(off, n, size, g)
  BY ReadGoes
<1>3. \E p, q \in Int : Bulk(off, n, size, g).from = g * p /\ Bulk(off, n, size, g).to = g * q
  BY <1>2 DEF ReadsBlocks
<1>4. ASSUME NEW room \in Grown(bounce, WindowLen(off, n, g)), room # 0
      PROVE  ReadEnd(off, n, size, g) - Bulk(off, n, size, g).from <= room
  <2> DEFINE from == Bulk(off, n, size, g).from
             end == ReadEnd(off, n, size, g)
             w == Window(off, n, g)
  <2>1. from = w.from /\ from \in Int /\ w.to \in Int /\ end \in Int /\ end <= w.to
    BY <1>2 DEF ReadsBlocks
  <2>2. WindowLen(off, n, g) = w.to - w.from
    BY DEF WindowLen
  <2> HIDE DEF from, end, w
  <2>3. w.to - w.from <= room
    BY <1>4, <2>1, <2>2 DEF Grown
  <2>4. end - from <= room
    <3>1. room \in Int
      BY <2>1, <2>2 DEF Grown
    <3> QED BY <2>1, <2>3, <3>1
  <2> QED BY <2>4 DEF from, end
<1> QED BY <1>1, <1>3, <1>4

\* Where the direct descriptor shows something else than the file, and a block
\* can be read both ways to find out, no byte is taken through it: the reader
\* went back to buffered reads, or the file is smaller than a block and all of
\* it is the tail (FileReader::open).
THEOREM WrongBytesAreNotRead ==
  ASSUME NEW g \in Nat \ {0}, NEW size \in Nat,
         NEW direct \in BOOLEAN, NEW opens \in BOOLEAN, NEW aligns \in BOOLEAN,
         Opened(direct, opens, aligns, TRUE, FALSE, size, g).aligned,
         NEW off \in Nat, NEW n \in Nat \ {0}, ~Refused(off, n, size)
  PROVE  Bytes(Bulk(off, n, size, g)) = {}
<1> DEFINE end == ReadEnd(off, n, size, g)
<1>0. size < g
  <2>1. SUFFICES ASSUME ~(size < g) PROVE FALSE
    OBVIOUS
  <2>2. size >= g
    BY <2>1
  <2> HIDE <2>1
  <2>3. ~ Opened(direct, opens, aligns, TRUE, FALSE, size, g).aligned
    BY <2>2, Zenon DEF Opened
  <2> QED BY <2>3
<1>1. /\ Bulk(off, n, size, g).from \in Nat /\ Bulk(off, n, size, g).to \in Int
      /\ end \in Int /\ end <= size
  <2>1. ReadsBlocks(off, n, size, g)
    BY ReadGoes
  <2> QED BY <2>1 DEF ReadsBlocks
<1>2. Bulk(off, n, size, g).to = Down(end, g)
  BY DEF Bulk
<1> HIDE DEF end
<1>3. Down(end, g) <= 0
  <2> DEFINE q == end \div g
  <2>1. q \in Int /\ Down(end, g) = g * q
    <3>1. end \div g \in Int
      BY <1>1
    <3> QED BY <1>1, <3>1, DownIsMultiple
  <2>2. g * q <= end /\ end < g
    BY <1>0, <1>1, <2>1, DownIsMultiple
  <2> HIDE DEF q
  <2>3. ~(0 < q)
    <3>1. 0 < q => g * 0 + g <= g * q
      BY <2>1, MultiplesApart
    <3>2. g * q \in Int
      BY <2>1
    <3> QED BY <1>1, <2>2, <3>1, <3>2
  <2>4. q < 0 \/ q = 0
    BY <2>1, <2>3
  <2>5. q < 0 => g * q + g <= g * 0
    BY <2>1, MultiplesApart
  <2>6. g * q \in Int
    BY <2>1
  <2> QED BY <2>1, <2>4, <2>5, <2>6
<1> QED BY <1>1, <1>2, <1>3 DEF Bytes

\* Dropping the pages of a tensor that has moved drops no byte of another that
\* is still read through the mapping, an expert's slice or the next tensor's
\* (drop_mmap_copies).
THEOREM DropSparesNeighbours ==
  ASSUME NEW page \in Nat \ {0}, NEW map \in [start : Int, end : Int, offset : Int],
         NEW t \in [from : Int, to : Int], NEW u \in [from : Int, to : Int], Apart(t, u)
  PROVE  \A b \in Bytes(u) : AddressOf(map, b) \notin Bytes(GivenBack(map, t, page))
<1> DEFINE r == [from |-> AddressOf(map, t.from), to |-> AddressOf(map, t.from) + (t.to - t.from)]
<1>1. map.start \in Int /\ map.offset \in Int /\ t.from \in Int /\ t.to \in Int
  OBVIOUS
<1>2. r \in [from : Int, to : Int]
  BY <1>1 DEF AddressOf
<1>3. GivenBack(map, t, page) = Inward(r, page)
  BY DEF GivenBack, WholePages
<1>4. r.from = AddressOf(map, t.from) /\ r.to = AddressOf(map, t.from) + (t.to - t.from)
  OBVIOUS
<1> HIDE DEF r
<1>5. Bytes(GivenBack(map, t, page)) \subseteq Bytes(r)
  BY <1>2, <1>3, RoundedRanges
<1>6. ASSUME NEW b \in Bytes(u) PROVE AddressOf(map, b) \notin Bytes(r)
  <2>1. b \in Int /\ b \notin Bytes(t)
    BY DEF Apart, Bytes
  <2> QED BY <1>1, <1>4, <2>1 DEF AddressOf, Bytes
<1> QED BY <1>5, <1>6

\* Every probe of the residency sensor is a byte of the dense set, however the
\* ranges lie: none counts an expert's page (sample_mmap, sample_anon).
THEOREM ProbesAreDense ==
  ASSUME NEW ranges \in Seq([from : Nat, to : Nat]), NEW sum, Sums(sum, ranges),
         NEW samples \in Nat \ {0}, NEW k \in 0..(samples - 1), sum[Len(ranges)] > 0
  PROVE  LET target == Target(sum[Len(ranges)], k, samples)
         IN  \E i \in 1..Len(ranges) : Probe(ranges, sum, target) \in Bytes(ranges[i])
<1> DEFINE n == Len(ranges)
           sized == sum[n]
           target == Target(sized, k, samples)
<1>1. \A i \in 1..n : ranges[i] \in [from : Nat, to : Nat]
  <2> DEFINE S == [from : Nat, to : Nat]
  <2>1. ranges \in Seq(S)
    OBVIOUS
  <2> HIDE DEF S
  <2>2. \A i \in 1..Len(ranges) : ranges[i] \in S
    BY <2>1
  <2> QED BY <2>2 DEF S
<1>2. /\ n \in Nat /\ sum \in [0..n -> Nat] /\ sum[0] = 0 /\ sized \in Nat \ {0}
      /\ \A i \in 1..n : sum[i] = sum[i - 1] + (ranges[i].to - ranges[i].from)
  BY DEF Sums
<1> HIDE DEF n
<1>3. target \in Int /\ 0 <= target /\ target < sized
  <2> DEFINE x == sized * k
             q == x \div samples
  <2> HIDE DEF sized
  <2>1. x \in Nat /\ x + sized <= sized * samples /\ sized * samples = samples * sized
    <3>1. sized * k \in Nat
      BY <1>2
    <3>2. sized * k + sized <= sized * samples
      BY <1>2, MultiplesApart
    <3>3. sized * samples = samples * sized
      BY <1>2
    <3> QED BY <3>1, <3>2, <3>3
  <2>2. target = q
    BY DEF Target
  <2> HIDE DEF x, target
  <2>3. q \in Int
    BY <2>1
  <2>4. Down(x, samples) = samples * q /\ Down(x, samples) <= x /\ x < Down(x, samples) + samples
    <3>1. x \in Int
      BY <2>1
    <3>2. /\ Down(x, samples) <= x /\ x < Down(x, samples) + samples
          /\ Down(x, samples) = samples * (x \div samples)
      BY <3>1, DownIsMultiple
    <3> QED BY <3>2
  <2> HIDE DEF q
  <2>5. samples * q \in Int /\ samples * q <= x /\ x < samples * q + samples
    BY <2>3, <2>4
  <2>6. ~(q < 0)
    <3>1. q < 0 => samples * q + samples <= samples * 0
      BY <2>3, MultiplesApart
    <3> QED BY <2>1, <2>5, <3>1
  <2>7. ~(sized <= q)
    <3>1. samples * sized \in Int
      BY <1>2
    <3>2. sized < q => samples * sized + samples <= samples * q
      BY <1>2, <2>3, MultiplesApart
    <3>3. sized <= q => sized = q \/ sized < q
      BY <1>2, <2>3
    <3>4. sized <= q => samples * sized <= samples * q
      BY <2>5, <3>1, <3>2, <3>3
    <3> QED BY <1>2, <2>1, <2>5, <3>1, <3>4
  <2> QED BY <1>2, <2>2, <2>3, <2>6, <2>7
<1> HIDE DEF target
<1>4. \E i \in 1..n : Reaches(sum, target, i)
  <2> DEFINE T == {i \in 0..n : target < sum[i]}
  <2>1. T \subseteq Int /\ \E i \in T : 0 <= i
    BY <1>2, <1>3
  <2>2. \E i \in T : LowestFrom(T, 0, i)
    <3> DEFINE zero == 0
    <3>1. zero \in Int /\ \E i \in T : zero <= i
      BY <2>1
    <3> HIDE DEF T, zero
    <3>2. \E i \in T : LowestFrom(T, zero, i)
      BY <2>1, <3>1, NearestAbove
    <3> QED BY <3>2 DEF zero
  <2>3. PICK i \in T : \A j \in T : 0 <= j => i <= j
    BY <2>2 DEF LowestFrom
  <2>4. i \in 0..n /\ target < sum[i]
    OBVIOUS
  <2>5. i \in 1..n
    BY <1>2, <1>3, <2>4
  <2>6. i - 1 \in 0..n
    BY <1>2, <2>5
  <2>7. ~(target < sum[i - 1])
    <3>1. SUFFICES ASSUME target < sum[i - 1] PROVE FALSE
      OBVIOUS
    <3>2. i - 1 \in T
      BY <2>6, <3>1
    <3> HIDE DEF T
    <3> QED BY <2>3, <2>5, <2>6, <3>2
  <2>8. sum[i - 1] \in Nat
    BY <1>2, <2>6
  <2>9. sum[i - 1] <= target
    BY <1>3, <2>7, <2>8
  <2> QED BY <2>4, <2>5, <2>9 DEF Reaches
<1> DEFINE i == CHOOSE j \in 1..n : Reaches(sum, target, j)
<1>5. i \in 1..n /\ Reaches(sum, target, i)
  BY <1>4
<1>6. Probe(ranges, sum, target) = ranges[i].from + (target - sum[i - 1])
  BY DEF Probe, n
<1> HIDE DEF i
<1>7. ranges[i].from \in Nat /\ ranges[i].to \in Nat
  BY <1>1, <1>5
<1>8. sum[i] = sum[i - 1] + (ranges[i].to - ranges[i].from) /\ sum[i - 1] \in Nat
  <2>1. i - 1 \in 0..n
    BY <1>2, <1>5
  <2> QED BY <1>2, <1>5, <2>1
<1>9. Probe(ranges, sum, target) \in Bytes(ranges[i])
  <2>1. sum[i - 1] <= target /\ target < sum[i]
    BY <1>5 DEF Reaches
  <2> DEFINE before == sum[i - 1]
             from == ranges[i].from
             to == ranges[i].to
  <2>2. before \in Nat /\ from \in Nat /\ to \in Nat /\ before <= target /\ target < before + (to - from)
    BY <1>7, <1>8, <2>1
  <2>3. Probe(ranges, sum, target) = from + (target - before)
    BY <1>6
  <2>4. Bytes(ranges[i]) = from..(to - 1)
    BY DEF Bytes
  <2> HIDE DEF before, from, to
  <2> QED BY <1>3, <2>2, <2>3, <2>4
<1> QED BY <1>5, <1>9 DEF target, n

------------------------------------------------------------------------------
(* The model's files.  What llama.cpp's parser accepts has its tensors apart   *)
(* and within the file.                                                       *)
TensorAt(f, name) == [from |-> f.data + f.at[name], to |-> f.data + f.at[name] + f.size[name]]
WellFormed(f) ==
  /\ f.data \in Nat /\ f.len \in Nat
  /\ \A name \in DOMAIN f.at :
       f.at[name] \in Nat /\ f.size[name] \in Nat /\ TensorAt(f, name).to <= f.len
  /\ \A a, b \in DOMAIN f.at : a # b => Apart(TensorAt(f, a), TensorAt(f, b))

\* Every offset is the one a shard has for the name.
LEMMA PlacesHold ==
  ASSUME NEW path, path.count \in Int, NEW files, Parses(path, files),
         NEW name \in DOMAIN Offsets(path, files)
  PROVE  \E no \in 1..Shards(path) :
           LET f == files[ShardPath(path, no)]
           IN  /\ name \in DOMAIN f.at
               /\ Offsets(path, files)[name].file = no - 1
               /\ InFile(Offsets(path, files), name) = TensorAt(f, name)
               /\ Offsets(path, files)[name].size = f.size[name]
<1> DEFINE held == Holding(path, files, name)
           n == Shards(path)
<1>1. n \in Int
  BY DEF Shards, SplitCount
<1>2. held \subseteq 1..n /\ \E z \in held : z <= n
  <2>1. PICK no \in 1..Shards(path) : name \in DOMAIN files[ShardPath(path, no)].at
    BY DEF Offsets
  <2>2. no \in held
    BY <2>1 DEF Holding
  <2> QED BY <1>1, <2>2 DEF Holding
<1> HIDE DEF held, n
<1>3. \E last \in held : \A other \in held : other <= last
  <2>0. held \subseteq Int
    BY <1>1, <1>2
  <2>1. \E y \in held : HighestUpTo(held, n, y)
    BY <1>1, <1>2, <2>0, NearestBelow
  <2> QED BY <1>1, <1>2, <2>1 DEF HighestUpTo
<1> DEFINE last == CHOOSE no \in held : \A other \in held : other <= no
<1>4. last \in held
  BY <1>3
<1>5. Place(path, files, name) =
        LET f == files[ShardPath(path, last)]
        IN  [file |-> last - 1, from |-> f.data + f.at[name], size |-> f.size[name]]
  BY DEF Place, held
<1> HIDE DEF last
<1>6. last \in 1..Shards(path) /\ name \in DOMAIN files[ShardPath(path, last)].at
  BY <1>4 DEF held, Holding
<1>7. Offsets(path, files)[name] = Place(path, files, name)
  BY DEF Offsets
<1> QED BY <1>5, <1>6, <1>7 DEF InFile, TensorAt

\* The two places of a shard are apart, and each lies within it.
LEMMA PlacesApart ==
  ASSUME NEW path, path.count \in Int, NEW files, Parses(path, files),
         \A file \in DOMAIN files : WellFormed(files[file]),
         NEW a \in DOMAIN Offsets(path, files)
  PROVE  LET offs == Offsets(path, files) IN
         /\ offs[a].from \in Nat /\ offs[a].size \in Nat
         /\ offs[a].file \in 0..(Shards(path) - 1)
         /\ files[ShardPath(path, offs[a].file + 1)].len \in Nat
         /\ InFile(offs, a).to <= files[ShardPath(path, offs[a].file + 1)].len
         /\ \A b \in DOMAIN offs \ {a} :
              offs[b].file = offs[a].file => Apart(InFile(offs, a), InFile(offs, b))
<1> DEFINE offs == Offsets(path, files)
<1>1. PICK no \in 1..Shards(path) :
        LET f == files[ShardPath(path, no)]
        IN  /\ a \in DOMAIN f.at /\ offs[a].file = no - 1
            /\ InFile(offs, a) = TensorAt(f, a) /\ offs[a].size = f.size[a]
  BY PlacesHold
<1>2. WellFormed(files[ShardPath(path, no)])
  BY DEF Parses
<1>3. Shards(path) \in Int
  BY DEF Shards, SplitCount
<1>4. ASSUME NEW b \in DOMAIN offs \ {a}, offs[b].file = offs[a].file
      PROVE  Apart(InFile(offs, a), InFile(offs, b))
  <2>1. PICK mo \in 1..Shards(path) :
          LET f == files[ShardPath(path, mo)]
          IN  /\ b \in DOMAIN f.at /\ offs[b].file = mo - 1
              /\ InFile(offs, b) = TensorAt(f, b)
    BY PlacesHold
  <2>2. mo = no
    BY <1>1, <1>3, <1>4, <2>1
  <2> QED BY <1>1, <1>2, <2>1, <2>2 DEF WellFormed
<1>5. offs[a].file + 1 = no /\ offs[a].file \in 0..(Shards(path) - 1)
  BY <1>1, <1>3
<1>6. offs[a].from \in Nat
  <2>1. InFile(offs, a).from = offs[a].from
    BY DEF InFile
  <2>2. TensorAt(files[ShardPath(path, no)], a).from \in Nat
    BY <1>1, <1>2 DEF WellFormed, TensorAt
  <2> QED BY <1>1, <2>1, <2>2
<1>7. /\ offs[a].size \in Nat
      /\ files[ShardPath(path, no)].len \in Nat /\ InFile(offs, a).to <= files[ShardPath(path, no)].len
  BY <1>1, <1>2 DEF WellFormed
<1> QED BY <1>4, <1>5, <1>6, <1>7

\* A tensor's experts fill it: their sizes do not wrap around (bind_layer_offsets).
LEMMA ExpertsFillTensor ==
  ASSUME NEW t, t.ne2 \in Int, t.nb2 \in Nat, NEW size \in Nat, NEW word \in Nat \ {0},
         LayoutMatches(t, size, word)
  PROVE  t.nb2 * t.ne2 = size
<1> DEFINE n == t.ne2
           b == t.nb2
           q == (word - 1) \div n
<1>1. n \in Nat \ {0} /\ b \in Nat /\ b <= q /\ (b * n) % word = size
  BY DEF LayoutMatches
<1> HIDE DEF n, b
<1>2. q \in Int /\ n * q <= word - 1
  <2> DEFINE top == word - 1
  <2>1. top \in Int
    OBVIOUS
  <2> HIDE DEF top
  <2>2. Down(top, n) <= top /\ Down(top, n) = n * (top \div n)
    BY <1>1, <2>1, DownIsMultiple
  <2>3. top \div n \in Int
    BY <1>1, <2>1
  <2> QED BY <2>2, <2>3 DEF top
<1> HIDE DEF q
<1>3. n * b <= n * q
  <2>1. CASE b = q
    BY <1>1, <1>2, <2>1
  <2>2. CASE b < q
    <3>1. n * b + n <= n * q
      BY <1>1, <1>2, <2>2, MultiplesApart
    <3>2. n * b \in Int /\ n * q \in Int
      BY <1>1, <1>2
    <3> QED BY <1>1, <3>1, <3>2
  <2> QED BY <1>1, <1>2, <2>1, <2>2
<1> DEFINE x == b * n
<1>4. x \in Nat /\ x < word
  <2>1. b * n = n * b /\ n * b \in Nat /\ n * q \in Int
    BY <1>1, <1>2
  <2> QED BY <1>2, <1>3, <2>1
<1>5. x % word = size
  BY <1>1
<1>6. x = size
  <2> HIDE DEF x
  <2>1. x % word = x
    BY <1>4
  <2> QED BY <1>5, <2>1
<1> QED BY <1>6 DEF n, b

\* Moving two ranges alike keeps them apart.
Shifted(r, d) == [from |-> d + r.from, to |-> d + r.to]
LEMMA ShiftedApart ==
  ASSUME NEW q, q.from \in Int, q.to \in Int, NEW r, r.from \in Int, r.to \in Int,
         NEW d \in Int, Apart(q, r)
  PROVE  Apart(Shifted(q, d), Shifted(r, d))
<1>1. SUFFICES ASSUME NEW z \in Bytes(Shifted(q, d)), z \in Bytes(Shifted(r, d)) PROVE FALSE
  BY DEF Apart
<1>2. z - d \in Bytes(q) /\ z - d \in Bytes(r)
  BY <1>1 DEF Bytes, Shifted
<1> QED BY <1>2 DEF Apart

\* Once a model is bound, every read of an expert lies within its own tensor,
\* in a shard that was opened, and takes no byte of another expert, of another
\* expert tensor, or of a tensor the dense policy was given; and what that
\* policy leaves out of a shard for an expert tensor is that tensor and no
\* more (bind_layer_offsets, ExpertStreamSource::init).
THEOREM ReadsStayInTheirTensor ==
  ASSUME NEW path, path.count \in Int, NEW files, Parses(path, files),
         \A file \in DOMAIN files : WellFormed(files[file]),
         NEW exps, NEW layers, NEW captured, NEW word \in Nat \ {0},
         \A t \in ExpertTensors(layers) : t.ne2 \in Int /\ t.nb2 \in Nat,
         Binds(exps, Offsets(path, files), layers, word),
         NEW t \in ExpertTensors(layers), NEW e \in 0..(t.ne2 - 1)
  PROVE  LET offs == Offsets(path, files) IN
         /\ offs[t.name].file \in 0..(Shards(path) - 1)
         /\ Bytes(ReadOf(offs, t, e)) \subseteq Bytes(InFile(offs, t.name))
         /\ ReadOf(offs, t, e).to <= files[ShardPath(path, offs[t.name].file + 1)].len
         /\ \A f \in 0..(t.ne2 - 1) \ {e} : Apart(ReadOf(offs, t, e), ReadOf(offs, t, f))
         /\ \A name \in DenseNames(offs, layers, captured) \cup (ExpertNames(layers) \ {t.name}) :
              offs[name].file = offs[t.name].file => Apart(ReadOf(offs, t, e), InFile(offs, name))
         /\ \A u \in ExpertTensors(layers) : LeftOut(offs, u, t.ne2) = InFile(offs, u.name)
<1> DEFINE offs == Offsets(path, files)
           b == t.nb2
           n == t.ne2
           from == offs[t.name].from
<1>1. ASSUME NEW u \in ExpertTensors(layers)
      PROVE  /\ u.name \in DOMAIN offs /\ u.ne2 = n /\ u.ne2 \in Nat \ {0}
             /\ u.nb2 * u.ne2 = offs[u.name].size
             /\ offs[u.name].from \in Nat
  <2>1. u.name \in DOMAIN offs /\ LayoutMatches(u, offs[u.name].size, word) /\ u.ne2 = t.ne2
    BY DEF Binds
  <2>2. offs[u.name].size \in Nat /\ offs[u.name].from \in Nat
    BY <2>1, PlacesApart
  <2>3. u.ne2 \in Int /\ 0 < u.ne2
    BY <2>1 DEF LayoutMatches
  <2> QED BY <2>1, <2>2, <2>3, ExpertsFillTensor
<1>2. /\ offs[t.name].file \in 0..(Shards(path) - 1)
      /\ files[ShardPath(path, offs[t.name].file + 1)].len \in Nat
      /\ InFile(offs, t.name).to <= files[ShardPath(path, offs[t.name].file + 1)].len
      /\ \A name \in DOMAIN offs \ {t.name} :
           offs[name].file = offs[t.name].file => Apart(InFile(offs, t.name), InFile(offs, name))
  BY <1>1, PlacesApart
<1>3. b \in Nat /\ n \in Nat \ {0} /\ from \in Nat /\ e \in Int /\ 0 <= e /\ e < n
  BY <1>1
<1>4. /\ ReadOf(offs, t, e) = [from |-> from + e * b, to |-> from + e * b + b]
      /\ InFile(offs, t.name) = [from |-> from, to |-> from + b * n]
  BY <1>1 DEF ReadOf, InFile
<1>5. ASSUME NEW name \in DenseNames(offs, layers, captured) \cup (ExpertNames(layers) \ {t.name})
      PROVE  name \in DOMAIN offs \ {t.name}
  BY <1>1 DEF DenseNames, ExpertNames
<1>6. ASSUME NEW u \in ExpertTensors(layers)
      PROVE  LeftOut(offs, u, n) = InFile(offs, u.name)
  BY <1>1 DEF LeftOut, InFile
<1>7. ASSUME NEW f \in 0..(n - 1) \ {e}
      PROVE  Apart(ReadOf(offs, t, e), ReadOf(offs, t, f))
  <2>1. f \in Nat /\ e \in Nat /\ e # f
    BY <1>3
  <2>2. ReadOf(offs, t, f) = [from |-> from + f * b, to |-> from + f * b + b]
    BY DEF ReadOf
  <2>3. Apart(Slice(e, b), Slice(f, b))
    BY <1>3, <2>1, SlicesApart
  <2>4. e * b \in Int /\ f * b \in Int
    BY <1>3, <2>1
  <2>5. /\ Slice(e, b) = [from |-> e * b, to |-> e * b + b]
        /\ Slice(f, b) = [from |-> f * b, to |-> f * b + b]
    BY DEF Slice
  <2>6. ReadOf(offs, t, e) = Shifted(Slice(e, b), from) /\ ReadOf(offs, t, f) = Shifted(Slice(f, b), from)
    <3> DEFINE x == e * b
               y == f * b
    <3>1. /\ ReadOf(offs, t, e) = [from |-> from + x, to |-> from + x + b]
          /\ ReadOf(offs, t, f) = [from |-> from + y, to |-> from + y + b]
          /\ Slice(e, b).from = x /\ Slice(e, b).to = x + b
          /\ Slice(f, b).from = y /\ Slice(f, b).to = y + b
          /\ x \in Int /\ y \in Int
      BY <1>4, <2>2, <2>4, <2>5
    <3> HIDE DEF x, y, b, from, offs, n
    <3>2. from + (x + b) = from + x + b /\ from + (y + b) = from + y + b
      BY <1>3, <3>1
    <3> QED BY <3>1, <3>2 DEF Shifted
  <2>7. Slice(e, b).from \in Int /\ Slice(e, b).to \in Int /\ Slice(f, b).from \in Int /\ Slice(f, b).to \in Int
    BY <1>3, <2>4, <2>5
  <2> HIDE DEF b, from, offs, n
  <2> QED BY <1>3, <2>3, <2>6, <2>7, ShiftedApart
<1> HIDE DEF offs, b, n, from
<1>8. e * b \in Nat /\ b * n \in Nat /\ e * b + b <= b * n
  <2>1. b * e + b <= b * n
    BY <1>3, MultiplesApart
  <2>2. e * b = b * e /\ b * e \in Nat /\ b * n \in Nat
    BY <1>3
  <2> QED BY <2>1, <2>2
<1>9. /\ Bytes(ReadOf(offs, t, e)) \subseteq Bytes(InFile(offs, t.name))
      /\ ReadOf(offs, t, e).to <= InFile(offs, t.name).to
  <2> DEFINE x == e * b
             y == b * n
  <2>1. /\ ReadOf(offs, t, e) = [from |-> from + x, to |-> from + x + b]
        /\ InFile(offs, t.name) = [from |-> from, to |-> from + y]
        /\ x \in Nat /\ y \in Nat /\ x + b <= y
    BY <1>4, <1>8
  <2> HIDE DEF x, y
  <2> QED BY <1>3, <2>1 DEF Bytes
<1>10. ReadOf(offs, t, e).to <= files[ShardPath(path, offs[t.name].file + 1)].len
  <2>1. ReadOf(offs, t, e).to \in Int /\ InFile(offs, t.name).to \in Int
    <3> DEFINE x == e * b
               y == b * n
    <3>1. /\ ReadOf(offs, t, e) = [from |-> from + x, to |-> from + x + b]
          /\ InFile(offs, t.name) = [from |-> from, to |-> from + y]
          /\ x \in Nat /\ y \in Nat
      BY <1>4, <1>8
    <3> HIDE DEF x, y
    <3> QED BY <1>3, <3>1
  <2> QED BY <1>2, <1>9, <2>1
<1>11. ASSUME NEW name \in DenseNames(offs, layers, captured) \cup (ExpertNames(layers) \ {t.name}),
              offs[name].file = offs[t.name].file
       PROVE  Apart(ReadOf(offs, t, e), InFile(offs, name))
  <2>1. Apart(InFile(offs, t.name), InFile(offs, name))
    BY <1>2, <1>5, <1>11
  <2> QED BY <1>9, <2>1 DEF Apart
<1> QED BY <1>2, <1>6, <1>7, <1>9, <1>10, <1>11 DEF offs, n

\* A model whose architecture may have its gates fused is refused when its
\* layers mix the two layouts; otherwise no layer has a gate under the other
\* name, which the capture would not find and which would be computed from the
\* mapping, never streamed (resolve_moe_recipe).
THEOREM NoGateIsMissed ==
  ASSUME NEW recipe, recipe.fused_gate_up_alt,
         recipe.exps = {SplitGate, "ffn_up_exps", "ffn_down_exps"},
         NEW n, NEW names, Resolves(recipe, n, names),
         NEW il \in 0..(n - 1), NEW gate \in {SplitGate, FusedGate}, <<il, gate>> \in names
  PROVE  gate \in Resolved(recipe, n, names)
<1>1. Has(names, n, gate)
  BY DEF Has
<1>2. CASE gate = FusedGate
  BY <1>1, <1>2 DEF Resolved
<1>3. CASE gate = SplitGate
  <2>1. ~ Has(names, n, FusedGate)
    BY <1>1, <1>3 DEF Resolves
  <2> QED BY <1>3, <2>1 DEF Resolved
<1> QED BY <1>2, <1>3

(***************************************************************************)
(* Stalled time.                                                           *)
(***************************************************************************)

\* stalled_ counts the stalling threads, and the open interval began before
\* now: what UnionExact needs to be inductive.
CountsStalling == stalled = Cardinality(Stalling)
OpenedBefore == stalled > 0 => openAt <= now
IInv == TypeOK /\ CountsStalling /\ OpenedBefore /\ UnionExact

\* The stalling threads are finitely many, and there are none exactly when
\* the count is zero.
LEMMA StallingFinite ==
  /\ IsFiniteSet(Stalling) /\ Cardinality(Stalling) \in Nat
  /\ Cardinality(Stalling) = 0 <=> Stalling = {}
<1>1. Stalling \subseteq Threads
  BY DEF Stalling
<1>2. IsFiniteSet(Stalling)
  BY <1>1, FS_Subset, StallUnionAssumption
<1> QED
  BY <1>2, FS_CardinalityType, FS_EmptySet

\* No thread is stalled at first.
LEMMA InitHolds == Init => IInv
<1> SUFFICES ASSUME Init PROVE IInv
  OBVIOUS
<1>1. Stalling = {}
  BY DEF Init, Stalling
<1>2. CountsStalling
  BY <1>1, StallingFinite DEF Init, CountsStalling
<1> QED
  BY <1>2 DEF Init, IInv, TypeOK, OpenedBefore, UnionExact, Snapshot

\* The clock advances: the open interval grows by the tick.
LEMMA TickKeeps ==
  ASSUME IInv, Tick PROVE IInv' /\ Snapshot' >= Snapshot
<1>1. Stalling' = Stalling
  BY DEF Tick, Stalling
<1>2. Stalling # {} <=> stalled > 0
  BY StallingFinite DEF IInv, TypeOK, CountsStalling
<1>3. Snapshot' = IF stalled > 0 THEN Snapshot + 1 ELSE Snapshot
  BY DEF IInv, TypeOK, Tick, stateVars, Snapshot
<1>4. truth' = IF stalled > 0 THEN truth + 1 ELSE truth
  BY <1>2 DEF Tick
<1>5. Snapshot \in Nat
  BY DEF IInv, UnionExact, TypeOK
<1>6. TypeOK' /\ OpenedBefore'
  BY <1>4 DEF IInv, TypeOK, OpenedBefore, Tick, stateVars
<1>7. UnionExact'
  BY <1>3, <1>4 DEF IInv, UnionExact
<1>8. CountsStalling'
  BY <1>1 DEF IInv, CountsStalling, Tick, stateVars
<1> QED
  BY <1>3, <1>5, <1>6, <1>7, <1>8 DEF IInv

\* Coming for the mutex neither begins nor ends a stall.
LEMMA ArriveKeeps ==
  ASSUME IInv, NEW t \in Threads,
         Arrive(t, "out", "entering") \/ Arrive(t, "in", "leaving")
  PROVE  IInv' /\ Snapshot' = Snapshot
<1>1. Stalling' = Stalling
  BY DEF Arrive, Stalling, IInv, TypeOK
<1>2. TypeOK'
  BY DEF Arrive, IInv, TypeOK, stateVars
<1>3. Snapshot' = Snapshot
  BY DEF Arrive, Snapshot, stateVars
<1> QED
  BY <1>1, <1>2, <1>3
     DEF Arrive, IInv, CountsStalling, OpenedBefore, UnionExact, stateVars

\* The first stall opens the interval now, with nothing in it yet.
LEMMA EnterKeeps ==
  ASSUME IInv, NEW t \in Threads, Enter(t)
  PROVE  IInv' /\ Snapshot' = Snapshot
<1>1. Stalling' = Stalling \cup {t} /\ t \notin Stalling
  BY DEF Enter, Stalling, IInv, TypeOK
<1>2. CountsStalling'
  BY <1>1, StallingFinite, FS_AddElement DEF Enter, IInv, CountsStalling
<1>3. TypeOK' /\ OpenedBefore'
  BY DEF Enter, Stamp, IInv, TypeOK, OpenedBefore
<1>4. Snapshot' = Snapshot
  BY DEF Enter, Stamp, Snapshot, IInv, TypeOK
<1> QED
  BY <1>2, <1>3, <1>4 DEF Enter, IInv, UnionExact

\* The last one to leave closes the interval with the time it had now.
LEMMA ExitKeeps ==
  ASSUME IInv, NEW t \in Threads, Exit(t)
  PROVE  IInv' /\ Snapshot' = Snapshot
<1>1. Stalling' = Stalling \ {t} /\ t \in Stalling
  BY DEF Exit, Stalling, IInv, TypeOK
<1>2. stalled > 0
  BY <1>1, StallingFinite DEF IInv, TypeOK, CountsStalling
<1>3. CountsStalling'
  BY <1>1, <1>2, StallingFinite, FS_RemoveElement DEF Exit, IInv, CountsStalling
<1>4. TypeOK' /\ OpenedBefore'
  BY <1>2 DEF Exit, Elapsed, Stamp, IInv, TypeOK, OpenedBefore
<1>5. Snapshot' = Snapshot
  BY <1>2 DEF Exit, Elapsed, Stamp, Snapshot, IInv, TypeOK
<1> QED
  BY <1>3, <1>4, <1>5 DEF Exit, IInv, UnionExact

\* Every step keeps the invariant, and no step shrinks the snapshot.
LEMMA StepKeeps ==
  ASSUME IInv, [Next]_vars PROVE IInv' /\ Snapshot' >= Snapshot
<1>1. Snapshot \in Nat
  BY DEF IInv, UnionExact, TypeOK
<1>2. CASE Tick
  BY <1>2, TickKeeps
<1>3. ASSUME NEW t \in Threads,
             Arrive(t, "out", "entering") \/ Arrive(t, "in", "leaving")
      PROVE  IInv' /\ Snapshot' >= Snapshot
  BY <1>1, <1>3, ArriveKeeps
<1>4. ASSUME NEW t \in Threads, Enter(t) PROVE IInv' /\ Snapshot' >= Snapshot
  BY <1>1, <1>4, EnterKeeps
<1>5. ASSUME NEW t \in Threads, Exit(t) PROVE IInv' /\ Snapshot' >= Snapshot
  BY <1>1, <1>5, ExitKeeps
<1>6. CASE UNCHANGED vars
  BY <1>1, <1>6 DEF vars, stateVars, IInv, TypeOK, CountsStalling, Stalling,
                    OpenedBefore, UnionExact, Snapshot
<1> QED
  BY <1>2, <1>3, <1>4, <1>5, <1>6 DEF Next

\* A snapshot is exactly the union of the stalls, whatever their overlap.
THEOREM StalledTimeIsExact == Spec => [](TypeOK /\ UnionExact)
<1>1. IInv /\ [Next]_vars => IInv'
  BY StepKeeps
<1>2. IInv => TypeOK /\ UnionExact
  BY DEF IInv
<1> QED
  BY InitHolds, <1>1, <1>2, PTL DEF Spec

\* A later snapshot is never smaller than an earlier one.
THEOREM StalledTimeGrows == Spec => SnapshotNeverShrinks
<1>1. IInv /\ [Next]_vars => IInv'
  BY StepKeeps
<1>2. IInv /\ [Next]_vars => [Snapshot' >= Snapshot]_vars
  BY StepKeeps
<1> QED
  BY InitHolds, <1>1, <1>2, PTL DEF Spec, SnapshotNeverShrinks
-----------------------------------------------------------------------------
\* Of the rows that read an expert, one is the first.
LEMMA FirstRead ==
  ASSUME NEW pending, NEW row \in Nat, Reads(pending, row)
  PROVE  \E first \in 0..row : Charged(pending, first) /\ pending.ids[first] = pending.ids[row]
<1> DEFINE same == {r \in Nat : Reads(pending, r) /\ pending.ids[r] = pending.ids[row]}
<1>1. same \subseteq Nat /\ row \in same
  OBVIOUS
<1>2. PICK first \in same : \A r \in same : ~ (<<r, first>> \in OpToRel(<, Nat))
  BY <1>1, NatLessThanWellFounded, WFMin
<1>3. \A r \in same : ~(r < first)
  BY <1>1, <1>2 DEF OpToRel
<1>4. first \in 0..row
  BY <1>1, <1>3
<1>5. ASSUME NEW before \in 0..(first - 1), Reads(pending, before)
      PROVE  pending.ids[before] # pending.ids[first]
  <2>1. before \in Nat /\ before < first
    BY <1>4
  <2> QED BY <1>3, <1>5, <2>1
<1> QED BY <1>4, <1>5 DEF Charged

\* The bytes a traced layer is charged are those of the distinct experts it
\* missed and did not drop, each once, however many tokens of the batch route it
\* and whichever of them drop it (flush_pending).
THEOREM EachReadIsChargedOnce ==
  ASSUME NEW pending, pending.nu \in Nat, pending.nt \in Nat,
         NEW base, NEW span, NEW expert_bytes \in Nat \ {0}
  PROVE  LET rows    == FlushPending(pending, base, span, expert_bytes)
             charged == {row \in Rows(pending) : rows[row].expert_bytes # 0}
             missed  == {pending.ids[row] : row \in {r \in Rows(pending) : Reads(pending, r)}}
         IN  /\ \A e \in missed : \E row \in charged : rows[row].expert = e
             /\ \A row \in charged : rows[row].expert \in missed /\ ~rows[row].dropped
             /\ Cardinality(charged) = Cardinality(missed)
<1> DEFINE rows == FlushPending(pending, base, span, expert_bytes)
           reading == {r \in Rows(pending) : Reads(pending, r)}
           charged == {row \in Rows(pending) : rows[row].expert_bytes # 0}
           missed == {pending.ids[row] : row \in reading}
           count == pending.nu * pending.nt
<1>1. count \in Nat /\ Rows(pending) = 0..(count - 1)
  BY DEF Rows
<1> HIDE DEF count
<1>2. ASSUME NEW row \in Rows(pending)
      PROVE  /\ rows[row].expert = pending.ids[row]
             /\ rows[row].dropped = Dropped(pending, row)
             /\ rows[row].expert_bytes = IF Charged(pending, row) THEN expert_bytes ELSE 0
  BY DEF FlushPending
<1> HIDE DEF rows
<1>3. charged = {row \in Rows(pending) : Charged(pending, row)}
  BY <1>2
<1> HIDE DEF charged
<1>4. ASSUME NEW e \in missed
      PROVE  \E row \in charged : pending.ids[row] = e
  <2>1. PICK r \in reading : pending.ids[r] = e
    OBVIOUS
  <2>2. r \in Nat /\ Reads(pending, r) /\ r < count
    BY <1>1
  <2>3. PICK row \in 0..r : Charged(pending, row) /\ pending.ids[row] = pending.ids[r]
    BY <2>2, FirstRead
  <2>4. row \in Rows(pending)
    BY <1>1, <2>2, <2>3
  <2> QED BY <1>3, <2>1, <2>3, <2>4
<1>5. ASSUME NEW row \in charged
      PROVE  pending.ids[row] \in missed /\ ~Dropped(pending, row) /\ row \in Rows(pending)
  BY <1>3 DEF Charged, Reads
<1>6. ASSUME NEW q \in charged, NEW r \in charged, pending.ids[q] = pending.ids[r]
      PROVE  q = r
  <2>1. Charged(pending, q) /\ Charged(pending, r) /\ q \in Nat /\ r \in Nat
    BY <1>1, <1>3
  <2>2. ~(q < r)
    <3>1. q < r => q \in 0..(r - 1)
      BY <2>1
    <3> QED BY <1>6, <2>1, <3>1 DEF Charged
  <2>3. ~(r < q)
    <3>1. r < q => r \in 0..(q - 1)
      BY <2>1
    <3> QED BY <1>6, <2>1, <3>1 DEF Charged
  <2> QED BY <2>1, <2>2, <2>3
<1>7. IsFiniteSet(charged)
  <2>1. IsFiniteSet(Rows(pending))
    BY <1>1, FS_Interval
  <2> QED BY <1>3, <2>1, FS_Subset
<1> HIDE DEF missed
<1>8. ExistsBijection(charged, missed)
  <2> DEFINE f == [row \in charged |-> pending.ids[row]]
  <2>1. f \in [charged -> missed]
    BY <1>5
  <2>2. \A q, r \in charged : f[q] = f[r] => q = r
    BY <1>6
  <2>3. \A e \in missed : \E row \in charged : f[row] = e
    BY <1>4
  <2> HIDE DEF f
  <2>4. f \in Bijection(charged, missed)
    BY <2>1, <2>2, <2>3 DEF Bijection, Injection, Surjection, IsInjective
  <2> QED BY <2>4 DEF ExistsBijection
<1>9. Cardinality(charged) = Cardinality(missed)
  BY <1>7, <1>8, FS_Bijection
<1>10. /\ \A e \in missed : \E row \in charged : rows[row].expert = e
       /\ \A row \in charged : rows[row].expert \in missed /\ ~rows[row].dropped
  BY <1>2, <1>4, <1>5
<1> QED BY <1>9, <1>10 DEF charged, missed, rows
=============================================================================
