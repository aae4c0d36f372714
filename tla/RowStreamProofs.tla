--------------------------- MODULE RowStreamProofs ---------------------------
(***************************************************************************)
(* TLAPS proofs about RowStream, for every set of tables, their sizes, the *)
(* budget and the graphs.  The argument: a gather stamps what it needs with *)
(* a generation no slab carries, so its evictions spare it; the list and    *)
(* the byte count follow each slab that goes or comes; and what one gather  *)
(* puts in place is read before the next gather may evict it.               *)
(***************************************************************************)
EXTENDS RowStream, FiniteSetTheorems, SequenceTheorems, WellFoundedInduction, TLAPS

(***************************************************************************)
(* Rounding, and the sizes of slabs.                                       *)
(***************************************************************************)

LEMMA Division ==
  ASSUME NEW x \in Int, NEW d \in Nat \ {0}
  PROVE  /\ x \div d \in Int /\ d * (x \div d) \in Int /\ d * (x \div d) = (x \div d) * d
         /\ d * (x \div d) <= x /\ x < d * (x \div d) + d
  <1>1. x = d * (x \div d) + (x % d) /\ x % d \in 0..(d - 1) /\ x \div d \in Int
    OBVIOUS
  <1> DEFINE q == x \div d
  <1>2. q \in Int
    BY <1>1
  <1> HIDE DEF q
  <1>3. d * q \in Int /\ d * q = q * d
    BY <1>2
  <1>4. d * (x \div d) \in Int /\ d * (x \div d) = (x \div d) * d
    BY <1>3 DEF q
  <1>5. QED
    BY <1>1, <1>4

\* Of two multiples, the greater is at least one divisor further.
LEMMA Multiples ==
  ASSUME NEW p \in Int, NEW q \in Int, NEW d \in Nat \ {0}, p < q
  PROVE  d * p \in Int /\ d * q \in Int /\ d * p + d <= d * q
  <1>1. \A k \in Int : 0 < k => d <= d * k
    OBVIOUS
  <1>2. d * q = d * p + d * (q - p) /\ d * p \in Int /\ d * q \in Int /\ d * (q - p) \in Int
    OBVIOUS
  <1>3. QED
    BY <1>1, <1>2

\* Division finds the multiple a number is above.
LEMMA DivisionIsFloor ==
  ASSUME NEW x \in Int, NEW d \in Nat \ {0}, NEW q \in Int
  PROVE  /\ d * q <= x <=> q <= x \div d
         /\ x < d * q <=> x \div d < q
  <1> DEFINE p == x \div d
  <1>1. p \in Int /\ d * p \in Int /\ d * p <= x /\ x < d * p + d /\ d * q \in Int
    BY Division
  <1> HIDE DEF p
  <1>2. p < q => d * p + d <= d * q
    BY <1>1, Multiples
  <1>3. q < p => d * q + d <= d * p
    BY <1>1, Multiples
  <1>4. q = p \/ q < p \/ p < q
    BY <1>1
  <1>5. d * q <= x <=> q <= p
    BY <1>1, <1>2, <1>3, <1>4
  <1>6. x < d * q <=> p < q
    BY <1>1, <1>5
  <1>7. QED
    BY <1>5, <1>6 DEF p

LEMMA RoundedUp ==
  ASSUME NEW v \in Nat, NEW a \in Nat \ {0}
  PROVE  /\ RoundUp(v, a) \in Nat /\ v <= RoundUp(v, a) /\ RoundUp(v, a) < v + a
         /\ \A q \in Int : v <= a * q => RoundUp(v, a) <= a * q
  <1> DEFINE x == v + a - 1
             p == x \div a
  <1>1. x \in Int
    OBVIOUS
  <1>2. p \in Int /\ a * p \in Int /\ a * p = p * a /\ a * p <= x /\ x < a * p + a
    BY <1>1, Division
  <1>3. RoundUp(v, a) = a * p
    BY <1>2 DEF RoundUp
  <1>4. v <= a * p /\ a * p < v + a
    BY <1>2
  <1>5. ASSUME NEW q \in Int, v <= a * q
        PROVE  a * p <= a * q
    <2> HIDE DEF x, p
    <2>1. q < p => a * q + a <= a * p
      BY <1>2, Multiples
    <2>2. a * q \in Int
      OBVIOUS
    <2>3. ~(q < p)
      BY <1>2, <1>4, <1>5, <2>1, <2>2
    <2>4. p < q => a * p + a <= a * q
      BY <1>2, Multiples
    <2>5. QED
      BY <1>2, <2>2, <2>3, <2>4
  <1>6. QED
    BY <1>2, <1>3, <1>4, <1>5

\* A table holds bytes, its slabs cover them, and a slab's pages are at most
\* a slab.
LEMMA SlabFacts ==
  ASSUME NEW t \in Tables
  PROVE  /\ Size(t) \in Nat \ {0} /\ NSlabs(t) \in Nat
         /\ \A k \in Nat : k \in SlabsOf(t) <=> k * SlabBytes < Size(t)
  <1>1. SlabBytes \in Nat \ {0} /\ RowBytes[t] \in Nat \ {0} /\ NRows[t] \in Nat \ {0}
    BY RowStreamAssumption
  <1>2. Size(t) \in Nat \ {0}
    <2>1. \A a, b \in Nat \ {0} : a * b \in Nat \ {0}
      OBVIOUS
    <2>2. QED
      BY <1>1, <2>1 DEF Size
  <1> DEFINE x == Size(t) + SlabBytes - 1
             p == x \div SlabBytes
  <1>3. x \in Int /\ p \in Int /\ p * SlabBytes = SlabBytes * p /\ SlabBytes * p \in Int
    BY <1>1, <1>2, Division
  <1>4. NSlabs(t) = p
    <2>1. NSlabs(t) = (p * SlabBytes) \div SlabBytes
      BY DEF NSlabs, RoundUp
    <2> HIDE DEF x, p
    <2> DEFINE y == (p * SlabBytes) \div SlabBytes
    <2>2. p * SlabBytes \in Int
      BY <1>3
    <2>3. y \in Int
      BY <1>1, <2>2, Division
    <2>4. SlabBytes * p <= p * SlabBytes /\ p * SlabBytes < SlabBytes * (p + 1)
      BY <1>1, <1>3
    <2>5. p <= y /\ y < p + 1
      BY <1>1, <1>3, <2>2, <2>4, DivisionIsFloor
    <2> HIDE DEF y
    <2>6. y = p
      BY <1>3, <2>3, <2>5
    <2>7. QED
      BY <2>1, <2>6 DEF y
  <1>5. ASSUME NEW k \in Nat
        PROVE  k < p <=> k * SlabBytes < Size(t)
    <2> HIDE DEF p
    <2>1. k + 1 \in Int /\ SlabBytes * (k + 1) = k * SlabBytes + SlabBytes /\ k * SlabBytes \in Int
      BY <1>1
    <2>2. SlabBytes * (k + 1) <= x <=> k + 1 <= p
      BY <1>1, <1>3, <2>1, DivisionIsFloor DEF p
    <2>3. SlabBytes * (k + 1) <= x <=> k * SlabBytes < Size(t)
      BY <1>1, <1>2, <2>1
    <2>4. QED
      BY <1>3, <2>2, <2>3
  <1>6. 0 <= p
    <2>1. SlabBytes * 0 <= x
      BY <1>1, <1>2
    <2>2. QED
      BY <1>1, <1>3, <2>1, DivisionIsFloor
  <1> HIDE DEF x, p
  <1>7. QED
    BY <1>2, <1>3, <1>4, <1>5, <1>6 DEF SlabsOf

LEMMA SlabCommits ==
  ASSUME NEW s \in Slab
  PROVE  CommitBytes(s) \in 0..SlabBytes
  <1>0. PICK t \in Tables : s \in {t} \X SlabsOf(t)
    BY DEF Slab
  <1>1. PICK k \in SlabsOf(t) : s = <<t, k>>
    BY <1>0
  <1>2. /\ SlabBytes \in Nat \ {0} /\ Page \in Nat \ {0} /\ SlabBytes % Page = 0
        /\ Size(t) \in Nat \ {0} /\ NSlabs(t) \in Nat
    BY SlabFacts, RowStreamAssumption
  <1>3. k \in Nat /\ k * SlabBytes < Size(t)
    BY <1>1, <1>2, SlabFacts DEF SlabsOf
  <1> DEFINE off == k * SlabBytes
             len == Smaller(SlabBytes, Size(t) - off)
             span == RoundUp(Size(t), Page)
             pages == RoundUp(len, Page)
  <1>4. off \in Nat /\ off < Size(t)
    <2>1. \A a, b \in Nat : a * b \in Nat
      OBVIOUS
    <2>2. QED
      BY <1>2, <1>3, <2>1
  <1>5. len \in Nat /\ len <= SlabBytes
    BY <1>2, <1>4 DEF Smaller
  <1>6. span \in Nat /\ Size(t) <= span
    BY <1>2, RoundedUp
  <1>7. pages \in Nat /\ pages <= SlabBytes
    <2>1. SlabBytes = Page * (SlabBytes \div Page) /\ SlabBytes \div Page \in Int
      BY <1>2
    <2> HIDE DEF len
    <2>2. QED
      BY <1>2, <1>5, <2>1, RoundedUp
  <1>8. CommitBytes(s) = Smaller(pages, span - off)
    BY <1>1 DEF CommitBytes
  <1> HIDE DEF off, len, span, pages
  <1>9. QED
    BY <1>2, <1>4, <1>6, <1>7, <1>8 DEF Smaller

\* Every byte of a row is in a slab the row needs.
LEMMA RowBytesInSlabs ==
  ASSUME NEW t \in Tables, NEW r \in 0..(NRows[t] - 1),
         NEW b \in (r * RowBytes[t])..(r * RowBytes[t] + RowBytes[t] - 1)
  PROVE  b \div SlabBytes \in SlabsOfRow(t, r)
  <1>1. /\ SlabBytes \in Nat \ {0} /\ RowBytes[t] \in Nat \ {0} /\ NRows[t] \in Nat \ {0}
        /\ Size(t) \in Nat
    BY SlabFacts, RowStreamAssumption
  <1> DEFINE a == r * RowBytes[t]
             p == a \div SlabBytes
             q == b \div SlabBytes
  <1>2. a \in Nat /\ a + RowBytes[t] <= Size(t)
    <2>1. a \in Nat
      <3>1. \A x, y \in Nat : x * y \in Nat
        OBVIOUS
      <3>2. QED
        BY <1>1, <3>1
    <2>2. RowBytes[t] * r + RowBytes[t] <= RowBytes[t] * NRows[t]
      BY <1>1, Multiples
    <2>3. RowBytes[t] * r = a
      BY <1>1
    <2>4. QED
      BY <2>1, <2>2, <2>3 DEF Size
  <1> HIDE DEF a
  <1>3. b \in Nat /\ a <= b /\ b < a + RowBytes[t] /\ b < Size(t)
    BY <1>1, <1>2 DEF a
  <1>4. /\ p \in Int /\ q \in Int /\ SlabBytes * p <= a /\ SlabBytes * q <= b
        /\ SlabBytes * q \in Int /\ SlabBytes * p \in Int /\ q * SlabBytes = SlabBytes * q
    BY <1>1, <1>2, <1>3, Division
  <1> HIDE DEF q
  <1>5. p <= q
    <2>1. SlabBytes * p <= b
      BY <1>2, <1>3, <1>4
    <2>2. QED
      BY <1>1, <1>3, <1>4, <2>1, DivisionIsFloor DEF q
  <1>6. q \in Nat
    <2>1. SlabBytes * 0 <= b
      BY <1>1, <1>3
    <2>2. QED
      BY <1>1, <1>3, <1>4, <2>1, DivisionIsFloor DEF q
  <1>7. q \in SlabsOf(t)
    BY <1>1, <1>3, <1>4, <1>6, SlabFacts
  <1>8. q * SlabBytes < Smaller(a + RowBytes[t], Size(t))
    BY <1>1, <1>2, <1>3, <1>4 DEF Smaller
  <1>9. QED
    BY <1>5, <1>7, <1>8 DEF SlabsOfRow, q, a
-----------------------------------------------------------------------------
(***************************************************************************)
(* The bytes of a set of slabs: a sum by recursion over an arbitrary        *)
(* choice.  It exists, is a number, and any slab can be taken from it.      *)
(***************************************************************************)

LEMMA LeastNumber ==
  ASSUME NEW T, T \subseteq Nat, T # {}
  PROVE  \E x \in T : \A y \in T : x <= y
  <1>1. PICK x \in T : \A y \in T : ~ (<<y, x>> \in OpToRel(<, Nat))
    BY NatLessThanWellFounded, WFMin
  <1>2. ASSUME NEW y \in T
        PROVE  x <= y
    <2>1. ~(y < x) /\ x \in Nat /\ y \in Nat
      BY <1>1 DEF OpToRel
    <2>2. QED
      BY <2>1
  <1>3. QED
    BY <1>2

AnyOf(S) == CHOOSE id \in S : TRUE
UpTo(n) == {S \in SUBSET Slab : Cardinality(S) <= n}
SumsUpTo(f, n) ==
  f = [S \in UpTo(n) |-> IF S = {} THEN 0 ELSE CommitBytes(AnyOf(S)) + f[S \ {AnyOf(S)}]]

LEMMA SlabsFinite ==
  /\ IsFiniteSet(Slab) /\ Cardinality(Slab) \in Nat
  /\ \A S \in SUBSET Slab : IsFiniteSet(S) /\ Cardinality(S) \in 0..Cardinality(Slab)
  /\ \A S \in SUBSET Slab : \A id \in S : Cardinality(S \ {id}) = Cardinality(S) - 1
  /\ \A S \in SUBSET Slab : S # {} => Cardinality(S) >= 1 /\ AnyOf(S) \in S
  /\ \A id \in Slab : CommitBytes(id) \in Nat
  <1>1. IsFiniteSet(Slab) /\ Cardinality(Slab) \in Nat
    <2> DEFINE U == {{t} \X SlabsOf(t) : t \in Tables}
               f == [t \in Tables |-> {t} \X SlabsOf(t)]
    <2>1. f \in Surjection(Tables, U)
      BY DEF Surjection
    <2>2. IsFiniteSet(Tables)
      BY RowStreamAssumption
    <2>3. IsFiniteSet(U)
      <3> HIDE DEF f, U
      <3>1. QED
        BY <2>1, <2>2, FS_Surjection
    <2>4. ASSUME NEW t \in Tables
          PROVE  IsFiniteSet({t} \X SlabsOf(t))
      <3>1. NSlabs(t) \in Nat
        BY SlabFacts
      <3>2. IsFiniteSet(SlabsOf(t))
        BY <3>1, FS_Interval DEF SlabsOf
      <3>3. IsFiniteSet({t})
        BY FS_Singleton
      <3>4. QED
        BY <3>2, <3>3, FS_Product
    <2>5. \A T \in U : IsFiniteSet(T)
      BY <2>4
    <2>6. IsFiniteSet(UNION U)
      <3> HIDE DEF U
      <3>1. QED
        BY <2>3, <2>5, FS_UNION
    <2>7. Slab = UNION U
      BY DEF Slab
    <2>8. QED
      BY <2>6, <2>7, FS_CardinalityType
  <1>2. ASSUME NEW S \in SUBSET Slab
        PROVE  /\ IsFiniteSet(S) /\ Cardinality(S) \in 0..Cardinality(Slab)
               /\ \A id \in S : Cardinality(S \ {id}) = Cardinality(S) - 1
               /\ S # {} => Cardinality(S) >= 1 /\ AnyOf(S) \in S
    <2>1. IsFiniteSet(S) /\ Cardinality(S) \in Nat /\ Cardinality(S) <= Cardinality(Slab)
      BY <1>1, FS_Subset, FS_CardinalityType
    <2>2. \A id \in S : Cardinality(S \ {id}) = Cardinality(S) - 1
      BY <2>1, FS_RemoveElement
    <2>3. S # {} => Cardinality(S) >= 1
      BY <2>1, FS_EmptySet
    <2>4. S # {} => AnyOf(S) \in S
      BY DEF AnyOf
    <2>5. QED
      BY <1>1, <2>1, <2>2, <2>3, <2>4
  <1>3. \A id \in Slab : CommitBytes(id) \in Nat
    BY SlabCommits, RowStreamAssumption
  <1>4. QED
    BY <1>1, <1>2, <1>3

(* The sums exist: were there a least size without them, those below it     *)
(* would give them.                                                         *)
LEMMA SumsExist == \A n \in Nat : \E f \in [UpTo(n) -> Int] : SumsUpTo(f, n)
  <1> DEFINE Bad == {n \in Nat : ~ \E f \in [UpTo(n) -> Int] : SumsUpTo(f, n)}
  <1>1. ASSUME Bad # {}
        PROVE  FALSE
    <2>1. PICK n \in Bad : \A k \in Bad : n <= k
      BY <1>1, LeastNumber
    <2>2. \A S \in UpTo(n) : S \in SUBSET Slab /\ (S # {} => AnyOf(S) \in S)
      BY SlabsFinite DEF UpTo
    <2>3. CASE n = 0
      <3> DEFINE f == [S \in UpTo(0) |-> 0]
      <3>1. \A S \in UpTo(0) : S = {}
        BY SlabsFinite DEF UpTo
      <3>2. f \in [UpTo(0) -> Int] /\ SumsUpTo(f, 0)
        BY <3>1 DEF SumsUpTo
      <3>3. QED
        BY <2>1, <2>3, <3>2
    <2>4. CASE n # 0
      <3>1. n - 1 \in Nat /\ n - 1 \notin Bad
        BY <2>1, <2>4
      <3>2. PICK f \in [UpTo(n - 1) -> Int] : SumsUpTo(f, n - 1)
        BY <3>1
      <3> DEFINE g == [S \in UpTo(n) |-> IF S = {} THEN 0 ELSE CommitBytes(AnyOf(S)) + f[S \ {AnyOf(S)}]]
      <3>3. \A S \in UpTo(n) : S # {} => S \ {AnyOf(S)} \in UpTo(n - 1)
        BY <2>1, <2>2, SlabsFinite DEF UpTo
      <3>4. \A S \in UpTo(n) : S # {} => CommitBytes(AnyOf(S)) \in Int
        BY <2>2, SlabsFinite
      <3>5. g \in [UpTo(n) -> Int]
        BY <3>2, <3>3, <3>4
      <3>6. \A S \in UpTo(n - 1) :
              S \in UpTo(n) /\ f[S] = IF S = {} THEN 0 ELSE CommitBytes(AnyOf(S)) + f[S \ {AnyOf(S)}]
        <4>1. ASSUME NEW S \in UpTo(n - 1)
              PROVE  S \in UpTo(n)
          <5>1. Cardinality(S) \in Nat /\ Cardinality(S) <= n - 1 /\ S \in SUBSET Slab
            BY SlabsFinite DEF UpTo
          <5>2. QED
            BY <2>1, <5>1 DEF UpTo
        <4>2. \A S \in UpTo(n - 1) :
                f[S] = IF S = {} THEN 0 ELSE CommitBytes(AnyOf(S)) + f[S \ {AnyOf(S)}]
          BY <3>2, Zenon DEF SumsUpTo
        <4>3. QED
          BY <4>1, <4>2
      <3>7. \A S \in UpTo(n - 1) : g[S] = f[S]
        BY <3>6
      <3>8. \A S \in UpTo(n) : S # {} => g[S \ {AnyOf(S)}] = f[S \ {AnyOf(S)}]
        BY <3>3, <3>7
      <3>9. SumsUpTo(g, n)
        BY <3>8 DEF SumsUpTo
      <3> HIDE DEF g
      <3>10. QED
        BY <2>1, <3>5, <3>9
    <2>5. QED
      BY <2>3, <2>4
  <1>2. QED
    BY <1>1

LEMMA TotalBytesDef ==
  \A S \in SUBSET Slab :
    TotalBytes[S] = IF S = {} THEN 0 ELSE CommitBytes(AnyOf(S)) + TotalBytes[S \ {AnyOf(S)}]
  <1> DEFINE N == Cardinality(Slab)
  <1>1. PICK f \in [UpTo(N) -> Int] : SumsUpTo(f, N)
    BY SlabsFinite, SumsExist
  <1>2. UpTo(N) = SUBSET Slab
    BY SlabsFinite DEF UpTo
  <1>3. f = [S \in SUBSET Slab |->
               IF S = {} THEN 0 ELSE LET s == CHOOSE s \in S : TRUE
                                     IN  CommitBytes(s) + f[S \ {s}]]
    BY <1>1, <1>2 DEF SumsUpTo, AnyOf
  <1>4. TotalBytes = [S \in SUBSET Slab |->
               IF S = {} THEN 0 ELSE LET s == CHOOSE s \in S : TRUE
                                     IN  CommitBytes(s) + TotalBytes[S \ {s}]]
    BY <1>3 DEF TotalBytes
  <1>5. QED
    BY <1>4, Zenon DEF AnyOf

(* The bytes of a set are a number, and a slab weighs in it what it is:   *)
(* whichever slab the sum takes first, it can be taken last.               *)
LEMMA TotalBytesInt == \A S \in SUBSET Slab : TotalBytes[S] \in Int
  <1> DEFINE Bad == {S \in SUBSET Slab : TotalBytes[S] \notin Int}
             Sizes == {Cardinality(S) : S \in Bad}
  <1>1. ASSUME Bad # {}
        PROVE  FALSE
    <2>1. Sizes \subseteq Nat /\ Sizes # {}
      BY <1>1, SlabsFinite
    <2>2. PICK n \in Sizes : \A k \in Sizes : n <= k
      <3> HIDE DEF Sizes
      <3>1. QED
        BY <2>1, LeastNumber
    <2>3. PICK S \in Bad : Cardinality(S) = n
      BY <2>2
    <2>4. S # {}
      <3>1. TotalBytes[{}] = 0
        BY TotalBytesDef
      <3>2. TotalBytes[S] \notin Int
        BY <2>3
      <3>3. QED
        BY <3>1, <3>2
    <2> DEFINE T == S \ {AnyOf(S)}
    <2>5. T \in SUBSET Slab /\ Cardinality(T) = n - 1 /\ n \in Nat /\ AnyOf(S) \in Slab
      BY <2>1, <2>2, <2>3, <2>4, SlabsFinite
    <2>6. T \notin Bad
      <3>1. T \in Bad => Cardinality(T) \in Sizes
        OBVIOUS
      <3> HIDE DEF Sizes, Bad, T
      <3>2. QED
        BY <2>2, <2>5, <3>1
    <2>7. TotalBytes[S] = CommitBytes(AnyOf(S)) + TotalBytes[T]
      BY <2>3, <2>4, TotalBytesDef
    <2>8. CommitBytes(AnyOf(S)) \in Int /\ TotalBytes[T] \in Int
      BY <2>5, <2>6, SlabsFinite
    <2>9. QED
      BY <2>3, <2>7, <2>8
  <1>2. QED
    BY <1>1

LEMMA SlabWeighs ==
  \A S \in SUBSET Slab : \A id \in S :
    TotalBytes[S] = CommitBytes(id) + TotalBytes[S \ {id}]
  <1> DEFINE Bad == {S \in SUBSET Slab :
                       \E id \in S : TotalBytes[S] # CommitBytes(id) + TotalBytes[S \ {id}]}
             Sizes == {Cardinality(S) : S \in Bad}
  <1>1. ASSUME Bad # {}
        PROVE  FALSE
    <2>1. Sizes \subseteq Nat /\ Sizes # {}
      BY <1>1, SlabsFinite
    <2>2. PICK n \in Sizes : \A k \in Sizes : n <= k
      <3> HIDE DEF Sizes
      <3>1. QED
        BY <2>1, LeastNumber
    <2>3. PICK S \in Bad : Cardinality(S) = n
      BY <2>2
    <2>4. PICK id \in S : TotalBytes[S] # CommitBytes(id) + TotalBytes[S \ {id}]
      BY <2>3
    <2> DEFINE c == AnyOf(S)
               T == S \ {c}
               U == S \ {id}
               V == S \ {c, id}
    <2>5. c \in S /\ S \in SUBSET Slab /\ TotalBytes[S] = CommitBytes(c) + TotalBytes[T]
      BY <2>3, <2>4, SlabsFinite, TotalBytesDef
    <2> HIDE DEF c
    <2>6. c # id
      BY <2>4, <2>5
    <2>7. /\ T \in SUBSET Slab /\ Cardinality(T) = n - 1
          /\ U \in SUBSET Slab /\ Cardinality(U) = n - 1 /\ n \in Nat
      BY <2>1, <2>3, <2>4, <2>5, SlabsFinite
    <2>8. T \notin Bad /\ U \notin Bad
      <3>1. (T \in Bad => Cardinality(T) \in Sizes) /\ (U \in Bad => Cardinality(U) \in Sizes)
        OBVIOUS
      <3> HIDE DEF Sizes, Bad, T, U
      <3>2. QED
        BY <2>2, <2>7, <3>1
    <2>9. TotalBytes[T] = CommitBytes(id) + TotalBytes[V]
      <3>1. id \in T /\ T \ {id} = V
        BY <2>4, <2>6
      <3>2. QED
        BY <2>7, <2>8, <3>1
    <2>10. TotalBytes[U] = CommitBytes(c) + TotalBytes[V]
      <3>1. c \in U /\ U \ {c} = V
        BY <2>5, <2>6
      <3>2. QED
        BY <2>7, <2>8, <3>1
    <2>11. CommitBytes(c) \in Int /\ CommitBytes(id) \in Int /\ TotalBytes[V] \in Int
      BY <2>5, SlabsFinite, TotalBytesInt
    <2>12. QED
      BY <2>4, <2>5, <2>9, <2>10, <2>11
  <1>2. QED
    BY <1>1

\* The bytes of a set are between none and a slab for each member.
LEMMA TotalBytesBound ==
  \A S \in SUBSET Slab : TotalBytes[S] \in Nat /\ TotalBytes[S] <= SlabBytes * Cardinality(S)
  <1> DEFINE Good(S) == TotalBytes[S] \in Nat /\ TotalBytes[S] <= SlabBytes * Cardinality(S)
             Bad == {S \in SUBSET Slab : ~Good(S)}
             Sizes == {Cardinality(S) : S \in Bad}
  <1>1. ASSUME Bad # {}
        PROVE  FALSE
    <2>1. Sizes \subseteq Nat /\ Sizes # {}
      BY <1>1, SlabsFinite
    <2>2. PICK n \in Sizes : \A k \in Sizes : n <= k
      <3> HIDE DEF Sizes
      <3>1. QED
        BY <2>1, LeastNumber
    <2>3. PICK S \in Bad : Cardinality(S) = n
      BY <2>2
    <2>4. SlabBytes \in Nat /\ n \in Nat /\ S \in SUBSET Slab
      BY <2>1, <2>2, <2>3, RowStreamAssumption
    <2>5. S # {}
      <3>1. TotalBytes[{}] = 0
        BY TotalBytesDef
      <3>2. Good({})
        BY <3>1, FS_EmptySet, <2>4
      <3>3. QED
        BY <2>3, <3>2
    <2> DEFINE T == S \ {AnyOf(S)}
    <2>6. /\ T \in SUBSET Slab /\ Cardinality(T) = n - 1 /\ n - 1 \in Nat
          /\ AnyOf(S) \in Slab
      BY <2>3, <2>4, <2>5, SlabsFinite
    <2>7. T \notin Bad
      <3>1. T \in Bad => Cardinality(T) \in Sizes
        OBVIOUS
      <3> HIDE DEF Sizes, Bad, T
      <3>2. QED
        BY <2>2, <2>4, <2>6, <3>1
    <2>8. TotalBytes[T] \in Nat /\ TotalBytes[T] <= SlabBytes * (n - 1)
      BY <2>6, <2>7
    <2>9. TotalBytes[S] = CommitBytes(AnyOf(S)) + TotalBytes[T]
      BY <2>4, <2>5, TotalBytesDef
    <2>10. CommitBytes(AnyOf(S)) \in 0..SlabBytes
      BY <2>6, SlabCommits
    <2> HIDE DEF T
    <2>11. SlabBytes * n = SlabBytes * (n - 1) + SlabBytes /\ SlabBytes * (n - 1) \in Nat
      BY <2>4, <2>6
    <2>12. Good(S)
      BY <2>3, <2>4, <2>8, <2>9, <2>10, <2>11
    <2>13. QED
      BY <2>3, <2>12
  <1>2. QED
    BY <1>1

\* Sets with no slab in common weigh what they weigh together.
LEMMA TotalBytesAdd ==
  ASSUME NEW A \in SUBSET Slab
  PROVE  \A B \in SUBSET Slab : A \cap B = {} => TotalBytes[A \cup B] = TotalBytes[A] + TotalBytes[B]
  <1> DEFINE Bad == {B \in SUBSET Slab : A \cap B = {} /\ TotalBytes[A \cup B] # TotalBytes[A] + TotalBytes[B]}
             Sizes == {Cardinality(S) : S \in Bad}
  <1>1. ASSUME Bad # {}
        PROVE  FALSE
    <2>1. Sizes \subseteq Nat /\ Sizes # {}
      <3>1. Bad \subseteq SUBSET Slab
        OBVIOUS
      <3> HIDE DEF Bad
      <3>2. \A S \in Bad : Cardinality(S) \in Nat
        BY <3>1, SlabsFinite
      <3>3. QED
        BY <1>1, <3>2
    <2>2. PICK n \in Sizes : \A k \in Sizes : n <= k
      <3> HIDE DEF Sizes
      <3>1. QED
        BY <2>1, LeastNumber
    <2>3. PICK B \in Bad : Cardinality(B) = n
      BY <2>2
    <2>4. n \in Nat /\ B \in SUBSET Slab /\ A \cap B = {}
      BY <2>1, <2>2, <2>3
    <2>5. B # {}
      <3>0. TotalBytes[A \cup B] # TotalBytes[A] + TotalBytes[B]
        BY <2>3
      <3>1. TotalBytes[{}] = 0 /\ TotalBytes[A] \in Int
        BY TotalBytesDef, TotalBytesInt
      <3>2. ASSUME B = {}
            PROVE  FALSE
        <4>1. A \cup B = A
          BY <3>2
        <4>2. TotalBytes[A \cup B] = TotalBytes[A] /\ TotalBytes[B] = 0
          BY <3>1, <3>2, <4>1
        <4>3. QED
          BY <3>0, <3>1, <4>2
      <3>3. QED
        BY <3>2
    <2>6. PICK s \in B : TRUE
      BY <2>5
    <2> DEFINE C == B \ {s}
    <2>7. C \in SUBSET Slab /\ Cardinality(C) = n - 1 /\ A \cap C = {}
      BY <2>3, <2>4, <2>6, SlabsFinite
    <2>8. C \notin Bad
      <3>1. C \in Bad => Cardinality(C) \in Sizes
        OBVIOUS
      <3> HIDE DEF Sizes, Bad, C
      <3>2. QED
        BY <2>2, <2>4, <2>7, <3>1
    <2>9. TotalBytes[A \cup C] = TotalBytes[A] + TotalBytes[C]
      BY <2>7, <2>8
    <2>10. TotalBytes[B] = CommitBytes(s) + TotalBytes[C]
      BY <2>4, <2>6, SlabWeighs
    <2>11. TotalBytes[A \cup B] = CommitBytes(s) + TotalBytes[A \cup C]
      <3>1. (A \cup B) \ {s} = A \cup C /\ s \in A \cup B /\ A \cup B \in SUBSET Slab
        BY <2>4, <2>6
      <3>2. QED
        BY <3>1, SlabWeighs
    <2>12. /\ TotalBytes[A] \in Int /\ TotalBytes[C] \in Int /\ CommitBytes(s) \in Int
      BY <2>4, <2>6, <2>7, TotalBytesInt, SlabsFinite
    <2>13. TotalBytes[A \cup B] = TotalBytes[A] + TotalBytes[B]
      BY <2>9, <2>10, <2>11, <2>12
    <2>14. QED
      BY <2>3, <2>13
  <1>2. QED
    BY <1>1
-----------------------------------------------------------------------------
(***************************************************************************)
(* The members of a finite set in the order of their keys, and a sequence   *)
(* without the members of a set.                                            *)
(***************************************************************************)

Below(S, key, e) == {f \in S : key[f] < key[e]}

\* The ranks of the members are the numbers below how many they are.
LEMMA Ranks ==
  ASSUME NEW S, IsFiniteSet(S), NEW key \in [S -> Int], IsInjective(key)
  PROVE  /\ \A e \in S : Rank(S, key, e) \in 0..(Cardinality(S) - 1)
         /\ \A e, f \in S : Rank(S, key, e) = Rank(S, key, f) => e = f
         /\ \A k \in 1..Cardinality(S) : \E e \in S : Rank(S, key, e) = k - 1
  <1> DEFINE n == Cardinality(S)
  <1>1. n \in Nat
    BY FS_CardinalityType
  <1>2. ASSUME NEW e \in S
        PROVE  /\ Below(S, key, e) \subseteq S /\ e \notin Below(S, key, e)
               /\ IsFiniteSet(Below(S, key, e)) /\ Rank(S, key, e) \in Nat
               /\ Cardinality(Below(S, key, e) \cup {e}) = Rank(S, key, e) + 1
    <2>1. Below(S, key, e) \subseteq S /\ e \notin Below(S, key, e)
      BY DEF Below
    <2>2. IsFiniteSet(Below(S, key, e)) /\ Cardinality(Below(S, key, e)) \in Nat
      BY <2>1, FS_Subset, FS_CardinalityType
    <2>3. Cardinality(Below(S, key, e) \cup {e}) = Cardinality(Below(S, key, e)) + 1
      BY <2>1, <2>2, FS_AddElement
    <2>4. QED
      BY <2>1, <2>2, <2>3 DEF Rank, Below
  <1>3. ASSUME NEW e \in S
        PROVE  Rank(S, key, e) \in 0..(n - 1)
    <2> DEFINE B == Below(S, key, e) \cup {e}
    <2>1. B \in SUBSET S /\ Cardinality(B) = Rank(S, key, e) + 1 /\ Rank(S, key, e) \in Nat
      BY <1>2
    <2> HIDE DEF B
    <2>2. Cardinality(B) <= n
      BY <2>1, FS_Subset
    <2>3. QED
      BY <1>1, <2>1, <2>2
  <1>4. ASSUME NEW e \in S, NEW f \in S, key[e] < key[f]
        PROVE  Rank(S, key, e) < Rank(S, key, f)
    <2> DEFINE B == Below(S, key, e) \cup {e}
               F == Below(S, key, f)
    <2>1. B \in SUBSET F
      <3>1. \A g \in S : key[g] \in Int
        OBVIOUS
      <3>2. QED
        BY <1>4, <3>1 DEF Below
    <2>2. IsFiniteSet(F) /\ Rank(S, key, f) \in Nat /\ Rank(S, key, f) = Cardinality(F)
      <3>1. Rank(S, key, f) = Cardinality(F)
        BY DEF Rank, Below
      <3>2. QED
        BY <1>2, <3>1
    <2>3. Cardinality(B) = Rank(S, key, e) + 1 /\ Rank(S, key, e) \in Nat
      BY <1>2
    <2> HIDE DEF B, F
    <2>4. Cardinality(B) <= Cardinality(F)
      BY <2>1, <2>2, FS_Subset
    <2>5. QED
      BY <2>2, <2>3, <2>4
  <1>5. ASSUME NEW e \in S, NEW f \in S, Rank(S, key, e) = Rank(S, key, f)
        PROVE  e = f
    <2>1. key[e] = key[f] \/ key[e] < key[f] \/ key[f] < key[e]
      OBVIOUS
    <2>2. key[e] = key[f] => e = f
      BY DEF IsInjective
    <2>3. Rank(S, key, e) \in Nat /\ Rank(S, key, f) \in Nat
      BY <1>2
    <2>4. ~(key[e] < key[f]) /\ ~(key[f] < key[e])
      <3>1. key[e] < key[f] => Rank(S, key, e) < Rank(S, key, f)
        BY <1>4
      <3>2. key[f] < key[e] => Rank(S, key, f) < Rank(S, key, e)
        BY <1>4
      <3>3. QED
        BY <1>5, <2>3, <3>1, <3>2
    <2>5. QED
      BY <2>1, <2>2, <2>4
  <1> DEFINE r == [e \in S |-> Rank(S, key, e)]
  <1>6. r \in Injection(S, 0..(n - 1))
    BY <1>3, <1>5 DEF Injection, IsInjective
  <1>7. IsFiniteSet(0..(n - 1)) /\ Cardinality(0..(n - 1)) = n
    BY <1>1, FS_Interval
  <1>8. r \in Surjection(S, 0..(n - 1))
    <2> HIDE DEF r
    <2>1. QED
      BY <1>6, <1>7, FS_Injection
  <1>9. ASSUME NEW k \in 1..n
        PROVE  \E e \in S : Rank(S, key, e) = k - 1
    <2>1. k - 1 \in 0..(n - 1)
      BY <1>1
    <2>2. \E e \in S : r[e] = k - 1
      BY <1>8, <2>1 DEF Surjection
    <2>3. QED
      BY <2>2
  <1>10. QED
    BY <1>3, <1>5, <1>9

LEMMA SortedIsList ==
  ASSUME NEW S, IsFiniteSet(S), NEW key \in [S -> Int], IsInjective(key)
  PROVE  /\ Sorted(S, key) \in Seq(S)
         /\ Range(Sorted(S, key)) = S /\ IsInjective(Sorted(S, key))
  <1> DEFINE n == Cardinality(S)
             l == [k \in 1..n |-> CHOOSE e \in S : Rank(S, key, e) = k - 1]
  <1>1. n \in Nat /\ Sorted(S, key) = l
    BY FS_CardinalityType DEF Sorted
  <1>2. \A k \in 1..n : l[k] \in S /\ Rank(S, key, l[k]) = k - 1
    <2>1. \A k \in 1..n : \E e \in S : Rank(S, key, e) = k - 1
      BY Ranks
    <2>2. QED
      BY <2>1
  <1>3. DOMAIN l = 1..n
    OBVIOUS
  <1>4. l \in Seq(S)
    <2>1. l \in [1..n -> S]
      BY <1>2
    <2> HIDE DEF l
    <2>2. QED
      BY <1>1, <2>1, SeqDef
  <1> HIDE DEF l
  <1>5. IsInjective(l)
    <2>1. ASSUME NEW i \in 1..n, NEW k \in 1..n, l[i] = l[k]
          PROVE  i = k
      <3>1. i - 1 = k - 1
        BY <1>2, <2>1
      <3>2. QED
        BY <1>1, <3>1
    <2>2. QED
      BY <1>3, <2>1 DEF IsInjective
  <1>6. ASSUME NEW e \in S
        PROVE  e \in Range(l)
    <2>1. Rank(S, key, e) \in 0..(n - 1)
      BY Ranks
    <2> DEFINE k == Rank(S, key, e) + 1
    <2>2. k \in 1..n /\ k - 1 = Rank(S, key, e)
      BY <1>1, <2>1
    <2> HIDE DEF k
    <2>3. l[k] \in S /\ Rank(S, key, l[k]) = Rank(S, key, e)
      BY <1>2, <2>2
    <2>4. l[k] = e
      BY <2>3, Ranks
    <2>5. QED
      BY <1>3, <2>2, <2>4 DEF Range
  <1>7. Range(l) \subseteq S
    BY <1>2, <1>3 DEF Range
  <1>8. QED
    BY <1>1, <1>4, <1>5, <1>6, <1>7

LEMMA SlabsSorted ==
  ASSUME NEW t \in Tables, NEW S \in SUBSET ({t} \X SlabsOf(t))
  PROVE  /\ SortedSlabs(S) \in Seq(S)
         /\ Range(SortedSlabs(S)) = S /\ IsInjective(SortedSlabs(S))
  <1> DEFINE key == [s \in S |-> s[2]]
  <1>1. IsFiniteSet(S)
    <2>1. S \in SUBSET Slab
      BY DEF Slab
    <2>2. QED
      BY <2>1, SlabsFinite
  <1>2. NSlabs(t) \in Nat
    BY SlabFacts
  <1>3. key \in [S -> Int]
    BY <1>2 DEF SlabsOf
  <1>4. IsInjective(key)
    BY DEF IsInjective
  <1> HIDE DEF key
  <1>5. QED
    BY <1>1, <1>3, <1>4, SortedIsList DEF SortedSlabs, key

LEMMA WithoutLeaves ==
  ASSUME NEW T, NEW s \in Seq(T), IsInjective(s), NEW S
  PROVE  /\ Without(s, S) \in Seq(T) /\ IsInjective(Without(s, S))
         /\ Range(Without(s, S)) = Range(s) \ S
  <1> DEFINE kept == {i \in DOMAIN s : s[i] \notin S}
             key == [i \in kept |-> i]
             at == Sorted(kept, key)
             w == [k \in DOMAIN at |-> s[at[k]]]
  <1>1. Without(s, S) = w
    BY DEF Without
  <1>2. DOMAIN s = 1..Len(s) /\ Len(s) \in Nat /\ s \in [1..Len(s) -> T]
    BY SeqDef
  <1>3. kept \subseteq 1..Len(s) /\ IsFiniteSet(kept)
    <2>1. kept \in SUBSET (1..Len(s))
      BY <1>2
    <2>2. IsFiniteSet(1..Len(s))
      BY <1>2, FS_Interval
    <2>3. QED
      BY <2>1, <2>2, FS_Subset
  <1>4. key \in [kept -> Int] /\ IsInjective(key)
    BY <1>3 DEF IsInjective
  <1>5. at \in Seq(kept) /\ Range(at) = kept /\ IsInjective(at)
    <2> HIDE DEF kept, key
    <2>1. QED
      BY <1>3, <1>4, SortedIsList
  <1> HIDE DEF at
  <1>6. DOMAIN at = 1..Len(at) /\ Len(at) \in Nat /\ \A k \in DOMAIN at : at[k] \in kept
    BY <1>5, SeqDef
  <1>7. \A k \in DOMAIN at : w[k] \in T /\ w[k] = s[at[k]] /\ at[k] \in DOMAIN s /\ s[at[k]] \notin S
    BY <1>2, <1>6
  <1>8. w \in Seq(T)
    <2>1. w \in [1..Len(at) -> T]
      BY <1>6, <1>7
    <2> HIDE DEF w
    <2>2. QED
      BY <1>6, <2>1, SeqDef
  <1>9. IsInjective(w)
    BY <1>5, <1>7 DEF IsInjective
  <1>10. Range(w) \subseteq Range(s) \ S
    BY <1>7 DEF Range
  <1>11. ASSUME NEW x \in Range(s) \ S
         PROVE  x \in Range(w)
    <2>1. PICK i \in DOMAIN s : s[i] = x
      BY DEF Range
    <2>2. i \in Range(at)
      BY <1>5, <2>1
    <2>3. PICK k \in DOMAIN at : at[k] = i
      BY <2>2 DEF Range
    <2>4. QED
      BY <2>1, <2>3 DEF Range
  <1>12. QED
    BY <1>1, <1>8, <1>9, <1>10, <1>11

\* A list and another with no member in common make one list.
LEMMA ListsJoin ==
  ASSUME NEW T, NEW a \in Seq(T), NEW b \in Seq(T), IsInjective(a), IsInjective(b),
         Range(a) \cap Range(b) = {}
  PROVE  /\ a \o b \in Seq(T) /\ IsInjective(a \o b)
         /\ Range(a \o b) = Range(a) \cup Range(b)
  <1> DEFINE c == a \o b
  <1>1. /\ c \in Seq(T) /\ Len(c) = Len(a) + Len(b) /\ Len(a) \in Nat /\ Len(b) \in Nat
        /\ DOMAIN a = 1..Len(a) /\ DOMAIN b = 1..Len(b) /\ DOMAIN c = 1..Len(c)
        /\ \A i \in 1..Len(c) : c[i] = IF i <= Len(a) THEN a[i] ELSE b[i - Len(a)]
    BY ConcatProperties, SeqDef
  <1> HIDE DEF c
  <1>2. \A i \in DOMAIN c : \/ i \in DOMAIN a /\ c[i] = a[i]
                            \/ i - Len(a) \in DOMAIN b /\ c[i] = b[i - Len(a)] /\ ~(i <= Len(a))
    BY <1>1
  <1>3. \A i \in DOMAIN a : i \in DOMAIN c /\ c[i] = a[i]
    BY <1>1
  <1>4. \A k \in DOMAIN b : Len(a) + k \in DOMAIN c /\ c[Len(a) + k] = b[k]
    BY <1>1
  <1>5. Range(c) = Range(a) \cup Range(b)
    <2>1. Range(c) \subseteq Range(a) \cup Range(b)
      BY <1>2 DEF Range
    <2>2. Range(a) \subseteq Range(c)
      BY <1>3 DEF Range
    <2>3. Range(b) \subseteq Range(c)
      BY <1>4 DEF Range
    <2>4. QED
      BY <2>1, <2>2, <2>3
  <1>6. ASSUME NEW i \in DOMAIN c, NEW k \in DOMAIN c, c[i] = c[k]
        PROVE  i = k
    <2>1. CASE i \in DOMAIN a /\ k \in DOMAIN a
      BY <1>3, <1>6, <2>1 DEF IsInjective
    <2>2. CASE i \notin DOMAIN a /\ k \notin DOMAIN a
      <3>1. i - Len(a) = k - Len(a)
        BY <1>2, <1>6, <2>2 DEF IsInjective
      <3>2. QED
        BY <1>1, <3>1
    <2>3. CASE i \in DOMAIN a /\ k \notin DOMAIN a
      <3>1. c[i] \in Range(a) /\ c[k] \in Range(b)
        BY <1>2, <1>3, <2>3 DEF Range
      <3>2. QED
        BY <1>6, <3>1
    <2>4. CASE i \notin DOMAIN a /\ k \in DOMAIN a
      <3>1. c[k] \in Range(a) /\ c[i] \in Range(b)
        BY <1>2, <1>3, <2>4 DEF Range
      <3>2. QED
        BY <1>6, <3>1
    <2>5. QED
      BY <2>1, <2>2, <2>3, <2>4
  <1>7. QED
    BY <1>1, <1>5, <1>6 DEF IsInjective, c
-----------------------------------------------------------------------------

(***************************************************************************)
(* The invariant.                                                          *)
(***************************************************************************)

Row == {r \in Tables \X Nat : r[2] < NRows[r[1]]}

\* What TypeOK says, and the graph and the group.
TypeInv ==
  /\ resident \subseteq Slab /\ stamp \in [Slab -> Nat]
  /\ lru \in Seq(Slab) /\ bytes \in Nat /\ gen \in 0..(GenSpan - 1)
  /\ whole \in [Tables -> BOOLEAN] /\ mem \in [Slab -> {"none", "blank", "data"}]
  /\ served \subseteq Tables /\ indexBarrier \in BOOLEAN /\ fatal \in BOOLEAN
  /\ pc \in {"between", "ask", "compute"}
  /\ graph \in Seq(Node) /\ group \subseteq Row
  /\ indexPending \in BOOLEAN /\ decodes \in 0..MaxDecodes

\* No slab carries a stamp of a generation to come.
StampInv == \A s \in Slab : stamp[s] <= gen

WindowInv == TypeInv /\ StampInv /\ WindowAccounted /\ WindowBound

\* The slabs a gather of the ids seen asks for, the stamps it leaves, and the
\* slabs it gives back.
Asked(t, seen) == ToFetch({t} \X Need(t, seen))
Stamped(S) == [s \in Slab |-> IF s \in S THEN NextGen ELSE AfterWrap[s]]
Out(S) == IF S = {} THEN {}
          ELSE Victims(Stamped(S), SlabBytes * Cardinality(S \ resident))

LEMMA Generations ==
  ASSUME TypeInv, StampInv
  PROVE  /\ NextGen \in 0..(GenSpan - 1)
         /\ AfterWrap \in [Slab -> Nat]
         /\ \A s \in Slab : AfterWrap[s] < NextGen
         /\ AfterWrap = stamp \/ AfterWrap = [s \in Slab |-> 0]
         /\ \A S : ToFetch(S) = S \/ ~(S \subseteq Slab)
  <1>1. GenSpan \in Nat /\ GenSpan > 1 /\ gen \in 0..(GenSpan - 1)
    BY RowStreamAssumption DEF TypeInv
  <1>2. CASE (gen + 1) % GenSpan = 0
    <2>1. NextGen = 1 /\ AfterWrap = [s \in Slab |-> 0]
      BY <1>2 DEF NextGen, AfterWrap
    <2>2. \A s \in Slab : AfterWrap[s] < NextGen
      BY <2>1
    <2>3. QED
      BY <1>1, <2>1, <2>2 DEF ToFetch
  <1>3. CASE (gen + 1) % GenSpan # 0
    <2>1. NextGen = gen + 1 /\ AfterWrap = stamp
      BY <1>3 DEF NextGen, AfterWrap
    <2>2. gen + 1 # GenSpan
      BY <1>1, <1>3
    <2>3. gen + 1 \in 0..(GenSpan - 1)
      BY <1>1, <2>2
    <2>4. \A s \in Slab : AfterWrap[s] < NextGen
      BY <1>1, <2>1 DEF TypeInv, StampInv
    <2>5. QED
      BY <2>1, <2>3, <2>4 DEF ToFetch, TypeInv
  <1>4. QED
    BY <1>2, <1>3

LEMMA NeedIsSlabs ==
  ASSUME NEW t \in Tables, NEW seen
  PROVE  {t} \X Need(t, seen) \subseteq {t} \X SlabsOf(t) /\ {t} \X SlabsOf(t) \subseteq Slab
  BY DEF Need, SlabsOfRow, Slab

\* What a pass of evictions gives back: old slabs, as many as make room or
\* all of them.
LEMMA EvictsOld ==
  ASSUME NEW stamps, NEW headroom, lru \in Seq(Slab), IsInjective(lru), Range(lru) = resident
  PROVE  LET old == {s \in resident : stamps[s] # NextGen}
             out == Victims(stamps, headroom)
         IN  /\ out \subseteq old
             /\ Fits(TotalBytes[out], headroom) \/ out = old
  <1> DEFINE young == {s \in Slab : stamps[s] = NextGen}
             old == {s \in resident : stamps[s] # NextGen}
             l == Evictable(stamps)
             Oldest(n) == {l[i] : i \in 1..n}
             Room(n) == Fits(TotalBytes[Oldest(n)], headroom)
             Stop == {n \in 0..Len(l) : Room(n) \/ n = Len(l)}
             Chosen(n) == /\ Room(n) \/ n = Len(l)
                          /\ \A k \in 0..(n - 1) : ~Room(k)
  <1>1. l \in Seq(Slab) /\ Range(l) = resident \ young
    BY WithoutLeaves DEF Evictable
  <1>2. resident \subseteq Slab
    <2>1. \A i \in DOMAIN lru : lru[i] \in Slab
      BY SeqDef
    <2>2. QED
      BY <2>1 DEF Range
  <1>3. Range(l) = old
    BY <1>1, <1>2
  <1> HIDE DEF l
  <1>4. Len(l) \in Nat /\ DOMAIN l = 1..Len(l)
    BY <1>1, SeqDef
  <1> HIDE DEF Room
  <1>5. \E n \in 0..Len(l) : Chosen(n)
    <2>1. Stop \subseteq Nat /\ Stop # {}
      BY <1>4
    <2>2. PICK n \in Stop : \A k \in Stop : n <= k
      <3> HIDE DEF Stop
      <3>1. QED
        BY <2>1, LeastNumber
    <2>3. n \in 0..Len(l) /\ (Room(n) \/ n = Len(l))
      BY <2>2
    <2>4. ASSUME NEW k \in 0..(n - 1)
          PROVE  ~Room(k)
      <3>1. k \in 0..Len(l) /\ ~(n <= k)
        <4>1. n \in 0..Len(l) /\ Len(l) \in Nat
          BY <1>4, <2>3
        <4> HIDE DEF Room, Oldest, Stop
        <4>2. QED
          BY <4>1
      <3>2. k \notin Stop
        <4> HIDE DEF Stop
        <4>1. QED
          BY <2>2, <3>1
      <3>3. QED
        BY <3>1, <3>2
    <2>5. QED
      BY <2>3, <2>4
  <1> DEFINE m == CHOOSE n \in 0..Len(l) : Chosen(n)
  <1>6. m \in 0..Len(l) /\ (Room(m) \/ m = Len(l))
    BY <1>5
  <1>7. Victims(stamps, headroom) = Oldest(m)
    BY DEF Victims, l, Room
  <1> HIDE DEF m
  <1>8. Oldest(m) \subseteq old
    <2>1. \A i \in 1..m : l[i] \in Range(l)
      <3>1. m \in 0..Len(l) /\ Len(l) \in Nat
        BY <1>4, <1>6
      <3>2. \A i \in 1..m : i \in DOMAIN l
        BY <1>4, <3>1
      <3>3. QED
        BY <3>2 DEF Range
    <2>2. QED
      BY <1>3, <2>1
  <1>9. m = Len(l) => Oldest(m) = old
    BY <1>3, <1>4 DEF Range
  <1>10. QED
    BY <1>6, <1>7, <1>8, <1>9 DEF Room

\* A gather, step by step: which slabs go, which come, and what the window
\* holds afterwards.
LEMMA GatherWindow ==
  ASSUME WindowInv, NEW t \in Tables, NEW seen, NEW fetched, Serves(t), Gather(t, seen, fetched)
  PROVE  LET S == {t} \X Need(t, seen)
             out == Out(S)
         IN  /\ S \subseteq Slab /\ fetched \subseteq S
             /\ out \subseteq resident \ S
             /\ resident' = (resident \ out) \cup fetched
             /\ gen' = NextGen /\ stamp' = Stamped(S)
             /\ bytes' = TotalBytes[resident']
             /\ lru' \in Seq(Slab) /\ Range(lru') = resident' /\ IsInjective(lru')
             /\ \A s \in resident' : mem'[s] = "data"
             /\ mem' \in [Slab -> {"none", "blank", "data"}]
             /\ (fetched = S /\ fatal' = fatal) \/ fatal' = TRUE
             /\ whole' = whole
             /\ S # {} => \/ Fits(TotalBytes[out], SlabBytes * Cardinality(S \ resident))
                          \/ out = {s \in resident : Stamped(S)[s] # NextGen}
  <1> DEFINE S == ToFetch({t} \X Need(t, seen))
             out == Out(S)
             in == fetched \ (resident \ out)
  <1>1. /\ TypeInv /\ StampInv /\ lru \in Seq(Slab) /\ IsInjective(lru) /\ Range(lru) = resident
        /\ bytes = TotalBytes[resident] /\ resident \subseteq Slab
        /\ mem \in [Slab -> {"none", "blank", "data"}]
        /\ \A s \in resident : mem[s] = "data"
    BY DEF WindowInv, TypeInv, WindowAccounted
  <1>2. S = {t} \X Need(t, seen)
    <2>1. {t} \X Need(t, seen) \subseteq Slab
      BY NeedIsSlabs
    <2>2. QED
      BY <1>1, <2>1, Generations
  <1>3. S \subseteq Slab /\ S \subseteq {t} \X SlabsOf(t)
    <2> HIDE DEF S
    <2>1. QED
      BY <1>2, NeedIsSlabs
  <1>4. Gather(t, seen, fetched) <=>
          /\ fetched \subseteq S
          /\ \A a \in fetched, b \in S : b[2] < a[2] => b \in fetched
          /\ gen' = NextGen
          /\ stamp' = Stamped(S)
          /\ resident' = (resident \ out) \cup fetched
          /\ bytes' = bytes - TotalBytes[out] + TotalBytes[in]
          /\ lru' = Without(lru, out \cup fetched) \o SortedSlabs(fetched)
          /\ IF fetched = S
               THEN /\ mem' = [s \in Slab |-> IF s \in in THEN "data"
                                              ELSE IF s \in out THEN "none" ELSE mem[s]]
                    /\ UNCHANGED fatal
               ELSE LET f == CHOOSE f \in S \ fetched :
                               \A s \in S \ fetched : f[2] <= s[2]
                    IN  /\ ReadsMayFail /\ f \notin resident \ out
                        /\ fatal' = TRUE
                        /\ \E left \in {"none", "blank"} :
                             mem' = [s \in Slab |-> IF s \in in THEN "data"
                                                    ELSE IF s = f THEN left
                                                    ELSE IF s \in out THEN "none" ELSE mem[s]]
          /\ UNCHANGED whole
    BY Zenon DEF Gather, Out, Stamped
  <1> HIDE DEF S
  <1>5. /\ out \subseteq resident \ S
        /\ S # {} => \/ Fits(TotalBytes[out], SlabBytes * Cardinality(S \ resident))
                     \/ out = {s \in resident : Stamped(S)[s] # NextGen}
    <2>1. CASE S = {}
      BY <2>1 DEF Out
    <2>2. CASE S # {}
      <3>1. out = Victims(Stamped(S), SlabBytes * Cardinality(S \ resident))
        BY <2>2 DEF Out
      <3>2. /\ out \subseteq {s \in resident : Stamped(S)[s] # NextGen}
            /\ \/ Fits(TotalBytes[out], SlabBytes * Cardinality(S \ resident))
               \/ out = {s \in resident : Stamped(S)[s] # NextGen}
        BY <1>1, <3>1, EvictsOld
      <3>3. \A s \in S : Stamped(S)[s] = NextGen
        BY <1>3 DEF Stamped
      <3>4. QED
        BY <3>2, <3>3
    <2>3. QED
      BY <2>1, <2>2
  <1> HIDE DEF out
  <1> DEFINE left == resident \ out
  <1>6. /\ fetched \subseteq S /\ resident' = left \cup fetched /\ whole' = whole
        /\ gen' = NextGen /\ stamp' = Stamped(S)
        /\ bytes' = bytes - TotalBytes[out] + TotalBytes[in]
        /\ lru' = Without(lru, out \cup fetched) \o SortedSlabs(fetched)
    BY <1>4
  <1>7. bytes' = TotalBytes[resident']
    <2>1. /\ out \in SUBSET Slab /\ left \in SUBSET Slab /\ in \in SUBSET Slab
          /\ out \cap left = {} /\ left \cap in = {}
          /\ out \cup left = resident /\ left \cup in = left \cup fetched
      BY <1>1, <1>3, <1>5, <1>6
    <2>2. TotalBytes[resident] = TotalBytes[out] + TotalBytes[left]
      <3> HIDE DEF left
      <3>1. TotalBytes[out \cup left] = TotalBytes[out] + TotalBytes[left]
        BY <2>1, TotalBytesAdd
      <3>2. QED
        BY <2>1, <3>1
    <2>3. TotalBytes[left \cup fetched] = TotalBytes[left] + TotalBytes[in]
      <3> HIDE DEF left, in
      <3>1. TotalBytes[left \cup in] = TotalBytes[left] + TotalBytes[in]
        BY <2>1, TotalBytesAdd
      <3>2. QED
        BY <2>1, <3>1
    <2>4. /\ TotalBytes[out] \in Int /\ TotalBytes[left] \in Int /\ TotalBytes[in] \in Int
      BY <2>1, TotalBytesInt
    <2> HIDE DEF left, in
    <2>5. bytes' = TotalBytes[left] + TotalBytes[in]
      BY <1>1, <1>6, <2>2, <2>4
    <2>6. QED
      BY <1>6, <2>3, <2>5
  <1>8. lru' \in Seq(Slab) /\ Range(lru') = resident' /\ IsInjective(lru')
    <2> DEFINE a == Without(lru, out \cup fetched)
               b == SortedSlabs(fetched)
    <2>1. a \in Seq(Slab) /\ IsInjective(a) /\ Range(a) = resident \ (out \cup fetched)
      BY <1>1, WithoutLeaves
    <2>2. fetched \in SUBSET ({t} \X SlabsOf(t))
      BY <1>3, <1>6
    <2>3. b \in Seq(fetched) /\ IsInjective(b) /\ Range(b) = fetched
      BY <2>2, SlabsSorted
    <2> HIDE DEF a, b
    <2>4. b \in Seq(Slab)
      <3>1. fetched \subseteq Slab
        BY <1>3, <1>6
      <3>2. b \in [1..Len(b) -> fetched] /\ Len(b) \in Nat
        BY <2>3, SeqDef
      <3>3. b \in [1..Len(b) -> Slab]
        BY <3>1, <3>2
      <3>4. QED
        BY <3>2, <3>3, SeqDef
    <2>5. /\ a \o b \in Seq(Slab) /\ IsInjective(a \o b)
          /\ Range(a \o b) = Range(a) \cup Range(b)
      <3>1. Range(a) \cap Range(b) = {}
        BY <2>1, <2>3
      <3>2. QED
        BY <2>1, <2>3, <2>4, <3>1, ListsJoin
    <2>6. lru' = a \o b
      BY <1>6 DEF a, b
    <2>7. Range(a) \cup Range(b) = resident'
      BY <1>6, <2>1, <2>3
    <2>8. QED
      BY <2>5, <2>6, <2>7
  <1>9. /\ mem' \in [Slab -> {"none", "blank", "data"}]
        /\ \A s \in resident' : mem'[s] = "data"
        /\ (fetched = S /\ fatal' = fatal) \/ fatal' = TRUE
    <2>1. \A s \in resident' : s \in Slab /\ s \notin out
      BY <1>1, <1>3, <1>5, <1>6
    <2>2. \A s \in resident' : s \in in \/ (s \notin in /\ s \in resident /\ mem[s] = "data")
      BY <1>1, <1>6
    <2>3. CASE fetched = S
      <3>1. /\ mem' = [s \in Slab |-> IF s \in in THEN "data"
                                      ELSE IF s \in out THEN "none" ELSE mem[s]]
            /\ fatal' = fatal
        BY <1>4, <2>3
      <3> HIDE DEF in
      <3>2. QED
        BY <1>1, <2>1, <2>2, <2>3, <3>1
    <2>4. CASE fetched # S
      <3> DEFINE f == CHOOSE f \in S \ fetched : \A s \in S \ fetched : f[2] <= s[2]
      <3>1. /\ f \notin left /\ fatal' = TRUE
            /\ \E blank \in {"none", "blank"} :
                 mem' = [s \in Slab |-> IF s \in in THEN "data"
                                        ELSE IF s = f THEN blank
                                        ELSE IF s \in out THEN "none" ELSE mem[s]]
        BY <1>4, <2>4
      <3> HIDE DEF f
      <3>2. \A s \in resident' : s \in in \/ s # f
        BY <1>6, <3>1
      <3> HIDE DEF in
      <3>3. QED
        BY <1>1, <2>1, <2>2, <3>1, <3>2
    <2>5. QED
      BY <2>3, <2>4
  <1>10. QED
    BY <1>2, <1>3, <1>5, <1>6, <1>7, <1>8, <1>9 DEF out

\* A gather keeps the window in order: accounted for, and under its ceiling
\* unless all of it is the gather's own.
LEMMA GatherKeeps ==
  ASSUME WindowInv, NEW t \in Tables, NEW seen, NEW fetched, Serves(t), Gather(t, seen, fetched),
         served' = served
  PROVE  /\ resident' \subseteq Slab /\ stamp' \in [Slab -> Nat]
         /\ lru' \in Seq(Slab) /\ bytes' \in Nat /\ gen' \in 0..(GenSpan - 1)
         /\ whole' = whole /\ mem' \in [Slab -> {"none", "blank", "data"}] /\ fatal' \in BOOLEAN
         /\ StampInv' /\ WindowAccounted' /\ WindowBound'
  <1> DEFINE S == {t} \X Need(t, seen)
             out == Out(S)
             more == S \ resident
  <1>1. /\ TypeInv /\ StampInv /\ resident \subseteq Slab /\ fatal \in BOOLEAN
        /\ bytes = TotalBytes[resident] /\ \A s \in resident : Serves(s[1])
        /\ bytes <= Budget \/ OneGather
    BY DEF WindowInv, TypeInv, WindowAccounted, WindowBound
  <1>2. /\ S \subseteq Slab /\ fetched \subseteq S
        /\ out \subseteq resident \ S
        /\ resident' = (resident \ out) \cup fetched
        /\ gen' = NextGen /\ stamp' = Stamped(S)
        /\ bytes' = TotalBytes[resident']
        /\ lru' \in Seq(Slab) /\ Range(lru') = resident' /\ IsInjective(lru')
        /\ \A s \in resident' : mem'[s] = "data"
        /\ mem' \in [Slab -> {"none", "blank", "data"}]
        /\ (fetched = S /\ fatal' = fatal) \/ fatal' = TRUE
        /\ whole' = whole
        /\ S # {} => \/ Fits(TotalBytes[out], SlabBytes * Cardinality(more))
                     \/ out = {s \in resident : Stamped(S)[s] # NextGen}
    BY GatherWindow
  <1>3. \A s \in S : s[1] = t
    OBVIOUS
  <1> HIDE DEF S, out
  <1>4. /\ NextGen \in 0..(GenSpan - 1) /\ AfterWrap \in [Slab -> Nat]
        /\ \A s \in Slab : AfterWrap[s] < NextGen
        /\ AfterWrap = stamp \/ AfterWrap = [s \in Slab |-> 0]
    BY <1>1, Generations
  <1>5. GenSpan \in Nat /\ GenSpan > 1 /\ SlabBytes \in Nat /\ Budget \in Nat
    BY RowStreamAssumption DEF Budget, Larger
  <1>6. NextGen \in Nat /\ \A s \in Slab : Stamped(S)[s] = IF s \in S THEN NextGen ELSE AfterWrap[s]
    BY <1>4, <1>5 DEF Stamped
  <1>7. stamp' \in [Slab -> Nat] /\ StampInv'
    <2>1. Stamped(S) \in [Slab -> Nat]
      BY <1>4, <1>6 DEF Stamped
    <2>2. \A s \in Slab : Stamped(S)[s] <= NextGen
      BY <1>4, <1>6
    <2>3. QED
      BY <1>2, <2>1, <2>2 DEF StampInv
  <1>8. resident' \subseteq Slab
    BY <1>1, <1>2
  <1>9. bytes' \in Nat
    BY <1>2, <1>8, TotalBytesBound
  <1>10. WindowAccounted'
    <2>1. \A u \in Tables : Serves(u) <=> Serves(u)'
      BY <1>2 DEF Serves
    <2>2. \A s \in resident' : s \in resident \/ s[1] = t
      BY <1>2, <1>3
    <2>3. \A s \in resident' : s[1] \in Tables
      BY <1>8 DEF Slab
    <2>4. \A s \in resident' : Serves(s[1])'
      <3>1. \A s \in resident' : Serves(s[1])
        BY <1>1, <2>2
      <3>2. QED
        BY <1>2, <3>1 DEF Serves
    <2>5. QED
      BY <1>2, <2>4 DEF WindowAccounted
  <1>11. WindowBound'
    <2>1. CASE S = {}
      <3>1. resident' = resident
        <4>1. out = {}
          BY <2>1 DEF out, Out, S
        <4>2. QED
          BY <1>2, <2>1, <4>1
      <3>2. bytes' = bytes
        BY <1>1, <1>2, <3>1
      <3>3. \A s \in Slab : stamp'[s] = AfterWrap[s]
        BY <1>2, <1>6, <2>1
      <3>4. CASE AfterWrap = stamp
        BY <1>1, <3>1, <3>2, <3>3, <3>4 DEF WindowBound, OneGather
      <3>5. CASE AfterWrap = [s \in Slab |-> 0]
        <4>1. \A s \in resident' : stamp'[s] = 0
          BY <1>8, <3>3, <3>5
        <4>2. QED
          BY <4>1 DEF WindowBound, OneGather
      <3>6. QED
        BY <1>4, <3>4, <3>5
    <2>2. CASE out = {s \in resident : Stamped(S)[s] # NextGen}
      <3>1. \A s \in resident' : stamp'[s] = NextGen
        BY <1>2, <1>6, <2>2
      <3>2. QED
        BY <3>1 DEF WindowBound, OneGather
    <2>3. CASE Fits(TotalBytes[out], SlabBytes * Cardinality(more))
      <3> DEFINE left == resident \ out
                 in == fetched \ resident
      <3>1. /\ out \in SUBSET Slab /\ left \in SUBSET Slab /\ in \in SUBSET Slab
            /\ more \in SUBSET Slab /\ in \subseteq more
            /\ out \cap left = {} /\ left \cap in = {}
            /\ out \cup left = resident /\ left \cup in = resident'
        BY <1>1, <1>2
      <3> HIDE DEF left, in, more
      <3>2. TotalBytes[resident] = TotalBytes[out] + TotalBytes[left]
        <4>1. TotalBytes[out \cup left] = TotalBytes[out] + TotalBytes[left]
          BY <3>1, TotalBytesAdd
        <4>2. QED
          BY <3>1, <4>1
      <3>3. TotalBytes[resident'] = TotalBytes[left] + TotalBytes[in]
        <4>1. TotalBytes[left \cup in] = TotalBytes[left] + TotalBytes[in]
          BY <3>1, TotalBytesAdd
        <4>2. QED
          BY <3>1, <4>1
      <3>4. /\ TotalBytes[out] \in Int /\ TotalBytes[left] \in Int /\ TotalBytes[in] \in Int
            /\ TotalBytes[in] <= SlabBytes * Cardinality(in)
        BY <3>1, TotalBytesInt, TotalBytesBound
      <3>5. SlabBytes * Cardinality(in) <= SlabBytes * Cardinality(more)
        <4>1. IsFiniteSet(more) /\ in \in SUBSET more
          BY <3>1, SlabsFinite
        <4>2. Cardinality(in) <= Cardinality(more) /\ Cardinality(in) \in Nat /\ Cardinality(more) \in Nat
          BY <4>1, FS_Subset, FS_CardinalityType
        <4>3. \A a, b, d \in Nat : a <= b => d * a <= d * b
          OBVIOUS
        <4>4. QED
          BY <1>5, <4>2, <4>3
      <3>6. SlabBytes * Cardinality(in) \in Int /\ SlabBytes * Cardinality(more) \in Int
        <4>1. Cardinality(in) \in Nat /\ Cardinality(more) \in Nat
          BY <3>1, SlabsFinite
        <4>2. \A a, b \in Nat : a * b \in Int
          OBVIOUS
        <4>3. QED
          BY <1>5, <4>1, <4>2
      <3> DEFINE room == SlabBytes * Cardinality(more)
      <3>7. room \in Int /\ TotalBytes[in] <= room
        BY <3>4, <3>5, <3>6
      <3>8. bytes - TotalBytes[out] + room <= Budget
        BY <2>3 DEF Fits
      <3> HIDE DEF room
      <3>9. bytes' <= Budget
        BY <1>1, <1>2, <1>5, <3>2, <3>3, <3>4, <3>7, <3>8
      <3>10. QED
        BY <3>9 DEF WindowBound
    <2>4. QED
      BY <1>2, <2>1, <2>2, <2>3
  <1>12. QED
    BY <1>1, <1>2, <1>4, <1>7, <1>8, <1>9, <1>10, <1>11

\* A table put back on its mapping takes its slabs out of the window.
LEMMA UseKeeps ==
  ASSUME WindowInv, graph # << >>, AskUse
  PROVE  /\ resident' \subseteq Slab /\ lru' \in Seq(Slab) /\ bytes' \in Nat
         /\ whole' \in [Tables -> BOOLEAN] /\ mem' \in [Slab -> {"none", "blank", "data"}]
         /\ StampInv' /\ WindowAccounted' /\ WindowBound'
  <1> DEFINE t == Head(graph).table
             mine == {s \in resident : s[1] = t}
             left == resident \ mine
  <1>1. /\ TypeInv /\ StampInv /\ WindowAccounted /\ WindowBound /\ resident \subseteq Slab
        /\ lru \in Seq(Slab) /\ bytes \in Nat /\ whole \in [Tables -> BOOLEAN]
        /\ mem \in [Slab -> {"none", "blank", "data"}]
        /\ stamp \in [Slab -> Nat] /\ Head(graph) \in Node
    BY DEF WindowInv, TypeInv
  <1>2. stamp' = stamp /\ gen' = gen /\ served' = served
    BY DEF AskUse, Ask
  <1>3. StampInv'
    BY <1>1, <1>2 DEF StampInv
  <1>4. CASE ~Serves(t)
    <2>1. UNCHANGED <<whole, resident, lru, bytes, mem>>
      BY <1>4 DEF AskUse
    <2>2. WindowAccounted' /\ WindowBound'
      BY <1>1, <1>2, <2>1 DEF WindowAccounted, WindowBound, OneGather, Serves, TotalBytes
    <2>3. QED
      BY <1>1, <1>3, <2>1, <2>2
  <1>5. CASE Serves(t)
    <2>1. /\ whole' = [whole EXCEPT ![t] = TRUE]
          /\ resident' = resident \ mine /\ lru' = Without(lru, mine)
          /\ bytes' = bytes - TotalBytes[mine]
          /\ mem' = [s \in Slab |-> IF s \in mine THEN "none" ELSE mem[s]]
      BY <1>5 DEF AskUse
    <2>2. t \in Tables
      BY <1>1 DEF Node
    <2>3. /\ Range(lru) = resident /\ IsInjective(lru) /\ bytes = TotalBytes[resident]
          /\ \A s \in resident : mem[s] = "data" /\ Serves(s[1])
      BY <1>1 DEF WindowAccounted
    <2>4. lru' \in Seq(Slab) /\ IsInjective(lru') /\ Range(lru') = resident'
      BY <1>1, <2>1, <2>3, WithoutLeaves
    <2>5. mine \in SUBSET Slab /\ left \in SUBSET Slab /\ mine \cap left = {} /\ mine \cup left = resident
          /\ resident' = left
      BY <1>1, <2>1
    <2>6. bytes' = TotalBytes[resident'] /\ bytes' \in Nat /\ bytes' <= bytes
      <3> HIDE DEF mine, left
      <3>1. TotalBytes[mine \cup left] = TotalBytes[mine] + TotalBytes[left]
        BY <2>5, TotalBytesAdd
      <3>2. TotalBytes[mine] \in Nat /\ TotalBytes[left] \in Nat
        BY <2>5, TotalBytesBound
      <3>3. bytes = TotalBytes[mine] + TotalBytes[left]
        BY <2>3, <2>5, <3>1
      <3>4. bytes' = TotalBytes[left]
        BY <2>1, <3>2, <3>3
      <3>5. QED
        BY <2>5, <3>2, <3>3, <3>4
    <2>7. \A s \in resident' : s \in resident /\ s \in Slab /\ s \notin mine /\ s[1] # t
      BY <1>1, <2>1
    <2>8. mem' \in [Slab -> {"none", "blank", "data"}] /\ \A s \in resident' : mem'[s] = "data"
      BY <1>1, <2>1, <2>3, <2>7
    <2>9. whole' \in [Tables -> BOOLEAN]
      BY <1>1, <2>1
    <2>10. \A s \in resident' : Serves(s[1])'
      <3>1. \A s \in resident' : s[1] \in Tables /\ s[1] # t /\ Serves(s[1])
        BY <2>3, <2>7 DEF Slab
      <3>2. QED
        BY <1>1, <1>2, <2>1, <3>1 DEF Serves
    <2>11. WindowAccounted'
      BY <2>4, <2>6, <2>8, <2>10 DEF WindowAccounted
    <2>12. WindowBound'
      <3>1. OneGather => OneGather'
        BY <1>2, <2>7 DEF OneGather
      <3>2. Budget \in Nat
        BY RowStreamAssumption DEF Budget, Larger
      <3>3. bytes <= Budget => bytes' <= Budget
        BY <1>1, <2>6, <3>2
      <3>4. QED
        BY <1>1, <3>1, <3>3 DEF WindowBound
    <2>13. QED
      BY <1>3, <2>4, <2>5, <2>6, <2>8, <2>9, <2>11, <2>12
  <1>6. QED
    BY <1>4, <1>5

LEMMA WindowInit == Init => WindowInv
  <1> SUFFICES ASSUME Init
               PROVE  WindowInv
    OBVIOUS
  <1>1. GenSpan \in Nat /\ GenSpan > 1 /\ Budget \in Nat
    BY RowStreamAssumption DEF Budget, Larger
  <1>2. PICK g \in Graphs : /\ served = Gathered(g) \ Disqualified(g)
                            /\ indexBarrier = NeedsIndexBarrier(g)
    BY DEF Init
  <1>3. served \subseteq Tables
    <2>1. g \in Seq(Node)
      BY RowStreamAssumption
    <2>2. \A i \in DOMAIN g : g[i] \in Node
      BY <2>1, SeqDef
    <2>3. \A i \in DOMAIN g : g[i].table \in Tables
      BY <2>2 DEF Node
    <2>4. QED
      BY <1>2, <2>3 DEF Gathered
  <1>4. indexBarrier \in BOOLEAN
    BY <1>2 DEF NeedsIndexBarrier
  <1>5. TypeInv
    <2>1. /\ << >> \in Seq(Node) /\ << >> \in Seq(Slab)
      OBVIOUS
    <2>2. /\ resident \subseteq Slab /\ stamp \in [Slab -> Nat]
          /\ bytes \in Nat /\ gen \in 0..(GenSpan - 1)
      BY <1>1 DEF Init
    <2>3. /\ whole \in [Tables -> BOOLEAN] /\ mem \in [Slab -> {"none", "blank", "data"}]
      BY DEF Init
    <2>4. /\ fatal \in BOOLEAN /\ pc = "between" /\ group = {} /\ indexPending \in BOOLEAN
          /\ lru = << >> /\ graph = << >>
      BY DEF Init
    <2>5. decodes \in 0..MaxDecodes
      BY RowStreamAssumption DEF Init
    <2>6. QED
      BY <1>3, <1>4, <2>1, <2>2, <2>3, <2>4, <2>5 DEF TypeInv
  <1>6. StampInv
    BY DEF StampInv, Init
  <1>7. WindowAccounted
    <2>1. TotalBytes[{}] = 0
      BY TotalBytesDef
    <2>2. Range(<< >>) = {} /\ IsInjective(<< >>)
      BY DEF Range, IsInjective
    <2>3. QED
      BY <2>1, <2>2 DEF WindowAccounted, Init
  <1>8. WindowBound
    BY <1>1 DEF WindowBound, Init
  <1>9. QED
    BY <1>5, <1>6, <1>7, <1>8 DEF WindowInv

\* The window's invariant does not look at the rest of the state.
LEMMA WindowKept ==
  ASSUME WindowInv, UNCHANGED <<resident, stamp, lru, bytes, gen, whole, mem, served>>
  PROVE  StampInv' /\ WindowAccounted' /\ WindowBound'
  <1>1. StampInv'
    BY DEF WindowInv, StampInv
  <1>2. WindowAccounted'
    BY DEF WindowInv, WindowAccounted, Serves
  <1>3. WindowBound'
    BY DEF WindowInv, WindowBound, OneGather
  <1>4. QED
    BY <1>1, <1>2, <1>3

LEMMA AskTypes ==
  ASSUME TypeInv, NEW op, NEW isolated, Ask(op, isolated)
  PROVE  /\ Head(graph) \in Node /\ Head(graph).table \in Tables /\ graph # << >> /\ pc = "ask"
         /\ graph' = Tail(graph) /\ graph' \in Seq(Node) /\ pc' \in {"ask", "compute"}
         /\ served' = served /\ indexBarrier' = indexBarrier /\ decodes' = decodes
  <1>1. graph \in Seq(Node) /\ graph # << >>
    BY DEF TypeInv, Ask
  <1>2. Head(graph) \in Node /\ Tail(graph) \in Seq(Node)
    BY <1>1, HeadTailProperties
  <1>3. QED
    BY <1>1, <1>2 DEF Ask, Node

LEMMA WindowStep == WindowInv /\ [Next]_vars => WindowInv'
  <1> SUFFICES ASSUME WindowInv, [Next]_vars
               PROVE  WindowInv'
    OBVIOUS
  <1>0. TypeInv
    BY DEF WindowInv
  <1> USE DEF WindowInv
  <1>1. ASSUME NEW g \in Graphs, BeginDecode(g)
        PROVE  WindowInv'
    <2>1. g \in Seq(Node)
      BY RowStreamAssumption
    <2>2. UNCHANGED <<resident, stamp, lru, bytes, gen, whole, mem, served>>
      BY <1>1 DEF BeginDecode, windowVars, hookVars
    <2>3. TypeInv'
      <3>1. decodes' \in 0..MaxDecodes
        BY <1>0, <1>1, RowStreamAssumption DEF BeginDecode, TypeInv
      <3>2. QED
        BY <1>0, <1>1, <2>1, <3>1 DEF BeginDecode, windowVars, hookVars, TypeInv
    <2>4. QED
      BY <2>2, <2>3, WindowKept
  <1>2. ASSUME NEW rows, NEW seen, NEW fetched, AskGather(rows, seen, fetched)
        PROVE  WindowInv'
    <2> DEFINE t == Head(graph).table
    <2>1. /\ t \in Tables /\ graph' \in Seq(Node) /\ pc' \in {"ask", "compute"}
          /\ served' = served /\ indexBarrier' = indexBarrier /\ decodes' = decodes
          /\ indexPending' = indexPending
      BY <1>0, <1>2, AskTypes DEF AskGather
    <2>2. group' \subseteq Row
      <3>1. group' = group \cup ({t} \X (rows \cap 0..(NRows[t] - 1)))
        BY <1>2 DEF AskGather
      <3>2. NRows[t] \in Nat
        BY <2>1, RowStreamAssumption
      <3>3. {t} \X (rows \cap 0..(NRows[t] - 1)) \subseteq Row
        BY <2>1, <3>2 DEF Row
      <3>4. QED
        BY <1>0, <3>1, <3>3 DEF TypeInv
    <2>3. CASE Serves(t)
      <3>1. Gather(t, seen, fetched)
        BY <1>2, <2>3 DEF AskGather
      <3>2. /\ resident' \subseteq Slab /\ stamp' \in [Slab -> Nat]
            /\ lru' \in Seq(Slab) /\ bytes' \in Nat /\ gen' \in 0..(GenSpan - 1)
            /\ whole' = whole /\ mem' \in [Slab -> {"none", "blank", "data"}] /\ fatal' \in BOOLEAN
            /\ StampInv' /\ WindowAccounted' /\ WindowBound'
        <4> HIDE DEF t, WindowInv
        <4>1. QED
          BY <2>1, <2>3, <3>1, GatherKeeps
      <3>3. TypeInv'
        BY <1>0, <2>1, <2>2, <3>2 DEF TypeInv
      <3>4. QED
        BY <3>2, <3>3
    <2>4. CASE ~Serves(t)
      <3>1. UNCHANGED <<windowVars, fatal>>
        BY <1>2, <2>4 DEF AskGather
      <3>2. UNCHANGED <<resident, stamp, lru, bytes, gen, whole, mem, served>>
        BY <2>1, <3>1 DEF windowVars
      <3>3. TypeInv'
        BY <1>0, <2>1, <2>2, <3>1 DEF TypeInv, windowVars
      <3>4. QED
        BY <3>2, <3>3, WindowKept
    <2>5. QED
      BY <2>3, <2>4
  <1>3. CASE AskUse
    <2>1. /\ graph # << >> /\ graph' \in Seq(Node) /\ pc' \in {"ask", "compute"}
          /\ served' = served /\ indexBarrier' = indexBarrier /\ decodes' = decodes
      BY <1>0, <1>3, AskTypes DEF AskUse
    <2>2. stamp' = stamp /\ gen' = gen /\ fatal' = fatal /\ group' = group /\ indexPending' = indexPending
      BY <1>3 DEF AskUse
    <2>3. /\ resident' \subseteq Slab /\ lru' \in Seq(Slab) /\ bytes' \in Nat
          /\ whole' \in [Tables -> BOOLEAN] /\ mem' \in [Slab -> {"none", "blank", "data"}]
          /\ StampInv' /\ WindowAccounted' /\ WindowBound'
      BY <1>3, <2>1, UseKeeps
    <2>4. TypeInv'
      BY <1>0, <2>1, <2>2, <2>3 DEF TypeInv
    <2>5. QED
      BY <2>3, <2>4
  <1>4. CASE AskIndex \/ AskTopk
    <2>1. /\ graph' \in Seq(Node) /\ pc' \in {"ask", "compute"}
          /\ served' = served /\ indexBarrier' = indexBarrier /\ decodes' = decodes
      BY <1>0, <1>4, AskTypes DEF AskIndex, AskTopk
    <2>2. UNCHANGED <<windowVars, fatal, group>> /\ indexPending' \in BOOLEAN
      BY <1>0, <1>4 DEF AskIndex, AskTopk, TypeInv
    <2>3. UNCHANGED <<resident, stamp, lru, bytes, gen, whole, mem, served>>
      BY <2>1, <2>2 DEF windowVars
    <2>4. TypeInv'
      BY <1>0, <2>1, <2>2 DEF TypeInv, windowVars
    <2>5. QED
      BY <2>3, <2>4, WindowKept
  <1>5. CASE Compute
    <2>1. UNCHANGED <<resident, stamp, lru, bytes, gen, whole, mem, served>>
      BY <1>5 DEF Compute, windowVars, hookVars
    <2>2. TypeInv'
      <3>1. /\ graph' = graph \/ graph' = << >>
            /\ pc' \in {"between", "ask"} /\ group' = {} /\ indexPending' = FALSE
            /\ UNCHANGED <<windowVars, hookVars, decodes>>
        BY <1>5 DEF Compute
      <3>2. graph' \in Seq(Node)
        <4>1. << >> \in Seq(Node)
          OBVIOUS
        <4>2. graph \in Seq(Node)
          BY <1>0 DEF TypeInv
        <4>3. QED
          BY <3>1, <4>1, <4>2
      <3>3. QED
        BY <1>0, <3>1, <3>2 DEF TypeInv, windowVars, hookVars
    <2>3. QED
      BY <2>1, <2>2, WindowKept
  <1>6. CASE UNCHANGED vars
    <2>1. UNCHANGED <<resident, stamp, lru, bytes, gen, whole, mem, served>>
      BY <1>6 DEF vars, windowVars, hookVars
    <2>2. TypeInv'
      BY <1>0, <1>6 DEF vars, windowVars, hookVars, graphVars, TypeInv
    <2>3. QED
      BY <2>1, <2>2, WindowKept
  <1>7. QED
    BY <1>1, <1>2, <1>3, <1>4, <1>5, <1>6 DEF Next

LEMMA WindowInvariance == Spec => []WindowInv
  BY WindowInit, WindowStep, PTL DEF Spec

\* Every variable of the window, the hook and the graph has its type.
THEOREM TypeCorrect == Spec => []TypeOK
  <1>1. WindowInv => TypeOK
    <2> SUFFICES ASSUME WindowInv
                 PROVE  TypeOK
      OBVIOUS
    <2>1. TypeInv /\ StampInv /\ GenSpan \in Nat /\ GenSpan > 1
      BY RowStreamAssumption DEF WindowInv
    <2>2. stamp \in [Slab -> 0..(GenSpan - 1)]
      BY <2>1 DEF TypeInv, StampInv
    <2>3. \A g \in group : g[1] \in Tables /\ g[2] \in 0..(NRows[g[1]] - 1)
      <3>1. ASSUME NEW g \in group
            PROVE  g[1] \in Tables /\ g[2] \in 0..(NRows[g[1]] - 1)
        <4>1. g[1] \in Tables /\ g[2] \in Nat /\ g[2] < NRows[g[1]]
          BY <2>1 DEF TypeInv, Row
        <4>2. NRows[g[1]] \in Nat
          BY <4>1, RowStreamAssumption
        <4>3. QED
          BY <4>1, <4>2
      <3>2. QED
        BY <3>1
    <2>4. QED
      BY <2>1, <2>2, <2>3 DEF TypeInv, TypeOK
  <1>2. QED
    BY <1>1, WindowInvariance, PTL

\* The list, the byte count and the residency flags agree whatever is asked,
\* evicted, put back or fails: by induction, the list holding each resident
\* slab once and the count being the sum of their pages.
THEOREM WindowIsAccounted == Spec => []WindowAccounted
  <1>1. WindowInv => WindowAccounted
    BY DEF WindowInv
  <1>2. QED
    BY <1>1, WindowInvariance, PTL

\* Only what one gather needs on its own goes over the window.
THEOREM WindowIsACeiling == Spec => []WindowBound
  <1>1. WindowInv => WindowBound
    BY DEF WindowInv
  <1>2. QED
    BY <1>1, WindowInvariance, PTL
-----------------------------------------------------------------------------

(***************************************************************************)
(* Rows in place.  What a gather puts in place stays until its group is     *)
(* computed, because no other gather is asked about in between; and the ids *)
(* it looks at are its own, because a served table whose ids are computed   *)
(* asked for a barrier behind the nodes that compute them.                  *)
(***************************************************************************)

\* Between any two gathers of a graph routing is read, which ends a group.
Apart(g) ==
  \A i, k \in DOMAIN g : i < k /\ g[i].op = "gather" /\ g[k].op = "gather" =>
     \E j \in i..k : g[j].op = "topk"
GathersApart == \A g \in Graphs : Apart(g)

\* Whether a table's row ids are computed is the same in every graph.
IndicesKnown ==
  \A g, h \in Graphs : \A i \in DOMAIN g, k \in DOMAIN h :
     g[i].op = "gather" /\ h[k].op = "gather" /\ g[i].table = h[k].table =>
       g[i].computed = h[k].computed

\* A gather over computed ids of a served table has its barrier.
Guarded(g) ==
  \A i \in DOMAIN g : g[i].op = "gather" /\ g[i].computed /\ g[i].table \in served => indexBarrier
BarrierInv == \A g \in Graphs : Guarded(g)
GraphInv == Apart(graph) /\ Guarded(graph)

\* No gather comes before routing is read.
Covered(g) == \A k \in DOMAIN g : g[k].op = "gather" => \E j \in 1..k : g[j].op = "topk"

GroupInv ==
  /\ pc = "ask" /\ group # {} => Covered(graph)
  /\ pc = "between" => group = {} /\ ~indexPending
  /\ pc = "ask" /\ indexBarrier => ~indexPending

\* The slabs of the rows the group reads are resident.
PlaceInv ==
  ~fatal => \A r \in group : Serves(r[1]) =>
              \A k \in SlabsOfRow(r[1], r[2]) : <<r[1], k>> \in resident

RowsInv == WindowInv /\ BarrierInv /\ GraphInv /\ GroupInv /\ PlaceInv

LEMMA BarrierInit == IndicesKnown /\ Init => BarrierInv
  <1> SUFFICES ASSUME IndicesKnown, Init, NEW h \in Graphs, NEW k \in DOMAIN h,
                      h[k].op = "gather", h[k].computed, h[k].table \in served
               PROVE  indexBarrier
    BY DEF BarrierInv, Guarded
  <1>1. PICK g \in Graphs : /\ served = Gathered(g) \ Disqualified(g)
                            /\ indexBarrier = NeedsIndexBarrier(g)
    BY DEF Init
  <1>2. PICK i \in DOMAIN g : g[i].op = "gather" /\ g[i].table = h[k].table
    BY <1>1 DEF Gathered
  <1>3. g[i].computed = h[k].computed
    BY <1>2 DEF IndicesKnown
  <1>4. g[i].table \notin Disqualified(g)
    BY <1>1, <1>2
  <1>5. QED
    BY <1>1, <1>2, <1>3, <1>4 DEF NeedsIndexBarrier

\* What holds of the nodes not asked about yet holds of those after the next.
LEMMA TailGraph ==
  ASSUME NEW g \in Seq(Node), g # << >>
  PROVE  /\ Apart(g) => Apart(Tail(g))
         /\ Guarded(g) => Guarded(Tail(g))
         /\ Covered(g) /\ Head(g).op # "topk" => Covered(Tail(g))
         /\ Apart(g) /\ Head(g).op = "gather" => Covered(Tail(g))
         /\ Covered(g) => Head(g).op # "gather"
         /\ Guarded(g) /\ Head(g).op = "gather" /\ Head(g).computed /\ Head(g).table \in served
              => indexBarrier
  <1> DEFINE n == Len(g)
             h == Tail(g)
  <1>1. n \in Nat /\ n >= 1 /\ DOMAIN g = 1..n /\ Head(g) = g[1] /\ 1 \in DOMAIN g
    BY SeqDef, EmptySeq, HeadTailProperties
  <1>2. Len(h) = n - 1 /\ DOMAIN h = 1..(n - 1) /\ \A i \in 1..(n - 1) : h[i] = g[i + 1]
    BY <1>1, HeadTailProperties, SeqDef
  <1> HIDE DEF n, h
  <1>3. \A i \in DOMAIN h : i \in Nat /\ i + 1 \in DOMAIN g /\ h[i] = g[i + 1]
    BY <1>1, <1>2
  <1>4. Apart(g) => Apart(h)
    <2> SUFFICES ASSUME Apart(g), NEW i \in DOMAIN h, NEW k \in DOMAIN h,
                        i < k, h[i].op = "gather", h[k].op = "gather"
                 PROVE  \E j \in i..k : h[j].op = "topk"
      BY DEF Apart
    <2>1. PICK j \in (i + 1)..(k + 1) : g[j].op = "topk"
      <3>1. i + 1 < k + 1 /\ i + 1 \in DOMAIN g /\ k + 1 \in DOMAIN g
        BY <1>3
      <3>2. QED
        BY <1>3, <3>1 DEF Apart
    <2>2. j - 1 \in i..k /\ (j - 1) + 1 = j /\ j - 1 \in 1..(n - 1)
      BY <1>1, <1>2, <2>1
    <2>3. h[j - 1] = g[j]
      BY <1>2, <2>2
    <2>4. QED
      BY <2>1, <2>2, <2>3
  <1>5. Guarded(g) => Guarded(h)
    BY <1>3 DEF Guarded
  <1>6. ASSUME NEW k \in DOMAIN h, h[k].op = "gather",
               \E j \in 1..(k + 1) : g[j].op = "topk", g[1].op # "topk"
        PROVE  \E j \in 1..k : h[j].op = "topk"
    <2>1. PICK j \in 1..(k + 1) : g[j].op = "topk"
      BY <1>6
    <2>2. j # 1
      BY <1>6, <2>1
    <2>3. k \in 1..(n - 1) /\ n \in Nat
      BY <1>1, <1>2
    <2>4. j - 1 \in 1..k /\ (j - 1) + 1 = j /\ j - 1 \in 1..(n - 1)
      BY <2>1, <2>2, <2>3
    <2>5. h[j - 1] = g[j]
      BY <1>2, <2>4
    <2>6. QED
      BY <2>1, <2>4, <2>5
  <1>7. Covered(g) /\ g[1].op # "topk" => Covered(h)
    <2> SUFFICES ASSUME Covered(g), g[1].op # "topk", NEW k \in DOMAIN h, h[k].op = "gather"
                 PROVE  \E j \in 1..k : h[j].op = "topk"
      BY DEF Covered
    <2>1. \E j \in 1..(k + 1) : g[j].op = "topk"
      BY <1>3 DEF Covered
    <2>2. QED
      BY <1>6, <2>1
  <1>8. Apart(g) /\ g[1].op = "gather" => Covered(h)
    <2> SUFFICES ASSUME Apart(g), g[1].op = "gather", NEW k \in DOMAIN h, h[k].op = "gather"
                 PROVE  \E j \in 1..k : h[j].op = "topk"
      BY DEF Covered
    <2>1. 1 < k + 1 /\ k + 1 \in DOMAIN g /\ g[k + 1].op = "gather"
      BY <1>1, <1>2, <1>3
    <2>2. \E j \in 1..(k + 1) : g[j].op = "topk"
      BY <1>1, <2>1 DEF Apart
    <2>3. QED
      BY <1>6, <2>2
  <1>9. Covered(g) => g[1].op # "gather"
    <2> SUFFICES ASSUME Covered(g), g[1].op = "gather"
                 PROVE  FALSE
      OBVIOUS
    <2>1. PICK j \in 1..1 : g[j].op = "topk"
      BY <1>1 DEF Covered
    <2>2. j = 1
      BY <2>1
    <2>3. QED
      BY <2>1, <2>2
  <1>10. Guarded(g) /\ g[1].op = "gather" /\ g[1].computed /\ g[1].table \in served => indexBarrier
    BY <1>1 DEF Guarded
  <1>11. QED
    BY <1>1, <1>4, <1>5, <1>7, <1>8, <1>9, <1>10 DEF h

\* Asking about a node takes it off the graph.
LEMMA AskGraph ==
  ASSUME TypeInv, BarrierInv, GraphInv, NEW op, NEW isolated, Ask(op, isolated)
  PROVE  BarrierInv' /\ GraphInv'
  <1>1. graph \in Seq(Node) /\ graph # << >> /\ graph' = Tail(graph)
        /\ served' = served /\ indexBarrier' = indexBarrier
    BY AskTypes DEF TypeInv
  <1>2. Apart(Tail(graph)) /\ Guarded(Tail(graph))
    BY <1>1, TailGraph DEF GraphInv
  <1>3. BarrierInv'
    BY <1>1 DEF BarrierInv, Guarded
  <1>4. Apart(graph)'
    BY <1>1, <1>2, SMTT(30) DEF Apart
  <1>5. Guarded(graph)'
    BY <1>1, <1>2 DEF Guarded
  <1>6. QED
    BY <1>3, <1>4, <1>5 DEF GraphInv

LEMMA RowsStep == GathersApart /\ RowsInv /\ WindowInv' /\ [Next]_vars => RowsInv'
  <1> SUFFICES ASSUME GathersApart, RowsInv, WindowInv', [Next]_vars
               PROVE  BarrierInv' /\ GraphInv' /\ GroupInv' /\ PlaceInv'
    BY DEF RowsInv
  <1>0. TypeInv /\ WindowInv /\ BarrierInv /\ GraphInv /\ GroupInv /\ PlaceInv
    BY DEF RowsInv, WindowInv
  <1>1. ASSUME NEW g \in Graphs, BeginDecode(g)
        PROVE  BarrierInv' /\ GraphInv' /\ GroupInv' /\ PlaceInv'
    <2>1. /\ pc = "between" /\ pc' = "ask" /\ graph' = g
          /\ UNCHANGED <<windowVars, hookVars, group, indexPending>>
      BY <1>1 DEF BeginDecode
    <2>2. BarrierInv' /\ GraphInv'
      <3>1. Apart(g) /\ Guarded(g)
        BY <1>0 DEF GathersApart, BarrierInv
      <3>2. Apart(graph)'
        BY <2>1, <3>1 DEF Apart
      <3>3. Guarded(graph)' /\ BarrierInv'
        BY <1>0, <2>1, <3>1 DEF Guarded, BarrierInv, hookVars
      <3>4. QED
        BY <3>2, <3>3 DEF GraphInv
    <2>3. GroupInv'
      BY <1>0, <2>1 DEF GroupInv
    <2>4. PlaceInv'
      BY <1>0, <2>1 DEF PlaceInv, Serves, windowVars, hookVars
    <2>5. QED
      BY <2>2, <2>3, <2>4
  <1>2. ASSUME NEW rows, NEW seen, NEW fetched, AskGather(rows, seen, fetched)
        PROVE  BarrierInv' /\ GraphInv' /\ GroupInv' /\ PlaceInv'
    <2> DEFINE n == Head(graph)
               t == n.table
               own == {t} \X (rows \cap 0..(NRows[t] - 1))
    <2>1. /\ Ask("gather", FALSE) /\ n.op = "gather"
          /\ (n.computed /\ indexPending) \/ seen = rows
          /\ group' = group \cup own /\ indexPending' = indexPending
      BY <1>2 DEF AskGather, Ask
    <2>2. BarrierInv' /\ GraphInv'
      BY <1>0, <2>1, AskGraph
    <2>3. /\ t \in Tables /\ graph # << >> /\ pc = "ask" /\ graph' = Tail(graph)
          /\ graph \in Seq(Node) /\ pc' \in {"ask", "compute"}
          /\ served' = served /\ indexBarrier' = indexBarrier
      BY <1>0, <2>1, AskTypes DEF TypeInv
    <2>4. group = {}
      <3>1. ~Covered(graph)
        BY <2>1, <2>3, TailGraph
      <3>2. QED
        BY <1>0, <2>3, <3>1 DEF GroupInv
    <2>5. Covered(Tail(graph))
      BY <1>0, <2>1, <2>3, TailGraph DEF GraphInv
    <2>6. Covered(graph)'
      BY <2>3, <2>5 DEF Covered
    <2>7. GroupInv'
      BY <1>0, <2>1, <2>3, <2>6 DEF GroupInv
    <2>8. \A r \in group' : r[1] = t /\ r[2] \in rows \cap 0..(NRows[t] - 1)
      BY <2>1, <2>4
    <2>9. PlaceInv'
      <3>1. CASE ~Serves(t)
        <4>1. UNCHANGED <<windowVars, fatal>>
          BY <1>2, <3>1 DEF AskGather
        <4>2. \A r \in group' : ~Serves(r[1])'
          BY <2>3, <2>8, <3>1, <4>1 DEF Serves, windowVars
        <4>3. QED
          BY <4>2 DEF PlaceInv
      <3>2. CASE Serves(t)
        <4>1. Gather(t, seen, fetched)
          BY <1>2, <3>2 DEF AskGather
        <4>2. seen = rows
          <5>1. n.computed => indexBarrier
            BY <1>0, <2>1, <2>3, <3>2, TailGraph DEF GraphInv, Serves
          <5>2. indexBarrier => ~indexPending
            BY <1>0, <2>3 DEF GroupInv
          <5>3. QED
            BY <2>1, <5>1, <5>2
        <4>3. /\ resident' = (resident \ Out({t} \X Need(t, seen))) \cup fetched
              /\ fetched = {t} \X Need(t, seen) \/ fatal' = TRUE
          <5> HIDE DEF t
          <5>1. QED
            BY <1>0, <2>3, <3>2, <4>1, GatherWindow
        <4>4. ASSUME ~fatal', NEW r \in group', NEW k \in SlabsOfRow(r[1], r[2])
              PROVE  <<r[1], k>> \in resident'
          <5>1. k \in Need(t, rows)
            BY <2>8, <4>4 DEF Need
          <5>2. <<r[1], k>> \in {t} \X Need(t, rows)
            BY <2>8, <5>1
          <5>3. QED
            BY <4>2, <4>3, <4>4, <5>2
        <4>5. QED
          BY <4>4 DEF PlaceInv
      <3>3. QED
        BY <3>1, <3>2
    <2>10. QED
      BY <2>2, <2>7, <2>9
  <1>3. CASE AskUse
    <2> DEFINE t == Head(graph).table
    <2>1. /\ Ask("use", FALSE) /\ Head(graph).op = "use" /\ fatal' = fatal
          /\ group' = group /\ indexPending' = indexPending
      BY <1>3 DEF AskUse, Ask
    <2>2. BarrierInv' /\ GraphInv'
      BY <1>0, <2>1, AskGraph
    <2>3. /\ t \in Tables /\ graph # << >> /\ pc = "ask" /\ graph' = Tail(graph)
          /\ graph \in Seq(Node) /\ pc' \in {"ask", "compute"}
          /\ served' = served /\ indexBarrier' = indexBarrier
      BY <1>0, <2>1, AskTypes DEF TypeInv
    <2>4. Covered(graph) => Covered(graph)'
      <3>1. Covered(graph) => Covered(Tail(graph))
        BY <2>1, <2>3, TailGraph
      <3>2. QED
        BY <2>3, <3>1 DEF Covered
    <2>5. GroupInv'
      BY <1>0, <2>1, <2>3, <2>4 DEF GroupInv
    <2>6. PlaceInv'
      <3>1. CASE ~Serves(t)
        <4>1. whole' = whole /\ resident' = resident
          BY <1>3, <3>1 DEF AskUse
        <4>2. QED
          BY <1>0, <2>1, <2>3, <4>1 DEF PlaceInv, Serves
      <3>2. CASE Serves(t)
        <4>1. /\ whole' = [whole EXCEPT ![t] = TRUE]
              /\ resident' = resident \ {s \in resident : s[1] = t}
          BY <1>3, <3>2 DEF AskUse
        <4>2. \A r \in group : r[1] \in Tables
          BY <1>0 DEF TypeInv, Row
        <4>3. whole \in [Tables -> BOOLEAN]
          BY <1>0 DEF TypeInv
        <4>4. \A r \in group : Serves(r[1])' => r[1] # t /\ Serves(r[1])
          BY <2>3, <4>1, <4>2, <4>3 DEF Serves
        <4>5. \A r \in group : \A k : r[1] # t /\ <<r[1], k>> \in resident => <<r[1], k>> \in resident'
          BY <4>1
        <4>6. QED
          BY <1>0, <2>1, <4>4, <4>5 DEF PlaceInv
      <3>3. QED
        BY <3>1, <3>2
    <2>7. QED
      BY <2>2, <2>5, <2>6
  <1>4. CASE AskIndex
    <2>1. /\ Ask("index", indexBarrier) /\ Head(graph).op = "index"
          /\ indexPending' = TRUE /\ UNCHANGED <<windowVars, fatal, group>>
      BY <1>4 DEF AskIndex, Ask
    <2>2. BarrierInv' /\ GraphInv'
      BY <1>0, <2>1, AskGraph
    <2>3. /\ graph # << >> /\ pc = "ask" /\ graph' = Tail(graph) /\ graph \in Seq(Node)
          /\ pc' \in {"ask", "compute"} /\ served' = served /\ indexBarrier' = indexBarrier
      BY <1>0, <2>1, AskTypes DEF TypeInv
    <2>4. indexBarrier => pc' = "compute"
      BY <2>1 DEF Ask
    <2>5. Covered(graph) => Covered(graph)'
      <3>1. Covered(graph) => Covered(Tail(graph))
        BY <2>1, <2>3, TailGraph
      <3>2. QED
        BY <2>3, <3>1 DEF Covered
    <2>6. GroupInv'
      BY <1>0, <2>1, <2>3, <2>4, <2>5 DEF GroupInv
    <2>7. PlaceInv'
      BY <1>0, <2>1, <2>3 DEF PlaceInv, Serves, windowVars
    <2>8. QED
      BY <2>2, <2>6, <2>7
  <1>5. CASE AskTopk
    <2>1. /\ Ask("topk", TRUE) /\ UNCHANGED <<windowVars, fatal, group, indexPending>>
      BY <1>5 DEF AskTopk
    <2>2. BarrierInv' /\ GraphInv'
      BY <1>0, <2>1, AskGraph
    <2>3. served' = served /\ pc' = "compute"
      BY <2>1 DEF Ask
    <2>4. GroupInv'
      BY <2>3 DEF GroupInv
    <2>5. PlaceInv'
      BY <1>0, <2>1, <2>3 DEF PlaceInv, Serves, windowVars
    <2>6. QED
      BY <2>2, <2>4, <2>5
  <1>6. CASE Compute
    <2>1. /\ graph' = graph \/ graph' = << >>
          /\ group' = {} /\ indexPending' = FALSE /\ UNCHANGED <<windowVars, hookVars, decodes>>
      BY <1>6 DEF Compute
    <2>2. BarrierInv'
      BY <1>0, <2>1 DEF BarrierInv, Guarded, hookVars
    <2>3. Apart(graph)'
      <3>1. CASE graph' = graph
        BY <1>0, <3>1 DEF GraphInv, Apart
      <3>2. CASE graph' = << >>
        BY <3>2 DEF Apart
      <3>3. QED
        BY <2>1, <3>1, <3>2
    <2>4. Guarded(graph)'
      <3>1. CASE graph' = graph
        BY <1>0, <2>1, <3>1 DEF GraphInv, Guarded, hookVars
      <3>2. CASE graph' = << >>
        BY <3>2 DEF Guarded
      <3>3. QED
        BY <2>1, <3>1, <3>2
    <2>5. GroupInv'
      BY <2>1 DEF GroupInv
    <2>6. PlaceInv'
      BY <2>1 DEF PlaceInv
    <2>7. QED
      BY <2>2, <2>3, <2>4, <2>5, <2>6 DEF GraphInv
  <1>7. CASE UNCHANGED vars
    <2> USE <1>7 DEF vars, windowVars, hookVars, graphVars
    <2>1. BarrierInv'
      BY <1>0 DEF BarrierInv, Guarded
    <2>2. GraphInv'
      BY <1>0 DEF GraphInv, Guarded, Apart
    <2>3. GroupInv'
      BY <1>0 DEF GroupInv, Covered
    <2>4. PlaceInv'
      BY <1>0 DEF PlaceInv, Serves
    <2>5. QED
      BY <2>1, <2>2, <2>3, <2>4
  <1>8. QED
    BY <1>1, <1>2, <1>3, <1>4, <1>5, <1>6, <1>7 DEF Next

LEMMA PlaceMeansData == RowsInv => RowsInPlace
  <1> SUFFICES ASSUME RowsInv, ~fatal, NEW r \in group, Serves(r[1]),
                      NEW b \in (r[2] * RowBytes[r[1]])..(r[2] * RowBytes[r[1]] + RowBytes[r[1]] - 1)
               PROVE  mem[<<r[1], b \div SlabBytes>>] = "data"
    BY DEF RowsInPlace
  <1>1. r[1] \in Tables /\ r[2] \in 0..(NRows[r[1]] - 1)
    <2>1. r[1] \in Tables /\ r[2] \in Nat /\ r[2] < NRows[r[1]]
      BY DEF RowsInv, WindowInv, TypeInv, Row
    <2>2. NRows[r[1]] \in Nat
      BY <2>1, RowStreamAssumption
    <2>3. QED
      BY <2>1, <2>2
  <1>2. b \div SlabBytes \in SlabsOfRow(r[1], r[2])
    BY <1>1, RowBytesInSlabs
  <1>3. <<r[1], b \div SlabBytes>> \in resident
    BY <1>2 DEF RowsInv, PlaceInv
  <1>4. QED
    BY <1>3 DEF RowsInv, WindowInv, WindowAccounted

\* No group of nodes reads a row whose bytes are not there, if routing is read
\* between any two gathers of a graph and a table's ids are computed in every
\* graph or in none.
THEOREM RowsAreInPlace ==
  ASSUME GathersApart, IndicesKnown
  PROVE  Spec => []RowsInPlace
  <1>1. Init => RowsInv
    <2> SUFFICES ASSUME Init
                 PROVE  RowsInv
      OBVIOUS
    <2>1. graph = << >> /\ group = {} /\ ~indexPending
      BY DEF Init
    <2>2. GraphInv
      BY <2>1 DEF GraphInv, Apart, Guarded
    <2>3. GroupInv /\ PlaceInv
      BY <2>1 DEF GroupInv, PlaceInv
    <2>4. QED
      BY <2>2, <2>3, WindowInit, BarrierInit DEF RowsInv
  <1>2. RowsInv /\ WindowInv' /\ [Next]_vars => RowsInv'
    BY RowsStep
  <1>3. RowsInv => RowsInPlace
    BY PlaceMeansData
  <1>4. QED
    BY <1>1, <1>2, <1>3, WindowInvariance, PTL DEF Spec
=============================================================================
