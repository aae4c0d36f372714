--------------------------- MODULE SpeculationProofs ---------------------------
(***************************************************************************)
(* TLAPS proofs about Speculation, for every set of experts, lanes and      *)
(* configurations in which a layer is issued once before it is loaded and a *)
(* read fails only under a guessing predictor.                              *)
(***************************************************************************)
EXTENDS Speculation, FiniteSetTheorems, SequenceTheorems, WellFoundedInduction, TLAPS

(***************************************************************************)
(* Lists: sequences whose members are distinct.                            *)
(***************************************************************************)

LEMMA SeqFacts ==
  ASSUME NEW T, NEW s \in Seq(T)
  PROVE  /\ Len(s) \in Nat /\ DOMAIN s = 1..Len(s) /\ s \in [1..Len(s) -> T]
         /\ \A i \in DOMAIN s : s[i] \in T /\ s[i] \in ToSet(s)
         /\ ToSet(s) \subseteq T
         /\ \A x \in ToSet(s) : \E i \in DOMAIN s : s[i] = x
  <1>1. Len(s) \in Nat /\ DOMAIN s = 1..Len(s) /\ s \in [1..Len(s) -> T]
    BY SeqDef
  <1>2. QED
    BY <1>1 DEF ToSet

LEMMA FunctionIsSeq ==
  ASSUME NEW T, NEW n \in Nat, NEW f \in [1..n -> T]
  PROVE  f \in Seq(T) /\ Len(f) = n /\ DOMAIN f = 1..n
  <1>1. f \in Seq(T)
    BY SeqDef
  <1>2. QED
    BY <1>1, SeqFacts

LEMMA ListCounts ==
  ASSUME NEW T, NEW s \in Seq(T), IsInjective(s)
  PROVE  IsFiniteSet(ToSet(s)) /\ Cardinality(ToSet(s)) = Len(s)
  <1>1. Len(s) \in Nat /\ DOMAIN s = 1..Len(s)
    BY SeqFacts
  <1>2. IsFiniteSet(1..Len(s)) /\ Cardinality(1..Len(s)) = Len(s)
    BY <1>1, FS_Interval
  <1>3. s \in [1..Len(s) -> ToSet(s)]
    BY SeqFacts
  <1>4. s \in Bijection(1..Len(s), ToSet(s))
    BY <1>1, <1>3 DEF Bijection, Injection, Surjection, ToSet
  <1>5. ExistsBijection(1..Len(s), ToSet(s))
    BY <1>4 DEF ExistsBijection
  <1>6. QED
    BY <1>2, <1>5, FS_Bijection

BeforeSet(kept, i) == {j \in kept : j < i}

\* The places of the kept members are the numbers below how many they are.
LEMMA Places ==
  ASSUME NEW n \in Nat, NEW kept \in SUBSET (1..n)
  PROVE  /\ IsFiniteSet(kept) /\ Cardinality(kept) \in Nat
         /\ \A i \in kept : Before(kept, i) \in 0..(Cardinality(kept) - 1)
         /\ \A i, k \in kept : Before(kept, i) = Before(kept, k) => i = k
         /\ \A k \in 1..Cardinality(kept) : \E i \in kept : Before(kept, i) = k - 1
  <1> DEFINE m == Cardinality(kept)
  <1>1. IsFiniteSet(kept) /\ m \in Nat
    <2>1. IsFiniteSet(1..n)
      BY FS_Interval
    <2>2. QED
      BY <2>1, FS_Subset, FS_CardinalityType
  <1>2. ASSUME NEW i \in kept
        PROVE  /\ BeforeSet(kept, i) \in SUBSET kept /\ i \notin BeforeSet(kept, i)
               /\ IsFiniteSet(BeforeSet(kept, i)) /\ Before(kept, i) \in Nat
               /\ Before(kept, i) = Cardinality(BeforeSet(kept, i))
               /\ Cardinality(BeforeSet(kept, i) \cup {i}) = Before(kept, i) + 1
    <2>1. BeforeSet(kept, i) \in SUBSET kept /\ i \notin BeforeSet(kept, i)
      BY DEF BeforeSet
    <2>2. IsFiniteSet(BeforeSet(kept, i)) /\ Cardinality(BeforeSet(kept, i)) \in Nat
      BY <1>1, <2>1, FS_Subset, FS_CardinalityType
    <2>3. Cardinality(BeforeSet(kept, i) \cup {i}) = Cardinality(BeforeSet(kept, i)) + 1
      BY <2>1, <2>2, FS_AddElement
    <2>4. QED
      BY <2>1, <2>2, <2>3 DEF Before, BeforeSet
  <1>3. ASSUME NEW i \in kept
        PROVE  Before(kept, i) \in 0..(m - 1)
    <2> DEFINE B == BeforeSet(kept, i) \cup {i}
    <2>1. B \in SUBSET kept /\ Cardinality(B) = Before(kept, i) + 1 /\ Before(kept, i) \in Nat
      BY <1>2
    <2> HIDE DEF B
    <2>2. Cardinality(B) <= m
      BY <1>1, <2>1, FS_Subset
    <2>3. QED
      BY <1>1, <2>1, <2>2
  <1>4. ASSUME NEW i \in kept, NEW k \in kept, i < k
        PROVE  Before(kept, i) < Before(kept, k)
    <2> DEFINE B == BeforeSet(kept, i) \cup {i}
               F == BeforeSet(kept, k)
    <2>1. B \in SUBSET F
      <3>1. ASSUME NEW j \in kept, j < i
            PROVE  j < k
        <4>1. i \in Int /\ k \in Int /\ j \in Int
          OBVIOUS
        <4>2. QED
          BY <1>4, <3>1, <4>1
      <3>2. i \in F
        BY <1>4 DEF BeforeSet
      <3>3. BeforeSet(kept, i) \subseteq F
        BY <3>1 DEF BeforeSet
      <3>4. QED
        BY <3>2, <3>3
    <2>2. /\ IsFiniteSet(F) /\ Before(kept, k) \in Nat /\ Before(kept, k) = Cardinality(F)
          /\ Cardinality(B) = Before(kept, i) + 1 /\ Before(kept, i) \in Nat
      BY <1>2
    <2> HIDE DEF B, F
    <2>3. Cardinality(B) <= Cardinality(F)
      BY <2>1, <2>2, FS_Subset
    <2>4. QED
      BY <2>2, <2>3
  <1>5. ASSUME NEW i \in kept, NEW k \in kept, Before(kept, i) = Before(kept, k)
        PROVE  i = k
    <2>1. i = k \/ i < k \/ k < i
      OBVIOUS
    <2>2. Before(kept, i) \in Nat /\ Before(kept, k) \in Nat
      BY <1>2
    <2>3. (i < k => Before(kept, i) < Before(kept, k)) /\ (k < i => Before(kept, k) < Before(kept, i))
      BY <1>4
    <2>4. QED
      BY <1>5, <2>1, <2>2, <2>3
  <1> DEFINE f == [i \in kept |-> Before(kept, i)]
  <1>6. f \in Injection(kept, 0..(m - 1))
    BY <1>3, <1>5 DEF Injection, IsInjective
  <1>7. IsFiniteSet(0..(m - 1)) /\ Cardinality(0..(m - 1)) = m
    <2> HIDE DEF m
    <2>1. 0 \in Int /\ m - 1 \in Int
      BY <1>1
    <2>2. /\ IsFiniteSet(0..(m - 1))
          /\ Cardinality(0..(m - 1)) = IF 0 > m - 1 THEN 0 ELSE (m - 1) - 0 + 1
      BY <2>1, FS_Interval
    <2>3. QED
      BY <1>1, <2>2
  <1>8. f \in Surjection(kept, 0..(m - 1))
    <2> HIDE DEF f
    <2>1. QED
      BY <1>6, <1>7, FS_Injection
  <1>9. ASSUME NEW k \in 1..m
        PROVE  \E i \in kept : Before(kept, i) = k - 1
    <2>1. k - 1 \in 0..(m - 1)
      BY <1>1
    <2>2. \E i \in kept : f[i] = k - 1
      BY <1>8, <2>1 DEF Surjection
    <2>3. QED
      BY <2>2
  <1>10. QED
    BY <1>1, <1>3, <1>5, <1>9

LEMMA WithoutLeaves ==
  ASSUME NEW T, NEW s \in Seq(T), IsInjective(s), NEW S
  PROVE  /\ Without(s, S) \in Seq(T) /\ IsInjective(Without(s, S))
         /\ ToSet(Without(s, S)) = ToSet(s) \ S
  <1> DEFINE kept == {i \in DOMAIN s : s[i] \notin S}
             n == Cardinality(kept)
             at == [k \in 1..n |-> CHOOSE i \in kept : Before(kept, i) = k - 1]
             w == [k \in 1..n |-> s[at[k]]]
  <1>1. Without(s, S) = w
    BY DEF Without
  <1>2. Len(s) \in Nat /\ DOMAIN s = 1..Len(s) /\ \A i \in DOMAIN s : s[i] \in T
    BY SeqFacts
  <1>3. kept \in SUBSET (1..Len(s))
    BY <1>2
  <1>4. n \in Nat /\ \A k \in 1..n : at[k] \in kept /\ Before(kept, at[k]) = k - 1
    <2> HIDE DEF kept
    <2>1. n \in Nat /\ \A k \in 1..n : \E i \in kept : Before(kept, i) = k - 1
      BY <1>2, <1>3, Places
    <2>2. QED
      BY <2>1
  <1>5. \A i \in kept : \E k \in 1..n : at[k] = i
    <2> HIDE DEF kept
    <2> SUFFICES ASSUME NEW i \in kept
                 PROVE  \E k \in 1..n : at[k] = i
      OBVIOUS
    <2>1. Before(kept, i) \in 0..(n - 1)
      BY <1>2, <1>3, Places
    <2> DEFINE k == Before(kept, i) + 1
    <2>2. k \in 1..n /\ k - 1 = Before(kept, i)
      BY <1>4, <2>1
    <2> HIDE DEF k
    <2>3. at[k] \in kept /\ Before(kept, at[k]) = Before(kept, i)
      BY <1>4, <2>2
    <2> HIDE DEF at
    <2>4. at[k] = i
      BY <1>2, <1>3, <2>3, Places
    <2>5. QED
      BY <2>2, <2>4
  <1>6. ASSUME NEW k \in 1..n, NEW l \in 1..n, at[k] = at[l]
        PROVE  k = l
    <2> HIDE DEF at, kept
    <2>1. k - 1 = l - 1
      BY <1>4, <1>6
    <2>2. QED
      BY <1>4, <2>1
  <1> HIDE DEF at
  <1>7. \A k \in 1..n : w[k] = s[at[k]] /\ at[k] \in DOMAIN s /\ s[at[k]] \in T /\ s[at[k]] \notin S
    BY <1>2, <1>4
  <1>8. w \in [1..n -> T]
    BY <1>7
  <1>9. IsInjective(w)
    BY <1>6, <1>7 DEF IsInjective
  <1>10. ToSet(w) \subseteq ToSet(s) \ S
    BY <1>7 DEF ToSet
  <1>11. ASSUME NEW x \in ToSet(s) \ S
         PROVE  x \in ToSet(w)
    <2>1. PICK i \in DOMAIN s : s[i] = x
      BY DEF ToSet
    <2>2. PICK k \in 1..n : at[k] = i
      BY <1>5, <2>1
    <2>3. QED
      BY <2>1, <2>2 DEF ToSet
  <1> HIDE DEF w, kept, n
  <1>12. w \in Seq(T)
    BY <1>4, <1>8, FunctionIsSeq
  <1>13. QED
    BY <1>1, <1>9, <1>10, <1>11, <1>12

\* A list and another with no member in common make one list.
LEMMA ListsJoin ==
  ASSUME NEW T, NEW a \in Seq(T), NEW b \in Seq(T), IsInjective(a), IsInjective(b),
         ToSet(a) \cap ToSet(b) = {}
  PROVE  /\ a \o b \in Seq(T) /\ IsInjective(a \o b)
         /\ ToSet(a \o b) = ToSet(a) \cup ToSet(b)
  <1> DEFINE c == a \o b
  <1>1. /\ c \in Seq(T) /\ Len(c) = Len(a) + Len(b) /\ Len(a) \in Nat /\ Len(b) \in Nat
        /\ DOMAIN a = 1..Len(a) /\ DOMAIN b = 1..Len(b) /\ DOMAIN c = 1..Len(c)
        /\ \A i \in 1..Len(c) : c[i] = IF i <= Len(a) THEN a[i] ELSE b[i - Len(a)]
    BY ConcatProperties, SeqFacts
  <1> HIDE DEF c
  <1>2. \A i \in DOMAIN c : \/ i \in DOMAIN a /\ c[i] = a[i]
                            \/ i - Len(a) \in DOMAIN b /\ c[i] = b[i - Len(a)] /\ ~(i <= Len(a))
    BY <1>1
  <1>3. \A i \in DOMAIN a : i \in DOMAIN c /\ c[i] = a[i]
    BY <1>1
  <1>4. \A k \in DOMAIN b : Len(a) + k \in DOMAIN c /\ c[Len(a) + k] = b[k]
    BY <1>1
  <1>5. ToSet(c) = ToSet(a) \cup ToSet(b)
    <2>1. ToSet(c) \subseteq ToSet(a) \cup ToSet(b)
      BY <1>2 DEF ToSet
    <2>2. ToSet(a) \subseteq ToSet(c)
      BY <1>3 DEF ToSet
    <2>3. ToSet(b) \subseteq ToSet(c)
      BY <1>4 DEF ToSet
    <2>4. QED
      BY <2>1, <2>2, <2>3
  <1>6. ASSUME NEW i \in DOMAIN c, NEW k \in DOMAIN c, c[i] = c[k]
        PROVE  i = k
    <2>1. CASE i \in DOMAIN a /\ k \in DOMAIN a
      BY <1>3, <1>6, <2>1 DEF IsInjective
    <2>2. CASE i \notin DOMAIN a /\ k \notin DOMAIN a
      <3>1. i - Len(a) = k - Len(a)
        BY <1>2, <1>6, <2>2 DEF IsInjective
      <3>2. QED
        BY <1>1, <3>1
    <2>3. CASE i \in DOMAIN a /\ k \notin DOMAIN a
      <3>1. c[i] \in ToSet(a) /\ c[k] \in ToSet(b)
        BY <1>2, <1>3, <2>3 DEF ToSet
      <3>2. QED
        BY <1>6, <3>1
    <2>4. CASE i \notin DOMAIN a /\ k \in DOMAIN a
      <3>1. c[k] \in ToSet(a) /\ c[i] \in ToSet(b)
        BY <1>2, <1>3, <2>4 DEF ToSet
      <3>2. QED
        BY <1>6, <3>1
    <2>5. QED
      BY <2>1, <2>2, <2>3, <2>4
  <1>7. QED
    BY <1>1, <1>5, <1>6 DEF IsInjective, c

LEMMA ReverseIsList ==
  ASSUME NEW T, NEW s \in Seq(T), IsInjective(s)
  PROVE  Reverse(s) \in Seq(T) /\ IsInjective(Reverse(s)) /\ ToSet(Reverse(s)) = ToSet(s)
  <1> DEFINE n == Len(s)
             w == [i \in 1..n |-> s[(n - i) + 1]]
  <1>1. n \in Nat /\ DOMAIN s = 1..n /\ \A i \in 1..n : s[i] \in T
    BY SeqFacts
  <1>2. Reverse(s) = w
    BY DEF Reverse
  <1> HIDE DEF n
  <1>3. \A i \in 1..n : (n - i) + 1 \in 1..n /\ (n - ((n - i) + 1)) + 1 = i
    BY <1>1
  <1>4. w \in [1..n -> T]
    BY <1>1, <1>3
  <1>5. \A i \in 1..n : w[i] = s[(n - i) + 1] /\ w[(n - i) + 1] = s[i]
    BY <1>3
  <1>6. DOMAIN w = 1..n
    OBVIOUS
  <1> HIDE DEF w
  <1>7. ASSUME NEW i \in 1..n, NEW k \in 1..n, w[i] = w[k]
        PROVE  i = k
    <2>1. (n - i) + 1 = (n - k) + 1
      BY <1>1, <1>3, <1>5, <1>7 DEF IsInjective
    <2>2. QED
      BY <1>1, <2>1
  <1>8. IsInjective(w)
    BY <1>6, <1>7 DEF IsInjective
  <1>9. ToSet(w) = ToSet(s)
    BY <1>1, <1>3, <1>5, <1>6 DEF ToSet
  <1>10. QED
    BY <1>1, <1>2, <1>4, <1>8, <1>9, FunctionIsSeq

\* A list falls into what is before a place and what is after it.
LEMMA ListSplits ==
  ASSUME NEW T, NEW s \in Seq(T), IsInjective(s), NEW n \in 0..Len(s)
  PROVE  LET a == SubSeq(s, 1, n)
             b == SubSeq(s, n + 1, Len(s))
         IN  /\ a \in Seq(T) /\ Len(a) = n /\ IsInjective(a)
             /\ \A i \in 1..n : a[i] = s[i]
             /\ b \in Seq(T) /\ Len(b) = Len(s) - n /\ IsInjective(b)
             /\ ToSet(a) \cup ToSet(b) = ToSet(s) /\ ToSet(a) \cap ToSet(b) = {}
  <1> DEFINE a == SubSeq(s, 1, n)
             b == SubSeq(s, n + 1, Len(s))
             m == Len(s) - n
  <1>1. /\ Len(s) \in Nat /\ DOMAIN s = 1..Len(s) /\ n \in Nat /\ m \in Nat
    BY SeqFacts
  <1>2. /\ a \in Seq(T) /\ Len(a) = n /\ \A i \in 1..n : a[i] = s[i]
    BY <1>1, SubSeqProperties
  <1>3. /\ b \in Seq(T) /\ Len(b) = m /\ \A i \in 1..m : b[i] = s[n + i]
    <2>1. n + 1 \in 1..(Len(s) + 1) /\ Len(s) \in (n + 1 - 1)..Len(s) /\ Len(s) - (n + 1) + 1 = m
      BY <1>1
    <2>2. /\ b \in Seq(T) /\ Len(b) = IF n + 1 <= Len(s) THEN Len(s) - (n + 1) + 1 ELSE 0
          /\ \A i \in 1..(Len(s) - (n + 1) + 1) : b[i] = s[(n + 1) + i - 1]
      BY <1>1, <2>1, SubSeqProperties
    <2>3. \A i \in 1..m : (n + 1) + i - 1 = n + i
      BY <1>1
    <2>4. Len(b) = m
      <3> HIDE DEF b
      <3>1. CASE n + 1 <= Len(s)
        BY <2>1, <2>2, <3>1
      <3>2. CASE ~(n + 1 <= Len(s))
        <4>1. m = 0
          <5>1. n = Len(s)
            <6> DEFINE l == Len(s)
            <6>1. l \in Nat /\ n \in 0..l /\ ~(n + 1 <= l)
              BY <1>1, <3>2
            <6> HIDE DEF l
            <6>2. n = l
              BY <6>1
            <6>3. QED
              BY <6>2 DEF l
          <5>2. QED
            BY <1>1, <5>1
        <4>2. QED
          BY <2>2, <3>2, <4>1
      <3>3. QED
        BY <3>1, <3>2
    <2>5. \A i \in 1..m : b[i] = s[n + i]
      <3> HIDE DEF b, m
      <3>1. QED
        BY <2>1, <2>2, <2>3
    <2>6. QED
      BY <2>2, <2>4, <2>5
  <1>4. DOMAIN a = 1..n /\ DOMAIN b = 1..m
    <2> HIDE DEF a, b
    <2>1. QED
      BY <1>2, <1>3, SeqFacts
  <1> HIDE DEF a, b
  <1>5. \A i \in 1..n : i \in DOMAIN s
    BY <1>1
  <1>6. \A i \in 1..m : n + i \in DOMAIN s /\ n + i > n
    BY <1>1
  <1>7. \A i \in DOMAIN s : i \in 1..n \/ (i - n \in 1..m /\ n + (i - n) = i)
    BY <1>1
  <1> HIDE DEF m
  <1>8. IsInjective(a)
    BY <1>2, <1>4, <1>5 DEF IsInjective
  <1>9. IsInjective(b)
    <2>1. ASSUME NEW i \in 1..m, NEW k \in 1..m, b[i] = b[k]
          PROVE  i = k
      <3>1. n + i = n + k
        BY <1>3, <1>6, <2>1 DEF IsInjective
      <3>2. QED
        BY <1>1, <3>1
    <2>2. QED
      BY <1>4, <2>1 DEF IsInjective
  <1>10. ToSet(a) \cap ToSet(b) = {}
    <2>1. ASSUME NEW i \in 1..n, NEW k \in 1..m, a[i] = b[k]
          PROVE  FALSE
      <3>1. i = n + k
        BY <1>2, <1>3, <1>5, <1>6, <2>1 DEF IsInjective
      <3>2. QED
        BY <1>1, <1>6, <3>1
    <2>2. QED
      BY <1>4, <2>1 DEF ToSet
  <1>11. ToSet(a) \cup ToSet(b) \subseteq ToSet(s)
    BY <1>2, <1>3, <1>4, <1>5, <1>6 DEF ToSet
  <1>12. ToSet(s) \subseteq ToSet(a) \cup ToSet(b)
    <2>1. ASSUME NEW i \in DOMAIN s
          PROVE  s[i] \in ToSet(a) \cup ToSet(b)
      <3>1. CASE i \in 1..n
        BY <1>2, <1>4, <3>1 DEF ToSet
      <3>2. CASE i - n \in 1..m /\ n + (i - n) = i
        <4>1. b[i - n] = s[i]
          BY <1>3, <3>2
        <4>2. QED
          BY <1>4, <3>2, <4>1 DEF ToSet
      <3>3. QED
        BY <1>7, <3>1, <3>2
    <2>2. QED
      BY <2>1 DEF ToSet
  <1>13. QED
    BY <1>2, <1>3, <1>8, <1>9, <1>10, <1>11, <1>12 DEF a, b, m

LEMMA AppendIsList ==
  ASSUME NEW T, NEW s \in Seq(T), IsInjective(s), NEW x \in T, x \notin ToSet(s)
  PROVE  Append(s, x) \in Seq(T) /\ IsInjective(Append(s, x)) /\ ToSet(Append(s, x)) = ToSet(s) \cup {x}
  <1> DEFINE w == Append(s, x)
  <1>1. Len(s) \in Nat /\ DOMAIN s = 1..Len(s)
    BY SeqFacts
  <1>2. /\ w \in Seq(T) /\ Len(w) = Len(s) + 1 /\ w[Len(s) + 1] = x
        /\ \A i \in 1..Len(s) : w[i] = s[i]
    BY AppendProperties
  <1>3. DOMAIN w = 1..(Len(s) + 1)
    <2> HIDE DEF w
    <2>1. QED
      BY <1>2, SeqFacts
  <1> HIDE DEF w
  <1>4. \A i \in DOMAIN w : (i \in DOMAIN s /\ w[i] = s[i]) \/ (i = Len(s) + 1 /\ w[i] = x)
    BY <1>1, <1>2, <1>3
  <1>5. \A i \in DOMAIN s : i \in DOMAIN w
    BY <1>1, <1>3
  <1>6. Len(s) + 1 \in DOMAIN w
    BY <1>1, <1>3
  <1>7. ToSet(w) = ToSet(s) \cup {x}
    BY <1>1, <1>2, <1>4, <1>5, <1>6 DEF ToSet
  <1>8. IsInjective(w)
    BY <1>1, <1>2, <1>4 DEF IsInjective, ToSet
  <1>9. QED
    BY <1>2, <1>7, <1>8 DEF w

LEMMA TailIsList ==
  ASSUME NEW T, NEW s \in Seq(T), IsInjective(s), s # << >>
  PROVE  /\ Head(s) \in T /\ Tail(s) \in Seq(T) /\ IsInjective(Tail(s))
         /\ ToSet(s) = ToSet(Tail(s)) \cup {Head(s)} /\ Head(s) \notin ToSet(Tail(s))
         /\ Head(s) \in ToSet(s)
  <1> DEFINE n == Len(s)
             w == Tail(s)
  <1>1. n \in Nat /\ DOMAIN s = 1..n /\ n >= 1 /\ Head(s) = s[1]
    BY SeqFacts, EmptySeq, HeadTailProperties
  <1>2. w \in Seq(T) /\ Len(w) = n - 1 /\ \A i \in 1..(n - 1) : w[i] = s[i + 1]
    BY HeadTailProperties
  <1>3. DOMAIN w = 1..(n - 1)
    <2> HIDE DEF w, n
    <2>1. QED
      BY <1>2, SeqFacts
  <1> HIDE DEF w, n
  <1>4. \A i \in DOMAIN w : i + 1 \in DOMAIN s /\ w[i] = s[i + 1] /\ i + 1 # 1
    BY <1>1, <1>2, <1>3
  <1>5. \A i \in DOMAIN s : i = 1 \/ (i - 1 \in DOMAIN w /\ w[i - 1] = s[i])
    <2>1. \A i \in DOMAIN s : i = 1 \/ (i - 1 \in 1..(n - 1) /\ (i - 1) + 1 = i)
      BY <1>1
    <2>2. QED
      BY <1>2, <1>3, <2>1
  <1>6. 1 \in DOMAIN s
    BY <1>1
  <1>7. ToSet(s) = ToSet(w) \cup {Head(s)}
    BY <1>1, <1>4, <1>5, <1>6 DEF ToSet
  <1>8. Head(s) \notin ToSet(w)
    BY <1>1, <1>4, <1>6 DEF ToSet, IsInjective
  <1>9. ASSUME NEW i \in DOMAIN w, NEW k \in DOMAIN w, w[i] = w[k]
        PROVE  i = k
    <2>1. i + 1 = k + 1
      BY <1>4, <1>9 DEF IsInjective
    <2>2. QED
      BY <1>1, <1>3, <2>1
  <1>10. Head(s) \in T
    BY <1>1, <1>6, SeqFacts
  <1>11. QED
    BY <1>2, <1>7, <1>8, <1>9, <1>10 DEF w, IsInjective

LEMMA Division ==
  ASSUME NEW x \in Int, NEW d \in Nat \ {0}
  PROVE  /\ x \div d \in Int /\ d * (x \div d) \in Int /\ d * (x \div d) = (x \div d) * d
         /\ d * (x \div d) <= x /\ x < d * (x \div d) + d
  <1>1. x = d * (x \div d) + (x % d) /\ x % d \in 0..(d - 1) /\ x \div d \in Int
    OBVIOUS
  <1> DEFINE q == x \div d
  <1>2. q \in Int
    BY <1>1
  <1> HIDE DEF q
  <1>3. d * q \in Int /\ d * q = q * d
    BY <1>2
  <1>4. d * (x \div d) \in Int /\ d * (x \div d) = (x \div d) * d
    BY <1>3 DEF q
  <1>5. QED
    BY <1>1, <1>4

\* Of two multiples, the greater is at least one divisor further.
LEMMA Multiples ==
  ASSUME NEW p \in Int, NEW q \in Int, NEW d \in Nat \ {0}, p < q
  PROVE  d * p \in Int /\ d * q \in Int /\ d * p + d <= d * q
  <1>1. \A k \in Int : 0 < k => d <= d * k
    OBVIOUS
  <1>2. d * q = d * p + d * (q - p) /\ d * p \in Int /\ d * q \in Int /\ d * (q - p) \in Int
    OBVIOUS
  <1>3. QED
    BY <1>1, <1>2

\* Division finds the multiple a number is above.
LEMMA DivisionIsFloor ==
  ASSUME NEW x \in Int, NEW d \in Nat \ {0}, NEW q \in Int
  PROVE  /\ d * q <= x <=> q <= x \div d
         /\ x < d * q <=> x \div d < q
  <1> DEFINE p == x \div d
  <1>1. p \in Int /\ d * p \in Int /\ d * p <= x /\ x < d * p + d /\ d * q \in Int
    BY Division
  <1> HIDE DEF p
  <1>2. p < q => d * p + d <= d * q
    BY <1>1, Multiples
  <1>3. q < p => d * q + d <= d * p
    BY <1>1, Multiples
  <1>4. q = p \/ q < p \/ p < q
    BY <1>1
  <1>5. d * q <= x <=> q <= p
    BY <1>1, <1>2, <1>3, <1>4
  <1>6. x < d * q <=> p < q
    BY <1>1, <1>5
  <1>7. QED
    BY <1>5, <1>6 DEF p

\* Two projections are never one, and each has its place.
LEMMA ProjsInOrder ==
  /\ Cardinality(Projs) \in Nat \ {0} /\ SetToSeq(Projs) \in [1..Cardinality(Projs) -> Projs]
  /\ \A i, k \in 1..Cardinality(Projs) : SetToSeq(Projs)[i] = SetToSeq(Projs)[k] => i = k
  /\ \A p \in Projs : \E i \in 1..Cardinality(Projs) : SetToSeq(Projs)[i] = p
  <1> DEFINE n == Cardinality(Projs)
             f == SetToSeq(Projs)
  <1>1. IsFiniteSet(Projs) /\ n \in Nat /\ ExistsBijection(1..n, Projs)
    BY SpeculationAssumption, FS_CardinalityType
  <1>2. n # 0
    BY SpeculationAssumption, FS_EmptySet
  <1>3. f \in [1..n -> Projs] /\ IsInjective(f)
    <2>1. PICK g \in Bijection(1..n, Projs) : TRUE
      BY <1>1 DEF ExistsBijection
    <2>2. g \in [1..n -> Projs] /\ IsInjective(g)
      BY <2>1 DEF Bijection, Injection
    <2>3. QED
      BY <2>2 DEF SetToSeq
  <1> HIDE DEF f
  <1>4. IsFiniteSet(1..n) /\ Cardinality(1..n) = n
    BY <1>1, <1>2, FS_Interval
  <1> HIDE DEF n
  <1>5. f \in Injection(1..n, Projs)
    BY <1>3 DEF Injection
  <1>6. f \in Surjection(1..n, Projs)
    BY <1>1, <1>4, <1>5, FS_Injection DEF n
  <1>7. \A i, k \in 1..n : f[i] = f[k] => i = k
    BY <1>3 DEF IsInjective
  <1>8. \A p \in Projs : \E i \in 1..n : f[i] = p
    BY <1>6 DEF Surjection
  <1>9. QED
    BY <1>1, <1>2, <1>3, <1>7, <1>8 DEF f, n

\* The number of a slice is that of its entry and that of its projection.
LEMMA Numbered ==
  ASSUME NEW n \in Nat \ {0}, NEW m \in Nat
  PROVE  /\ m * n \in Nat
         /\ \A k \in 1..(m * n) : /\ ((k - 1) \div n) + 1 \in 1..m /\ ((k - 1) % n) + 1 \in 1..n
                                  /\ k = n * ((k - 1) \div n) + ((k - 1) % n) + 1
  <1>1. m * n \in Nat /\ m * n = n * m
    OBVIOUS
  <1>2. ASSUME NEW k \in 1..(m * n)
        PROVE  /\ ((k - 1) \div n) + 1 \in 1..m /\ ((k - 1) % n) + 1 \in 1..n
               /\ k = n * ((k - 1) \div n) + ((k - 1) % n) + 1
    <2> DEFINE x == k - 1
    <2>1. k \in Int /\ x \in Int /\ 0 <= x /\ x < n * m /\ k = x + 1
      BY <1>1
    <2> HIDE DEF x
    <2> DEFINE q == x \div n
               r == x % n
    <2>2. x = n * q + r /\ r \in 0..(n - 1) /\ q \in Int
      BY <2>1
    <2>3. n * 0 <= x <=> 0 <= q
      BY <2>1, DivisionIsFloor
    <2>4. x < n * m <=> q < m
      BY <2>1, DivisionIsFloor
    <2> HIDE DEF q, r
    <2>5. 0 <= q /\ q < m
      BY <2>1, <2>3, <2>4
    <2>6. q + 1 \in 1..m /\ r + 1 \in 1..n
      BY <2>2, <2>5
    <2>7. n * q \in Int
      BY <2>2
    <2>8. k = n * q + r + 1
      BY <2>1, <2>2, <2>7
    <2>9. QED
      BY <2>6, <2>8 DEF q, r, x
  <1>3. QED
    BY <1>1, <1>2

Upper(n, k) == ((k - 1) \div n) + 1
Lower(n, k) == ((k - 1) % n) + 1
HasPlace(n, m, i, p) == \E k \in 1..(m * n) : Upper(n, k) = i /\ Lower(n, k) = p

LEMMA Placed ==
  ASSUME NEW n \in Nat \ {0}, NEW m \in Nat, NEW i \in 1..m, NEW p \in 1..n
  PROVE  HasPlace(n, m, i, p)
  <1>0. m * n \in Nat /\ m * n = n * m
    OBVIOUS
  <1> DEFINE j == i - 1
             x == n * j + (p - 1)
  <1>1. j \in Int /\ 0 <= j /\ j + 1 = i /\ j < m /\ m \in Int /\ p - 1 \in 0..(n - 1)
    OBVIOUS
  <1> HIDE DEF j
  <1>2. n * j \in Int /\ n * j + n <= n * m
    BY <1>1, Multiples
  <1>3. 0 <= n * j
    BY <1>1
  <1>4. x \in Int /\ n * j <= x /\ x < n * j + n /\ x + 1 \in 1..(m * n) /\ (x + 1) - 1 = x
    BY <1>0, <1>1, <1>2, <1>3
  <1>5. n * (j + 1) = n * j + n /\ j + 1 \in Int
    BY <1>1
  <1> HIDE DEF x
  <1> DEFINE q == x \div n
             r == x % n
  <1>6. x = n * q + r /\ r \in 0..(n - 1) /\ q \in Int
    BY <1>4
  <1>7. n * j <= x <=> j <= q
    BY <1>1, <1>4, DivisionIsFloor
  <1>8. x < n * (j + 1) <=> q < j + 1
    BY <1>4, <1>5, DivisionIsFloor
  <1> HIDE DEF q, r
  <1>9. q = j
    BY <1>1, <1>4, <1>5, <1>6, <1>7, <1>8
  <1>10. r = p - 1
    <2>1. n * q = n * j
      BY <1>9
    <2>2. x = n * j + (p - 1) /\ x = n * j + r
      BY <1>6, <2>1 DEF x
    <2>3. QED
      BY <1>1, <1>2, <1>6, <2>2
  <1>11. q + 1 = i /\ r + 1 = p
    BY <1>1, <1>9, <1>10
  <1>12. QED
    BY <1>4, <1>11 DEF q, r, Upper, Lower, HasPlace

\* Each slice of the entries is queued, once.
LEMMA JobsAreSlices ==
  ASSUME NEW s \in Seq(Entry), IsInjective(s)
  PROVE  /\ JobsOf(s) \in Seq(Job) /\ IsInjective(JobsOf(s))
         /\ ToSet(JobsOf(s)) = {j \in Job : j.entry \in ToSet(s)}
  <1> DEFINE n == Cardinality(Projs)
             m == Len(s)
             P == SetToSeq(Projs)
             a == [k \in 1..(m * n) |-> ((k - 1) \div n) + 1]
             b == [k \in 1..(m * n) |-> ((k - 1) % n) + 1]
             w == [k \in 1..(m * n) |-> [entry |-> s[a[k]], proj |-> P[b[k]]]]
  <1>1. m \in Nat /\ DOMAIN s = 1..m /\ \A i \in 1..m : s[i] \in Entry
    BY SeqFacts
  <1>2. /\ n \in Nat \ {0} /\ \A i \in 1..n : P[i] \in Projs
        /\ \A i, k \in 1..n : P[i] = P[k] => i = k
        /\ \A p \in Projs : \E i \in 1..n : P[i] = p
    BY ProjsInOrder
  <1>3. JobsOf(s) = w
    BY DEF JobsOf
  <1> HIDE DEF n, m, P
  <1>4. /\ m * n \in Nat
        /\ \A k \in 1..(m * n) : a[k] \in 1..m /\ b[k] \in 1..n
        /\ \A k, l \in 1..(m * n) : a[k] = a[l] /\ b[k] = b[l] => k = l
        /\ \A i \in 1..m, p \in 1..n : \E k \in 1..(m * n) : a[k] = i /\ b[k] = p
    <2>1. m * n \in Nat /\ \A k \in 1..(m * n) : a[k] \in 1..m /\ b[k] \in 1..n
      BY <1>1, <1>2, Numbered
    <2>2. ASSUME NEW i \in 1..m, NEW p \in 1..n
          PROVE  \E k \in 1..(m * n) : a[k] = i /\ b[k] = p
      <3>0. n \in Nat \ {0} /\ m \in Nat
        BY <1>1, <1>2
      <3> HIDE DEF a, b, w
      <3>1. HasPlace(n, m, i, p)
        BY <3>0, Placed
      <3>2. PICK k \in 1..(m * n) : Upper(n, k) = i /\ Lower(n, k) = p
        BY <3>1 DEF HasPlace
      <3>3. a[k] = i /\ b[k] = p
        BY <3>2 DEF a, b, Upper, Lower
      <3>4. QED
        BY <3>3
    <2>3. ASSUME NEW k \in 1..(m * n), NEW l \in 1..(m * n), a[k] = a[l], b[k] = b[l]
          PROVE  k = l
      <3>1. k = n * ((k - 1) \div n) + ((k - 1) % n) + 1 /\ l = n * ((l - 1) \div n) + ((l - 1) % n) + 1
        BY <1>1, <1>2, Numbered
      <3>2. (k - 1) \div n = (l - 1) \div n /\ (k - 1) % n = (l - 1) % n
        <4>1. k \in Int /\ l \in Int /\ m * n \in Nat
          BY <2>1
        <4>2. (k - 1) \div n \in Int /\ (l - 1) \div n \in Int /\ (k - 1) % n \in Int /\ (l - 1) % n \in Int
          BY <1>2, <4>1
        <4>3. QED
          BY <2>3, <4>2
      <3>3. QED
        BY <3>1, <3>2
    <2>4. QED
      BY <2>1, <2>2, <2>3
  <1> HIDE DEF a, b
  <1>5. \A k \in 1..(m * n) : w[k] \in Job /\ w[k].entry = s[a[k]] /\ w[k].proj = P[b[k]]
    BY <1>1, <1>2, <1>4 DEF Job
  <1>6. w \in [1..(m * n) -> Job]
    BY <1>5
  <1>7. DOMAIN w = 1..(m * n)
    OBVIOUS
  <1> HIDE DEF w
  <1>8. ASSUME NEW k \in 1..(m * n), NEW l \in 1..(m * n), w[k] = w[l]
        PROVE  k = l
    <2>1. s[a[k]] = s[a[l]] /\ P[b[k]] = P[b[l]]
      BY <1>5, <1>8
    <2>2. a[k] = a[l]
      <3>1. a[k] \in DOMAIN s /\ a[l] \in DOMAIN s
        BY <1>1, <1>4
      <3>2. QED
        BY <2>1, <3>1 DEF IsInjective
    <2>4. b[k] = b[l]
      <3>1. b[k] \in 1..n /\ b[l] \in 1..n
        BY <1>4
      <3>2. QED
        BY <1>2, <2>1, <3>1
    <2>3. QED
      BY <1>4, <2>2, <2>4
  <1>9. IsInjective(w)
    BY <1>7, <1>8 DEF IsInjective
  <1>10. ToSet(w) \subseteq {j \in Job : j.entry \in ToSet(s)}
    <2>1. \A k \in 1..(m * n) : s[a[k]] \in ToSet(s)
      BY <1>1, <1>4 DEF ToSet
    <2>2. \A k \in 1..(m * n) : w[k] \in Job /\ w[k].entry \in ToSet(s)
      BY <1>5, <2>1
    <2>3. QED
      BY <1>7, <2>2 DEF ToSet
  <1>11. ASSUME NEW j \in Job, j.entry \in ToSet(s)
         PROVE  j \in ToSet(w)
    <2>1. PICK i \in 1..m : s[i] = j.entry
      BY <1>1, <1>11 DEF ToSet
    <2>2. PICK p \in 1..n : P[p] = j.proj
      BY <1>2 DEF Job
    <2>3. PICK k \in 1..(m * n) : a[k] = i /\ b[k] = p
      BY <1>4, <2>1, <2>2
    <2>4. w[k] \in Job /\ w[k].entry = j.entry /\ w[k].proj = j.proj
      BY <1>5, <2>1, <2>2, <2>3
    <2>5. w[k] = j
      BY <2>4 DEF Job
    <2>6. QED
      BY <1>7, <2>5 DEF ToSet
  <1>12. w \in Seq(Job)
    BY <1>4, <1>6, FunctionIsSeq
  <1>13. QED
    BY <1>3, <1>9, <1>10, <1>11, <1>12

(***************************************************************************)
(* The invariant.                                                          *)
(***************************************************************************)

\* What the two hypotheses of this module exclude.
IssuedOnce == ~Reissues
GuessesFail == \A m \in Modes : ~(m.adopt /\ m.readsFail)

Call == [op : {"none", "load", "settle", "issue", "shrink"}, il : Layers, ids : Seq(Entry), budget : Nat]
NSlices == Cardinality(Projs)
Flying == {[entry |-> reading[r].entry, proj |-> reading[r].proj] : r \in Inflight}
Active(e) == remaining[e] # 0 \/ e \in ToSet(done)
Missing(e, F) == {p \in Projs : <<e, p>> \notin F}

\* What TypeOK says, and the call being served.
TypeInv ==
  /\ TypeOK
  /\ call \in Call
  /\ call.op = "shrink" => call.budget \in 1..Total

\* The eval thread is where the call it serves may be, and its ids are
\* distinct experts of one layer.
CallInv ==
  /\ IsInjective(call.ids) /\ \A e \in ToSet(call.ids) : e[1] = call.il
  /\ pc = "adopt" => mode.adopt /\ call.op = "load"
  /\ pc = "integrate" => mode.adopt /\ call.op \in {"load", "settle", "issue"}
  /\ pc = "quiesce" => call.op \in {"load", "settle", "shrink"} /\ ~(mode.adopt /\ call.op = "load")
  /\ pc \in {"stage", "read", "fatal"} => call.op = "load"
  /\ pc = "evict" => call.op \in {"load", "shrink"}
  /\ pc = "prefetch" => call.op = "issue"
  /\ pc = "read" => ToSet(call.ids) \subseteq valid

\* A slice is queued once or in flight once, with the generation of its queue.
ReadsInv ==
  /\ IsInjective(jobs)
  /\ \A j \in ToSet(jobs) : j \notin Flying
  /\ \A r, q \in Inflight : reading[r].entry = reading[q].entry /\ reading[r].proj = reading[q].proj => r = q
  /\ pc = "quiesce" => jobs = << >>
  /\ \A r \in Inflight : reading[r].live <=> pc # "quiesce"

\* Only slices that are owed are queued or in flight.
OwedInv == \A j \in ToSet(jobs) \cup Flying : remaining[j.entry] # 0 /\ <<j.entry, j.proj>> \notin filled

\* An entry that is owed slices, or has all of them and is not integrated, has
\* its pages and misses no more slices than are owed.
ActiveInv ==
  /\ IsInjective(done)
  /\ \A e \in ToSet(done) : remaining[e] = 0
  /\ \A e \in Entry : Active(e) => e \notin valid /\ e \in committed /\ Cardinality(Missing(e, filled)) <= remaining[e]
  /\ \A e \in Entry : remaining[e] # 0 => e \in touched

\* Only layers issued and not loaded since are active, besides the layer the
\* load in progress adopts.
Adopting == pc \in {"adopt", "integrate"} /\ call.op = "load"
WhereInv ==
  /\ pc # "quiesce" => \A e \in Entry : Active(e) => e[1] \in issued \/ (Adopting /\ e[1] = call.il)
  /\ pc \in {"integrate", "prefetch"} /\ call.op = "issue" =>
       call.il \in issued /\ \A e \in Entry : Active(e) => e[1] # call.il
  /\ pc # "idle" /\ call.op = "load" => call.il \notin issued
  /\ pc = "quiesce" => issued = {}

AdoptInv ==
  /\ Adopting => \A e \in adopted : Active(e) \/ e \in valid
  /\ pc = "adopt" => \A e \in Entry : e[1] = call.il /\ remaining[e] # 0 => e \in adopted
  /\ pc = "integrate" /\ call.op = "load" => \A e \in Entry : e[1] = call.il => remaining[e] = 0
  /\ pc = "integrate" /\ call.op = "load" => \A e \in adopted : remaining[e] = 0
  /\ pc = "stage" /\ mode.adopt => adopted \subseteq valid

\* Pages are those of what is resident or active, and only they are filled.
PagesInv ==
  /\ valid \subseteq committed
  /\ \A e \in committed : e \in valid \/ Active(e)
  /\ filled \subseteq Slices(committed)

IInv == TypeInv /\ CallInv /\ ReadsInv /\ OwedInv /\ ActiveInv /\ WhereInv /\ AdoptInv /\ PagesInv
        /\ LruIsValidSet /\ ResidentComplete

LEMMA EntriesFinite == IsFiniteSet(Entry) /\ Total \in Nat /\ \A e \in Entry : e[1] \in Layers
  <1>1. IsFiniteSet(Layers)
    BY SpeculationAssumption, FS_Interval DEF Layers
  <1>2. IsFiniteSet(Entry)
    BY <1>1, SpeculationAssumption, FS_Product DEF Entry
  <1>3. QED
    BY <1>2, FS_CardinalityType DEF Total, Entry

LEMMA MissingFacts ==
  ASSUME NEW F, NEW e
  PROVE  /\ IsFiniteSet(Missing(e, F)) /\ Cardinality(Missing(e, F)) \in Nat
         /\ Cardinality(Missing(e, F)) <= NSlices
         /\ Cardinality(Missing(e, F)) <= 0 => \A p \in Projs : <<e, p>> \in F
  <1>1. IsFiniteSet(Missing(e, F)) /\ Cardinality(Missing(e, F)) <= NSlices /\ Cardinality(Missing(e, F)) \in Nat
    <2>1. Missing(e, F) \in SUBSET Projs /\ IsFiniteSet(Projs)
      BY SpeculationAssumption DEF Missing
    <2>2. QED
      BY <2>1, FS_Subset, FS_CardinalityType DEF NSlices
  <1>2. Cardinality(Missing(e, F)) <= 0 => Missing(e, F) = {}
    BY <1>1, FS_EmptySet
  <1>3. QED
    BY <1>1, <1>2 DEF Missing

\* Filling misses less, and one less when a slice was missing.
LEMMA MissingLess ==
  ASSUME NEW F, NEW G, NEW e, \A p \in Projs : <<e, p>> \in F => <<e, p>> \in G
  PROVE  /\ Cardinality(Missing(e, G)) <= Cardinality(Missing(e, F))
         /\ \A p \in Projs : <<e, p>> \notin F /\ <<e, p>> \in G =>
              Cardinality(Missing(e, G)) <= Cardinality(Missing(e, F)) - 1
  <1> DEFINE M == Missing(e, F)
             N == Missing(e, G)
  <1>1. IsFiniteSet(M) /\ Cardinality(M) \in Nat /\ Cardinality(N) \in Nat
    BY MissingFacts
  <1>2. N \in SUBSET M
    BY DEF Missing
  <1>3. Cardinality(N) <= Cardinality(M)
    <2> HIDE DEF M, N
    <2>1. QED
      BY <1>1, <1>2, FS_Subset
  <1>4. ASSUME NEW p \in Projs, <<e, p>> \notin F, <<e, p>> \in G
        PROVE  Cardinality(N) <= Cardinality(M) - 1
    <2>1. p \in M /\ N \in SUBSET (M \ {p})
      BY <1>2, <1>4 DEF Missing
    <2> HIDE DEF M, N
    <2>2. IsFiniteSet(M \ {p}) /\ Cardinality(M \ {p}) = Cardinality(M) - 1
      BY <1>1, <2>1, FS_RemoveElement
    <2>3. QED
      BY <1>1, <2>1, <2>2, FS_Subset
  <1>5. QED
    BY <1>3, <1>4

\* What is in flight is a slice, and no slice is that of no read.
LEMMA Flights ==
  ASSUME TypeInv
  PROVE  /\ \A r \in Inflight : /\ r \in Readers /\ reading[r] \in Read /\ reading[r].entry \in Entry
                                /\ reading[r].proj \in Projs /\ reading[r].live \in BOOLEAN
                                /\ [entry |-> reading[r].entry, proj |-> reading[r].proj] \in Flying
         /\ Flying \subseteq Job
         /\ \A j \in Flying : \E r \in Inflight : reading[r].entry = j.entry /\ reading[r].proj = j.proj
         /\ ToSet(jobs) \subseteq Job /\ IsFiniteSet(Projs)
         /\ NoJob \notin Read
  <1>1. reading \in [Readers -> Read \cup {NoJob}] /\ jobs \in Seq(Job)
    BY DEF TypeInv, TypeOK
  <1>2. NoJob \notin Read
    BY SpeculationAssumption DEF NoJob, Read
  <1>3. \A r \in Inflight : r \in Readers /\ reading[r] \in Read
    BY <1>1 DEF Inflight
  <1>4. \A r \in Inflight : /\ reading[r].entry \in Entry /\ reading[r].proj \in Projs /\ reading[r].live \in BOOLEAN
                            /\ [entry |-> reading[r].entry, proj |-> reading[r].proj] \in Flying
    BY <1>3 DEF Read, Flying
  <1>5. Flying \subseteq Job
    BY <1>4 DEF Flying, Job
  <1>6. \A j \in Flying : \E r \in Inflight : reading[r].entry = j.entry /\ reading[r].proj = j.proj
    BY DEF Flying
  <1>7. QED
    BY <1>1, <1>2, <1>3, <1>4, <1>5, <1>6, SeqFacts, SpeculationAssumption

\* A step that only starts, stops or hands on reads keeps what is said about
\* the entries.
LEMMA CoreKept ==
  ASSUME IInv, UNCHANGED <<valid, lru, resident, committed, filled, remaining, done>>,
         ToSet(jobs') \cup Flying' \subseteq ToSet(jobs) \cup Flying,
         \A e \in Entry : remaining[e] # 0 => e \in touched'
  PROVE  OwedInv' /\ ActiveInv' /\ PagesInv' /\ LruIsValidSet'
  <1>1. OwedInv /\ ActiveInv /\ PagesInv /\ LruIsValidSet
    BY DEF IInv
  <1>2. OwedInv'
    BY <1>1 DEF OwedInv
  <1>3. ActiveInv'
    BY <1>1 DEF ActiveInv, Active
  <1>4. PagesInv'
    BY <1>1 DEF PagesInv, Active
  <1>5. LruIsValidSet'
    BY <1>1 DEF LruIsValidSet
  <1>6. QED
    BY <1>2, <1>3, <1>4, <1>5

LEMMA CompleteKept ==
  ASSUME ResidentComplete, pc \notin {"fatal", "read"}, UNCHANGED <<valid, filled>>
  PROVE  ResidentComplete'
  BY DEF ResidentComplete, Slices

LEMMA InitInv == Init => IInv
  <1> SUFFICES ASSUME Init
               PROVE  IInv
    OBVIOUS
  <1> USE DEF Init
  <1>1. Inflight = {} /\ Flying = {}
    BY DEF Inflight, Flying
  <1>2. \A e \in Entry : ~Active(e)
    BY DEF Active, ToSet
  <1>3. ToSet(jobs) = {} /\ ToSet(done) = {} /\ ToSet(lru) = {} /\ ToSet(call.ids) = {}
    BY DEF ToSet, NoCall
  <1>4. IsInjective(jobs) /\ IsInjective(done) /\ IsInjective(lru) /\ IsInjective(call.ids)
    BY DEF IsInjective, NoCall
  <1>5. TypeInv
    <2>1. 0 \in Layers /\ -1 \in -1..(NLayers - 1)
      BY SpeculationAssumption DEF Layers
    <2>2. NoCall \in Call /\ NoCall.op = "none"
      <3>1. << >> \in Seq(Entry) /\ 0 \in Nat
        OBVIOUS
      <3>2. QED
        BY <2>1, <3>1 DEF NoCall, Call
    <2>3. \A k \in 0..NSlices : k \in Nat
      OBVIOUS
    <2>4. 0 \in 0..Cardinality(Projs)
      BY ProjsInOrder
    <2>5. remaining \in [Entry -> 0..Cardinality(Projs)]
      BY <2>4
    <2>6. TypeOK
      <3>1. lru \in Seq(Entry) /\ done \in Seq(Entry) /\ jobs \in Seq(Job)
        OBVIOUS
      <3>2. reading \in [Readers -> Read \cup {NoJob}]
        OBVIOUS
      <3>3. cacheMax \in 1..Total /\ resident \in Nat
        OBVIOUS
      <3>4. call.op = "none"
        BY <2>2
      <3> HIDE DEF NoCall, NoJob
      <3>5. QED
        BY <2>1, <2>5, <3>1, <3>2, <3>3, <3>4 DEF TypeOK
    <2>7. QED
      BY <2>2, <2>6 DEF TypeInv
  <1>6. CallInv /\ ReadsInv /\ OwedInv
    BY <1>1, <1>3, <1>4 DEF CallInv, ReadsInv, OwedInv, NoCall
  <1>7. ActiveInv /\ WhereInv /\ AdoptInv /\ PagesInv
    BY <1>1, <1>2, <1>3, <1>4 DEF ActiveInv, WhereInv, AdoptInv, PagesInv, Adopting
  <1>8. LruIsValidSet /\ ResidentComplete
    <2>1. Cardinality({}) = 0
      BY FS_EmptySet
    <2>2. QED
      BY <1>3, <1>4, <2>1 DEF LruIsValidSet, ResidentComplete, Slices
  <1>9. QED
    BY <1>5, <1>6, <1>7, <1>8 DEF IInv

LEMMA NothingListed == ToSet(<< >>) = {} /\ IsInjective(<< >>)
  BY DEF ToSet, IsInjective

\* The quiesce disowns the reads; they fly on.
LEMMA QuiesceReads ==
  ASSUME TypeInv, QuiesceStart
  PROVE  /\ reading' \in [Readers -> Read \cup {NoJob}]
         /\ Inflight' = Inflight /\ Flying' = Flying
         /\ \A r \in Inflight : /\ reading'[r].entry = reading[r].entry /\ reading'[r].proj = reading[r].proj
                                /\ reading'[r].live = FALSE
  <1>1. reading' = [r \in Readers |-> [reading[r] EXCEPT !.live = FALSE]] /\ reading \in [Readers -> Read \cup {NoJob}]
    BY DEF QuiesceStart, TypeInv, TypeOK
  <1>2. NoJob \notin Read
    BY Flights
  <1>3. ASSUME NEW r \in Readers, reading[r] = NoJob
        PROVE  reading'[r] = NoJob
    <2>1. [NoJob EXCEPT !.live = FALSE] = NoJob
      <3> DEFINE x == NoJob.entry
                 k == [NoJob EXCEPT !.live = FALSE]
      <3>1. NoJob \in [entry : {x}, proj : {"none"}, live : BOOLEAN] /\ NoJob.live = FALSE
        BY DEF NoJob
      <3> HIDE DEF x
      <3>2. /\ k \in [entry : {x}, proj : {"none"}, live : BOOLEAN]
            /\ k.entry = NoJob.entry /\ k.proj = NoJob.proj /\ k.live = FALSE
        BY <3>1
      <3> HIDE DEF k
      <3>3. k = NoJob
        BY <3>1, <3>2
      <3>4. QED
        BY <3>3 DEF k
    <2>2. QED
      BY <1>1, <1>3, <2>1
  <1>4. ASSUME NEW r \in Readers, reading[r] \in Read
        PROVE  /\ reading'[r] \in Read /\ reading'[r].entry = reading[r].entry
               /\ reading'[r].proj = reading[r].proj /\ reading'[r].live = FALSE
    BY <1>1, <1>4 DEF Read
  <1>5. reading' \in [Readers -> Read \cup {NoJob}]
    BY <1>1, <1>3, <1>4
  <1>6. Inflight' = Inflight
    BY <1>1, <1>2, <1>3, <1>4 DEF Inflight
  <1>7. \A r \in Inflight : r \in Readers /\ reading[r] \in Read
    BY Flights
  <1>8. Flying' = Flying
    <2>1. Flying' = {[entry |-> reading'[r].entry, proj |-> reading'[r].proj] : r \in Inflight}
      BY <1>6 DEF Flying
    <2>2. \A r \in Inflight : [entry |-> reading'[r].entry, proj |-> reading'[r].proj]
                              = [entry |-> reading[r].entry, proj |-> reading[r].proj]
      BY <1>4, <1>7
    <2>3. QED
      BY <2>1, <2>2 DEF Flying
  <1>9. QED
    BY <1>4, <1>5, <1>6, <1>7, <1>8

\* A call that quiesces starts.
LEMMA QuiesceKept ==
  ASSUME IInv, pc = "idle", QuiesceStart,
         UNCHANGED <<mode, cacheVars, pageVars, remaining, done, asleep>>,
         call' \in Call, call'.op \in {"load", "settle", "shrink"}, ~(mode.adopt /\ call'.op = "load"),
         IsInjective(call'.ids), \A e \in ToSet(call'.ids) : e[1] = call'.il,
         call'.op = "shrink" => call'.budget \in 1..Total,
         cur' \in -1..(NLayers - 1), issued' = {}
  PROVE  IInv'
  <1>0. /\ TypeInv /\ CallInv /\ ReadsInv /\ OwedInv /\ ActiveInv /\ WhereInv /\ AdoptInv /\ PagesInv
        /\ ResidentComplete
    BY DEF IInv
  <1> USE DEF QuiesceStart, cacheVars, pageVars
  <1>1. jobs' = << >> /\ pc' = "quiesce" /\ ToSet(jobs') = {} /\ IsInjective(jobs')
    BY NothingListed
  <1>2. OwedInv' /\ ActiveInv' /\ PagesInv' /\ LruIsValidSet'
    BY <1>0, <1>1, CoreKept, QuiesceReads DEF ActiveInv
  <1>3. ResidentComplete'
    BY <1>0, CompleteKept
  <1>4. TypeInv'
    <2>1. << >> \in Seq(Job)
      OBVIOUS
    <2>2. reading' \in [Readers -> Read \cup {NoJob}]
      BY <1>0, QuiesceReads
    <2>3. issued' \subseteq -1..(NLayers - 1)
      OBVIOUS
    <2>4. QED
      BY <1>0, <1>1, <2>1, <2>2, <2>3 DEF TypeInv, TypeOK
  <1>5. CallInv'
    BY <1>1 DEF CallInv
  <1>6. ReadsInv'
    <2>1. \A r, q \in Inflight' : reading'[r].entry = reading'[q].entry /\ reading'[r].proj = reading'[q].proj => r = q
      <3>1. /\ Inflight' = Inflight
            /\ \A r \in Inflight : reading'[r].entry = reading[r].entry /\ reading'[r].proj = reading[r].proj
        BY <1>0, QuiesceReads
      <3>2. QED
        BY <1>0, <3>1 DEF ReadsInv
    <2>2. \A r \in Inflight' : ~reading'[r].live
      BY <1>0, QuiesceReads
    <2>3. QED
      BY <1>1, <2>1, <2>2 DEF ReadsInv
  <1>7. WhereInv' /\ AdoptInv'
    BY <1>1 DEF WhereInv, AdoptInv, Adopting
  <1>8. QED
    BY <1>2, <1>3, <1>4, <1>5, <1>6, <1>7 DEF IInv

\* The jobs of a layer and the others are the jobs.
LEMMA LayerFirst ==
  ASSUME NEW s \in Seq(Job), IsInjective(s), NEW il
  PROVE  LET t == OfLayer(il, s) \o NotOfLayer(il, s)
         IN  t \in Seq(Job) /\ IsInjective(t) /\ ToSet(t) = ToSet(s)
  <1> DEFINE a == OfLayer(il, s)
             b == NotOfLayer(il, s)
  <1>1. a \in Seq(Job) /\ IsInjective(a) /\ ToSet(a) = ToSet(s) \ {j \in Job : j.entry[1] # il}
    BY WithoutLeaves DEF OfLayer
  <1>2. b \in Seq(Job) /\ IsInjective(b) /\ ToSet(b) = ToSet(s) \ {j \in Job : j.entry[1] = il}
    BY WithoutLeaves DEF NotOfLayer
  <1>3. ToSet(s) \subseteq Job
    BY SeqFacts
  <1>4. ToSet(a) \cap ToSet(b) = {} /\ ToSet(a) \cup ToSet(b) = ToSet(s)
    BY <1>1, <1>2, <1>3
  <1> HIDE DEF a, b
  <1>5. a \o b \in Seq(Job) /\ IsInjective(a \o b) /\ ToSet(a \o b) = ToSet(s)
    BY <1>1, <1>2, <1>4, ListsJoin
  <1>6. QED
    BY <1>5 DEF a, b

\* A load under route-ahead starts.
LEMMA AdoptKept ==
  ASSUME IInv, pc = "idle", mode.adopt, NEW il \in Layers, AdoptStart(il),
         UNCHANGED <<mode, cacheVars, pageVars, remaining, done, asleep>>,
         call' \in Call, call'.op = "load", call'.il = il,
         IsInjective(call'.ids), \A e \in ToSet(call'.ids) : e[1] = il,
         cur' \in -1..(NLayers - 1), issued' = issued \ {il}
  PROVE  IInv'
  <1>0. /\ TypeInv /\ CallInv /\ ReadsInv /\ OwedInv /\ ActiveInv /\ WhereInv /\ AdoptInv /\ PagesInv
        /\ ResidentComplete
    BY DEF IInv
  <1> USE DEF AdoptStart, cacheVars, pageVars
  <1>1. jobs \in Seq(Job) /\ IsInjective(jobs)
    BY <1>0 DEF TypeInv, TypeOK, ReadsInv
  <1>2. jobs' \in Seq(Job) /\ IsInjective(jobs') /\ ToSet(jobs') = ToSet(jobs)
    BY <1>1, LayerFirst
  <1>3. Inflight' = Inflight /\ Flying' = Flying
    BY DEF Inflight, Flying
  <1>4. \A e \in Entry : remaining[e] # 0 => e \in touched'
    BY <1>0 DEF ActiveInv
  <1>5. OwedInv' /\ ActiveInv' /\ PagesInv' /\ LruIsValidSet'
    BY <1>2, <1>3, <1>4, CoreKept
  <1>6. ResidentComplete'
    BY <1>0, CompleteKept
  <1>7. TypeInv'
    <2>1. /\ adopted' \subseteq Entry /\ touched' \subseteq Entry
      BY <1>0 DEF TypeInv, TypeOK, Of
    <2>2. QED
      BY <1>0, <1>2, <2>1 DEF TypeInv, TypeOK
  <1>8. CallInv'
    BY DEF CallInv
  <1>9. ReadsInv'
    BY <1>0, <1>2, <1>3 DEF ReadsInv
  <1>10. WhereInv'
    <2>1. \A e \in Entry : Active(e)' <=> Active(e)
      BY DEF Active
    <2>2. QED
      BY <1>0, <2>1 DEF WhereInv, Adopting
  <1>11. AdoptInv'
    <2>1. \A e \in adopted' : Active(e)'
      BY DEF Active
    <2>2. \A e \in Entry : e[1] = il /\ remaining[e] # 0 => e \in adopted'
      BY <1>0 DEF ActiveInv, Of
    <2>3. QED
      BY <2>1, <2>2 DEF AdoptInv
  <1>12. QED
    BY <1>5, <1>6, <1>7, <1>8, <1>9, <1>10, <1>11 DEF IInv

\* The lists of a call are distinct experts of its layer.
LEMMA CallIds ==
  ASSUME NEW il \in Layers, NEW ids \in IdLists(il)
  PROVE  ids \in Seq(Entry) /\ IsInjective(ids) /\ \A e \in ToSet(ids) : e[1] = il
  <1>1. PICK n \in 1..MaxIds : ids \in [1..n -> Of(il, Entry)] /\ IsInjective(ids)
    BY DEF IdLists
  <1>2. n \in Nat /\ ids \in [1..n -> Entry] /\ \A i \in 1..n : ids[i][1] = il
    BY <1>1, SpeculationAssumption DEF Of
  <1>3. ids \in Seq(Entry) /\ DOMAIN ids = 1..n
    BY <1>2, FunctionIsSeq
  <1>4. QED
    BY <1>1, <1>2, <1>3 DEF ToSet

LEMMA LoadLayerKeeps ==
  ASSUME IInv, NEW il \in Layers, NEW ids \in IdLists(il), LoadLayer(ids)
  PROVE  IInv'
  <1> DEFINE l == cur + 1
             c == [op |-> "load", il |-> l, ids |-> ids, budget |-> 0]
  <1>1. /\ pc = "idle" /\ l \in Layers /\ ids \in IdLists(l) /\ Serve(c) /\ cur' = l
        /\ issued' = IF mode.adopt THEN issued \ {l} ELSE {}
    BY DEF LoadLayer
  <1>2. ids \in Seq(Entry) /\ IsInjective(ids) /\ \A e \in ToSet(ids) : e[1] = l
    BY <1>1, CallIds
  <1>3. call' = c /\ c \in Call /\ cur' \in -1..(NLayers - 1)
    BY <1>1, <1>2 DEF Serve, Call, Layers
  <1>4. call'.op = "load" /\ call'.il = l /\ call'.ids = ids
    BY <1>3
  <1>5. UNCHANGED <<mode, cacheVars, pageVars, remaining, done, asleep>>
    BY <1>1 DEF Serve
  <1>6. IF mode.adopt THEN AdoptStart(l) ELSE QuiesceStart
    <2>1. c.op = "load" /\ c.il = l
      OBVIOUS
    <2> HIDE DEF c
    <2>2. QED
      BY <1>1, <2>1 DEF Serve
  <1> HIDE DEF c, l
  <1>7. CASE mode.adopt
    BY <1>1, <1>2, <1>3, <1>4, <1>5, <1>6, <1>7, AdoptKept
  <1>8. CASE ~mode.adopt
    BY <1>1, <1>2, <1>3, <1>4, <1>5, <1>6, <1>8, QuiesceKept
  <1>9. QED
    BY <1>7, <1>8

LEMMA NoCallFacts ==
  ASSUME NEW op \in {"none", "load", "settle", "issue", "shrink"}, NEW b \in Nat
  PROVE      /\ [NoCall EXCEPT !.op = op] \in Call /\ [NoCall EXCEPT !.op = op].op = op
             /\ [NoCall EXCEPT !.op = op].ids = << >>
             /\ [NoCall EXCEPT !.op = op, !.budget = b] \in Call /\ [NoCall EXCEPT !.op = op, !.budget = b].op = op
             /\ [NoCall EXCEPT !.op = op, !.budget = b].ids = << >>
             /\ [NoCall EXCEPT !.op = op, !.budget = b].budget = b
             /\ NoCall \in Call /\ NoCall.op = "none" /\ NoCall.ids = << >>
  <1>1. 0 \in Layers /\ << >> \in Seq(Entry) /\ 0 \in Nat
    BY SpeculationAssumption DEF Layers
  <1>2. QED
    BY <1>1 DEF NoCall, Call
LEMMA SettleKeeps ==
  ASSUME IInv, Settle
  PROVE  IInv'
  <1>0. /\ TypeInv /\ CallInv /\ ReadsInv /\ OwedInv /\ ActiveInv /\ WhereInv /\ AdoptInv /\ PagesInv
        /\ ResidentComplete
    BY DEF IInv
  <1> DEFINE c == [NoCall EXCEPT !.op = "settle"]
  <1>1. c \in Call /\ c.op = "settle" /\ c.ids = << >>
    BY NoCallFacts, 0 \in Nat
  <1> HIDE DEF c
  <1>2. pc = "idle" /\ cur' = cur /\ cur \in -1..(NLayers - 1)
    BY <1>0 DEF Settle, TypeInv, TypeOK
  <1>3. CASE mode.adopt
    <2>1. /\ pc' = "integrate" /\ call' = c
          /\ UNCHANGED <<mode, cacheVars, pageVars, specVars, adopted, asleep, issued>>
      BY <1>3 DEF Settle, c
    <2> USE DEF cacheVars, pageVars, specVars
    <2>2. Inflight' = Inflight /\ Flying' = Flying
      BY <2>1 DEF Inflight, Flying
    <2>3. OwedInv' /\ ActiveInv' /\ PagesInv' /\ LruIsValidSet'
      BY <1>0, <2>1, <2>2, CoreKept DEF ActiveInv
    <2>4. ResidentComplete'
      BY <1>0, <1>2, <2>1, CompleteKept
    <2>5. TypeInv'
      BY <1>0, <1>1, <1>2, <2>1 DEF TypeInv, TypeOK
    <2>6. CallInv'
      BY <1>1, <1>3, <2>1, NothingListed DEF CallInv
    <2>7. ReadsInv'
      BY <1>0, <1>2, <2>1, <2>2 DEF ReadsInv
    <2>8. WhereInv' /\ AdoptInv'
      <3>1. \A e \in Entry : Active(e)' <=> Active(e)
        BY <2>1 DEF Active
      <3>2. QED
        BY <1>0, <1>1, <1>2, <2>1, <3>1 DEF WhereInv, AdoptInv, Adopting
    <2>9. QED
      BY <2>3, <2>4, <2>5, <2>6, <2>7, <2>8 DEF IInv
  <1>4. CASE ~mode.adopt
    <2>1. Serve(c) /\ issued' = {}
      BY <1>4 DEF Settle, c
    <2>2. QuiesceStart /\ call' = c /\ UNCHANGED <<mode, cacheVars, pageVars, remaining, done, asleep>>
      BY <1>4, <2>1 DEF Serve
    <2>3. QED
      BY <1>0, <1>1, <1>2, <1>4, <2>1, <2>2, NothingListed, QuiesceKept
  <1>5. QED
    BY <1>3, <1>4

LEMMA SetCacheBudgetKeeps ==
  ASSUME IInv, NEW b \in Budgets, SetCacheBudget(b)
  PROVE  IInv'
  <1>0. /\ TypeInv /\ CallInv /\ ReadsInv /\ OwedInv /\ ActiveInv /\ WhereInv /\ AdoptInv /\ PagesInv
        /\ ResidentComplete
    BY DEF IInv
  <1>1. pc = "idle" /\ cur' = -1 /\ b \in Nat /\ b # cacheMax /\ cacheMax \in 1..Total /\ Total \in Nat
        /\ -1 \in -1..(NLayers - 1)
    BY <1>0, SpeculationAssumption, EntriesFinite DEF SetCacheBudget, TypeInv, TypeOK
  <1>2. CASE b > cacheMax
    <2>1. /\ cacheMax' = IF b > Total THEN Total ELSE b
          /\ UNCHANGED <<mode, valid, current, lru, resident, pageVars, specVars, evalVars, issued>>
      BY <1>2 DEF SetCacheBudget
    <2> USE DEF pageVars, specVars, evalVars
    <2>2. Inflight' = Inflight /\ Flying' = Flying
      BY <2>1 DEF Inflight, Flying
    <2>3. OwedInv' /\ ActiveInv' /\ PagesInv' /\ LruIsValidSet'
      BY <1>0, <2>1, <2>2, CoreKept DEF ActiveInv
    <2>4. ResidentComplete'
      BY <1>0, <1>1, <2>1, CompleteKept
    <2>5. cacheMax' \in 1..Total
      BY <1>1, <1>2, <2>1
    <2>6. TypeInv'
      BY <1>0, <1>1, <2>1, <2>5 DEF TypeInv, TypeOK
    <2>7. CallInv' /\ ReadsInv'
      BY <1>0, <1>1, <2>1, <2>2 DEF CallInv, ReadsInv
    <2>8. WhereInv' /\ AdoptInv'
      <3>1. \A e \in Entry : Active(e)' <=> Active(e)
        BY <2>1 DEF Active
      <3>2. QED
        BY <1>0, <1>1, <2>1, <3>1 DEF WhereInv, AdoptInv, Adopting
    <2>9. QED
      BY <2>3, <2>4, <2>6, <2>7, <2>8 DEF IInv
  <1>3. CASE ~(b > cacheMax)
    <2> DEFINE t == Positive(b)
               c == [NoCall EXCEPT !.op = "shrink", !.budget = t]
    <2>1. t \in 1..Total /\ t \in Nat
      BY <1>1, <1>3 DEF Positive
    <2> HIDE DEF t
    <2>2. c \in Call /\ c.op = "shrink" /\ c.ids = << >> /\ c.budget = t
      BY <2>1, NoCallFacts
    <2>3. Serve(c) /\ issued' = {}
      BY <1>3 DEF SetCacheBudget, t
    <2> HIDE DEF c
    <2>4. QuiesceStart /\ call' = c /\ UNCHANGED <<mode, cacheVars, pageVars, remaining, done, asleep>>
      BY <2>2, <2>3 DEF Serve
    <2>5. QED
      BY <1>0, <1>1, <2>1, <2>2, <2>3, <2>4, NothingListed, QuiesceKept
  <1>4. QED
    BY <1>2, <1>3

LEMMA IssueKeeps ==
  ASSUME IssuedOnce, IInv, NEW nl \in Layers, NEW ids \in IdLists(nl), Issue(nl, ids)
  PROVE  IInv'
  <1>0. /\ TypeInv /\ CallInv /\ ReadsInv /\ OwedInv /\ ActiveInv /\ WhereInv /\ AdoptInv /\ PagesInv
        /\ ResidentComplete
    BY DEF IInv
  <1> DEFINE c == [op |-> "issue", il |-> nl, ids |-> ids, budget |-> 0]
  <1>1. ids \in Seq(Entry) /\ IsInjective(ids) /\ \A e \in ToSet(ids) : e[1] = nl
    BY CallIds
  <1>2. c \in Call /\ c.op = "issue" /\ c.il = nl /\ c.ids = ids
    BY <1>1 DEF Call
  <1>3. /\ pc = "idle" /\ call' = c /\ pc' \in {"prefetch", "integrate"} /\ (pc' = "integrate" => mode.adopt)
        /\ nl \notin issued /\ issued' = issued \cup {nl}
        /\ UNCHANGED <<mode, cacheVars, pageVars, specVars, adopted, asleep, cur>>
    BY DEF Issue, IssuedOnce, ForThisGraph, LateRanking
  <1> HIDE DEF c
  <1> USE DEF cacheVars, pageVars, specVars
  <1>4. Inflight' = Inflight /\ Flying' = Flying
    BY <1>3 DEF Inflight, Flying
  <1>5. OwedInv' /\ ActiveInv' /\ PagesInv' /\ LruIsValidSet'
    BY <1>0, <1>3, <1>4, CoreKept DEF ActiveInv
  <1>6. ResidentComplete'
    BY <1>0, <1>3, CompleteKept
  <1>7. TypeInv'
    <2>1. nl \in -1..(NLayers - 1)
      BY DEF Layers
    <2>2. QED
      BY <1>0, <1>2, <1>3, <2>1 DEF TypeInv, TypeOK
  <1>8. CallInv'
    BY <1>1, <1>2, <1>3 DEF CallInv
  <1>9. ReadsInv'
    BY <1>0, <1>3, <1>4 DEF ReadsInv
  <1>10. WhereInv' /\ AdoptInv'
    <2>1. \A e \in Entry : Active(e)' <=> Active(e)
      BY <1>3 DEF Active
    <2>2. \A e \in Entry : Active(e) => e[1] \in issued /\ e[1] # nl
      BY <1>0, <1>3 DEF WhereInv, Adopting
    <2>3. QED
      BY <1>2, <1>3, <2>1, <2>2 DEF WhereInv, AdoptInv, Adopting
  <1>11. QED
    BY <1>5, <1>6, <1>7, <1>8, <1>9, <1>10 DEF IInv

\* Steps that move only the eval thread or the graph.
LEMMA AsideKeeps ==
  ASSUME IInv, IssuedOnce, BeginGraph \/ AdoptWait \/ UNCHANGED vars
  PROVE  IInv'
  <1>0. /\ TypeInv /\ CallInv /\ ReadsInv /\ OwedInv /\ ActiveInv /\ WhereInv /\ AdoptInv /\ PagesInv
        /\ ResidentComplete
    BY DEF IInv
  <1>1. /\ UNCHANGED <<mode, cacheVars, pageVars, specVars, call, adopted, issued>>
        /\ asleep' \in BOOLEAN /\ cur' \in -1..(NLayers - 1)
        /\ pc' = pc \/ (pc = "adopt" /\ pc' = "integrate" /\ AllRead)
    <2>1. asleep \in BOOLEAN /\ cur \in -1..(NLayers - 1) /\ -1 \in -1..(NLayers - 1)
      BY <1>0, SpeculationAssumption DEF TypeInv, TypeOK
    <2>2. CASE BeginGraph
      BY <2>1, <2>2 DEF BeginGraph, IssuedOnce, evalVars
    <2>3. CASE AdoptWait
      BY <2>1, <2>3 DEF AdoptWait, driverVars
    <2>4. CASE UNCHANGED vars
      BY <2>1, <2>4 DEF vars, evalVars, driverVars
    <2>5. QED
      BY <2>2, <2>3, <2>4
  <1> USE DEF cacheVars, pageVars, specVars
  <1>2. Inflight' = Inflight /\ Flying' = Flying
    BY <1>1 DEF Inflight, Flying
  <1>3. OwedInv' /\ ActiveInv' /\ PagesInv' /\ LruIsValidSet'
    BY <1>0, <1>1, <1>2, CoreKept DEF ActiveInv
  <1>4. ResidentComplete'
    <2>1. CASE pc' = pc
      BY <1>0, <1>1, <2>1 DEF ResidentComplete
    <2>2. CASE pc = "adopt"
      BY <1>0, <1>1, <2>2, CompleteKept
    <2>3. QED
      BY <1>1, <2>1, <2>2
  <1>5. TypeInv'
    BY <1>0, <1>1 DEF TypeInv, TypeOK
  <1>6. CallInv' /\ ReadsInv'
    BY <1>0, <1>1, <1>2 DEF CallInv, ReadsInv
  <1>7. WhereInv' /\ AdoptInv'
    <2>1. \A e \in Entry : Active(e)' <=> Active(e)
      BY <1>1 DEF Active
    <2>2. pc = "adopt" => call.op = "load"
      BY <1>0 DEF CallInv
    <2>7. adopted \subseteq Entry
      BY <1>0 DEF TypeInv, TypeOK
    <2>3. WhereInv'
      BY <1>0, <1>1, <2>1, <2>2 DEF WhereInv, Adopting
    <2>4. CASE pc' = pc
      <3>1. UNCHANGED <<pc, call, mode, adopted, valid, remaining, done>>
        BY <1>1, <2>4
      <3>2. QED
        BY <1>0, <2>3, <3>1 DEF AdoptInv, Adopting, Active
    <2>5. CASE pc = "adopt" /\ pc' = "integrate" /\ AllRead
      <3>1. \A e \in adopted : remaining[e] = 0
        BY <2>5 DEF AllRead
      <3>2. \A e \in Entry : e[1] = call.il => remaining[e] = 0
        BY <1>0, <2>5, <3>1 DEF AdoptInv
      <3>3. \A e \in adopted : Active(e)' \/ e \in valid'
        BY <1>0, <1>1, <2>1, <2>2, <2>5, <2>7 DEF AdoptInv, Adopting
      <3>4. QED
        <4>1. UNCHANGED <<call, adopted, remaining>> /\ pc' = "integrate"
          BY <1>1, <2>5
        <4>2. QED
          BY <2>3, <3>1, <3>2, <3>3, <4>1 DEF AdoptInv
    <2>6. QED
      BY <1>1, <2>3, <2>4, <2>5
  <1>8. QED
    BY <1>3, <1>4, <1>5, <1>6, <1>7 DEF IInv

(***************************************************************************)
(* Reads start and end.                                                    *)
(***************************************************************************)

\* A reader takes the first job.
LEMMA TakeKeeps ==
  ASSUME IInv, NEW r \in Readers, reading[r] = NoJob, jobs # << >>,
         reading' = [reading EXCEPT ![r] = [entry |-> Head(jobs).entry, proj |-> Head(jobs).proj, live |-> TRUE]],
         jobs' = Tail(jobs),
         UNCHANGED <<mode, cacheVars, pageVars, remaining, done, touched, evalVars, driverVars>>
  PROVE  IInv'
  <1>0. /\ TypeInv /\ CallInv /\ ReadsInv /\ OwedInv /\ ActiveInv /\ WhereInv /\ AdoptInv /\ PagesInv
        /\ ResidentComplete
    BY DEF IInv
  <1> USE DEF cacheVars, pageVars, evalVars, driverVars
  <1> DEFINE j == Head(jobs)
             new == [entry |-> j.entry, proj |-> j.proj, live |-> TRUE]
  <1>1. jobs \in Seq(Job) /\ IsInjective(jobs) /\ reading \in [Readers -> Read \cup {NoJob}] /\ pc # "quiesce"
    BY <1>0 DEF TypeInv, TypeOK, ReadsInv
  <1>2. /\ j \in Job /\ jobs' \in Seq(Job) /\ IsInjective(jobs')
        /\ ToSet(jobs) = ToSet(jobs') \cup {j} /\ j \notin ToSet(jobs') /\ j \in ToSet(jobs)
    BY <1>1, TailIsList
  <1> HIDE DEF j
  <1>3. new \in Read /\ new # NoJob /\ new.entry = j.entry /\ new.proj = j.proj /\ new.live = TRUE
    <2>1. new \in Read /\ new.entry = j.entry /\ new.proj = j.proj /\ new.live = TRUE
      BY <1>2 DEF Job, Read
    <2>2. NoJob \notin Read
      BY <1>0, Flights
    <2>3. QED
      BY <2>1, <2>2
  <1>4. reading' = [reading EXCEPT ![r] = new]
    BY DEF j
  <1> HIDE DEF new
  <1>5. /\ reading'[r] = new /\ \A q \in Readers \ {r} : reading'[q] = reading[q]
        /\ reading' \in [Readers -> Read \cup {NoJob}]
    BY <1>1, <1>3, <1>4
  <1>6. Inflight' = Inflight \cup {r} /\ r \notin Inflight /\ Inflight \subseteq Readers
    BY <1>3, <1>5 DEF Inflight
  <1>7. \A q \in Inflight : q # r /\ reading'[q] = reading[q]
    BY <1>5, <1>6
  <1>8. Flying' = Flying \cup {j}
    <2>1. [entry |-> reading'[r].entry, proj |-> reading'[r].proj] = j
      BY <1>2, <1>3, <1>5 DEF Job
    <2>2. QED
      BY <1>6, <1>7, <2>1 DEF Flying
  <1>9. OwedInv' /\ ActiveInv' /\ PagesInv' /\ LruIsValidSet'
    <2>1. ToSet(jobs') \cup Flying' \subseteq ToSet(jobs) \cup Flying
      BY <1>2, <1>8
    <2>2. QED
      BY <1>0, <2>1, CoreKept DEF ActiveInv
  <1>10. ResidentComplete'
    BY <1>0 DEF ResidentComplete
  <1>11. TypeInv'
    BY <1>0, <1>2, <1>5 DEF TypeInv, TypeOK
  <1>12. CallInv'
    BY <1>0 DEF CallInv
  <1>13. ReadsInv'
    <2>1. j \notin Flying /\ \A k \in ToSet(jobs) : k \notin Flying
      BY <1>0, <1>2 DEF ReadsInv
    <2>2. \A k \in ToSet(jobs') : k \notin Flying'
      BY <1>2, <1>8, <2>1
    <2>3. \A q \in Inflight : ~(reading[q].entry = j.entry /\ reading[q].proj = j.proj)
      <3>1. ASSUME NEW q \in Inflight, reading[q].entry = j.entry, reading[q].proj = j.proj
            PROVE  FALSE
        <4>1. [entry |-> reading[q].entry, proj |-> reading[q].proj] \in Flying
          BY <1>0, Flights
        <4>2. [entry |-> reading[q].entry, proj |-> reading[q].proj] = j
          BY <1>2, <3>1 DEF Job
        <4>3. QED
          BY <2>1, <4>1, <4>2
      <3>2. QED
        BY <3>1
    <2>4. \A p, q \in Inflight' : reading'[p].entry = reading'[q].entry /\ reading'[p].proj = reading'[q].proj => p = q
      <3>1. \A p, q \in Inflight : reading[p].entry = reading[q].entry /\ reading[p].proj = reading[q].proj => p = q
        BY <1>0 DEF ReadsInv
      <3>2. QED
        BY <1>3, <1>5, <1>6, <1>7, <2>3, <3>1
    <2>5. \A q \in Inflight' : reading'[q].live <=> pc' # "quiesce"
      <3>1. \A q \in Inflight : reading[q].live <=> pc # "quiesce"
        BY <1>0 DEF ReadsInv
      <3>2. QED
        BY <1>1, <1>3, <1>5, <1>6, <1>7, <3>1
    <2>6. QED
      BY <1>1, <1>2, <2>2, <2>4, <2>5 DEF ReadsInv
  <1>14. WhereInv' /\ AdoptInv'
    BY <1>0 DEF WhereInv, AdoptInv, Adopting, Active
  <1>15. QED
    BY <1>9, <1>10, <1>11, <1>12, <1>13, <1>14 DEF IInv

\* What a read leaves behind when it ends.
LEMMA Landed ==
  ASSUME TypeInv, ReadsInv, NEW r \in Inflight, reading' = [reading EXCEPT ![r] = NoJob]
  PROVE  LET j == [entry |-> reading[r].entry, proj |-> reading[r].proj]
         IN  /\ reading' \in [Readers -> Read \cup {NoJob}]
             /\ Inflight' = Inflight \ {r} /\ \A q \in Inflight' : reading'[q] = reading[q]
             /\ Flying' \subseteq Flying \ {j} /\ j \in Job /\ j \in Flying /\ j \notin ToSet(jobs)
  <1> DEFINE j == [entry |-> reading[r].entry, proj |-> reading[r].proj]
  <1>1. r \in Readers /\ reading \in [Readers -> Read \cup {NoJob}] /\ Inflight \subseteq Readers
    BY DEF TypeInv, TypeOK, Inflight
  <1>2. reading' \in [Readers -> Read \cup {NoJob}] /\ reading'[r] = NoJob /\ \A q \in Readers \ {r} : reading'[q] = reading[q]
    BY <1>1
  <1>3. Inflight' = Inflight \ {r}
    BY <1>2 DEF Inflight
  <1>4. \A q \in Inflight' : reading'[q] = reading[q] /\ q \in Inflight /\ q # r
    BY <1>1, <1>2, <1>3
  <1>5. j \in Flying /\ j \in Job
    BY Flights
  <1>6. ASSUME NEW k \in Flying'
        PROVE  k \in Flying /\ k # j
    <2>1. PICK q \in Inflight' : k = [entry |-> reading'[q].entry, proj |-> reading'[q].proj]
      BY DEF Flying
    <2>2. k = [entry |-> reading[q].entry, proj |-> reading[q].proj] /\ q \in Inflight /\ q # r
      BY <1>4, <2>1
    <2>3. ~(reading[q].entry = reading[r].entry /\ reading[q].proj = reading[r].proj)
      BY <2>2 DEF ReadsInv
    <2>4. k.entry = reading[q].entry /\ k.proj = reading[q].proj /\ j.entry = reading[r].entry /\ j.proj = reading[r].proj
      BY <2>2
    <2>5. k \in Flying
      BY <2>2 DEF Flying
    <2> HIDE DEF j
    <2>6. QED
      BY <2>3, <2>4, <2>5
  <1>7. j \notin ToSet(jobs)
    BY <1>5 DEF ReadsInv
  <1>8. QED
    BY <1>2, <1>3, <1>4, <1>5, <1>6, <1>7

\* A read lands in pages of an entry it is owed to, and counts down once.
LEMMA ReadDoneKeeps ==
  ASSUME IInv, NEW r \in Readers, ReadDone(r)
  PROVE  IInv'
  <1>0. /\ TypeInv /\ CallInv /\ ReadsInv /\ OwedInv /\ ActiveInv /\ WhereInv /\ AdoptInv /\ PagesInv
        /\ LruIsValidSet /\ ResidentComplete
    BY DEF IInv
  <1> DEFINE e == reading[r].entry
             p == reading[r].proj
             j == [entry |-> e, proj |-> p]
             m == remaining[e]
  <1>1. r \in Inflight /\ reading' = [reading EXCEPT ![r] = NoJob]
    BY DEF ReadDone, Inflight
  <1>2. /\ reading' \in [Readers -> Read \cup {NoJob}]
        /\ Inflight' = Inflight \ {r} /\ \A q \in Inflight' : reading'[q] = reading[q]
        /\ Flying' \subseteq Flying \ {j} /\ j \in Job /\ j \in Flying /\ j \notin ToSet(jobs)
    BY <1>0, <1>1, Landed
  <1>3. /\ e \in Entry /\ p \in Projs /\ j.entry = e /\ j.proj = p /\ reading[r].live \in BOOLEAN
    BY <1>0, <1>1, Flights
  <1>4. remaining \in [Entry -> 0..NSlices] /\ NSlices \in Nat /\ done \in Seq(Entry) /\ filled \subseteq Entry \X Projs
    BY <1>0, ProjsInOrder DEF TypeInv, TypeOK, NSlices
  <1>5. m \in Nat /\ m # 0 /\ m > 0 /\ m <= NSlices /\ <<e, p>> \notin filled
    <2>1. m # 0 /\ <<e, p>> \notin filled
      BY <1>0, <1>2, <1>3 DEF OwedInv
    <2>2. m \in 0..NSlices
      BY <1>3, <1>4
    <2>3. QED
      BY <1>4, <2>1, <2>2
  <1>6. /\ e \notin valid /\ e \in committed /\ e \notin ToSet(done) /\ Active(e)
        /\ Cardinality(Missing(e, filled)) <= m
    BY <1>0, <1>3, <1>5 DEF ActiveInv, Active
  <1>7. filled' = filled \cup {<<e, p>>}
    BY <1>6 DEF ReadDone, Land
  <1> DEFINE counts == reading[r].live
  <1>8. Counts(r) <=> counts
    BY <1>5 DEF Counts
  <1>9. /\ remaining' = IF counts THEN [remaining EXCEPT ![e] = @ - 1] ELSE remaining
        /\ done' = IF counts /\ m = 1 THEN Append(done, e) ELSE done
        /\ UNCHANGED <<mode, cacheVars, committed, touched, jobs, pc, call, adopted, driverVars>>
        /\ asleep' \in BOOLEAN
    <2>1. asleep \in BOOLEAN
      BY <1>0 DEF TypeInv, TypeOK
    <2>2. QED
      BY <1>8, <2>1 DEF ReadDone
  <1> USE DEF cacheVars, driverVars
  <1> HIDE DEF e, p, j, m, counts
  <1>10. /\ \A x \in Entry \ {e} : remaining'[x] = remaining[x]
         /\ remaining'[e] = IF counts THEN m - 1 ELSE m
         /\ remaining' \in [Entry -> 0..NSlices]
    BY <1>3, <1>4, <1>5, <1>9 DEF m
  <1>11. /\ done' \in Seq(Entry) /\ IsInjective(done')
         /\ ToSet(done') = IF counts /\ m = 1 THEN ToSet(done) \cup {e} ELSE ToSet(done)
    <2>1. IsInjective(done)
      BY <1>0 DEF ActiveInv
    <2>2. CASE counts /\ m = 1
      <3>1. done' = Append(done, e)
        BY <1>9, <2>2
      <3>2. QED
        BY <1>3, <1>4, <1>6, <2>1, <2>2, <3>1, AppendIsList
    <2>3. CASE ~(counts /\ m = 1)
      <3>1. done' = done
        BY <1>9, <2>3
      <3>2. QED
        BY <1>4, <2>1, <2>3, <3>1
    <2>4. QED
      BY <2>2, <2>3
  <1>12. \A x \in Entry : Active(x)' <=> Active(x)
    <2>1. ASSUME NEW x \in Entry, x = e
          PROVE  Active(x)' <=> Active(x)
      <3>1. Active(x)
        BY <1>6, <2>1
      <3>2. CASE counts /\ m = 1
        BY <1>11, <2>1, <3>1, <3>2 DEF Active
      <3>3. CASE ~(counts /\ m = 1)
        <4>1. remaining'[x] # 0
          BY <1>5, <1>10, <2>1, <3>3
        <4>2. QED
          BY <3>1, <4>1 DEF Active
      <3>4. QED
        BY <3>2, <3>3
    <2>2. ASSUME NEW x \in Entry, x # e
          PROVE  Active(x)' <=> Active(x)
      BY <1>10, <1>11, <2>2 DEF Active
    <2>3. QED
      BY <2>1, <2>2
  <1>13. \A x \in Entry : remaining[x] = 0 => remaining'[x] = 0
    <2>1. remaining[e] # 0
      BY <1>5 DEF m
    <2>2. QED
      BY <1>10, <2>1
  <1>14. /\ Cardinality(Missing(e, filled')) <= remaining'[e]
         /\ \A x \in Entry \ {e} : Cardinality(Missing(x, filled')) <= Cardinality(Missing(x, filled))
    <2>1. \A x : \A q \in Projs : <<x, q>> \in filled => <<x, q>> \in filled'
      BY <1>7
    <2>2. \A x : Cardinality(Missing(x, filled')) <= Cardinality(Missing(x, filled))
      BY <2>1, MissingLess
    <2>3. Cardinality(Missing(e, filled')) <= Cardinality(Missing(e, filled)) - 1
      BY <1>3, <1>5, <1>7, <2>1, MissingLess
    <2>4. Cardinality(Missing(e, filled)) \in Nat /\ Cardinality(Missing(e, filled')) \in Nat
      BY MissingFacts
    <2>5. QED
      BY <1>5, <1>6, <1>10, <2>2, <2>3, <2>4
  <1>15. TypeInv'
    <2>1. filled' \subseteq Entry \X Projs
      BY <1>3, <1>4, <1>7
    <2>2. QED
      BY <1>0, <1>2, <1>9, <1>10, <1>11, <2>1 DEF TypeInv, TypeOK, NSlices
  <1>16. CallInv'
    BY <1>0, <1>9 DEF CallInv
  <1>17. ReadsInv'
    <2>1. Inflight' \subseteq Inflight /\ Flying' \subseteq Flying
      BY <1>2
    <2>2. QED
      BY <1>0, <1>2, <1>9, <2>1 DEF ReadsInv
  <1>18. OwedInv'
    <2> SUFFICES ASSUME NEW k \in ToSet(jobs) \cup Flying'
                 PROVE  remaining'[k.entry] # 0 /\ <<k.entry, k.proj>> \notin filled'
      BY <1>9 DEF OwedInv
    <2>1. k \in Job /\ k # j /\ k \in ToSet(jobs) \cup Flying
      BY <1>0, <1>2, Flights
    <2>2. remaining[k.entry] # 0 /\ <<k.entry, k.proj>> \notin filled /\ k.entry \in Entry /\ k.proj \in Projs
      BY <1>0, <2>1 DEF OwedInv, Job
    <2>3. k.entry # e \/ k.proj # p
      BY <1>2, <1>3, <2>1 DEF Job
    <2>4. <<k.entry, k.proj>> \notin filled'
      BY <1>7, <2>2, <2>3
    <2>5. CASE k.entry # e
      BY <1>10, <2>2, <2>4, <2>5
    <2>6. CASE k.entry = e
      <3>1. ~(Cardinality(Missing(e, filled')) <= 0)
        BY <2>2, <2>4, <2>6, MissingFacts
      <3>2. remaining'[e] # 0
        BY <1>14, <3>1
      <3>3. QED
        BY <2>4, <2>6, <3>2
    <2>7. QED
      BY <2>5, <2>6
  <1>19. ActiveInv'
    <2>1. \A x \in ToSet(done') : remaining'[x] = 0
      <3>1. \A x \in ToSet(done) : x \in Entry /\ remaining[x] = 0
        BY <1>0, <1>4, SeqFacts DEF ActiveInv
      <3>2. counts /\ m = 1 => remaining'[e] = 0
        BY <1>10
      <3>3. QED
        BY <1>11, <1>13, <3>1, <3>2
    <2>2. \A x \in Entry : Active(x)' => x \notin valid' /\ x \in committed'
      BY <1>0, <1>9, <1>12 DEF ActiveInv
    <2>3. \A x \in Entry : Active(x)' => Cardinality(Missing(x, filled')) <= remaining'[x]
      <3>1. ASSUME NEW x \in Entry \ {e}, Active(x)
            PROVE  Cardinality(Missing(x, filled')) <= remaining'[x]
        <4>1. Cardinality(Missing(x, filled)) <= remaining[x] /\ remaining'[x] = remaining[x] /\ remaining[x] \in Nat
          BY <1>0, <1>4, <1>10, <3>1 DEF ActiveInv
        <4>2. Cardinality(Missing(x, filled)) \in Nat /\ Cardinality(Missing(x, filled')) \in Nat
          BY MissingFacts
        <4>3. QED
          BY <1>14, <4>1, <4>2
      <3>2. QED
        BY <1>12, <1>14, <3>1
    <2>4. \A x \in Entry : remaining'[x] # 0 => x \in touched'
      BY <1>0, <1>9, <1>13 DEF ActiveInv
    <2>5. QED
      BY <1>11, <2>1, <2>2, <2>3, <2>4 DEF ActiveInv
  <1>20. WhereInv'
    BY <1>0, <1>9, <1>12 DEF WhereInv, Adopting
  <1>21. AdoptInv'
    <2>1. adopted \subseteq Entry
      BY <1>0 DEF TypeInv, TypeOK
    <2>2. QED
      BY <1>0, <1>9, <1>12, <1>13, <2>1 DEF AdoptInv, Adopting
  <1>22. PagesInv'
    <2>1. filled' \subseteq Slices(committed)
      BY <1>0, <1>3, <1>6, <1>7 DEF PagesInv, Slices
    <2>2. committed \subseteq Entry
      BY <1>0 DEF TypeInv, TypeOK
    <2>3. QED
      BY <1>0, <1>9, <1>12, <2>1, <2>2 DEF PagesInv
  <1>23. LruIsValidSet' /\ ResidentComplete'
    BY <1>0, <1>7, <1>9 DEF LruIsValidSet, ResidentComplete
  <1>24. QED
    BY <1>15, <1>16, <1>17, <1>18, <1>19, <1>20, <1>21, <1>22, <1>23 DEF IInv

\* A read that fails under a guessing predictor is never made up for.
LEMMA ReadFailedKeeps ==
  ASSUME GuessesFail, IInv, NEW r \in Readers, ReadFailed(r)
  PROVE  IInv'
  <1>0. /\ TypeInv /\ CallInv /\ ReadsInv /\ OwedInv /\ ActiveInv /\ WhereInv /\ AdoptInv /\ PagesInv
        /\ ResidentComplete
    BY DEF IInv
  <1>1. /\ r \in Inflight /\ reading' = [reading EXCEPT ![r] = NoJob] /\ remaining' = remaining
        /\ UNCHANGED <<mode, cacheVars, pageVars, done, touched, jobs, pc, call, adopted, driverVars>>
        /\ asleep' \in BOOLEAN
    <2>1. mode \in Modes /\ mode.readsFail /\ asleep \in BOOLEAN
      BY <1>0 DEF TypeInv, TypeOK, ReadFailed
    <2>2. ~mode.adopt
      BY <2>1 DEF GuessesFail
    <2>3. QED
      BY <2>1, <2>2 DEF ReadFailed, AfterFailure, Inflight
  <1> USE DEF cacheVars, pageVars, driverVars
  <1>2. /\ reading' \in [Readers -> Read \cup {NoJob}]
        /\ Inflight' \subseteq Inflight /\ \A q \in Inflight' : reading'[q] = reading[q]
        /\ Flying' \subseteq Flying
    BY <1>0, <1>1, Landed
  <1>3. OwedInv' /\ ActiveInv' /\ PagesInv' /\ LruIsValidSet'
    BY <1>0, <1>1, <1>2, CoreKept DEF ActiveInv
  <1>4. ResidentComplete'
    BY <1>0, <1>1 DEF ResidentComplete
  <1>5. TypeInv'
    BY <1>0, <1>1, <1>2 DEF TypeInv, TypeOK
  <1>6. CallInv' /\ ReadsInv'
    BY <1>0, <1>1, <1>2 DEF CallInv, ReadsInv
  <1>7. WhereInv' /\ AdoptInv'
    <2>1. UNCHANGED <<pc, call, mode, adopted, valid, remaining, done, issued>>
      BY <1>1
    <2>2. QED
      BY <1>0, <2>1 DEF WhereInv, AdoptInv, Adopting, Active
  <1>8. QED
    BY <1>3, <1>4, <1>5, <1>6, <1>7 DEF IInv

(***************************************************************************)
(* The eval thread settles, stages, evicts and queues.                     *)
(***************************************************************************)

\* Ids in front of the list of the cache, or promoted to its front, are one
\* list with it.
LEMMA Promoted ==
  ASSUME TypeInv, LruIsValidSet, NEW s \in Seq(Entry), IsInjective(s)
  PROVE  LET l == LruPushFront(LruUnlink(lru, s), s)
         IN  l \in Seq(Entry) /\ IsInjective(l) /\ ToSet(l) = valid \cup ToSet(s)
  <1> DEFINE a == Reverse(s)
             b == Without(lru, ToSet(s))
  <1>1. lru \in Seq(Entry) /\ IsInjective(lru) /\ ToSet(lru) = valid
    BY DEF TypeInv, TypeOK, LruIsValidSet
  <1>2. a \in Seq(Entry) /\ IsInjective(a) /\ ToSet(a) = ToSet(s)
    BY ReverseIsList
  <1>3. b \in Seq(Entry) /\ IsInjective(b) /\ ToSet(b) = valid \ ToSet(s)
    BY <1>1, WithoutLeaves
  <1> HIDE DEF a, b
  <1>4. a \o b \in Seq(Entry) /\ IsInjective(a \o b) /\ ToSet(a \o b) = valid \cup ToSet(s)
    BY <1>2, <1>3, ListsJoin
  <1>5. QED
    BY <1>4 DEF a, b, LruPushFront, LruUnlink

\* New residents are counted.
LEMMA Counted ==
  ASSUME TypeInv, LruIsValidSet, NEW s \in Seq(Entry), IsInjective(s), ToSet(s) \cap valid = {}
  PROVE  resident + Len(s) \in Nat /\ resident + Len(s) = Cardinality(valid \cup ToSet(s))
  <1> DEFINE S == ToSet(s)
  <1>1. IsFiniteSet(valid) /\ resident \in Nat /\ resident = Cardinality(valid)
    <2>1. valid \in SUBSET Entry
      BY DEF TypeInv, TypeOK
    <2>2. QED
      BY <2>1, EntriesFinite, FS_Subset DEF TypeInv, TypeOK, LruIsValidSet
  <1>2. IsFiniteSet(S) /\ Cardinality(S) = Len(s) /\ Len(s) \in Nat
    BY ListCounts, SeqFacts
  <1> HIDE DEF S
  <1>3. Cardinality(valid \cup S) = Cardinality(valid) + Cardinality(S) - Cardinality(valid \cap S)
    BY <1>1, <1>2, FS_Union
  <1>4. Cardinality(valid \cap S) = 0
    <2>1. valid \cap S = {}
      BY DEF S
    <2>2. QED
      BY <2>1, FS_EmptySet
  <1>5. resident + Len(s) \in Nat /\ resident + Len(s) = Cardinality(valid \cup S)
    BY <1>1, <1>2, <1>3, <1>4
  <1>6. QED
    BY <1>5 DEF S

\* Every completed read is integrated, and its entry holds its data.
LEMMA Integrated ==
  ASSUME IInv
  PROVE  LET new == Completed(done)
         IN  /\ new \in Seq(Entry) /\ ToSet(new) = ToSet(done) /\ ToSet(new) \subseteq committed
             /\ \A e \in ToSet(done) : e \in Entry /\ e \notin valid /\ remaining[e] = 0
             /\ Slices(ToSet(new)) \subseteq filled
             /\ LruPushFront(lru, new) \in Seq(Entry) /\ IsInjective(LruPushFront(lru, new))
             /\ ToSet(LruPushFront(lru, new)) = valid \cup ToSet(done)
             /\ LruPushBack(lru, new) \in Seq(Entry) /\ IsInjective(LruPushBack(lru, new))
             /\ ToSet(LruPushBack(lru, new)) = valid \cup ToSet(done)
             /\ resident + Len(new) \in Nat /\ resident + Len(new) = Cardinality(valid \cup ToSet(done))
  <1> DEFINE new == Completed(done)
             D == ToSet(done)
  <1>1. TypeInv /\ ActiveInv /\ LruIsValidSet
    BY DEF IInv
  <1>2. done \in Seq(Entry) /\ IsInjective(done) /\ D \subseteq Entry
    BY <1>1, SeqFacts DEF TypeInv, TypeOK, ActiveInv
  <1>3. \A e \in D : e \in Entry /\ e \notin valid /\ remaining[e] = 0 /\ e \in committed /\ Cardinality(Missing(e, filled)) <= 0
    BY <1>1, <1>2 DEF ActiveInv, Active
  <1>4. new \in Seq(Entry) /\ IsInjective(new) /\ ToSet(new) = D
    <2>1. new \in Seq(Entry) /\ IsInjective(new) /\ ToSet(new) = D \ (valid \cup {e \in Entry : remaining[e] # 0})
      BY <1>2, WithoutLeaves DEF Completed
    <2>2. QED
      BY <1>3, <2>1
  <1> HIDE DEF new, D
  <1>5. Slices(D) \subseteq filled
    <2>1. \A e \in D : \A p \in Projs : <<e, p>> \in filled
      BY <1>3, MissingFacts
    <2>2. QED
      BY <2>1 DEF Slices
  <1>6. lru \in Seq(Entry) /\ IsInjective(lru) /\ ToSet(lru) = valid
    BY <1>1 DEF TypeInv, TypeOK, LruIsValidSet
  <1>7. Reverse(new) \in Seq(Entry) /\ IsInjective(Reverse(new)) /\ ToSet(Reverse(new)) = D
    BY <1>4, ReverseIsList
  <1>8. D \cap valid = {}
    BY <1>3
  <1>9. /\ LruPushFront(lru, new) \in Seq(Entry) /\ IsInjective(LruPushFront(lru, new))
        /\ ToSet(LruPushFront(lru, new)) = valid \cup D
    BY <1>6, <1>7, <1>8, ListsJoin DEF LruPushFront
  <1>10. /\ LruPushBack(lru, new) \in Seq(Entry) /\ IsInjective(LruPushBack(lru, new))
         /\ ToSet(LruPushBack(lru, new)) = valid \cup D
    BY <1>4, <1>6, <1>8, ListsJoin DEF LruPushBack
  <1>11. resident + Len(new) \in Nat /\ resident + Len(new) = Cardinality(valid \cup D)
    BY <1>1, <1>4, <1>8, Counted
  <1>12. QED
    BY <1>3, <1>4, <1>5, <1>9, <1>10, <1>11 DEF new, D

\* A completed entry becomes resident, and nothing else changes hands.
LEMMA IntegrateKeeps ==
  ASSUME IInv, IntegrateDone
  PROVE  IInv'
  <1>0. /\ TypeInv /\ CallInv /\ ReadsInv /\ OwedInv /\ ActiveInv /\ WhereInv /\ AdoptInv /\ PagesInv
        /\ LruIsValidSet /\ ResidentComplete
    BY DEF IInv
  <1> DEFINE D == ToSet(done)
  <1>1. /\ pc = "integrate" /\ mode.adopt /\ call.op \in {"load", "settle", "issue"}
        /\ pc' = CASE call.op = "load" -> "stage" [] call.op = "issue" -> "prefetch" [] OTHER -> "idle"
        /\ done' = << >> /\ ToSet(done') = {} /\ IsInjective(done')
        /\ UNCHANGED <<mode, cacheMax, pageVars, remaining, touched, jobs, reading,
                       call, adopted, asleep, driverVars>>
    BY <1>0, NothingListed DEF IntegrateDone, CallInv
  <1>2. /\ valid' = valid \cup D /\ current' \subseteq current
        /\ lru' \in Seq(Entry) /\ IsInjective(lru') /\ ToSet(lru') = valid'
        /\ resident' \in Nat /\ resident' = Cardinality(valid')
        /\ \A e \in D : e \in Entry /\ e \notin valid /\ remaining[e] = 0 /\ e \in committed
        /\ Slices(D) \subseteq filled
    BY Integrated DEF IntegrateDone
  <1>3. /\ call.op = "load" => pc' = "stage"
        /\ call.op = "issue" => pc' = "prefetch"
        /\ call.op = "settle" => pc' = "idle"
    BY <1>1
  <1>4. pc' \in {"stage", "prefetch", "idle"}
    BY <1>1, <1>3
  <1> HIDE DEF D
  <1> USE DEF pageVars, driverVars
  <1>5. \A e \in Entry : Active(e)' => remaining[e] # 0 /\ Active(e) /\ e \notin D
    BY <1>1, <1>2 DEF Active
  <1>6. \A e \in Entry : Active(e) => Active(e)' \/ e \in D
    BY <1>1 DEF Active, D
  <1>7. Inflight' = Inflight /\ Flying' = Flying
    BY <1>1 DEF Inflight, Flying
  <1>8. TypeInv'
    <2>1. valid' \subseteq Entry /\ current' \subseteq Entry
      BY <1>0, <1>2 DEF TypeInv, TypeOK
    <2>2. done' \in Seq(Entry)
      BY <1>1
    <2>3. QED
      BY <1>0, <1>1, <1>2, <1>4, <2>1, <2>2 DEF TypeInv, TypeOK
  <1>9. CallInv'
    BY <1>0, <1>1, <1>3, <1>4 DEF CallInv
  <1>10. ReadsInv'
    BY <1>0, <1>1, <1>4, <1>7 DEF ReadsInv
  <1>11. OwedInv'
    BY <1>0, <1>1, <1>7 DEF OwedInv
  <1>12. ActiveInv'
    BY <1>0, <1>1, <1>2, <1>5 DEF ActiveInv
  <1>13. \A e \in Entry : Active(e)' => e[1] \in issued
    <2>1. ASSUME NEW e \in Entry, Active(e)'
          PROVE  e[1] \in issued
      <3>1. Active(e) /\ remaining[e] # 0
        BY <1>5, <2>1
      <3>2. e[1] \in issued \/ (call.op = "load" /\ e[1] = call.il)
        BY <1>0, <1>1, <3>1 DEF WhereInv, Adopting
      <3>3. ~(call.op = "load" /\ e[1] = call.il)
        BY <1>0, <1>1, <3>1 DEF AdoptInv
      <3>4. QED
        BY <3>2, <3>3
    <2>2. QED
      BY <2>1
  <1>14. WhereInv'
    <2>1. issued' = issued /\ call' = call /\ pc' # "quiesce"
      BY <1>1, <1>4
    <2>2. call.op = "issue" => call.il \in issued /\ \A e \in Entry : Active(e) => e[1] # call.il
      BY <1>0, <1>1 DEF WhereInv
    <2>3. call.op = "load" => call.il \notin issued
      BY <1>0, <1>1 DEF WhereInv
    <2>4. QED
      BY <1>5, <1>13, <2>1, <2>2, <2>3 DEF WhereInv
  <1>15. AdoptInv'
    <2>1. call.op = "load" => adopted \subseteq valid'
      <3>1. ASSUME call.op = "load", NEW e \in adopted
            PROVE  e \in valid'
        <4>1. remaining[e] = 0 /\ (Active(e) \/ e \in valid)
          BY <1>0, <1>1, <3>1 DEF AdoptInv, Adopting
        <4>2. e \in D \/ e \in valid
          BY <4>1 DEF Active, D
        <4>3. QED
          BY <1>2, <4>2
      <3>2. QED
        BY <3>1
    <2>2. pc' = "stage" => call.op = "load"
      BY <1>1, <1>3
    <2>3. adopted' = adopted
      BY <1>1
    <2>4. QED
      BY <1>4, <2>1, <2>2, <2>3 DEF AdoptInv, Adopting
  <1>16. PagesInv'
    <2>1. committed \subseteq Entry
      BY <1>0 DEF TypeInv, TypeOK
    <2>2. QED
      BY <1>0, <1>1, <1>2, <1>6, <2>1 DEF PagesInv
  <1>17. LruIsValidSet' /\ ResidentComplete'
    <2>1. Slices(valid) \subseteq filled
      BY <1>0, <1>1 DEF ResidentComplete, Slices
    <2>2. Slices(valid') \subseteq filled'
      BY <1>1, <1>2, <2>1 DEF Slices
    <2>3. QED
      BY <1>2, <1>4, <2>2 DEF LruIsValidSet, ResidentComplete, Slices
  <1>18. QED
    BY <1>8, <1>9, <1>10, <1>11, <1>12, <1>14, <1>15, <1>16, <1>17 DEF IInv

\* After the quiesce nothing is queued, read or owed any more.
LEMMA QuiesceEndKeeps ==
  ASSUME IInv, QuiesceEnd
  PROVE  IInv'
  <1>0. /\ TypeInv /\ CallInv /\ ReadsInv /\ OwedInv /\ ActiveInv /\ WhereInv /\ AdoptInv /\ PagesInv
        /\ LruIsValidSet /\ ResidentComplete
    BY DEF IInv
  <1> DEFINE D == ToSet(done)
             U == Unfinished
  <1>1. /\ pc = "quiesce" /\ call.op \in {"load", "settle", "shrink"} /\ ~(mode.adopt /\ call.op = "load")
        /\ jobs = << >> /\ Inflight = {}
        /\ pc' = CASE call.op = "load" -> "stage" [] call.op = "shrink" -> "evict" [] OTHER -> "idle"
        /\ done' = << >> /\ ToSet(done') = {} /\ IsInjective(done')
        /\ cacheMax' = IF call.op = "shrink" THEN call.budget ELSE cacheMax
        /\ touched' = {}
        /\ UNCHANGED <<mode, jobs, reading, call, adopted, asleep, driverVars>>
    BY <1>0, NothingListed DEF QuiesceEnd, CallInv, ReadsInv, ReadsWaitedOut
  <1>2. /\ valid' = valid \cup D /\ current' \subseteq current
        /\ lru' \in Seq(Entry) /\ IsInjective(lru') /\ ToSet(lru') = valid'
        /\ resident' \in Nat /\ resident' = Cardinality(valid')
        /\ \A e \in D : e \in Entry /\ e \notin valid /\ remaining[e] = 0 /\ e \in committed
        /\ Slices(D) \subseteq filled
    BY Integrated DEF QuiesceEnd
  <1>3. /\ committed' = committed \ U /\ filled' = filled \ Slices(U)
        /\ remaining' = [e \in Entry |-> IF e \in U \cup D THEN 0 ELSE remaining[e]]
    BY DEF QuiesceEnd
  <1>4. /\ call.op = "load" => pc' = "stage"
        /\ call.op = "shrink" => pc' = "evict"
        /\ call.op = "settle" => pc' = "idle"
    BY <1>1
  <1>5. pc' \in {"stage", "evict", "idle"}
    BY <1>1, <1>4
  <1>6. U \subseteq Entry /\ U \cap valid = {} /\ U \cap D = {} /\ \A e \in Entry : remaining[e] # 0 => e \in U
    <2>1. touched \subseteq Entry
      BY <1>0 DEF TypeInv, TypeOK
    <2>2. QED
      BY <1>0, <1>2, <2>1 DEF ActiveInv, Unfinished, Active
  <1>7. \A e \in Entry : Active(e) => e \in U \/ e \in D
    BY <1>6 DEF Active
  <1> HIDE DEF D, U
  <1> USE DEF driverVars
  <1>8. \A e \in Entry : remaining'[e] = 0 /\ ~Active(e)'
    BY <1>1, <1>3, <1>6 DEF Active
  <1>9. Inflight' = {} /\ Flying' = {} /\ jobs' = << >> /\ ToSet(jobs') = {} /\ IsInjective(jobs')
    BY <1>1, NothingListed DEF Inflight, Flying
  <1>10. TypeInv'
    <2>1. valid' \subseteq Entry /\ current' \subseteq Entry /\ committed' \subseteq Entry
      BY <1>0, <1>2, <1>3 DEF TypeInv, TypeOK
    <2>2. done' \in Seq(Entry)
      BY <1>1
    <2>3. remaining' \in [Entry -> 0..Cardinality(Projs)]
      <3>1. 0 \in 0..Cardinality(Projs)
        BY ProjsInOrder
      <3>2. remaining \in [Entry -> 0..Cardinality(Projs)]
        BY <1>0 DEF TypeInv, TypeOK
      <3>3. QED
        BY <1>3, <3>1, <3>2
    <2>4. cacheMax' \in 1..Total
      BY <1>0, <1>1 DEF TypeInv, TypeOK
    <2>5. filled' \subseteq Entry \X Projs
      BY <1>0, <1>3 DEF TypeInv, TypeOK
    <2>6. UNCHANGED <<mode, jobs, reading, call, adopted, asleep, cur, issued>> /\ touched' = {}
      BY <1>1
    <2>7. TypeOK'
      BY <1>0, <1>2, <1>5, <2>1, <2>2, <2>3, <2>4, <2>5, <2>6 DEF TypeInv, TypeOK
    <2>8. QED
      BY <1>0, <2>6, <2>7 DEF TypeInv
  <1>11. CallInv'
    BY <1>0, <1>1, <1>4, <1>5 DEF CallInv
  <1>12. ReadsInv' /\ OwedInv'
    BY <1>5, <1>9 DEF ReadsInv, OwedInv
  <1>13. ActiveInv'
    BY <1>1, <1>8 DEF ActiveInv
  <1>14. WhereInv'
    BY <1>0, <1>1, <1>4, <1>5, <1>8 DEF WhereInv
  <1>15. AdoptInv'
    BY <1>1, <1>4, <1>5 DEF AdoptInv, Adopting
  <1>16. PagesInv'
    <2>1. committed \subseteq Entry
      BY <1>0 DEF TypeInv, TypeOK
    <2>2. valid' \subseteq committed'
      BY <1>0, <1>2, <1>3, <1>6 DEF PagesInv
    <2>3. \A e \in committed' : e \in valid'
      BY <1>0, <1>2, <1>3, <1>7, <2>1 DEF PagesInv
    <2>4. filled' \subseteq Slices(committed')
      BY <1>0, <1>3 DEF PagesInv, Slices
    <2>5. QED
      BY <2>2, <2>3, <2>4 DEF PagesInv
  <1>17. LruIsValidSet' /\ ResidentComplete'
    <2>1. Slices(valid) \subseteq filled
      BY <1>0, <1>1 DEF ResidentComplete, Slices
    <2>2. Slices(valid') \subseteq filled'
      BY <1>2, <1>3, <1>6, <2>1 DEF Slices
    <2>3. QED
      BY <1>2, <1>5, <2>2 DEF LruIsValidSet, ResidentComplete, Slices
  <1>18. QED
    BY <1>10, <1>11, <1>12, <1>13, <1>14, <1>15, <1>16, <1>17 DEF IInv

\* The ids of a load are hot and resident, the misses among them before they
\* are read.
LEMMA StageKeeps ==
  ASSUME IInv, Stage
  PROVE  IInv'
  <1>0. /\ TypeInv /\ CallInv /\ ReadsInv /\ OwedInv /\ ActiveInv /\ WhereInv /\ AdoptInv /\ PagesInv
        /\ LruIsValidSet /\ ResidentComplete
    BY DEF IInv
  <1>1. PICK n \in 0..Len(call.ids) :
          LET misses == Without(Staged(n), valid)
          IN  /\ current' = ToSet(SubSeq(call.ids, 1, IF n < Len(call.ids) THEN n + 1 ELSE n))
              /\ valid' = valid \cup ToSet(misses)
              /\ lru' = LruPushFront(LruUnlink(lru, Staged(n)), Staged(n))
              /\ resident' = resident + Len(misses)
              /\ committed' = committed \cup ToSet(misses)
              /\ call' = [call EXCEPT !.ids = misses]
              /\ pc' = IF n < Len(call.ids) THEN "fatal" ELSE "read"
    BY DEF Stage
  <1> DEFINE ids == call.ids
             s == Staged(n)
             misses == Without(s, valid)
             S == ToSet(s)
             M == ToSet(misses)
  <1>2. /\ pc = "stage" /\ call.op = "load" /\ pc' \in {"read", "fatal"}
        /\ UNCHANGED <<mode, cacheMax, filled, specVars, adopted, asleep, driverVars>>
        /\ IsInjective(ids) /\ \A e \in ToSet(ids) : e[1] = call.il
    BY <1>0, <1>1 DEF Stage, CallInv
  <1>3. ids \in Seq(Entry) /\ Len(ids) \in Nat /\ ToSet(ids) \subseteq Entry /\ call \in Call
    BY <1>0, SeqFacts DEF TypeInv, Call
  <1>4. s \in Seq(Entry) /\ IsInjective(s) /\ S \subseteq ToSet(ids) /\ S \subseteq Entry
    BY <1>2, <1>3, ListSplits DEF Staged
  <1>5. current' \subseteq Entry
    <2> DEFINE k == IF n < Len(ids) THEN n + 1 ELSE n
    <2>1. k \in 0..Len(ids)
      BY <1>3
    <2> HIDE DEF k
    <2>2. ToSet(SubSeq(ids, 1, k)) \subseteq Entry
      BY <1>2, <1>3, <2>1, ListSplits
    <2>3. QED
      BY <1>1, <2>2 DEF k
  <1> HIDE DEF s
  <1>6. misses \in Seq(Entry) /\ IsInjective(misses) /\ M = S \ valid
    BY <1>4, WithoutLeaves
  <1>7. valid' = valid \cup M /\ committed' = committed \cup M
    BY <1>1 DEF s
  <1>8. lru' \in Seq(Entry) /\ IsInjective(lru') /\ ToSet(lru') = valid'
    <2>1. lru' = LruPushFront(LruUnlink(lru, s), s)
      BY <1>1 DEF s
    <2>2. valid' = valid \cup S
      BY <1>6, <1>7
    <2> HIDE DEF S
    <2>3. QED
      BY <1>0, <1>4, <2>1, <2>2, Promoted DEF S
  <1>9. resident' \in Nat /\ resident' = Cardinality(valid')
    <2>1. resident' = resident + Len(misses)
      BY <1>1 DEF s
    <2>2. M \cap valid = {}
      BY <1>6
    <2> HIDE DEF misses
    <2>3. QED
      BY <1>0, <1>6, <1>7, <2>1, <2>2, Counted
  <1>10. call' = [call EXCEPT !.ids = misses]
    BY <1>1 DEF s
  <1> HIDE DEF misses
  <1>11. /\ call' \in Call /\ call'.op = call.op /\ call'.il = call.il /\ call'.ids = misses
         /\ call'.budget = call.budget
    BY <1>3, <1>6, <1>10 DEF Call
  <1> USE DEF specVars, driverVars
  <1>12. \A e \in M : e \in Entry /\ ~Active(e)
    <2>1. \A e \in M : e \in Entry /\ e[1] = call.il
      BY <1>2, <1>3, <1>4, <1>6
    <2>2. \A e \in Entry : Active(e) => e[1] \in issued
      BY <1>0, <1>2 DEF WhereInv, Adopting
    <2>3. call.il \notin issued
      BY <1>0, <1>2 DEF WhereInv
    <2>4. QED
      BY <2>1, <2>2, <2>3
  <1> HIDE DEF M, S, ids
  <1>13. Inflight' = Inflight /\ Flying' = Flying /\ \A e \in Entry : Active(e)' <=> Active(e)
    BY <1>2 DEF Inflight, Flying, Active
  <1>14. TypeInv'
    <2>1. valid' \subseteq Entry /\ committed' \subseteq Entry
      BY <1>0, <1>7, <1>12 DEF TypeInv, TypeOK
    <2>2. call'.op \in {"none", "load", "settle", "issue", "shrink"}
      BY <1>2, <1>11
    <2>3. TypeOK'
      BY <1>0, <1>2, <1>5, <1>8, <1>9, <2>1, <2>2 DEF TypeInv, TypeOK
    <2>4. QED
      BY <1>2, <1>11, <2>3 DEF TypeInv
  <1>15. CallInv'
    <2>1. \A e \in M : e[1] = call.il
      BY <1>2, <1>4, <1>6 DEF ids
    <2>2. QED
      BY <1>2, <1>6, <1>7, <1>11, <2>1 DEF CallInv, M
  <1>16. ReadsInv' /\ OwedInv'
    BY <1>0, <1>2, <1>13 DEF ReadsInv, OwedInv
  <1>17. ActiveInv'
    <2>1. \A e \in Entry : Active(e) => e \notin valid' /\ e \in committed'
      BY <1>0, <1>7, <1>12 DEF ActiveInv
    <2>2. QED
      BY <1>0, <1>2, <1>13, <2>1 DEF ActiveInv
  <1>18. WhereInv'
    BY <1>0, <1>2, <1>11, <1>13 DEF WhereInv, Adopting
  <1>19. AdoptInv'
    BY <1>2 DEF AdoptInv, Adopting
  <1>20. PagesInv'
    <2>1. committed \subseteq Entry
      BY <1>0 DEF TypeInv, TypeOK
    <2>2. filled' \subseteq Slices(committed')
      BY <1>0, <1>2, <1>7 DEF PagesInv, Slices
    <2>3. QED
      BY <1>0, <1>7, <1>13, <2>1, <2>2 DEF PagesInv
  <1>21. LruIsValidSet' /\ ResidentComplete'
    <2>1. Slices(valid) \subseteq filled
      BY <1>0, <1>2 DEF ResidentComplete, Slices
    <2>2. valid' \ ToSet(call'.ids) \subseteq valid
      BY <1>7, <1>11 DEF M
    <2>3. Slices(valid' \ ToSet(call'.ids)) \subseteq filled'
      BY <1>2, <2>1, <2>2 DEF Slices
    <2>4. QED
      BY <1>2, <1>8, <1>9, <2>3 DEF LruIsValidSet, ResidentComplete
  <1>22. QED
    BY <1>14, <1>15, <1>16, <1>17, <1>18, <1>19, <1>20, <1>21 DEF IInv

\* The batch fills what the load staged.
LEMMA ReadBatchKeeps ==
  ASSUME IInv, ReadBatch
  PROVE  IInv'
  <1>0. /\ TypeInv /\ CallInv /\ ReadsInv /\ OwedInv /\ ActiveInv /\ WhereInv /\ AdoptInv /\ PagesInv
        /\ LruIsValidSet /\ ResidentComplete
    BY DEF IInv
  <1> DEFINE M == ToSet(call.ids)
  <1>1. /\ pc = "read" /\ call.op = "load" /\ M \subseteq valid /\ M \subseteq committed
        /\ UNCHANGED <<mode, cacheVars, committed, specVars, call, adopted, asleep, driverVars>>
        /\ pc' \in {"evict", "fatal"}
        /\ (filled' = filled \cup Slices(M) /\ pc' = "evict") \/ (filled' = filled /\ pc' = "fatal")
    BY <1>0 DEF ReadBatch, CallInv, PagesInv
  <1> HIDE DEF M
  <1> USE DEF cacheVars, specVars, driverVars
  <1>2. filled \subseteq filled' /\ filled' \subseteq filled \cup Slices(M)
    BY <1>1
  <1>3. Inflight' = Inflight /\ Flying' = Flying /\ \A e \in Entry : Active(e)' <=> Active(e)
    BY <1>1 DEF Inflight, Flying, Active
  <1>4. valid \subseteq Entry /\ M \subseteq Entry
    BY <1>0, <1>1 DEF TypeInv, TypeOK
  <1>5. TypeInv'
    <2>1. filled' \subseteq Entry \X Projs
      BY <1>0, <1>2, <1>4 DEF TypeInv, TypeOK, Slices
    <2>2. QED
      BY <1>0, <1>1, <2>1 DEF TypeInv, TypeOK
  <1>6. CallInv' /\ ReadsInv'
    BY <1>0, <1>1, <1>3 DEF CallInv, ReadsInv
  <1>7. OwedInv'
    <2> SUFFICES ASSUME NEW k \in ToSet(jobs) \cup Flying
                 PROVE  remaining[k.entry] # 0 /\ <<k.entry, k.proj>> \notin filled'
      BY <1>1, <1>3 DEF OwedInv
    <2>1. k \in Job /\ remaining[k.entry] # 0 /\ <<k.entry, k.proj>> \notin filled
      BY <1>0, Flights DEF OwedInv
    <2>2. k.entry \in Entry /\ k.entry \notin valid
      BY <1>0, <2>1 DEF ActiveInv, Active, Job
    <2>3. QED
      BY <1>1, <1>2, <2>1, <2>2 DEF Slices
  <1>8. ActiveInv'
    <2>1. \A e \in Entry : Active(e) => Cardinality(Missing(e, filled')) <= remaining[e]
      <3>1. ASSUME NEW e \in Entry, Active(e)
            PROVE  Cardinality(Missing(e, filled')) <= remaining[e]
        <4>1. Cardinality(Missing(e, filled')) <= Cardinality(Missing(e, filled))
          BY <1>2, MissingLess
        <4>2. Cardinality(Missing(e, filled)) <= remaining[e] /\ remaining[e] \in 0..Cardinality(Projs)
          BY <1>0, <3>1 DEF ActiveInv, TypeInv, TypeOK
        <4>3. Cardinality(Missing(e, filled')) \in Nat /\ Cardinality(Missing(e, filled)) \in Nat /\ remaining[e] \in Nat
          BY <4>2, MissingFacts, ProjsInOrder
        <4>4. QED
          BY <4>1, <4>2, <4>3
      <3>2. QED
        BY <3>1
    <2>2. QED
      BY <1>0, <1>1, <1>3, <2>1 DEF ActiveInv
  <1>9. WhereInv' /\ AdoptInv'
    BY <1>0, <1>1, <1>3 DEF WhereInv, AdoptInv, Adopting
  <1>10. PagesInv'
    <2>1. committed \subseteq Entry
      BY <1>0 DEF TypeInv, TypeOK
    <2>2. filled' \subseteq Slices(committed)
      BY <1>0, <1>1, <1>2 DEF PagesInv, Slices
    <2>3. QED
      BY <1>0, <1>1, <1>3, <2>1, <2>2 DEF PagesInv
  <1>11. LruIsValidSet' /\ ResidentComplete'
    <2>1. Slices(valid \ M) \subseteq filled
      BY <1>0, <1>1 DEF ResidentComplete, M
    <2>2. pc' = "evict" => Slices(valid) \subseteq filled'
      BY <1>1, <2>1 DEF Slices
    <2>3. pc' # "fatal" => Slices(valid' \ (IF pc' = "read" THEN ToSet(call'.ids) ELSE {})) \subseteq filled'
      BY <1>1, <2>2 DEF Slices
    <2>4. QED
      BY <1>0, <1>1, <2>3 DEF LruIsValidSet, ResidentComplete
  <1>12. QED
    BY <1>5, <1>6, <1>7, <1>8, <1>9, <1>10, <1>11 DEF IInv

LEMMA LeastNumber ==
  ASSUME NEW T, T \subseteq Nat, T # {}
  PROVE  \E x \in T : \A y \in T : x <= y
  <1>1. PICK x \in T : \A y \in T : ~ (<<y, x>> \in OpToRel(<, Nat))
    BY NatLessThanWellFounded, WFMin
  <1>2. ASSUME NEW y \in T
        PROVE  x <= y
    <2>1. ~(y < x) /\ x \in Nat /\ y \in Nat
      BY <1>1 DEF OpToRel
    <2>2. QED
      BY <2>1
  <1>3. QED
    BY <1>2

\* The cold end of the list goes, with its pages.
LEMMA EvictKeeps ==
  ASSUME IInv, EvictToBudget
  PROVE  IInv'
  <1>0. /\ TypeInv /\ CallInv /\ ReadsInv /\ OwedInv /\ ActiveInv /\ WhereInv /\ AdoptInv /\ PagesInv
        /\ LruIsValidSet /\ ResidentComplete
    BY DEF IInv
  <1> DEFINE StopAt(n) == \/ resident - n <= cacheMax
                          \/ n = Len(lru)
                          \/ Spares(lru[Len(lru) - n])
             n == CHOOSE n \in 0..Len(lru) : StopAt(n) /\ \A k \in 0..(n - 1) : ~StopAt(k)
             a == SubSeq(lru, 1, Len(lru) - n)
             b == SubSeq(lru, Len(lru) - n + 1, Len(lru))
             out == ToSet(b)
  <1>1. lru \in Seq(Entry) /\ Len(lru) \in Nat /\ IsInjective(lru) /\ ToSet(lru) = valid
        /\ resident = Len(lru) /\ Len(lru) = Cardinality(valid)
    BY <1>0, SeqFacts, ListCounts DEF TypeInv, TypeOK, LruIsValidSet
  <1>2. n \in 0..Len(lru)
    <2> DEFINE T == {k \in 0..Len(lru) : StopAt(k)}
    <2>1. Len(lru) \in T /\ T \subseteq Nat
      BY <1>1
    <2>2. PICK x \in T : \A y \in T : x <= y
      <3> HIDE DEF T
      <3>1. QED
        BY <2>1, LeastNumber
    <2>3. x \in 0..Len(lru) /\ StopAt(x)
      OBVIOUS
    <2> HIDE DEF StopAt
    <2>4. \A k \in 0..(x - 1) : ~StopAt(k)
      BY <1>1, <2>2, <2>3
    <2>5. QED
      BY <2>3, <2>4
  <1>3. /\ pc = "evict" /\ pc' = "idle" /\ call' = NoCall /\ adopted' = {}
        /\ valid' = valid \ out /\ lru' = a /\ resident' = resident - n
        /\ committed' = committed \ out /\ filled' = filled \ Slices(out)
        /\ UNCHANGED <<mode, current, cacheMax, specVars, asleep, driverVars>>
    BY DEF EvictToBudget
  <1> HIDE DEF n
  <1>4. /\ a \in Seq(Entry) /\ Len(a) = Len(lru) - n /\ IsInjective(a)
        /\ ToSet(a) \cup out = valid /\ ToSet(a) \cap out = {}
    <2> DEFINE k == Len(lru) - n
    <2>1. k \in 0..Len(lru)
      BY <1>1, <1>2
    <2> HIDE DEF k
    <2>2. LET p == SubSeq(lru, 1, k)
              q == SubSeq(lru, k + 1, Len(lru))
          IN  /\ p \in Seq(Entry) /\ Len(p) = k /\ IsInjective(p)
              /\ ToSet(p) \cup ToSet(q) = ToSet(lru) /\ ToSet(p) \cap ToSet(q) = {}
      BY <1>1, <2>1, ListSplits
    <2>3. QED
      BY <1>1, <2>2 DEF k
  <1> HIDE DEF a, b, out
  <1>5. ToSet(a) = valid' /\ out \subseteq valid
    BY <1>3, <1>4
  <1>6. resident' \in Nat /\ resident' = Cardinality(valid')
    <2>1. Cardinality(ToSet(a)) = Len(a) /\ Len(a) \in Nat
      BY <1>4, ListCounts, SeqFacts
    <2>2. QED
      BY <1>1, <1>3, <1>4, <1>5, <2>1
  <1>7. NoCall \in Call /\ NoCall.op = "none" /\ NoCall.ids = << >>
    BY NoCallFacts, 0 \in Nat
  <1> USE DEF specVars, driverVars
  <1>8. Inflight' = Inflight /\ Flying' = Flying /\ \A e \in Entry : Active(e)' <=> Active(e)
    BY <1>3 DEF Inflight, Flying, Active
  <1>9. TypeInv'
    <2>1. valid' \subseteq Entry /\ committed' \subseteq Entry /\ filled' \subseteq Entry \X Projs /\ adopted' \subseteq Entry
      BY <1>0, <1>3 DEF TypeInv, TypeOK
    <2>2. lru' \in Seq(Entry)
      BY <1>3, <1>4
    <2>3. QED
      BY <1>0, <1>3, <1>6, <1>7, <2>1, <2>2 DEF TypeInv, TypeOK
  <1>10. CallInv'
    BY <1>3, <1>7, NothingListed DEF CallInv
  <1>11. ReadsInv'
    BY <1>0, <1>3, <1>8 DEF ReadsInv
  <1>12. OwedInv'
    BY <1>0, <1>3, <1>8 DEF OwedInv
  <1>13. \A e \in Entry : Active(e) => e \notin out
    BY <1>0, <1>5 DEF ActiveInv
  <1>14. ActiveInv'
    <2>1. \A e \in Entry : Active(e) => Cardinality(Missing(e, filled')) <= remaining[e]
      <3>1. ASSUME NEW e \in Entry, Active(e)
            PROVE  Cardinality(Missing(e, filled')) <= remaining[e]
        <4>1. \A p \in Projs : <<e, p>> \in filled => <<e, p>> \in filled'
          BY <1>3, <1>13, <3>1 DEF Slices
        <4>2. Cardinality(Missing(e, filled')) <= Cardinality(Missing(e, filled))
          BY <4>1, MissingLess
        <4>3. Cardinality(Missing(e, filled)) <= remaining[e] /\ remaining[e] \in 0..Cardinality(Projs)
          BY <1>0, <3>1 DEF ActiveInv, TypeInv, TypeOK
        <4>4. Cardinality(Missing(e, filled')) \in Nat /\ Cardinality(Missing(e, filled)) \in Nat /\ remaining[e] \in Nat
          BY <4>3, MissingFacts, ProjsInOrder
        <4>5. QED
          BY <4>2, <4>3, <4>4
      <3>2. QED
        BY <3>1
    <2>2. \A e \in Entry : Active(e) => e \notin valid' /\ e \in committed'
      BY <1>0, <1>3, <1>13 DEF ActiveInv
    <2>3. QED
      BY <1>0, <1>3, <1>8, <2>1, <2>2 DEF ActiveInv
  <1>15. WhereInv' /\ AdoptInv'
    BY <1>0, <1>3, <1>8 DEF WhereInv, AdoptInv, Adopting
  <1>16. PagesInv'
    <2>1. committed \subseteq Entry
      BY <1>0 DEF TypeInv, TypeOK
    <2>2. filled' \subseteq Slices(committed')
      BY <1>0, <1>3 DEF PagesInv, Slices
    <2>3. QED
      BY <1>0, <1>3, <1>8, <2>1, <2>2 DEF PagesInv
  <1>17. LruIsValidSet' /\ ResidentComplete'
    <2>1. Slices(valid) \subseteq filled
      BY <1>0, <1>3 DEF ResidentComplete, Slices
    <2>2. Slices(valid') \subseteq filled'
      BY <1>3, <2>1 DEF Slices
    <2>3. QED
      BY <1>3, <1>4, <1>5, <1>6, <2>2 DEF LruIsValidSet, ResidentComplete, Slices
  <1>18. QED
    BY <1>9, <1>10, <1>11, <1>12, <1>14, <1>15, <1>16, <1>17 DEF IInv

\* The experts of a list that are neither resident nor owed get pages, their
\* slices get queued, and a resident one is retained.
LEMMA PrefetchKeeps ==
  ASSUME IInv, Prefetch
  PROVE  IInv'
  <1>0. /\ TypeInv /\ CallInv /\ ReadsInv /\ OwedInv /\ ActiveInv /\ WhereInv /\ AdoptInv /\ PagesInv
        /\ LruIsValidSet /\ ResidentComplete
    BY DEF IInv
  <1> DEFINE cand == Without(call.ids, {e \in Entry : ~Absent(e)})
  <1>1. PICK n \in 0..Len(cand) :
          LET queued == Whole(cand, n)
              lost == IF n < Len(cand) THEN {cand[n + 1]} ELSE {}
          IN  /\ committed' = (committed \cup ToSet(queued)) \ lost
              /\ filled' = filled \ Slices(lost)
              /\ remaining' = [e \in Entry |-> IF e \in ToSet(queued)
                                                 THEN Cardinality(Projs) ELSE remaining[e]]
              /\ touched' = touched \cup ToSet(queued)
              /\ jobs' = jobs \o JobsOf(queued)
    BY DEF Prefetch
  <1> DEFINE queued == Whole(cand, n)
             Q == ToSet(queued)
             lost == IF n < Len(cand) THEN {cand[n + 1]} ELSE {}
             C == ToSet(cand)
  <1>2. /\ pc = "prefetch" /\ pc' = "idle" /\ call' = NoCall /\ call.op = "issue"
        /\ UNCHANGED <<mode, valid, current, resident, cacheMax, done, reading, adopted, asleep, driverVars>>
    BY <1>0 DEF Prefetch, CallInv
  <1>3. /\ call.ids \in Seq(Entry) /\ IsInjective(call.ids) /\ ToSet(call.ids) \subseteq Entry
        /\ \A e \in ToSet(call.ids) : e[1] = call.il
    BY <1>0, SeqFacts DEF TypeInv, CallInv, Call
  <1>4. /\ cand \in Seq(Entry) /\ IsInjective(cand)
        /\ C = ToSet(call.ids) \ {e \in Entry : ~Absent(e)}
    BY <1>3, WithoutLeaves
  <1>5. \A e \in C : e \in Entry /\ e[1] = call.il /\ e \notin valid /\ remaining[e] = 0
    BY <1>3, <1>4 DEF Absent
  <1> HIDE DEF cand
  <1>6. /\ queued \in Seq(Entry) /\ IsInjective(queued) /\ Q \subseteq C
        /\ lost \subseteq C /\ lost \cap Q = {}
    <2> DEFINE a == SubSeq(cand, 1, n)
    <2>1. a \in Seq(Entry) /\ Len(a) = n /\ IsInjective(a) /\ (\A i \in 1..n : a[i] = cand[i]) /\ ToSet(a) \subseteq C
      BY <1>4, ListSplits
    <2>2. queued = a
      BY DEF Whole
    <2> HIDE DEF a, queued
    <2>3. Len(cand) \in Nat /\ DOMAIN cand = 1..Len(cand) /\ \A i \in DOMAIN cand : cand[i] \in C
      BY <1>4, SeqFacts
    <2>4. ASSUME n < Len(cand)
          PROVE  cand[n + 1] \in C /\ cand[n + 1] \notin ToSet(a)
      <3>1. n + 1 \in DOMAIN cand
        BY <2>3, <2>4
      <3>2. ASSUME cand[n + 1] \in ToSet(a)
            PROVE  FALSE
        <4>1. PICK i \in DOMAIN a : a[i] = cand[n + 1]
          BY <2>1, <3>2, SeqFacts
        <4>2. i \in 1..n
          BY <2>1, SeqFacts
        <4>3. i \in DOMAIN cand /\ cand[i] = cand[n + 1] /\ i # n + 1
          BY <2>1, <2>3, <2>4, <4>1, <4>2
        <4>4. QED
          BY <1>4, <3>1, <4>3 DEF IsInjective
      <3>3. QED
        BY <2>3, <3>1, <3>2
    <2>5. QED
      BY <2>1, <2>2, <2>4
  <1>7. \A e \in C : ~Active(e) /\ e \notin committed
    <2>1. \A e \in Entry : Active(e) => e[1] # call.il
      BY <1>0, <1>2 DEF WhereInv
    <2>2. QED
      BY <1>0, <1>5, <2>1 DEF PagesInv
  <1>8. /\ committed' = committed \cup Q /\ filled' = filled
        /\ remaining' = [e \in Entry |-> IF e \in Q THEN NSlices ELSE remaining[e]]
        /\ touched' = touched \cup Q
        /\ jobs' = jobs \o JobsOf(queued)
    <2>1. filled \cap Slices(lost) = {}
      BY <1>0, <1>6, <1>7 DEF PagesInv, Slices
    <2>2. committed \cap lost = {}
      BY <1>6, <1>7
    <2> HIDE DEF lost, queued
    <2>3. /\ committed' = (committed \cup Q) \ lost /\ filled' = filled \ Slices(lost)
          /\ remaining' = [e \in Entry |-> IF e \in Q THEN NSlices ELSE remaining[e]]
          /\ touched' = touched \cup Q
          /\ jobs' = jobs \o JobsOf(queued)
      BY <1>1 DEF lost, queued, NSlices
    <2>4. QED
      BY <1>6, <2>1, <2>2, <2>3
  <1>9. lru' \in Seq(Entry) /\ IsInjective(lru') /\ ToSet(lru') = valid
    <2>1. PICK keep \in {call.ids} \cup (IF mode.adopt THEN {} ELSE {<< >>}) : lru' = Retained(keep)
      BY DEF Prefetch
    <2>2. keep \in Seq(Entry) /\ IsInjective(keep) /\ ToSet(keep) \subseteq Entry
      <3>1. CASE keep = call.ids
        BY <1>3, <3>1
      <3>2. CASE keep = << >>
        <4>1. << >> \in Seq(Entry)
          OBVIOUS
        <4>2. QED
          BY <3>2, <4>1, NothingListed
      <3>3. QED
        BY <2>1, <3>1, <3>2
    <2> DEFINE kept == Without(keep, Entry \ valid)
    <2>3. kept \in Seq(Entry) /\ IsInjective(kept) /\ ToSet(kept) = ToSet(keep) \ (Entry \ valid)
      BY <2>2, WithoutLeaves
    <2>4. lru' = LruPushFront(LruUnlink(lru, kept), kept)
      BY <2>1 DEF Retained
    <2> HIDE DEF kept
    <2>5. lru' \in Seq(Entry) /\ IsInjective(lru') /\ ToSet(lru') = valid \cup ToSet(kept)
      BY <1>0, <2>3, <2>4, Promoted
    <2>6. QED
      BY <2>2, <2>3, <2>5
  <1>10. /\ JobsOf(queued) \in Seq(Job) /\ IsInjective(JobsOf(queued))
         /\ ToSet(JobsOf(queued)) = {j \in Job : j.entry \in Q}
    BY <1>6, JobsAreSlices
  <1> HIDE DEF queued, Q, C, lost
  <1> USE DEF driverVars
  <1>11. Q \subseteq Entry /\ Q \cap valid = {} /\ \A e \in Q : ~Active(e) /\ e \notin committed /\ remaining[e] = 0 /\ e[1] = call.il
    BY <1>5, <1>6, <1>7
  <1>12. Inflight' = Inflight /\ Flying' = Flying
    BY <1>2 DEF Inflight, Flying
  <1>13. \A j \in ToSet(jobs) \cup Flying : j \in Job /\ j.entry \in Entry /\ j.proj \in Projs /\ j.entry \notin Q
    BY <1>0, <1>11, Flights DEF OwedInv, Job
  <1>14. jobs' \in Seq(Job) /\ IsInjective(jobs') /\ ToSet(jobs') = ToSet(jobs) \cup {j \in Job : j.entry \in Q}
    <2>1. jobs \in Seq(Job) /\ IsInjective(jobs)
      BY <1>0 DEF TypeInv, TypeOK, ReadsInv
    <2>2. ToSet(jobs) \cap ToSet(JobsOf(queued)) = {}
      BY <1>10, <1>13
    <2>3. QED
      BY <1>8, <1>10, <2>1, <2>2, ListsJoin
  <1>15. NSlices \in Nat /\ NSlices # 0 /\ NSlices \in 0..NSlices
    BY ProjsInOrder DEF NSlices
  <1>16. /\ \A e \in Q : remaining'[e] = NSlices
         /\ \A e \in Entry \ Q : remaining'[e] = remaining[e]
         /\ remaining' \in [Entry -> 0..NSlices]
    <2>1. remaining \in [Entry -> 0..NSlices]
      BY <1>0 DEF TypeInv, TypeOK, NSlices
    <2>2. QED
      BY <1>8, <1>11, <1>15, <2>1
  <1>17. \A e \in Entry : Active(e)' <=> Active(e) \/ e \in Q
    BY <1>2, <1>15, <1>16 DEF Active
  <1>18. TypeInv'
    <2>1. NoCall \in Call /\ NoCall.op = "none"
      BY NoCallFacts, 0 \in Nat
    <2>2. committed' \subseteq Entry /\ touched' \subseteq Entry
      BY <1>0, <1>8, <1>11 DEF TypeInv, TypeOK
    <2>3. TypeOK'
      BY <1>0, <1>2, <1>8, <1>9, <1>14, <1>16, <2>1, <2>2 DEF TypeInv, TypeOK, NSlices
    <2>4. QED
      BY <1>2, <2>1, <2>3 DEF TypeInv
  <1>19. CallInv'
    BY <1>2, NoCallFacts, 0 \in Nat, NothingListed DEF CallInv
  <1>20. ReadsInv'
    <2>1. \A j \in ToSet(jobs') : j \notin Flying
      BY <1>0, <1>13, <1>14 DEF ReadsInv
    <2>2. QED
      BY <1>0, <1>2, <1>12, <1>14, <2>1 DEF ReadsInv
  <1>21. OwedInv'
    <2> SUFFICES ASSUME NEW k \in ToSet(jobs') \cup Flying
                 PROVE  remaining'[k.entry] # 0 /\ <<k.entry, k.proj>> \notin filled
      BY <1>8, <1>12 DEF OwedInv
    <2>1. CASE k \in ToSet(jobs) \cup Flying
      BY <1>0, <1>13, <1>16, <2>1 DEF OwedInv
    <2>2. CASE k \in Job /\ k.entry \in Q
      <3>1. k.entry \notin committed
        BY <1>11, <2>2
      <3>2. <<k.entry, k.proj>> \notin filled
        BY <1>0, <3>1 DEF PagesInv, Slices
      <3>3. QED
        BY <1>15, <1>16, <2>2, <3>2
    <2>3. QED
      BY <1>14, <2>1, <2>2
  <1>22. ActiveInv'
    <2>1. \A e \in Entry : Active(e)' => e \notin valid /\ e \in committed'
      BY <1>0, <1>8, <1>11, <1>17 DEF ActiveInv
    <2>2. \A e \in Entry : Active(e)' => Cardinality(Missing(e, filled)) <= remaining'[e]
      <3>1. ASSUME NEW e \in Entry, Active(e), e \notin Q
            PROVE  Cardinality(Missing(e, filled)) <= remaining'[e]
        BY <1>0, <1>16, <3>1 DEF ActiveInv
      <3>2. ASSUME NEW e \in Q
            PROVE  Cardinality(Missing(e, filled)) <= remaining'[e]
        BY <1>16, MissingFacts
      <3>3. QED
        BY <1>17, <3>1, <3>2
    <2>3. \A e \in ToSet(done) : remaining'[e] = 0
      <3>1. done \in Seq(Entry) /\ ToSet(done) \subseteq Entry
        BY <1>0, SeqFacts DEF TypeInv, TypeOK
      <3>2. \A e \in ToSet(done) : e \notin Q /\ remaining[e] = 0
        BY <1>0, <1>11 DEF ActiveInv, Active
      <3>3. QED
        BY <1>16, <3>1, <3>2
    <2>4. \A e \in Entry : remaining'[e] # 0 => e \in touched'
      BY <1>0, <1>8, <1>16 DEF ActiveInv
    <2>5. QED
      BY <1>0, <1>2, <1>8, <2>1, <2>2, <2>3, <2>4 DEF ActiveInv
  <1>23. WhereInv' /\ AdoptInv'
    <2>1. \A e \in Entry : Active(e) => e[1] \in issued
      BY <1>0, <1>2 DEF WhereInv, Adopting
    <2>2. call.il \in issued
      BY <1>0, <1>2 DEF WhereInv
    <2>3. \A e \in Entry : Active(e)' => e[1] \in issued'
      BY <1>2, <1>11, <1>17, <2>1, <2>2
    <2>4. QED
      BY <1>2, <2>3 DEF WhereInv, AdoptInv, Adopting
  <1>24. PagesInv'
    <2>1. committed \subseteq Entry
      BY <1>0 DEF TypeInv, TypeOK
    <2>2. filled \subseteq Slices(committed')
      BY <1>0, <1>8 DEF PagesInv, Slices
    <2>3. QED
      BY <1>0, <1>2, <1>8, <1>11, <1>17, <2>1, <2>2 DEF PagesInv
  <1>25. LruIsValidSet' /\ ResidentComplete'
    BY <1>0, <1>2, <1>8, <1>9 DEF LruIsValidSet, ResidentComplete
  <1>26. QED
    BY <1>18, <1>19, <1>20, <1>21, <1>22, <1>23, <1>24, <1>25 DEF IInv

(***************************************************************************)
(* Every step.                                                             *)
(***************************************************************************)

LEMMA StepKeeps ==
  ASSUME IssuedOnce, GuessesFail, IInv, [Next]_vars
  PROVE  IInv'
  <1>1. CASE BeginGraph \/ UNCHANGED vars
    BY <1>1, AsideKeeps
  <1>2. CASE \E il \in Layers : \E ids \in IdLists(il) : LoadLayer(ids)
    BY <1>2, LoadLayerKeeps
  <1>3. CASE Settle
    BY <1>3, SettleKeeps
  <1>4. CASE \E nl \in Layers : \E ids \in IdLists(nl) : Issue(nl, ids)
    BY <1>4, IssueKeeps
  <1>5. CASE \E b \in Budgets : SetCacheBudget(b)
    BY <1>5, SetCacheBudgetKeeps
  <1>6. CASE EvalStep
    <2>1. Eval \in Readers
      BY DEF Readers
    <2>2. CASE DrainAdopted
      BY <2>1, <2>2, TakeKeeps DEF DrainAdopted, OwnJobQueued
    <2>3. CASE AdoptWait
      BY <2>3, AsideKeeps
    <2>4. CASE IntegrateDone
      BY <2>4, IntegrateKeeps
    <2>5. CASE QuiesceEnd
      BY <2>5, QuiesceEndKeeps
    <2>6. CASE Stage
      BY <2>6, StageKeeps
    <2>7. CASE ReadBatch
      BY <2>7, ReadBatchKeeps
    <2>8. CASE EvictToBudget
      BY <2>8, EvictKeeps
    <2>9. CASE Prefetch
      BY <2>9, PrefetchKeeps
    <2>10. CASE ReadDone(Eval)
      BY <2>1, <2>10, ReadDoneKeeps
    <2>11. CASE ReadFailed(Eval)
      BY <2>1, <2>11, ReadFailedKeeps
    <2>12. QED
      BY <1>6, <2>2, <2>3, <2>4, <2>5, <2>6, <2>7, <2>8, <2>9, <2>10, <2>11 DEF EvalStep
  <1>7. ASSUME NEW l \in Lanes, LaneStep(l)
        PROVE  IInv'
    <2>1. l \in Readers
      BY DEF Readers
    <2>2. CASE Take(l)
      BY <2>1, <2>2, TakeKeeps DEF Take
    <2>3. CASE ReadDone(l)
      BY <2>1, <2>3, ReadDoneKeeps
    <2>4. CASE ReadFailed(l)
      BY <2>1, <2>4, ReadFailedKeeps
    <2>5. QED
      BY <1>7, <2>2, <2>3, <2>4 DEF LaneStep
  <1>8. QED
    BY <1>1, <1>2, <1>3, <1>4, <1>5, <1>6, <1>7 DEF Next

LEMMA Invariance ==
  ASSUME IssuedOnce, GuessesFail
  PROVE  Spec => []IInv
  <1>1. Init => IInv
    BY InitInv
  <1>2. IInv /\ [Next]_vars => IInv'
    BY StepKeeps
  <1>3. QED
    BY <1>1, <1>2, PTL DEF Spec

(***************************************************************************)
(* Theorems.  The first hypothesis is that a layer is issued once before    *)
(* it is loaded, the second that route-ahead never loses a read.            *)
(***************************************************************************)

\* The recency list, the valid set and the counter of residents agree,
\* whichever of the three ways an entry entered the cache by.
THEOREM ListIsTheCache ==
  ASSUME IssuedOnce, GuessesFail
  PROVE  Spec => []LruIsValidSet
  <1>1. IInv => LruIsValidSet
    BY DEF IInv
  <1>2. QED
    BY <1>1, Invariance, PTL

\* No queued job and no read in flight, cancelled or not, is of a resident
\* entry.
THEOREM ResidentsAreAtRest ==
  ASSUME IssuedOnce, GuessesFail
  PROVE  Spec => []ResidentHasNoLiveJobs
  <1>1. IInv => ResidentHasNoLiveJobs
    <2> SUFFICES ASSUME IInv
                 PROVE  ResidentHasNoLiveJobs
      OBVIOUS
    <2>1. TypeInv /\ OwedInv /\ ActiveInv
      BY DEF IInv
    <2>2. \A j \in ToSet(jobs) \cup Flying : j.entry \in Entry /\ j.entry \notin valid
      BY <2>1, Flights DEF OwedInv, ActiveInv, Active, Job
    <2>3. \A i \in DOMAIN jobs : jobs[i] \in ToSet(jobs)
      BY DEF ToSet
    <2>4. \A r \in Inflight : \E j \in Flying : j.entry = reading[r].entry
      BY <2>1, Flights
    <2>5. QED
      BY <2>2, <2>3, <2>4 DEF ResidentHasNoLiveJobs
  <1>2. QED
    BY <1>1, Invariance, PTL

\* A lane reads only into pages that are committed.
THEOREM PagesOutliveReads ==
  ASSUME IssuedOnce, GuessesFail
  PROVE  Spec => []NoReadIntoReleasedPages
  <1>1. IInv => NoReadIntoReleasedPages
    <2> SUFFICES ASSUME IInv
                 PROVE  NoReadIntoReleasedPages
      OBVIOUS
    <2>1. TypeInv /\ OwedInv /\ ActiveInv
      BY DEF IInv
    <2>2. \A j \in ToSet(jobs) \cup Flying : j.entry \in committed
      BY <2>1, Flights DEF OwedInv, ActiveInv, Active, Job
    <2>3. \A i \in DOMAIN jobs : jobs[i] \in ToSet(jobs)
      BY DEF ToSet
    <2>4. \A r \in Inflight : \E j \in Flying : j.entry = reading[r].entry
      BY <2>1, Flights
    <2>5. QED
      BY <2>2, <2>3, <2>4 DEF NoReadIntoReleasedPages
  <1>2. QED
    BY <1>1, Invariance, PTL

\* What is resident holds the file's data, but for the batch being read.
THEOREM ResidentsHoldTheirData ==
  ASSUME IssuedOnce, GuessesFail
  PROVE  Spec => []ResidentComplete
  <1>1. IInv => ResidentComplete
    BY DEF IInv
  <1>2. QED
    BY <1>1, Invariance, PTL

\* Between two calls no committed page is without an owner that will give it
\* back, and no entry is barred from speculation.
THEOREM NoPageIsLost ==
  ASSUME IssuedOnce, GuessesFail
  PROVE  Spec => []PagesAccounted
  <1>1. IInv => PagesAccounted
    <2> SUFFICES ASSUME IInv
                 PROVE  PagesAccounted
      OBVIOUS
    <2>1. TypeInv /\ ActiveInv /\ PagesInv
      BY DEF IInv
    <2>2. committed \subseteq Entry
      BY <2>1 DEF TypeInv, TypeOK
    <2>3. QED
      BY <2>1, <2>2 DEF ActiveInv, PagesInv, PagesAccounted, Active
  <1>2. QED
    BY <1>1, Invariance, PTL

\* A layer that stages finds resident what it adopted.
THEOREM AdoptedIsNotReadAgain ==
  ASSUME IssuedOnce, GuessesFail
  PROVE  Spec => []AdoptedIsResident
  <1>1. IInv => AdoptedIsResident
    BY DEF IInv, AdoptInv, AdoptedIsResident
  <1>2. QED
    BY <1>1, Invariance, PTL
=============================================================================
