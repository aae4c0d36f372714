------------------------------- MODULE RouterProofs -------------------------------
(***************************************************************************)
(* For any number of layers, experts and graphs, any chains of weight nodes, *)
(* any scores and any valid policy: what a layer computes was loaded for it   *)
(* but once after its graph moved, every slot is what was selected for it or   *)
(* weighs nothing, a layer is committed only to a ranking of its own token,    *)
(* and the probe grades predictions of the token it grades them on.           *)
(* The rankings themselves come first: for any experts, scores and limits.    *)
(***************************************************************************)
EXTENDS Router, FiniteSetTheorems, SequenceTheorems, TLAPS

\* An expert is not better than itself, two are always ordered, and the order
\* is transitive: equal scores fall to the index.
LEMMA BeatsIsOrder ==
  ASSUME NEW S \in SUBSET Nat, NEW s \in [S -> Int]
  PROVE  /\ \A a \in S : ~Beats(s, a, a)
         /\ \A a, b \in S : a # b => Beats(s, a, b) \/ Beats(s, b, a)
         /\ \A a, b, c \in S : Beats(s, a, b) /\ Beats(s, b, c) => Beats(s, a, c)
  BY DEF Beats

\* Whoever beats another has fewer experts above it.
LEMMA RankFollowsBeats ==
  ASSUME NEW S \in SUBSET Nat, IsFiniteSet(S), NEW D, S \subseteq D, D \subseteq Nat,
         NEW s \in [D -> Int],
         NEW a \in S, NEW b \in S, Beats(s, a, b)
  PROVE  Rank(s, S, a) \in Nat /\ Rank(s, S, b) \in Nat /\ Rank(s, S, a) < Rank(s, S, b)
<1>1. Better(s, S, a) \subseteq S /\ Better(s, S, b) \subseteq S
  BY DEF Better
<1>2. /\ IsFiniteSet(Better(s, S, a)) /\ Cardinality(Better(s, S, a)) \in Nat
      /\ IsFiniteSet(Better(s, S, b)) /\ Cardinality(Better(s, S, b)) \in Nat
  BY <1>1, FS_Subset, FS_CardinalityType
<1>3. a \notin Better(s, S, a)
  BY BeatsIsOrder DEF Better, Beats
<1>4. Better(s, S, a) \cup {a} \subseteq Better(s, S, b)
  <2> SUFFICES ASSUME NEW f \in S, f = a \/ Beats(s, f, a)
               PROVE  Beats(s, f, b)
    BY DEF Better
  <2>1. s[f] \in Int /\ s[a] \in Int /\ s[b] \in Int /\ f \in Nat /\ a \in Nat /\ b \in Nat
    OBVIOUS
  <2> QED
    BY <2>1 DEF Beats
<1>5. Cardinality(Better(s, S, a) \cup {a}) = Cardinality(Better(s, S, a)) + 1
  BY <1>2, <1>3, FS_AddElement
<1>6. Cardinality(Better(s, S, a) \cup {a}) <= Cardinality(Better(s, S, b))
  BY <1>2, <1>4, FS_Subset
<1> QED
  BY <1>2, <1>5, <1>6 DEF Rank

\* The other way round: a smaller rank beats, and ranks are distinct.
LEMMA BeatsFollowsRank ==
  ASSUME NEW S \in SUBSET Nat, IsFiniteSet(S), NEW D, S \subseteq D, D \subseteq Nat,
         NEW s \in [D -> Int],
         NEW a \in S, NEW b \in S
  PROVE  /\ Rank(s, S, a) = Rank(s, S, b) => a = b
         /\ Rank(s, S, a) < Rank(s, S, b) => Beats(s, a, b)
<1>1. a = b \/ Beats(s, a, b) \/ Beats(s, b, a)
  <2>1. s[a] \in Int /\ s[b] \in Int /\ a \in Nat /\ b \in Nat
    OBVIOUS
  <2> QED
    BY <2>1 DEF Beats
<1>2. CASE a = b
  <2>1. Better(s, S, a) \subseteq S
    BY DEF Better
  <2>2. Rank(s, S, a) \in Nat
    BY <2>1, FS_Subset, FS_CardinalityType DEF Rank
  <2> QED
    BY <1>2, <2>2
<1>3. CASE Beats(s, a, b)
  <2>1. Rank(s, S, b) \in Nat /\ Rank(s, S, a) \in Nat /\ Rank(s, S, a) < Rank(s, S, b)
    BY <1>3, RankFollowsBeats
  <2> QED
    BY <1>3, <2>1
<1>4. CASE Beats(s, b, a)
  <2>1. Rank(s, S, b) \in Nat /\ Rank(s, S, a) \in Nat /\ Rank(s, S, b) < Rank(s, S, a)
    BY <1>4, RankFollowsBeats
  <2> QED
    BY <2>1
<1> QED
  BY <1>1, <1>2, <1>3, <1>4

LEMMA RankBound ==
  ASSUME NEW S, IsFiniteSet(S), NEW s, NEW e \in S, ~Beats(s, e, e)
  PROVE  Rank(s, S, e) \in 0..(Cardinality(S) - 1)
<1>1. Better(s, S, e) \subseteq S /\ e \notin Better(s, S, e)
  BY DEF Better
<1>2. IsFiniteSet(Better(s, S, e)) /\ Cardinality(Better(s, S, e)) \in Nat
  BY <1>1, FS_Subset, FS_CardinalityType
<1>3. Cardinality(Better(s, S, e) \cup {e}) = Cardinality(Better(s, S, e)) + 1
  BY <1>1, <1>2, FS_AddElement
<1>4. Better(s, S, e) \cup {e} \in SUBSET S
  BY <1>1
<1>5. Cardinality(Better(s, S, e) \cup {e}) <= Cardinality(S) /\ Cardinality(S) \in Nat
  BY <1>4, FS_Subset, FS_CardinalityType
<1> QED
  BY <1>2, <1>3, <1>5 DEF Rank

\* Every rank below the number of experts is somebody's.
LEMMA RanksFill ==
  ASSUME NEW S \in SUBSET Nat, IsFiniteSet(S), NEW s \in [S -> Int],
         NEW i \in 0..(Cardinality(S) - 1)
  PROVE  \E e \in S : Rank(s, S, e) = i
<1> DEFINE n == Cardinality(S)
           r == [e \in S |-> Rank(s, S, e)]
<1>1. n \in Nat
  BY FS_CardinalityType
<1>2. \A e \in S : ~Beats(s, e, e)
  BY BeatsIsOrder
<1>3. \A e \in S : Rank(s, S, e) \in 0..(n - 1)
  BY <1>2, RankBound
<1>4. \A a, b \in S : Rank(s, S, a) = Rank(s, S, b) => a = b
  BY BeatsFollowsRank
<1>5. r \in Injection(S, 0..(n - 1))
  BY <1>3, <1>4 DEF Injection, IsInjective
<1>6. IsFiniteSet(0..(n - 1)) /\ Cardinality(0..(n - 1)) = n
  BY <1>1, FS_Interval
<1>7. r \in Surjection(S, 0..(n - 1))
  <2> HIDE DEF r
  <2> QED
    BY <1>5, <1>6, FS_Injection
<1>8. \E e \in S : r[e] = i
  BY <1>7 DEF Surjection
<1> QED
  BY <1>8
\* rank_top_k returns as many experts as it is asked for and there are, best
\* first, and no expert it leaves out is better than one it returns.
THEOREM BestFirst ==
  ASSUME NEW S \in SUBSET Nat, IsFiniteSet(S), NEW s \in [S -> Int], NEW k \in Nat
  PROVE  LET r == RankTopK(s, k)
             m == Least(k, Cardinality(S))
         IN  /\ r \in [1..m -> S]
             /\ \A i, j \in 1..m : i < j => Beats(s, r[i], r[j])
             /\ \A e \in S : (\A i \in 1..m : r[i] # e) => \A i \in 1..m : Beats(s, r[i], e)
<1> DEFINE m == Least(k, Cardinality(S))
           r == [i \in 1..m |-> CHOOSE e \in S : Rank(s, S, e) = i - 1]
<1>1. RankTopK(s, k) = r
  BY DEF RankTopK
<1>2. Cardinality(S) \in Nat /\ m \in Nat /\ m <= Cardinality(S) /\ m <= k
  BY FS_CardinalityType DEF Least
<1>3. \A i \in 1..m : r[i] \in S /\ Rank(s, S, r[i]) = i - 1
  <2> SUFFICES ASSUME NEW i \in 1..m
               PROVE  r[i] \in S /\ Rank(s, S, r[i]) = i - 1
    OBVIOUS
  <2>1. i - 1 \in 0..(Cardinality(S) - 1)
    BY <1>2
  <2>2. \E e \in S : Rank(s, S, e) = i - 1
    BY <2>1, RanksFill
  <2> QED
    BY <2>2
<1>4. \A i, j \in 1..m : i < j => Beats(s, r[i], r[j])
  <2> SUFFICES ASSUME NEW i \in 1..m, NEW j \in 1..m, i < j
               PROVE  Beats(s, r[i], r[j])
    OBVIOUS
  <2>1. Rank(s, S, r[i]) < Rank(s, S, r[j]) /\ r[i] \in S /\ r[j] \in S
    BY <1>2, <1>3
  <2> HIDE DEF r
  <2> QED
    BY <2>1, BeatsFollowsRank
<1>5. ASSUME NEW e \in S, \A i \in 1..m : r[i] # e, NEW i \in 1..m
      PROVE  Beats(s, r[i], e)
  <2>1. ~Beats(s, e, e)
    BY BeatsIsOrder
  <2>2. Rank(s, S, e) \in Nat
    BY <2>1, RankBound, <1>2
  <2>3. ~(Rank(s, S, e) + 1 \in 1..m)
    <3> SUFFICES ASSUME Rank(s, S, e) + 1 \in 1..m
                 PROVE  FALSE
      OBVIOUS
    <3> DEFINE p == Rank(s, S, e) + 1
    <3>1. p \in 1..m /\ r[p] \in S /\ Rank(s, S, r[p]) = p - 1 /\ r[p] # e
      BY <1>3, <1>5
    <3>2. Rank(s, S, r[p]) = Rank(s, S, e)
      BY <2>2, <3>1
    <3>3. PICK f \in S : f = r[p]
      BY <3>1
    <3> HIDE DEF r, p
    <3>4. Rank(s, S, f) = Rank(s, S, e) /\ f # e
      BY <3>1, <3>2, <3>3
    <3> QED
      BY <3>4, BeatsFollowsRank
  <2>4. Rank(s, S, r[i]) < Rank(s, S, e) /\ r[i] \in S
    BY <1>2, <1>3, <2>2, <2>3
  <2> HIDE DEF r
  <2> QED
    BY <2>4, BeatsFollowsRank
<1>6. r \in [1..m -> S]
  BY <1>3
<1> HIDE DEF r
<1> QED
  BY <1>1, <1>4, <1>5, <1>6
-----------------------------------------------------------------------------
\* The k best of a set of experts are k at most.
LEMMA TopIsBounded ==
  ASSUME NEW S \in SUBSET Nat, IsFiniteSet(S), NEW D \in SUBSET Nat, S \subseteq D,
         NEW s \in [D -> Int], NEW k \in Nat
  PROVE  IsFiniteSet(Top(s, S, k)) /\ Cardinality(Top(s, S, k)) <= k
<1> DEFINE T == Top(s, S, k)
           r == [e \in T |-> Rank(s, S, e)]
<1>1. T \subseteq S /\ \A e \in T : Rank(s, S, e) < k
  BY DEF Top
<1>2. \A e \in T : Rank(s, S, e) \in 0..(k - 1)
  <2> SUFFICES ASSUME NEW e \in T
               PROVE  Rank(s, S, e) \in 0..(k - 1)
    OBVIOUS
  <2>1. ~Beats(s, e, e)
    <3>1. e \in D /\ s[e] \in Int /\ e \in Nat
      BY <1>1
    <3> QED
      BY <3>1 DEF Beats
  <2>2. Rank(s, S, e) \in Nat
    BY <1>1, <2>1, RankBound, FS_CardinalityType
  <2> QED
    BY <1>1, <2>2
<1>3. \A a, b \in T : Rank(s, S, a) = Rank(s, S, b) => a = b
  BY <1>1, BeatsFollowsRank
<1> HIDE DEF T
<1>4. r \in Injection(T, 0..(k - 1))
  BY <1>2, <1>3 DEF Injection, IsInjective
<1>5. IsFiniteSet(0..(k - 1)) /\ Cardinality(0..(k - 1)) = k
  BY FS_Interval
<1> HIDE DEF r
<1> QED
  BY <1>4, <1>5, FS_Injection DEF T

\* build_spec_lists: the experts kept are resident and those read are not, at
\* most max are read, and both are among the nu the ranking expects.
THEOREM SpecListsSplit ==
  ASSUME NEW S \in SUBSET Nat, IsFiniteSet(S), NEW s \in [S -> Int],
         NEW weight \in [S -> Nat], NEW percent \in Nat, NEW nu \in Nat, NEW max \in Nat,
         NEW resident
  PROVE  LET l == SpecLists(s, weight, percent, nu, resident, max)
         IN  /\ l.keep \subseteq resident /\ l.spec \cap resident = {}
             /\ Cardinality(l.spec) <= max
             /\ l.keep \cup l.spec \subseteq Top(s, S, nu)
             /\ Cardinality(l.keep \cup l.spec) <= nu
<1> DEFINE worth == IF Cardinality(DOMAIN s) < nu THEN {}
                    ELSE Worth(s, weight, DOMAIN s, percent, nu)
           l == SpecLists(s, weight, percent, nu, resident, max)
<1>1. worth \subseteq Top(s, S, nu) /\ worth \subseteq S
  BY DEF Worth, Top
<1>2. l.keep = worth \cap resident /\ l.spec = Top(s, worth \ resident, max)
  BY DEF SpecLists
<1> HIDE DEF worth, l
<1>3. l.spec \subseteq worth \ resident
  BY <1>2 DEF Top
<1>4. IsFiniteSet(worth \ resident) /\ worth \ resident \in SUBSET Nat
  BY <1>1, FS_Subset
<1>5. Cardinality(l.spec) <= max
  BY <1>1, <1>2, <1>4, TopIsBounded
<1>6. l.keep \cup l.spec \subseteq Top(s, S, nu)
  BY <1>1, <1>2, <1>3
<1>7. IsFiniteSet(Top(s, S, nu)) /\ Cardinality(Top(s, S, nu)) <= nu
  BY TopIsBounded
<1>8. /\ Cardinality(l.keep \cup l.spec) <= Cardinality(Top(s, S, nu))
      /\ IsFiniteSet(l.keep \cup l.spec)
  BY <1>6, <1>7, FS_Subset
<1>9. Cardinality(l.keep \cup l.spec) <= nu
  BY <1>7, <1>8, FS_CardinalityType
<1> QED
  BY <1>2, <1>3, <1>5, <1>6, <1>9 DEF l
-----------------------------------------------------------------------------
\* A quantised element fits an int8 and lies within half a step of the value
\* it stands for, whatever the row; the clamp never bites.
THEOREM QuantizedIsNearest ==
  ASSUME NEW most \in Nat \ {0}, NEW v \in Int, Magnitude(v) <= most
  PROVE  LET q == Quantized(v, most)
         IN  q \in -127..127 /\ 2 * Magnitude(127 * v - most * q) <= most
<1> DEFINE a == Magnitude(v)
           x == (254 * a + most) \div (2 * most)
<1>1. a \in Nat /\ a <= most
  BY DEF Magnitude
<1> HIDE DEF a
<1>2. x \in Int /\ (2 * most) * x <= 254 * a + most /\ 254 * a + most < (2 * most) * (x + 1)
  <2> DEFINE n == 254 * a + most
             d == 2 * most
  <2>1. n \in Nat /\ d \in Nat /\ d > 0
    BY <1>1
  <2>2. \A p \in Nat : \A c \in Nat \ {0} :
          p \div c \in Int /\ c * (p \div c) <= p /\ p < c * ((p \div c) + 1)
    OBVIOUS
  <2> HIDE DEF n, d
  <2>3. n \div d \in Int /\ d * (n \div d) <= n /\ n < d * ((n \div d) + 1)
    BY <2>1, <2>2
  <2> QED
    BY <2>3, Zenon DEF n, d
<1> HIDE DEF x
<1> DEFINE y == most * x
<1>3. y \in Int /\ 2 * y <= 254 * a + most /\ 254 * a + most < 2 * y + 2 * most
  BY <1>1, <1>2
<1>4. x >= 0 /\ x <= 127
  <2>1. x >= 0
    <3> SUFFICES ASSUME x <= -1 PROVE FALSE
      BY <1>2
    <3>1. (2 * most) * (x + 1) <= 0
      BY <1>2
    <3> QED
      BY <1>1, <1>2, <3>1
  <2>2. x <= 127
    <3> SUFFICES ASSUME x >= 128 PROVE FALSE
      BY <1>2
    <3>1. (2 * most) * x >= (2 * most) * 128
      BY <1>2
    <3> QED
      BY <1>1, <1>2, <3>1
  <2> QED
    BY <2>1, <2>2
<1>5. CASE v < 0
  <2>1. a = -v /\ Nearest(v, most) = -x
    BY <1>5 DEF a, x, Magnitude, Nearest
  <2>2. Quantized(v, most) = -x
    BY <1>2, <1>4, <2>1 DEF Quantized, Clamped
  <2>3. 127 * v - most * (-x) = y - 127 * a
    BY <1>2, <2>1
  <2>4. 2 * Magnitude(y - 127 * a) <= most
    BY <1>1, <1>3 DEF Magnitude
  <2> QED
    BY <1>2, <1>4, <2>2, <2>3, <2>4
<1>6. CASE v >= 0
  <2>1. a = v /\ Nearest(v, most) = x
    BY <1>6 DEF a, x, Magnitude, Nearest
  <2>2. Quantized(v, most) = x
    BY <1>2, <1>4, <2>1 DEF Quantized, Clamped
  <2>3. 127 * v - most * x = 127 * a - y
    BY <1>2, <2>1
  <2>4. 2 * Magnitude(127 * a - y) <= most
    BY <1>1, <1>3 DEF Magnitude
  <2> QED
    BY <1>2, <1>4, <2>2, <2>3, <2>4
<1> QED
  BY <1>5, <1>6
-----------------------------------------------------------------------------
\* A prediction is exact when every slot of the routing is among its first k.
THEOREM ExactMeansEverySlot ==
  ASSUME NEW pred, NEW actual, NEW k \in Nat
  PROVE  Exact(pred, actual, k) <=>
           \A i \in 1..k : \E p \in 1..Least(k, Len(pred)) : pred[p] = actual[i]
<1> DEFINE H == Hits(pred, actual, k)
<1>1. H \in SUBSET (1..k)
  BY DEF Hits
<1>2. IsFiniteSet(1..k) /\ Cardinality(1..k) = k
  BY FS_Interval
<1>3. Cardinality(H) = k => H = 1..k
  BY <1>1, <1>2, FS_Subset
<1>4. Exact(pred, actual, k) <=> H = 1..k
  BY <1>2, <1>3 DEF Exact
<1> QED
  BY <1>4 DEF Hits
-----------------------------------------------------------------------------
\* The types of the hook's state, by the part of it they are about.
Ats == {"idle", "logits", "topk", "load", "chain", "ran"}
GraphType ==
  /\ tok \in Nat /\ phase \in 0..1 /\ rows \in 1..MaxRows
  /\ chain \in Seq(Variants)
  /\ il \in Layers /\ left \in Seq(Layers) /\ at \in Ats /\ wpos \in Nat \ {0}
DropType ==
  /\ term \in [Layers -> Variants \cup {NoVariant}]
  /\ drop \in [layer : Layers \cup {-1}, deferred : BOOLEAN]
  /\ chainLast \in Variants \cup {NoVariant}
ProbeType ==
  /\ gate \subseteq Layers
  /\ stale \in [Layers -> Nat] /\ stale2 \in [Layers -> Nat] /\ self \in [Layers -> Nat]
  /\ prev \in [Layers -> Nat] /\ scored \in [stale : Nat, stale2 : Nat, self : Nat, prev : Nat]
MailType ==
  /\ slot \in [Layers -> Nat] /\ committed \in Nat
  /\ seq \in Nat /\ job \in Job /\ working \in Job /\ result \in Job
RestType ==
  /\ mode \in Modes /\ Valid(mode)
  /\ fatal \in BOOLEAN /\ tripped \in BOOLEAN
  /\ faults \in [Layers -> Nat] /\ moves \in Nat
TypeInv == GraphType /\ DropType /\ ProbeType /\ MailType /\ RestType

\* The graph of a model without a draft head runs its layers in order.
Rising(l) == [k \in 1..(NLayers - 1 - l) |-> l + k]
PlaceInv ==
  /\ at \in {"idle", "logits", "topk"} => committed = 0 /\ scored = NoScore
  /\ at \in {"logits", "topk"} => wpos = 1
  /\ at # "idle" /\ ~mode.draft => left = Rising(il)

\* A graph has a first layer, which is layer 0 of a model without a draft head.
LEMMA BodyShape ==
  ASSUME mode \in Mode, mode.draft => NLayers > 1, NEW body \in Bodies
  PROVE  /\ Head(body) \in Layers /\ Tail(body) \in Seq(Layers)
         /\ ~mode.draft => Head(body) = 0 /\ Tail(body) = Rising(0)
<1>1. NLayers - 1 \in Layers /\ NLayers - 1 \in Nat /\ \A i \in 1..NLayers : i - 1 \in Layers
  BY RouterAssumption DEF Layers
<1>2. CASE body = <<NLayers - 1>> /\ mode.draft
  <2>1. body \in Seq(Layers) /\ body # << >>
    BY <1>1, <1>2
  <2> QED BY <1>2, <2>1, HeadTailProperties
<1>3. CASE body = [i \in 1..(NLayers - 1) |-> i - 1] /\ mode.draft
  <2>1. body \in Seq(Layers) /\ 1 \in DOMAIN body
    <3>1. 1 \in 1..(NLayers - 1) /\ \A i \in 1..(NLayers - 1) : i - 1 \in Layers
      BY <1>1, <1>3, RouterAssumption
    <3> HIDE DEF Layers
    <3> QED BY <1>1, <1>3, <3>1
  <2>2. body # << >>
    BY <2>1
  <2> QED BY <1>3, <2>1, <2>2, HeadTailProperties
<1>4. CASE body = [i \in 1..NLayers |-> i - 1] /\ ~mode.draft
  <2>1. body \in Seq(Layers) /\ 1 \in DOMAIN body /\ Len(body) = NLayers
    <3>1. NLayers \in Nat /\ 1 \in 1..NLayers
      BY RouterAssumption
    <3> HIDE DEF Layers
    <3> QED BY <1>1, <1>4, <3>1
  <2>2. body # << >> /\ Head(body) = body[1] /\ body[1] = 0
    BY <1>4, <2>1
  <2>3. /\ Tail(body) \in Seq(Layers) /\ Len(Tail(body)) = NLayers - 1
        /\ \A i \in 1..(NLayers - 1) : Tail(body)[i] = body[i + 1]
    BY <2>1, <2>2, HeadTailProperties
  <2>4. \A k \in 1..(NLayers - 1) : Tail(body)[k] = k
    BY <1>4, <2>3, RouterAssumption
  <2>5. Tail(body) = [k \in 1..(NLayers - 1) |-> k]
    <3> DEFINE t == Tail(body)
               u == [k \in 1..(NLayers - 1) |-> k]
    <3>1. u \in Seq(Nat) /\ Len(u) = NLayers - 1 /\ \A k \in 1..(NLayers - 1) : u[k] = k
      BY <1>1
    <3>2. t \in Seq(Nat) /\ Len(t) = NLayers - 1 /\ \A k \in 1..(NLayers - 1) : t[k] = k
      BY <2>3, <2>4 DEF Layers
    <3> HIDE DEF t, u
    <3>3. t = u
      BY <3>1, <3>2, SeqEqual
    <3> QED BY <3>3 DEF t, u
  <2>6. NLayers - 1 - 0 = NLayers - 1 /\ \A k \in 1..(NLayers - 1) : 0 + k = k
    BY <1>1
  <2>7. Tail(body) = Rising(0)
    <3>1. Rising(0) = [k \in 1..(NLayers - 1) |-> 0 + k]
      BY <2>6 DEF Rising
    <3>2. Rising(0) = [k \in 1..(NLayers - 1) |-> k]
      BY <2>6, <3>1
    <3> QED BY <2>5, <3>2
  <2> QED BY <1>4, <2>1, <2>2, <2>3, <2>7, HeadTailProperties
<1> QED BY <1>2, <1>3, <1>4 DEF Bodies

\* After a layer comes the next.
LEMMA RisingTail ==
  ASSUME NEW l \in Layers, Rising(l) # << >>
  PROVE  Head(Rising(l)) = l + 1 /\ Tail(Rising(l)) = Rising(l + 1) /\ l + 1 \in Layers
<1> DEFINE n == NLayers - 1 - l
           s == Rising(l)
<1>1. n \in Nat /\ s \in Seq(Nat) /\ Len(s) = n /\ l \in Nat
  BY RouterAssumption DEF Rising, Layers
<1>2. n # 0
  BY <1>1 DEF Rising
<1>3. s[1] = l + 1 /\ Head(s) = s[1]
  BY <1>1, <1>2 DEF Rising
<1>4. /\ Tail(s) \in Seq(Nat) /\ Len(Tail(s)) = n - 1
      /\ \A k \in 1..(n - 1) : Tail(s)[k] = s[k + 1]
  BY <1>1, <1>2, HeadTailProperties
<1>5. \A k \in 1..(n - 1) : s[k + 1] = (l + 1) + k
  BY <1>1 DEF Rising
<1>6. NLayers - 1 - (l + 1) = n - 1
  BY RouterAssumption DEF Layers
<1>7. Tail(s) = [k \in 1..(n - 1) |-> (l + 1) + k]
  <2> DEFINE t == Tail(s)
             u == [k \in 1..(n - 1) |-> (l + 1) + k]
  <2>1. u \in Seq(Nat) /\ Len(u) = n - 1 /\ \A k \in 1..(n - 1) : u[k] = (l + 1) + k
    <3>1. n - 1 \in Nat /\ \A k \in 1..(n - 1) : (l + 1) + k \in Nat
      BY <1>1, <1>2
    <3> HIDE DEF n
    <3> QED BY <3>1
  <2>2. t \in Seq(Nat) /\ Len(t) = n - 1 /\ \A k \in 1..(n - 1) : t[k] = (l + 1) + k
    BY <1>4, <1>5
  <2> HIDE DEF t, u, n
  <2>3. t = u
    BY <2>1, <2>2, SeqEqual
  <2> QED BY <2>3 DEF t, u
<1>8. Tail(s) = Rising(l + 1)
  BY <1>6, <1>7 DEF Rising
<1> QED
  BY <1>1, <1>2, <1>3, <1>8, RouterAssumption DEF Layers

LEMMA TypeInit == Init => TypeInv
<1> SUFFICES ASSUME Init PROVE TypeInv
  OBVIOUS
<1>1. 0 \in Layers /\ NoJob \in Job /\ NoneYet \in [Layers -> Nat]
  BY RouterAssumption DEF Layers, Job, NoJob, NoneYet
<1>2. GraphType
  BY <1>1 DEF Init, GraphType, Ats, MaxRows
<1>3. DropType
  BY DEF Init, DropType, NoDrop
<1>4. ProbeType
  BY <1>1 DEF Init, ProbeType, NoScore
<1>5. MailType
  BY <1>1 DEF Init, MailType
<1>6. RestType
  BY <1>1 DEF Init, RestType
<1> QED BY <1>2, <1>3, <1>4, <1>5, <1>6 DEF TypeInv

LEMMA NoJobTyped == NoJob \in Job
  BY RouterAssumption DEF NoJob, Job, Layers

LEMMA CollectedTyped ==
  ASSUME TypeInv
  PROVE  Collected \in [Layers -> Nat] /\ AfterCollect \in Job
<1>1. result.nl \in Layers /\ result.tok \in Nat
  BY DEF TypeInv, MailType, Job
<1> QED BY <1>1, NoJobTyped DEF Collected, AfterCollect, TypeInv, MailType

\* Every step keeps the types, action by action.
LEMMA TypeStep ==
  ASSUME TypeInv, [Next]_vars
  PROVE  TypeInv'
<1> USE DEF TypeInv
<1>1. ASSUME NEW p \in 0..1, NEW c \in Chains, NEW body \in Bodies, NEW n \in Widths(p), BeginGraph(p, n, c, body)
      PROVE  TypeInv'
  <2>1. GraphType'
    <3>1. mode \in Mode /\ (mode.draft => NLayers > 1)
      BY RouterAssumption DEF RestType
    <3>2. Head(body) \in Layers /\ Tail(body) \in Seq(Layers)
      BY <3>1, BodyShape
    <3>3. n \in 1..MaxRows /\ c \in Seq(Variants)
      BY RouterAssumption DEF Widths, MaxRows
    <3> QED BY <1>1, <3>2, <3>3 DEF BeginGraph, GraphType, Ats
  <2>2. DropType'
    BY <1>1 DEF BeginGraph, Widths, DropType, vars, graphVars, nodeVars, dropVars, probeVars, mailVars, aheadVars, historyVars
  <2>3. ProbeType'
    BY <1>1 DEF BeginGraph, Widths, ProbeType, vars, graphVars, nodeVars, dropVars, probeVars, mailVars, aheadVars, historyVars
  <2>4. MailType'
    BY <1>1 DEF BeginGraph, Widths, MailType, vars, graphVars, nodeVars, dropVars, probeVars, mailVars, aheadVars, historyVars
  <2>5. RestType'
    BY <1>1 DEF BeginGraph, Widths, RestType, vars, graphVars, nodeVars, dropVars, probeVars, mailVars, aheadVars, historyVars
  <2> QED BY <2>1, <2>2, <2>3, <2>4, <2>5 DEF TypeInv
<1>2. CASE Logits
  <2>1. GraphType'
    BY <1>2 DEF Logits, GraphType, Ats
  <2>2. DropType'
    BY <1>2 DEF Logits, DropType, vars, graphVars, nodeVars, dropVars, probeVars, mailVars, aheadVars, historyVars
  <2>3. ProbeType'
    <3> DEFINE seen == IF Predicting THEN gate \cup {il} ELSE gate
               made(l) == IF l \in seen /\ Scorable THEN tok ELSE 0
               Made(f, l) == IF l \in Layers THEN [f EXCEPT ![l] = made(l)] ELSE f
    <3>1. \A l : made(l) \in Nat
      BY DEF GraphType
    <3>2. \A f \in [Layers -> Nat] : \A l : Made(f, l) \in [Layers -> Nat]
      BY <3>1
    <3>3. /\ self' = Made(self, il) \/ self' = self
          /\ stale' = Made(stale, il + 1) \/ stale' = stale
          /\ stale2' = Made(stale2, il + 2) \/ stale2' = stale2
      BY <1>2 DEF Logits
    <3>4. seen \subseteq Layers
      BY DEF GraphType, ProbeType
    <3> HIDE DEF Made
    <3> QED BY <1>2, <3>2, <3>3, <3>4 DEF Logits, ProbeType, historyVars
  <2>4. MailType'
    BY <1>2 DEF Logits, MailType, vars, graphVars, nodeVars, dropVars, probeVars, mailVars, aheadVars, historyVars
  <2>5. RestType'
    BY <1>2 DEF Logits, RestType, vars, graphVars, nodeVars, dropVars, probeVars, mailVars, aheadVars, historyVars
  <2> QED BY <2>1, <2>2, <2>3, <2>4, <2>5 DEF TypeInv
<1>3. ASSUME NEW sample \in BOOLEAN, NEW trips \in BOOLEAN, NEW closed \in BOOLEAN, NEW pick \in [1..rows -> Routings],
             NEW commit, Topk(pick, commit, sample, trips, closed)
      PROVE  TypeInv'
  <2>1. GraphType'
    BY <1>3 DEF Topk, GraphType, Ats
  <2>2. DropType'
    <3>1. Learned \in [Layers -> Variants \cup {NoVariant}]
      BY DEF Learned, DropType
    <3> QED BY <1>3, <3>1 DEF Topk, DropType, Deferred, GraphType
  <2>3. ProbeType'
    <3>1. Score /\ gate' = gate
      BY <1>3 DEF Topk
    <3>2. il \in Layers /\ tok \in Nat
      BY DEF GraphType
    <3>3. stale' \in [Layers -> Nat] /\ stale2' \in [Layers -> Nat] /\ self' \in [Layers -> Nat]
      <4> DEFINE Zeroed(f) == [f EXCEPT ![il] = 0]
      <4>1. /\ stale' = stale \/ stale' = Zeroed(stale)
            /\ stale2' = stale2 \/ stale2' = Zeroed(stale2)
            /\ self' = self \/ self' = Zeroed(self)
        BY <3>1 DEF Score
      <4>2. \A f \in [Layers -> Nat] : Zeroed(f) \in [Layers -> Nat]
        BY <3>2
      <4> HIDE DEF Zeroed
      <4> QED BY <4>1, <4>2 DEF ProbeType
    <3>4. prev' \in [Layers -> Nat]
      BY <3>1, <3>2 DEF Score, ProbeType
    <3>5. scored' \in [stale : Nat, stale2 : Nat, self : Nat, prev : Nat]
      BY <3>1, <3>2 DEF Score, ProbeType
    <3> QED BY <3>1, <3>3, <3>4, <3>5 DEF ProbeType
  <2>4. MailType'
    <3> DEFINE open == IF AheadOn /\ ~tripped THEN Cleared(Collected, il + mode.ahead) ELSE slot
    <3>1. open \in [Layers -> Nat]
      BY CollectedTyped DEF Cleared, MailType
    <3>2. /\ slot' = AfterApply(open, trips) /\ result' = AfterCollect
          /\ committed' = IF Commits(open, trips) THEN open[il] ELSE 0
          /\ Submit(trips) /\ working' = working
      BY <1>3 DEF Topk
    <3> HIDE DEF open
    <3>3. slot' \in [Layers -> Nat] /\ committed' \in Nat
      BY <3>1, <3>2 DEF AfterApply, GraphType
    <3>4. seq' \in Nat /\ job' \in Job
      <4>1. SubmitsAhead(trips) => AheadOn /\ AheadJob \in Job
        <5>1. SubmitsAhead(trips) => AheadOn /\ il + mode.ahead \in Layers
          BY DEF SubmitsAhead, Sends, ProbeType
        <5>2. seq + 1 \in Nat /\ tok \in Nat
          BY DEF MailType, GraphType
        <5> QED BY <5>1, <5>2 DEF AheadJob, Job
      <4>2. SubmitsHint(trips) => ~AheadOn /\ HintJob \in Job
        BY DEF SubmitsHint, Sends, HintJob, Job, MailType, GraphType, ProbeType, AheadOn, Valid, RestType
      <4> QED BY <3>2, <4>1, <4>2 DEF Submit, MailType
    <3>5. result' \in Job /\ working' \in Job
      BY <3>2, NoJobTyped DEF AfterCollect, MailType
    <3> QED BY <3>3, <3>4, <3>5 DEF MailType
  <2>5. RestType'
    BY <1>3 DEF Topk, Sampled, RestType
  <2> QED BY <2>1, <2>2, <2>3, <2>4, <2>5 DEF TypeInv
<1>4. ASSUME NEW ok \in BOOLEAN, Load(ok)
      PROVE  TypeInv'
  <2>1. GraphType'
    BY <1>4 DEF Load, GraphType, Ats
  <2>2. DropType'
    BY <1>4 DEF Load, DropType, vars, graphVars, nodeVars, dropVars, probeVars, mailVars, aheadVars, historyVars
  <2>3. ProbeType'
    BY <1>4 DEF Load, ProbeType, vars, graphVars, nodeVars, dropVars, probeVars, mailVars, aheadVars, historyVars
  <2>4. MailType'
    BY <1>4, NoJobTyped, CollectedTyped DEF Load, MailType, AfterLoad
  <2>5. RestType'
    BY <1>4 DEF Load, RestType, vars, graphVars, nodeVars, dropVars, probeVars, mailVars, aheadVars, historyVars
  <2> QED BY <2>1, <2>2, <2>3, <2>4, <2>5 DEF TypeInv
<1>5. CASE NodeSkipped
  <2>1. GraphType'
    BY <1>5 DEF NodeSkipped, GraphType, vars, graphVars, nodeVars, dropVars, probeVars, mailVars, aheadVars, historyVars
  <2>2. DropType'
    BY <1>5 DEF NodeSkipped, DropType, vars, graphVars, nodeVars, dropVars, probeVars, mailVars, aheadVars, historyVars
  <2>3. ProbeType'
    BY <1>5 DEF NodeSkipped, ProbeType, vars, graphVars, nodeVars, dropVars, probeVars, mailVars, aheadVars, historyVars
  <2>4. MailType'
    BY <1>5 DEF NodeSkipped, MailType, vars, graphVars, nodeVars, dropVars, probeVars, mailVars, aheadVars, historyVars
  <2>5. RestType'
    BY <1>5 DEF NodeSkipped, RestType, vars, graphVars, nodeVars, dropVars, probeVars, mailVars, aheadVars, historyVars
  <2> QED BY <2>1, <2>2, <2>3, <2>4, <2>5 DEF TypeInv
<1>6. CASE NodeObserved
  <2>1. GraphType'
    BY <1>6 DEF NodeObserved, GraphType, vars, graphVars, nodeVars, dropVars, probeVars, mailVars, aheadVars, historyVars
  <2>2. DropType'
    <3>1. chain[wpos] \in Variants
      BY <1>6, ElementOfSeq DEF NodeObserved, GraphType
    <3> QED BY <1>6, <3>1 DEF NodeObserved, DropType
  <2>3. ProbeType'
    BY <1>6 DEF NodeObserved, ProbeType, vars, graphVars, nodeVars, dropVars, probeVars, mailVars, aheadVars, historyVars
  <2>4. MailType'
    BY <1>6 DEF NodeObserved, MailType, vars, graphVars, nodeVars, dropVars, probeVars, mailVars, aheadVars, historyVars
  <2>5. RestType'
    BY <1>6 DEF NodeObserved, RestType, vars, graphVars, nodeVars, dropVars, probeVars, mailVars, aheadVars, historyVars
  <2> QED BY <2>1, <2>2, <2>3, <2>4, <2>5 DEF TypeInv
<1>7. ASSUME NEW best \in [1..rows -> Slots], NEW light, NEW resident, NEW ok \in BOOLEAN,
             ApplyDrop(best, light, resident, ok)
      PROVE  TypeInv'
  <2>1. GraphType'
    BY <1>7 DEF ApplyDrop, GraphType, vars, graphVars, nodeVars, dropVars, probeVars, mailVars, aheadVars, historyVars
  <2>2. DropType'
    <3>1. chain[wpos] \in Variants
      BY <1>7, ElementOfSeq DEF ApplyDrop, GraphType
    <3> QED BY <1>7, <3>1 DEF ApplyDrop, DropType
  <2>3. ProbeType'
    BY <1>7 DEF ApplyDrop, ProbeType, vars, graphVars, nodeVars, dropVars, probeVars, mailVars, aheadVars, historyVars
  <2>4. MailType'
    BY <1>7, NoJobTyped, CollectedTyped DEF ApplyDrop, MailType, AfterLoad
  <2>5. RestType'
    BY <1>7 DEF ApplyDrop, RestType, vars, graphVars, nodeVars, dropVars, probeVars, mailVars, aheadVars, historyVars
  <2> QED BY <2>1, <2>2, <2>3, <2>4, <2>5 DEF TypeInv
<1>8. CASE Matmul
  <2>1. GraphType'
    BY <1>8 DEF Matmul, GraphType, Ats
  <2>2. DropType'
    BY <1>8 DEF Matmul, DropType, vars, graphVars, nodeVars, dropVars, probeVars, mailVars, aheadVars, historyVars
  <2>3. ProbeType'
    BY <1>8 DEF Matmul, ProbeType, vars, graphVars, nodeVars, dropVars, probeVars, mailVars, aheadVars, historyVars
  <2>4. MailType'
    BY <1>8 DEF Matmul, MailType, vars, graphVars, nodeVars, dropVars, probeVars, mailVars, aheadVars, historyVars
  <2>5. RestType'
    <3>1. il \in Layers /\ (faults' = faults \/ faults' = [faults EXCEPT ![il] = faults[il] + 1])
      BY <1>8 DEF Matmul, GraphType
    <3>2. faults' \in [Layers -> Nat]
      BY <3>1 DEF RestType
    <3> QED BY <1>8, <3>2 DEF Matmul, RestType, aheadVars
  <2> QED BY <2>1, <2>2, <2>3, <2>4, <2>5 DEF TypeInv
<1>9. CASE NextLayer
  <2>1. GraphType'
    <3>1. left # << >> => Head(left) \in Layers /\ Tail(left) \in Seq(Layers)
      BY HeadTailProperties DEF GraphType
    <3> QED BY <1>9, <3>1 DEF NextLayer, GraphType, Ats
  <2>2. DropType'
    BY <1>9 DEF NextLayer, DropType, vars, graphVars, nodeVars, dropVars, probeVars, mailVars, aheadVars, historyVars
  <2>3. ProbeType'
    BY <1>9 DEF NextLayer, Rest, NoScore, ProbeType, vars, graphVars, nodeVars, dropVars, probeVars, mailVars, aheadVars, historyVars
  <2>4. MailType'
    BY <1>9 DEF NextLayer, Rest, MailType, vars, graphVars, nodeVars, dropVars, probeVars, mailVars, aheadVars, historyVars
  <2>5. RestType'
    BY <1>9 DEF NextLayer, RestType, vars, graphVars, nodeVars, dropVars, probeVars, mailVars, aheadVars, historyVars
  <2> QED BY <2>1, <2>2, <2>3, <2>4, <2>5 DEF TypeInv
<1>10. CASE Abort
  <2>1. GraphType'
    BY <1>10 DEF Abort, GraphType, Ats
  <2>2. DropType'
    BY <1>10 DEF Abort, DropType, vars, graphVars, nodeVars, dropVars, probeVars, mailVars, aheadVars, historyVars
  <2>3. ProbeType'
    BY <1>10 DEF Abort, Rest, NoScore, ProbeType, vars, graphVars, nodeVars, dropVars, probeVars, mailVars, aheadVars, historyVars
  <2>4. MailType'
    BY <1>10 DEF Abort, Rest, MailType, vars, graphVars, nodeVars, dropVars, probeVars, mailVars, aheadVars, historyVars
  <2>5. RestType'
    BY <1>10 DEF Abort, RestType, vars, graphVars, nodeVars, dropVars, probeVars, mailVars, aheadVars, historyVars
  <2> QED BY <2>1, <2>2, <2>3, <2>4, <2>5 DEF TypeInv
<1>11. CASE Take
  <2>1. GraphType'
    BY <1>11 DEF Take, GraphType, vars, graphVars, nodeVars, dropVars, probeVars, mailVars, aheadVars, historyVars
  <2>2. DropType'
    BY <1>11 DEF Take, DropType, vars, graphVars, nodeVars, dropVars, probeVars, mailVars, aheadVars, historyVars
  <2>3. ProbeType'
    BY <1>11 DEF Take, ProbeType, vars, graphVars, nodeVars, dropVars, probeVars, mailVars, aheadVars, historyVars
  <2>4. MailType'
    BY <1>11, NoJobTyped DEF Take, MailType, vars, graphVars, nodeVars, dropVars, probeVars, mailVars, aheadVars, historyVars
  <2>5. RestType'
    BY <1>11 DEF Take, RestType, vars, graphVars, nodeVars, dropVars, probeVars, mailVars, aheadVars, historyVars
  <2> QED BY <2>1, <2>2, <2>3, <2>4, <2>5 DEF TypeInv
<1>12. CASE Post
  <2>1. GraphType'
    BY <1>12 DEF Post, GraphType, vars, graphVars, nodeVars, dropVars, probeVars, mailVars, aheadVars, historyVars
  <2>2. DropType'
    BY <1>12 DEF Post, DropType, vars, graphVars, nodeVars, dropVars, probeVars, mailVars, aheadVars, historyVars
  <2>3. ProbeType'
    BY <1>12 DEF Post, ProbeType, vars, graphVars, nodeVars, dropVars, probeVars, mailVars, aheadVars, historyVars
  <2>4. MailType'
    BY <1>12, NoJobTyped DEF Post, MailType, vars, graphVars, nodeVars, dropVars, probeVars, mailVars, aheadVars, historyVars
  <2>5. RestType'
    BY <1>12 DEF Post, RestType, vars, graphVars, nodeVars, dropVars, probeVars, mailVars, aheadVars, historyVars
  <2> QED BY <2>1, <2>2, <2>3, <2>4, <2>5 DEF TypeInv
<1>13. CASE UNCHANGED vars
  BY <1>13 DEF TypeInv, GraphType, DropType, ProbeType, MailType, RestType, vars, graphVars, nodeVars, dropVars, probeVars, mailVars, aheadVars, historyVars
<1> QED
  BY <1>1, <1>2, <1>3, <1>4, <1>5, <1>6, <1>7, <1>8, <1>9, <1>10, <1>11, <1>12, <1>13 DEF Next

\* The topk node of the layer has been seen: the slots are set for it.
Routed == at \in {"load", "chain", "ran"}
InChain(v) == \E i \in 1..Len(chain) : chain[i] = v
AllLoaded == UNION {ToSet(ids[j]) : j \in 1..rows} \subseteq loaded

\* A layer whose terminal the graph no longer emits has been moved under it
\* since its last fault, or its fault is that of the deferral just missed.
TermInv ==
  /\ tok = 0 => at = "idle" /\ chainLast = NoVariant /\ \A l \in Layers : term[l] = NoVariant
  /\ chainLast # NoVariant /\ drop.layer >= 0 =>
       InChain(chainLast) \/ (~Routed /\ faults[drop.layer] < moves)
  /\ \A l \in Layers : term[l] # NoVariant =>
       \/ InChain(term[l])
       \/ faults[l] < moves
       \/ drop.layer = l /\ drop.deferred /\ at \notin {"load", "chain"}
  /\ \A l \in Layers : faults[l] <= moves
\* A layer is loaded where it is routed, or deferred to a node still to come.
LoadInv ==
  /\ Routed => drop.layer = il
  /\ at = "load" => ~drop.deferred
  /\ at = "chain" /\ ~drop.deferred => fatal \/ AllLoaded
  /\ at = "chain" /\ drop.deferred =>
       /\ DropArmed /\ term[il] # NoVariant
       /\ \A i \in 1..Len(chain) : i < wpos => chain[i] # term[il]

\* The row of a slot, once it is routed.
SlotKept(j, k) ==
  IF <<j, k>> \in zeroed
    THEN \E q \in Slots : <<j, q>> \notin zeroed /\ ids[j][k] = routed.run[j][q]
    ELSE ids[j][k] = routed.run[j][k]
SlotInv ==
  Routed =>
    /\ \A j \in 1..rows : \A k \in Slots : SlotKept(j, k)
    /\ mode.trace => pending = [layer |-> il, dropped |-> zeroed]
    /\ at = "load" \/ (at = "chain" /\ drop.deferred) => zeroed = {}

\* Once a layer of this graph has been routed, only the jobs of this graph are
\* collected: any graph that has submitted one submits one at its first layer.
Behind(l) == l < il \/ (l = il /\ Routed)
JobSound(x) == x.seq <= seq /\ (x.seq = 0 => x = NoJob)
JobFresh(x) == x.seq = seq /\ x.seq > 0 => x.tok = tok
JobsInv == JobSound(job) /\ JobSound(working) /\ JobSound(result)
GateInv ==
  mode.ahead > 0 =>
    /\ \A l \in gate, k \in Layers : k < l => k \in gate
    /\ phase = 1 /\ at # "idle" => \A k \in Layers : k < il \/ (k = il /\ at # "logits") => k \in gate
    /\ seq > 0 => mode.ahead \in gate /\ Readable(mode.row)
FreshInv ==
  AheadOn /\ ~tripped /\ at # "idle" =>
    /\ il > 0 \/ Routed => JobFresh(job) /\ JobFresh(working) /\ JobFresh(result)
    /\ \A l \in Layers : l >= mode.ahead /\ Behind(l - mode.ahead) => slot[l] \in {0, tok}

\* The probe has ranked what it grades in this graph, and has not yet kept
\* this graph's routing of the layers still to come.
AheadOf(l, d) == l <= il + d - 1 \/ (l = il + d /\ at # "logits")
ProbeInv ==
  mode.probe /\ ~mode.draft =>
    /\ stale[0] = 0 /\ stale2[0] = 0 /\ (1 \in Layers => stale2[1] = 0)
    /\ \A l \in Layers : prev[l] <= tok
    /\ at # "idle" => \A l \in Layers : l >= il /\ ~Behind(l) => prev[l] < tok
    /\ at # "idle" /\ phase = 1 =>
         /\ \A l \in Layers : AheadOf(l, 1) => stale[l] \in {0, tok}
         /\ \A l \in Layers : AheadOf(l, 2) => stale2[l] \in {0, tok}
         /\ at = "topk" => self[il] \in {0, tok}

\* A graph without a draft head runs layer after layer, and what was committed
\* or graded is forgotten between two layers.
LEMMA PlaceStep ==
  ASSUME TypeInv, PlaceInv, [Next]_vars
  PROVE  PlaceInv'
<1>1. ASSUME NEW p \in 0..1, NEW c \in Chains, NEW body \in Bodies, NEW n \in Widths(p), BeginGraph(p, n, c, body)
      PROVE  PlaceInv'
  <2>1. mode \in Mode /\ (mode.draft => NLayers > 1) /\ mode' = mode
    BY <1>1, RouterAssumption DEF TypeInv, RestType, BeginGraph
  <2>2. ~mode.draft => Head(body) = 0 /\ Tail(body) = Rising(0)
    BY <2>1, BodyShape
  <2> QED
    BY <1>1, <2>1, <2>2 DEF BeginGraph, PlaceInv
<1>2. CASE Logits
  BY <1>2 DEF Logits, Rest, PlaceInv, vars, graphVars, nodeVars, dropVars, probeVars, mailVars, aheadVars, historyVars
<1>3. ASSUME NEW sample \in BOOLEAN, NEW trips \in BOOLEAN, NEW closed \in BOOLEAN, NEW pick \in [1..rows -> Routings],
             NEW commit, Topk(pick, commit, sample, trips, closed)
      PROVE  PlaceInv'
  BY <1>3 DEF Topk, PlaceInv
<1>4. ASSUME NEW ok \in BOOLEAN, Load(ok)
      PROVE  PlaceInv'
  BY <1>4 DEF Load, Rest, PlaceInv, vars, graphVars, nodeVars, dropVars, probeVars, mailVars, aheadVars, historyVars
<1>5. CASE NodeSkipped
  BY <1>5 DEF NodeSkipped, Rest, PlaceInv, vars, graphVars, nodeVars, dropVars, probeVars, mailVars, aheadVars, historyVars
<1>6. CASE NodeObserved
  BY <1>6 DEF NodeObserved, Rest, PlaceInv, vars, graphVars, nodeVars, dropVars, probeVars, mailVars, aheadVars, historyVars
<1>7. ASSUME NEW best \in [1..rows -> Slots], NEW light, NEW resident, NEW ok \in BOOLEAN,
             ApplyDrop(best, light, resident, ok)
      PROVE  PlaceInv'
  BY <1>7 DEF ApplyDrop, Rest, PlaceInv, vars, graphVars, nodeVars, dropVars, probeVars, mailVars, aheadVars, historyVars
<1>8. CASE Matmul
  BY <1>8 DEF Matmul, Rest, PlaceInv, vars, graphVars, nodeVars, dropVars, probeVars, mailVars, aheadVars, historyVars
<1>9. CASE NextLayer
  <2>1. il \in Layers /\ (~mode.draft => left = Rising(il))
    BY <1>9 DEF NextLayer, PlaceInv, TypeInv, GraphType
  <2>2. ~mode.draft /\ left # << >> => Head(left) = il + 1 /\ Tail(left) = Rising(il + 1)
    BY <2>1, RisingTail
  <2> QED BY <1>9, <2>2 DEF NextLayer, Rest, PlaceInv
<1>10. CASE Abort
  BY <1>10 DEF Abort, Rest, PlaceInv, vars, graphVars, nodeVars, dropVars, probeVars, mailVars, aheadVars, historyVars
<1>11. CASE Take
  BY <1>11 DEF Take, Rest, PlaceInv, vars, graphVars, nodeVars, dropVars, probeVars, mailVars, aheadVars, historyVars
<1>12. CASE Post
  BY <1>12 DEF Post, Rest, PlaceInv, vars, graphVars, nodeVars, dropVars, probeVars, mailVars, aheadVars, historyVars
<1>13. CASE UNCHANGED vars
  BY <1>13 DEF PlaceInv, vars, graphVars, nodeVars, dropVars, probeVars, mailVars, aheadVars, historyVars
<1> QED
  BY <1>1, <1>2, <1>3, <1>4, <1>5, <1>6, <1>7, <1>8, <1>9, <1>10, <1>11, <1>12, <1>13 DEF Next

\* close_drop_layer forgets the terminal of a deferral that was missed, so a
\* second fault of a layer takes a second move of the graph.
LEMMA TermStep ==
  ASSUME TypeInv, LoadInv, TermInv, [Next]_vars
  PROVE  TermInv'
<1>1. ASSUME NEW p \in 0..1, NEW c \in Chains, NEW body \in Bodies, NEW n \in Widths(p), BeginGraph(p, n, c, body)
      PROVE  TermInv'
  <2>1. /\ tok' = tok + 1 /\ at = "idle" /\ at' = "logits" /\ chain' = c
        /\ UNCHANGED <<term, drop, chainLast, faults>>
        /\ moves' = moves + (IF tok > 0 /\ c # chain THEN 1 ELSE 0)
    BY <1>1 DEF BeginGraph, dropVars
  <2>2. /\ tok \in Nat /\ moves \in Nat /\ \A l \in Layers : faults[l] \in Nat
        /\ drop.layer >= 0 => drop.layer \in Layers
    BY DEF TypeInv, GraphType, DropType, RestType, Layers
  <2>3. CASE tok = 0
    BY <2>1, <2>2, <2>3 DEF TermInv
  <2>4. CASE tok > 0 /\ c = chain
    BY <2>1, <2>2, <2>4 DEF TermInv, InChain, Routed
  <2>5. CASE tok > 0 /\ c # chain
    <3>1. \A l \in Layers : faults[l] < moves'
      BY <2>1, <2>2, <2>5 DEF TermInv
    <3> QED BY <2>1, <2>2, <2>5, <3>1 DEF TermInv, Routed
  <2> QED BY <2>2, <2>3, <2>4, <2>5
<1>2. CASE Logits
  BY <1>2 DEF Logits, Rest, TermInv, InChain, Routed, vars, graphVars, nodeVars, dropVars, probeVars, mailVars, aheadVars, historyVars
<1>3. ASSUME NEW sample \in BOOLEAN, NEW trips \in BOOLEAN, NEW closed \in BOOLEAN, NEW pick \in [1..rows -> Routings],
             NEW commit, Topk(pick, commit, sample, trips, closed)
      PROVE  TermInv'
  <2>1. /\ at = "topk" /\ at' \in {"load", "chain"} /\ tok' = tok /\ chain' = chain
        /\ term' = Learned /\ chainLast' = NoVariant
        /\ drop' = [layer |-> il, deferred |-> Deferred] /\ faults' = faults /\ moves' = moves
    BY <1>3 DEF Topk
  <2>2. /\ tok \in Nat /\ moves \in Nat /\ \A l \in Layers : faults[l] \in Nat
        /\ drop.layer >= 0 => drop.layer \in Layers
        /\ term \in [Layers -> Variants \cup {NoVariant}] /\ drop.layer \in Layers \cup {-1}
        /\ \A l \in Layers : l \in Nat
    <3>1. tok \in Nat /\ moves \in Nat /\ (\A l \in Layers : faults[l] \in Nat)
      BY DEF TypeInv, GraphType, RestType
    <3>2. term \in [Layers -> Variants \cup {NoVariant}] /\ drop.layer \in Layers \cup {-1}
      BY DEF TypeInv, DropType
    <3>3. \A l \in Layers : l \in Nat
      BY DEF Layers
    <3> QED BY <3>1, <3>2, <3>3
  <2>3. tok # 0
    BY <2>1 DEF TermInv
  <2>4. ASSUME NEW l \in Layers, term'[l] # NoVariant
        PROVE  InChain(term'[l]) \/ faults[l] < moves
    <3>1. CASE drop.layer # l
      BY <2>1, <2>2, <2>4, <3>1 DEF TermInv, Learned
    <3>2. CASE drop.layer = l
      <4>1. drop.layer >= 0 /\ ~(drop.layer < 0)
        BY <3>2, <2>2
      <4>2. ~drop.deferred
        <5> SUFFICES ASSUME drop.deferred PROVE term'[l] = NoVariant
          BY <2>4
        <5>1. Learned = [term EXCEPT ![l] = NoVariant]
          BY <3>2, <4>1 DEF Learned
        <5> QED BY <2>1, <2>2, <5>1
      <4>3. Learned = IF term[l] = NoVariant THEN [term EXCEPT ![l] = chainLast] ELSE term
        BY <3>2, <4>1, <4>2 DEF Learned
      <4>4. term'[l] = IF term[l] = NoVariant THEN chainLast ELSE term[l]
        BY <2>1, <2>2, <4>3
      <4> QED BY <2>1, <2>4, <3>2, <4>1, <4>2, <4>4 DEF TermInv, Routed
    <3> QED BY <3>1, <3>2
  <2> QED BY <2>1, <2>3, <2>4 DEF TermInv, InChain, Routed
<1>4. ASSUME NEW ok \in BOOLEAN, Load(ok)
      PROVE  TermInv'
  BY <1>4 DEF Load, Rest, TermInv, InChain, Routed, vars, graphVars, nodeVars, dropVars, probeVars, mailVars, aheadVars, historyVars
<1>5. CASE NodeSkipped
  BY <1>5 DEF NodeSkipped, Rest, TermInv, InChain, Routed, vars, graphVars, nodeVars, dropVars, probeVars, mailVars, aheadVars, historyVars
<1>6. CASE NodeObserved
  <2>1. InChain(chain[wpos])
    BY <1>6 DEF NodeObserved, InChain, TypeInv, GraphType
  <2>2. at = "chain" /\ at' = at /\ tok' = tok /\ chain' = chain
        /\ UNCHANGED <<term, drop, faults, moves>>
        /\ (chainLast' = chain[wpos] \/ chainLast' = chainLast)
    BY <1>6 DEF NodeObserved, historyVars
  <2> QED BY <2>1, <2>2 DEF TermInv, InChain, Routed
<1>7. ASSUME NEW best \in [1..rows -> Slots], NEW light, NEW resident, NEW ok \in BOOLEAN,
             ApplyDrop(best, light, resident, ok)
      PROVE  TermInv'
  <2>1. InChain(chain[wpos])
    BY <1>7 DEF ApplyDrop, InChain, TypeInv, GraphType
  <2>2. /\ at = "chain" /\ at' = at /\ tok' = tok /\ chain' = chain
        /\ UNCHANGED <<term, faults, moves>> /\ chainLast' = chain[wpos]
        /\ drop' = [drop EXCEPT !.deferred = FALSE]
    BY <1>7 DEF ApplyDrop
  <2>3. drop'.layer = drop.layer
    BY <2>2 DEF TypeInv, DropType
  <2> QED BY <2>1, <2>2, <2>3 DEF TermInv, InChain, Routed
<1>8. CASE Matmul
  <2>1. /\ at = "chain" /\ at' = "ran" /\ tok' = tok /\ chain' = chain
        /\ UNCHANGED <<term, drop, chainLast, moves>>
        /\ faults' = faults \/ (~AllLoaded /\ faults' = [faults EXCEPT ![il] = faults[il] + 1])
        /\ wpos > Len(chain) /\ ~fatal
    BY <1>8 DEF Matmul, dropVars, AllLoaded
  <2>2. /\ il \in Layers /\ faults \in [Layers -> Nat] /\ moves \in Nat /\ Len(chain) \in Nat /\ wpos \in Nat
        /\ drop.layer \in Layers \cup {-1}
    BY DEF TypeInv, GraphType, RestType, DropType
  <2>3. drop.layer = il
    BY <2>1 DEF LoadInv, Routed
  <2>4. CASE faults' = faults
    BY <2>1, <2>4 DEF TermInv, InChain, Routed
  <2>5. CASE ~AllLoaded /\ faults' = [faults EXCEPT ![il] = faults[il] + 1]
    <3>1. drop.deferred
      BY <2>1, <2>5 DEF LoadInv
    <3>2. term[il] # NoVariant /\ ~InChain(term[il])
      BY <2>1, <2>2, <3>1 DEF LoadInv, InChain
    <3>3. faults[il] < moves
      BY <2>1, <2>2, <3>2 DEF TermInv
    <3>4. /\ faults'[il] <= moves /\ \A l \in Layers : l # il => faults'[l] = faults[l]
          /\ \A l \in Layers : faults[l] \in Nat
      BY <2>2, <2>5, <3>3
    <3>5. chainLast # NoVariant => InChain(chainLast)
      <4>1. drop.layer >= 0
        BY <2>2, <2>3 DEF Layers
      <4> QED BY <2>1, <4>1 DEF TermInv, Routed
    <3>6. \A l \in Layers : faults'[l] <= moves'
      BY <2>1, <3>4 DEF TermInv
    <3>7. chainLast' # NoVariant => InChain(chainLast)'
      BY <2>1, <3>5, Zenon DEF InChain
    <3>8. ASSUME NEW l \in Layers, term'[l] # NoVariant
          PROVE  InChain(term[l]) \/ faults'[l] < moves \/ (drop.layer = l /\ drop.deferred)
      <4>1. CASE l = il
        BY <4>1, <2>3, <3>1
      <4>2. CASE l # il
        BY <4>2, <2>1, <2>3, <3>4, <3>8 DEF TermInv
      <4> QED BY <4>1, <4>2
    <3>9. tok # 0
      BY <2>1 DEF TermInv
    <3>10. \A l \in Layers : InChain(term[l]) => InChain(term[l])'
      BY <2>1, Zenon DEF InChain
    <3> HIDE DEF InChain
    <3> QED BY <2>1, <3>6, <3>7, <3>8, <3>9, <3>10 DEF TermInv
  <2> QED BY <2>1, <2>4, <2>5
<1>9. CASE NextLayer
  BY <1>9 DEF NextLayer, Rest, TermInv, InChain, Routed, vars, graphVars, nodeVars, dropVars, probeVars, mailVars, aheadVars, historyVars
<1>10. CASE Abort
  BY <1>10 DEF Abort, Rest, TermInv, InChain, Routed, vars, graphVars, nodeVars, dropVars, probeVars, mailVars, aheadVars, historyVars
<1>11. CASE Take
  BY <1>11 DEF Take, Rest, TermInv, InChain, Routed, vars, graphVars, nodeVars, dropVars, probeVars, mailVars, aheadVars, historyVars
<1>12. CASE Post
  BY <1>12 DEF Post, Rest, TermInv, InChain, Routed, vars, graphVars, nodeVars, dropVars, probeVars, mailVars, aheadVars, historyVars
<1>13. CASE UNCHANGED vars
  BY <1>13 DEF TermInv, InChain, Routed, vars, graphVars, nodeVars, dropVars, probeVars, mailVars, aheadVars, historyVars
<1> QED
  BY <1>1, <1>2, <1>3, <1>4, <1>5, <1>6, <1>7, <1>8, <1>9, <1>10, <1>11, <1>12, <1>13 DEF Next

\* A layer is loaded at its topk node, or at the terminal it was deferred to.
LEMMA LoadStep ==
  ASSUME TypeInv, PlaceInv, LoadInv, [Next]_vars
  PROVE  LoadInv'
<1>1. ASSUME NEW p \in 0..1, NEW c \in Chains, NEW body \in Bodies, NEW n \in Widths(p), BeginGraph(p, n, c, body)
      PROVE  LoadInv'
  BY <1>1 DEF BeginGraph, Widths, Rest, LoadInv, AllLoaded, DropArmed, Routed, vars, graphVars, nodeVars, dropVars, probeVars, mailVars, aheadVars, historyVars
<1>2. CASE Logits
  BY <1>2 DEF Logits, Rest, LoadInv, AllLoaded, DropArmed, Routed, vars, graphVars, nodeVars, dropVars, probeVars, mailVars, aheadVars, historyVars
<1>3. ASSUME NEW sample \in BOOLEAN, NEW trips \in BOOLEAN, NEW closed \in BOOLEAN, NEW pick \in [1..rows -> Routings],
             NEW commit, Topk(pick, commit, sample, trips, closed)
      PROVE  LoadInv'
  <2>1. /\ at' = (IF Deferred THEN "chain" ELSE "load") /\ drop' = [layer |-> il, deferred |-> Deferred]
        /\ il' = il /\ chain' = chain /\ wpos' = wpos /\ term' = Learned /\ phase' = phase /\ mode' = mode
    BY <1>3 DEF Topk
  <2>2. drop'.layer = il /\ drop'.deferred = Deferred
    BY <2>1
  <2>3. Deferred => DropArmed' /\ term'[il] # NoVariant
    BY <2>1 DEF Deferred, DropArmed
  <2>4. wpos = 1
    BY <1>3 DEF Topk, PlaceInv
  <2> QED BY <2>1, <2>2, <2>3, <2>4 DEF LoadInv, Routed
<1>4. ASSUME NEW ok \in BOOLEAN, Load(ok)
      PROVE  LoadInv'
  <2>1. /\ at = "load" /\ at' = "chain" /\ drop' = drop /\ il' = il /\ ids' = ids /\ rows' = rows
        /\ (ok => loaded' = UNION {ToSet(ids[j]) : j \in 1..rows}) /\ (~ok => fatal')
    BY <1>4 DEF Load, nodeVars, dropVars
  <2>2. ok => AllLoaded'
    BY <2>1 DEF AllLoaded
  <2> QED BY <2>1, <2>2 DEF LoadInv, Routed
<1>5. CASE NodeSkipped
  <2>1. DropArmed => chain[wpos] # term[il]
    BY <1>5 DEF NodeSkipped, Isolated
  <2>2. AllLoaded' = AllLoaded /\ DropArmed' = DropArmed
    BY <1>5 DEF NodeSkipped, AllLoaded, DropArmed, nodeVars, historyVars
  <2> QED BY <1>5, <2>1, <2>2 DEF NodeSkipped, LoadInv, Routed, TypeInv, GraphType, dropVars
<1>6. CASE NodeObserved
  <2>1. drop.deferred => chain[wpos] # term[il]
    BY <1>6 DEF NodeObserved, Decides, LoadInv, Routed
  <2>2. AllLoaded' = AllLoaded /\ DropArmed' = DropArmed
    BY <1>6 DEF NodeObserved, AllLoaded, DropArmed, nodeVars, historyVars
  <2> QED BY <1>6, <2>1, <2>2 DEF NodeObserved, LoadInv, Routed, TypeInv, GraphType, dropVars
<1>7. ASSUME NEW best \in [1..rows -> Slots], NEW light, NEW resident, NEW ok \in BOOLEAN,
             ApplyDrop(best, light, resident, ok)
      PROVE  LoadInv'
  <2>1. /\ at = "chain" /\ at' = at /\ il' = il /\ rows' = rows /\ drop' = [drop EXCEPT !.deferred = FALSE]
        /\ (ok => loaded' = UNION {ToSet(ids'[j]) : j \in 1..rows}) /\ (~ok => fatal')
    BY <1>7 DEF ApplyDrop
  <2>2. drop'.layer = drop.layer /\ ~drop'.deferred
    BY <2>1 DEF TypeInv, DropType
  <2>3. ok => AllLoaded'
    BY <2>1 DEF AllLoaded
  <2> QED BY <2>1, <2>2, <2>3 DEF LoadInv, Routed
<1>8. CASE Matmul
  BY <1>8 DEF Matmul, Rest, LoadInv, AllLoaded, DropArmed, Routed, vars, graphVars, nodeVars, dropVars, probeVars, mailVars, aheadVars, historyVars
<1>9. CASE NextLayer
  BY <1>9 DEF NextLayer, Rest, LoadInv, AllLoaded, DropArmed, Routed, vars, graphVars, nodeVars, dropVars, probeVars, mailVars, aheadVars, historyVars
<1>10. CASE Abort
  BY <1>10 DEF Abort, Rest, LoadInv, AllLoaded, DropArmed, Routed, vars, graphVars, nodeVars, dropVars, probeVars, mailVars, aheadVars, historyVars
<1>11. CASE Take
  BY <1>11 DEF Take, Rest, LoadInv, AllLoaded, DropArmed, Routed, vars, graphVars, nodeVars, dropVars, probeVars, mailVars, aheadVars, historyVars
<1>12. CASE Post
  BY <1>12 DEF Post, Rest, LoadInv, AllLoaded, DropArmed, Routed, vars, graphVars, nodeVars, dropVars, probeVars, mailVars, aheadVars, historyVars
<1>13. CASE UNCHANGED vars
  BY <1>13 DEF LoadInv, AllLoaded, DropArmed, Routed, vars, graphVars, nodeVars, dropVars, probeVars, mailVars, aheadVars, historyVars
<1> QED
  BY <1>1, <1>2, <1>3, <1>4, <1>5, <1>6, <1>7, <1>8, <1>9, <1>10, <1>11, <1>12, <1>13 DEF Next

\* apply_drop repoints what it drops at the heaviest expert of the row.
LEMMA SlotStep ==
  ASSUME TypeInv, LoadInv, SlotInv, [Next]_vars
  PROVE  SlotInv'
<1>1. ASSUME NEW p \in 0..1, NEW c \in Chains, NEW body \in Bodies, NEW n \in Widths(p), BeginGraph(p, n, c, body)
      PROVE  SlotInv'
  BY <1>1 DEF BeginGraph, Widths, Rest, SlotInv, SlotKept, Routed, LoadInv, vars, graphVars, nodeVars, dropVars, probeVars, mailVars, aheadVars, historyVars
<1>2. CASE Logits
  BY <1>2 DEF Logits, Rest, SlotInv, SlotKept, Routed, LoadInv, vars, graphVars, nodeVars, dropVars, probeVars, mailVars, aheadVars, historyVars
<1>3. ASSUME NEW sample \in BOOLEAN, NEW trips \in BOOLEAN, NEW closed \in BOOLEAN, NEW pick \in [1..rows -> Routings],
             NEW commit, Topk(pick, commit, sample, trips, closed)
      PROVE  SlotInv'
  <2>1. /\ zeroed' = {} /\ il' = il /\ mode' = mode /\ ids' = routed'.run
        /\ pending' = (IF mode.trace THEN [layer |-> il, dropped |-> {}] ELSE NoRecord)
    BY <1>3 DEF Topk
  <2> QED BY <2>1 DEF SlotInv, SlotKept
<1>4. ASSUME NEW ok \in BOOLEAN, Load(ok)
      PROVE  SlotInv'
  BY <1>4 DEF Load, Rest, SlotInv, SlotKept, Routed, LoadInv, vars, graphVars, nodeVars, dropVars, probeVars, mailVars, aheadVars, historyVars
<1>5. CASE NodeSkipped
  BY <1>5 DEF NodeSkipped, Rest, SlotInv, SlotKept, Routed, LoadInv, vars, graphVars, nodeVars, dropVars, probeVars, mailVars, aheadVars, historyVars
<1>6. CASE NodeObserved
  BY <1>6 DEF NodeObserved, Rest, SlotInv, SlotKept, Routed, LoadInv, vars, graphVars, nodeVars, dropVars, probeVars, mailVars, aheadVars, historyVars
<1>7. ASSUME NEW best \in [1..rows -> Slots], NEW light, NEW resident, NEW ok \in BOOLEAN,
             ApplyDrop(best, light, resident, ok)
      PROVE  SlotInv'
  <2>1. /\ at = "chain" /\ at' = at /\ drop.deferred /\ UNCHANGED <<mode, rows, il, routed>>
        /\ ids' = Repointed(best, Dropped(best, light, resident))
        /\ zeroed' = Dropped(best, light, resident)
        /\ pending' = IF pending.layer = il THEN [pending EXCEPT !.dropped = zeroed'] ELSE pending
        /\ drop' = [drop EXCEPT !.deferred = FALSE]
    BY <1>7 DEF ApplyDrop, Decides
  <2>2. /\ zeroed = {} /\ \A j \in 1..rows : \A k \in Slots : ids[j][k] = routed.run[j][k]
        /\ mode.trace => pending = [layer |-> il, dropped |-> {}]
    BY <2>1 DEF SlotInv, SlotKept, Routed
  <2>3. mode.trace => pending' = [layer |-> il, dropped |-> zeroed']
    BY <2>1, <2>2
  <2>4. ~drop'.deferred
    BY <2>1 DEF TypeInv, DropType
  <2>5. ASSUME NEW j \in 1..rows, NEW k \in Slots
        PROVE  SlotKept(j, k)'
    <3>1. /\ best[j] \in Slots /\ <<j, best[j]>> \notin zeroed'
          /\ ids'[j][k] = IF <<j, k>> \in zeroed' THEN ids[j][best[j]] ELSE ids[j][k]
      BY <2>1, <2>5 DEF Repointed, Dropped, Pinned
    <3> QED BY <2>1, <2>2, <3>1 DEF SlotKept
  <2> QED BY <2>1, <2>3, <2>4, <2>5 DEF SlotInv, Routed
<1>8. CASE Matmul
  BY <1>8 DEF Matmul, Rest, SlotInv, SlotKept, Routed, LoadInv, vars, graphVars, nodeVars, dropVars, probeVars, mailVars, aheadVars, historyVars
<1>9. CASE NextLayer
  BY <1>9 DEF NextLayer, Rest, SlotInv, SlotKept, Routed, LoadInv, vars, graphVars, nodeVars, dropVars, probeVars, mailVars, aheadVars, historyVars
<1>10. CASE Abort
  BY <1>10 DEF Abort, Rest, SlotInv, SlotKept, Routed, LoadInv, vars, graphVars, nodeVars, dropVars, probeVars, mailVars, aheadVars, historyVars
<1>11. CASE Take
  BY <1>11 DEF Take, Rest, SlotInv, SlotKept, Routed, LoadInv, vars, graphVars, nodeVars, dropVars, probeVars, mailVars, aheadVars, historyVars
<1>12. CASE Post
  BY <1>12 DEF Post, Rest, SlotInv, SlotKept, Routed, LoadInv, vars, graphVars, nodeVars, dropVars, probeVars, mailVars, aheadVars, historyVars
<1>13. CASE UNCHANGED vars
  BY <1>13 DEF SlotInv, SlotKept, Routed, vars, graphVars, nodeVars, dropVars, probeVars, mailVars, aheadVars, historyVars
<1> QED
  BY <1>1, <1>2, <1>3, <1>4, <1>5, <1>6, <1>7, <1>8, <1>9, <1>10, <1>11, <1>12, <1>13 DEF Next

\* validate(): route-ahead runs with no other prediction and no draft head.
LEMMA ValidAhead ==
  ASSUME TypeInv
  PROVE  /\ mode.ahead \in Nat /\ phase \in {0, 1}
         /\ mode.ahead > 0 => ~mode.probe /\ ~mode.predict /\ ~mode.draft
<1>1. mode \in Mode /\ Valid(mode) /\ phase \in {0, 1}
  BY RouterAssumption DEF TypeInv, RestType, GraphType
<1> QED BY <1>1 DEF Valid, RouteAheadMax, Mode

\* Sequence numbers only grow, and the mailbox holds none still to come.
LEMMA JobsStep ==
  ASSUME TypeInv, JobsInv, [Next]_vars
  PROVE  JobsInv'
<1>1. ASSUME NEW p \in 0..1, NEW c \in Chains, NEW body \in Bodies, NEW n \in Widths(p), BeginGraph(p, n, c, body)
      PROVE  JobsInv'
  BY <1>1 DEF BeginGraph, Widths, JobsInv, JobSound, vars, graphVars, nodeVars, dropVars, probeVars, mailVars, aheadVars, historyVars
<1>2. CASE Logits
  BY <1>2 DEF Logits, JobsInv, JobSound, vars, graphVars, nodeVars, dropVars, probeVars, mailVars, aheadVars, historyVars
<1>3. ASSUME NEW sample \in BOOLEAN, NEW trips \in BOOLEAN, NEW closed \in BOOLEAN, NEW pick \in [1..rows -> Routings],
             NEW commit, Topk(pick, commit, sample, trips, closed)
      PROVE  JobsInv'
  <2>1. Submit(trips) /\ result' = AfterCollect /\ working' = working
    BY <1>3 DEF Topk
  <2>2. seq \in Nat /\ seq' \in {seq, seq + 1} /\ (seq' = seq => job' = job \/ job'.seq = seq)
    BY <2>1 DEF TypeInv, MailType, Submit
  <2>3. seq' = seq \/ (seq' = seq + 1 /\ job'.seq = seq + 1)
    BY <2>1 DEF Submit, AheadJob, HintJob
  <2>4. seq' = seq => job' = job
    BY <2>1, <2>2 DEF Submit
  <2>5. job.seq \in Nat /\ working.seq \in Nat /\ result.seq \in Nat /\ NoJob.seq = 0
    BY DEF TypeInv, MailType, Job, NoJob
  <2>6. result' \in {result, NoJob}
    BY <2>1 DEF AfterCollect
  <2> QED BY <2>1, <2>2, <2>3, <2>4, <2>5, <2>6 DEF JobsInv, JobSound
<1>4. ASSUME NEW ok \in BOOLEAN, Load(ok)
      PROVE  JobsInv'
  <2>1. result' \in {result, NoJob} /\ UNCHANGED <<seq, job, working>> /\ NoJob.seq = 0 /\ seq \in Nat
    BY <1>4 DEF Load, AfterLoad, AfterCollect, NoJob, TypeInv, MailType
  <2> QED BY <2>1 DEF JobsInv, JobSound
<1>5. CASE NodeSkipped
  BY <1>5 DEF NodeSkipped, JobsInv, JobSound, vars, graphVars, nodeVars, dropVars, probeVars, mailVars, aheadVars, historyVars
<1>6. CASE NodeObserved
  BY <1>6 DEF NodeObserved, JobsInv, JobSound, vars, graphVars, nodeVars, dropVars, probeVars, mailVars, aheadVars, historyVars
<1>7. ASSUME NEW best \in [1..rows -> Slots], NEW light, NEW resident, NEW ok \in BOOLEAN,
             ApplyDrop(best, light, resident, ok)
      PROVE  JobsInv'
  <2>1. result' \in {result, NoJob} /\ UNCHANGED <<seq, job, working>> /\ NoJob.seq = 0 /\ seq \in Nat
    BY <1>7 DEF ApplyDrop, AfterLoad, AfterCollect, NoJob, TypeInv, MailType
  <2> QED BY <2>1 DEF JobsInv, JobSound
<1>8. CASE Matmul
  BY <1>8 DEF Matmul, JobsInv, JobSound, vars, graphVars, nodeVars, dropVars, probeVars, mailVars, aheadVars, historyVars
<1>9. CASE NextLayer
  BY <1>9 DEF NextLayer, JobsInv, JobSound, vars, graphVars, nodeVars, dropVars, probeVars, mailVars, aheadVars, historyVars
<1>10. CASE Abort
  BY <1>10 DEF Abort, JobsInv, JobSound, vars, graphVars, nodeVars, dropVars, probeVars, mailVars, aheadVars, historyVars
<1>11. CASE Take
  <2>1. NoJob.seq = 0 /\ seq \in Nat
    BY DEF NoJob, TypeInv, MailType
  <2> QED BY <1>11, <2>1 DEF Take, JobsInv, JobSound
<1>12. CASE Post
  <2>1. NoJob.seq = 0 /\ seq \in Nat
    BY DEF NoJob, TypeInv, MailType
  <2> QED BY <1>12, <2>1 DEF Post, JobsInv, JobSound
<1>13. CASE UNCHANGED vars
  BY <1>13 DEF JobsInv, JobSound, vars, graphVars, nodeVars, dropVars, probeVars, mailVars, aheadVars, historyVars
<1> QED
  BY <1>1, <1>2, <1>3, <1>4, <1>5, <1>6, <1>7, <1>8, <1>9, <1>10, <1>11, <1>12, <1>13 DEF Next

\* The matrices are learned in the order of the layers, so once a job was sent
\* the first layer of every graph can send one.
LEMMA GateStep ==
  ASSUME TypeInv, PlaceInv, GateInv, [Next]_vars
  PROVE  GateInv'
<1>1. ASSUME NEW p \in 0..1, NEW c \in Chains, NEW body \in Bodies, NEW n \in Widths(p), BeginGraph(p, n, c, body)
      PROVE  GateInv'
  <2>1. mode \in Mode /\ (mode.draft => NLayers > 1) /\ mode' = mode
    BY <1>1, RouterAssumption DEF TypeInv, RestType, BeginGraph
  <2>2. ~mode.draft => il' = 0 /\ at' = "logits"
    BY <1>1, <2>1, BodyShape DEF BeginGraph
  <2>3. UNCHANGED <<gate, seq>>
    BY <1>1 DEF BeginGraph, mailVars
  <2> QED BY <2>1, <2>2, <2>3, ValidAhead DEF GateInv, Layers
<1>2. CASE Logits
  <2>1. /\ at = "logits" /\ at' = "topk" /\ UNCHANGED <<mode, il, phase, seq>>
        /\ gate' = IF Predicting THEN gate \cup {il} ELSE gate
    BY <1>2 DEF Logits, mailVars
  <2>2. mode.ahead > 0 => (Predicting <=> phase = 1)
    BY DEF Predicting
  <2>3. il \in Layers /\ gate \subseteq Layers
    BY DEF TypeInv, GraphType, ProbeType
  <2>4. \A k, l \in Layers : k < l \/ k = l \/ k > l
    BY DEF Layers
  <2> QED BY <2>1, <2>2, <2>3, <2>4 DEF GateInv
<1>3. ASSUME NEW sample \in BOOLEAN, NEW trips \in BOOLEAN, NEW closed \in BOOLEAN, NEW pick \in [1..rows -> Routings],
             NEW commit, Topk(pick, commit, sample, trips, closed)
      PROVE  GateInv'
  <2>1. /\ Submit(trips) /\ UNCHANGED <<mode, il, phase, gate>> /\ at = "topk" /\ at' \in {"load", "chain"}
    BY <1>3 DEF Topk
  <2>2. seq \in Nat /\ il \in Layers /\ gate \subseteq Layers
    BY DEF TypeInv, MailType, GraphType, ProbeType
  <2>3. ASSUME mode.ahead > 0, seq' > 0
        PROVE  mode.ahead \in gate /\ Readable(mode.row)
    <3>1. CASE seq' = seq
      BY <2>3, <3>1 DEF GateInv
    <3>2. CASE seq' # seq
      <4>1. SubmitsAhead(trips)
        BY <2>1, <2>3, <3>2, ValidAhead DEF Submit, SubmitsHint
      <4>2. il + mode.ahead \in gate /\ Readable(mode.row)
        BY <4>1 DEF SubmitsAhead, Sends
      <4>3. mode.ahead \in Layers /\ (mode.ahead < il + mode.ahead \/ mode.ahead = il + mode.ahead)
        <5>1. il + mode.ahead \in 0..(NLayers - 1) /\ il \in Nat /\ mode.ahead \in Nat
          BY <2>2, <4>2, ValidAhead DEF Layers
        <5> QED BY <5>1, RouterAssumption DEF Layers
      <4> QED BY <2>3, <4>2, <4>3 DEF GateInv
    <3> QED BY <3>1, <3>2
  <2> QED BY <2>1, <2>3 DEF GateInv
<1>4. ASSUME NEW ok \in BOOLEAN, Load(ok)
      PROVE  GateInv'
  BY <1>4 DEF Load, Rest, GateInv, vars, graphVars, nodeVars, dropVars, probeVars, mailVars, aheadVars, historyVars
<1>5. CASE NodeSkipped
  BY <1>5 DEF NodeSkipped, Rest, GateInv, vars, graphVars, nodeVars, dropVars, probeVars, mailVars, aheadVars, historyVars
<1>6. CASE NodeObserved
  BY <1>6 DEF NodeObserved, Rest, GateInv, vars, graphVars, nodeVars, dropVars, probeVars, mailVars, aheadVars, historyVars
<1>7. ASSUME NEW best \in [1..rows -> Slots], NEW light, NEW resident, NEW ok \in BOOLEAN,
             ApplyDrop(best, light, resident, ok)
      PROVE  GateInv'
  BY <1>7 DEF ApplyDrop, Rest, GateInv, vars, graphVars, nodeVars, dropVars, probeVars, mailVars, aheadVars, historyVars
<1>8. CASE Matmul
  BY <1>8 DEF Matmul, Rest, GateInv, vars, graphVars, nodeVars, dropVars, probeVars, mailVars, aheadVars, historyVars
<1>9. CASE NextLayer
  <2>1. /\ il \in Layers /\ (~mode.draft => left = Rising(il)) /\ at = "ran"
        /\ (left = << >> => at' = "idle") /\ (left # << >> => at' = "logits" /\ il' = Head(left))
    BY <1>9 DEF NextLayer, PlaceInv, TypeInv, GraphType
  <2>2. ~mode.draft /\ left # << >> => il' = il + 1 /\ at' = "logits"
    BY <2>1, RisingTail
  <2>3. UNCHANGED <<mode, phase, gate, seq>> /\ (at' = "idle" \/ at' = "logits")
    BY <1>9 DEF NextLayer, mailVars
  <2>4. \A k \in Layers : k < il + 1 => k < il \/ k = il
    BY <2>1 DEF Layers
  <2>5. CASE mode.ahead > 0
    <3>1. left # << >> \/ at' = "idle"
      BY <2>1
    <3> QED BY <2>1, <2>2, <2>3, <2>4, <2>5, <3>1, ValidAhead DEF GateInv
  <2> QED BY <2>3, <2>5 DEF GateInv
<1>10. CASE Abort
  BY <1>10 DEF Abort, Rest, GateInv, vars, graphVars, nodeVars, dropVars, probeVars, mailVars, aheadVars, historyVars
<1>11. CASE Take
  BY <1>11 DEF Take, Rest, GateInv, vars, graphVars, nodeVars, dropVars, probeVars, mailVars, aheadVars, historyVars
<1>12. CASE Post
  BY <1>12 DEF Post, Rest, GateInv, vars, graphVars, nodeVars, dropVars, probeVars, mailVars, aheadVars, historyVars
<1>13. CASE UNCHANGED vars
  BY <1>13 DEF GateInv, vars, graphVars, nodeVars, dropVars, probeVars, mailVars, aheadVars, historyVars
<1> QED
  BY <1>1, <1>2, <1>3, <1>4, <1>5, <1>6, <1>7, <1>8, <1>9, <1>10, <1>11, <1>12, <1>13 DEF Next

\* What is collected for a layer this graph has looked ahead to is its own.
LEMMA CollectedFresh ==
  ASSUME TypeInv, JobsInv, FreshInv, AheadOn, ~tripped, at # "idle",
         NEW l \in Layers, l >= mode.ahead, Behind(l - mode.ahead)
  PROVE  Collected[l] \in {0, tok}
<1>1. slot[l] \in {0, tok}
  BY DEF FreshInv
<1>2. /\ slot \in [Layers -> Nat] /\ result.nl \in Layers /\ l \in Nat /\ il \in Nat /\ mode.ahead \in Nat
      /\ result.seq \in Nat
  BY ValidAhead DEF TypeInv, MailType, Job, GraphType, Layers
<1>3. il > 0 \/ Routed
  BY <1>2 DEF Behind
<1>4. JobFresh(result)
  BY <1>3 DEF FreshInv
<1>5. Collectable => result.tok = tok
  BY <1>2, <1>4 DEF Collectable, JobsInv, JobSound, JobFresh
<1> QED BY <1>1, <1>2, <1>5 DEF Collected

\* Past its first layer a graph collects its own jobs only, and every slot it has
\* looked ahead to was cleared first.
LEMMA FreshStep ==
  ASSUME TypeInv, PlaceInv, JobsInv, GateInv, FreshInv, [Next]_vars
  PROVE  FreshInv'
<1>1. ASSUME NEW p \in 0..1, NEW c \in Chains, NEW body \in Bodies, NEW n \in Widths(p), BeginGraph(p, n, c, body)
      PROVE  FreshInv'
  <2>1. mode \in Mode /\ (mode.draft => NLayers > 1) /\ mode' = mode
    BY <1>1, RouterAssumption DEF TypeInv, RestType, BeginGraph
  <2>2. ~mode.draft => il' = 0 /\ at' = "logits"
    BY <1>1, <2>1, BodyShape DEF BeginGraph
  <2>3. mode.ahead > 0 => \A l \in Layers : l >= mode.ahead => ~Behind(l - mode.ahead)'
    BY <2>1, <2>2, ValidAhead DEF Behind, Routed, Layers
  <2>4. AheadOn' => mode.ahead > 0
    BY <2>1 DEF AheadOn
  <2> QED BY <2>1, <2>2, <2>3, <2>4, ValidAhead DEF FreshInv, Routed
<1>2. CASE Logits
  BY <1>2 DEF Logits, Rest, FreshInv, AheadOn, Routed, Behind, JobFresh, vars, graphVars, nodeVars, dropVars, probeVars, mailVars, aheadVars, historyVars
<1>3. ASSUME NEW sample \in BOOLEAN, NEW trips \in BOOLEAN, NEW closed \in BOOLEAN, NEW pick \in [1..rows -> Routings],
             NEW commit, Topk(pick, commit, sample, trips, closed)
      PROVE  FreshInv'
  <2> DEFINE open == IF AheadOn /\ ~tripped THEN Cleared(Collected, il + mode.ahead) ELSE slot
  <2>1. /\ at = "topk" /\ at' \in {"load", "chain"} /\ UNCHANGED <<mode, phase, il, tok, working>>
        /\ Submit(trips) /\ result' \in {result, NoJob} /\ NoJob.seq = 0
        /\ slot' = AfterApply(open, trips) /\ tripped' = (tripped \/ trips)
    BY <1>3 DEF Topk, AfterCollect, Sampled, NoJob
  <2> SUFFICES ASSUME AheadOn, ~tripped, ~trips PROVE FreshInv'
    BY <2>1 DEF FreshInv, AheadOn
  <2>2. /\ mode.ahead \in Nat /\ mode.ahead > 0 /\ ~mode.predict /\ il \in Nat /\ il \in Layers
        /\ seq \in Nat /\ job.seq \in Nat /\ working.seq \in Nat /\ result.seq \in Nat /\ tok \in Nat
    BY ValidAhead DEF AheadOn, TypeInv, GraphType, MailType, Layers, Job
  <2>3. JobFresh(job)' /\ JobFresh(working)' /\ JobFresh(result)'
    <3>1. CASE SubmitsAhead(trips)
      <4>1. seq' = seq + 1 /\ job' = AheadJob
        BY <2>1, <3>1 DEF Submit
      <4>2. job'.tok = tok'
        BY <2>1, <4>1 DEF AheadJob
      <4>3. working'.seq # seq' /\ result'.seq # seq'
        BY <2>1, <2>2, <4>1 DEF JobsInv, JobSound
      <4> QED BY <4>2, <4>3 DEF JobFresh
    <3>2. CASE ~SubmitsAhead(trips)
      <4>1. seq' = seq /\ job' = job
        BY <2>1, <2>2, <3>2 DEF Submit, SubmitsHint
      <4>2. CASE il > 0
        <5>1. JobFresh(job) /\ JobFresh(working) /\ JobFresh(result)
          BY <2>1, <4>2 DEF FreshInv
        <5> QED BY <2>1, <4>1, <5>1 DEF JobFresh
      <4>3. CASE il = 0
        <5>1. il + mode.ahead = mode.ahead
          BY <2>2, <4>3
        <5>2. seq = 0
          BY <2>2, <3>2, <5>1 DEF GateInv, SubmitsAhead, Sends
        <5> QED BY <4>1, <5>2 DEF JobFresh
      <4> QED BY <2>2, <4>2, <4>3
    <3> QED BY <3>1, <3>2
  <2>4. ASSUME NEW l \in Layers, l >= mode.ahead, Behind(l - mode.ahead)'
        PROVE  slot'[l] \in {0, tok}
    <3>1. l \in Nat /\ (l = il + mode.ahead \/ l - mode.ahead < il)
      BY <2>1, <2>2, <2>4 DEF Behind, Layers
    <3>2. Collected \in [Layers -> Nat] /\ open = Cleared(Collected, il + mode.ahead)
      BY CollectedTyped
    <3>3. open[l] \in {0, tok} /\ open \in [Layers -> Nat]
      <4>1. CASE l = il + mode.ahead
        BY <3>2, <4>1 DEF Cleared
      <4>2. CASE l - mode.ahead < il
        <5>1. Collected[l] \in {0, tok}
          BY <2>1, <2>4, <4>2, CollectedFresh DEF Behind
        <5> QED BY <3>2, <5>1 DEF Cleared
      <4> QED BY <3>1, <4>1, <4>2
    <3> HIDE DEF open
    <3> QED BY <2>1, <2>2, <3>3 DEF AfterApply
  <2> QED BY <2>1, <2>3, <2>4 DEF FreshInv
<1>4. ASSUME NEW ok \in BOOLEAN, Load(ok)
      PROVE  FreshInv'
  <2>1. /\ at \in {"load", "chain"} /\ at' = "chain" /\ UNCHANGED <<mode, phase, il, tok, seq, job, working, tripped>>
        /\ slot' = Collected /\ result' \in {result, NoJob} /\ NoJob.seq = 0
    BY <1>4 DEF Load, AfterLoad, AfterCollect, NoJob
  <2>2. \A l \in Layers : Behind(l - mode.ahead)' <=> Behind(l - mode.ahead)
    BY <2>1 DEF Behind, Routed
  <2> SUFFICES ASSUME AheadOn, ~tripped PROVE FreshInv'
    BY <2>1 DEF FreshInv, AheadOn
  <2>3. JobFresh(job) /\ JobFresh(working) /\ JobFresh(result)
    BY <2>1 DEF FreshInv, Routed
  <2>4. JobFresh(job)' /\ JobFresh(working)' /\ JobFresh(result)'
    BY <2>1, <2>3 DEF JobFresh
  <2>5. \A l \in Layers : l >= mode.ahead /\ Behind(l - mode.ahead) => slot'[l] \in {0, tok}
    BY <2>1, CollectedFresh
  <2> QED BY <2>1, <2>2, <2>4, <2>5 DEF FreshInv
<1>5. CASE NodeSkipped
  BY <1>5 DEF NodeSkipped, Rest, FreshInv, AheadOn, Routed, Behind, JobFresh, vars, graphVars, nodeVars, dropVars, probeVars, mailVars, aheadVars, historyVars
<1>6. CASE NodeObserved
  BY <1>6 DEF NodeObserved, Rest, FreshInv, AheadOn, Routed, Behind, JobFresh, vars, graphVars, nodeVars, dropVars, probeVars, mailVars, aheadVars, historyVars
<1>7. ASSUME NEW best \in [1..rows -> Slots], NEW light, NEW resident, NEW ok \in BOOLEAN,
             ApplyDrop(best, light, resident, ok)
      PROVE  FreshInv'
  <2>1. /\ at \in {"load", "chain"} /\ at' = "chain" /\ UNCHANGED <<mode, phase, il, tok, seq, job, working, tripped>>
        /\ slot' = Collected /\ result' \in {result, NoJob} /\ NoJob.seq = 0
    BY <1>7 DEF ApplyDrop, AfterLoad, AfterCollect, NoJob
  <2>2. \A l \in Layers : Behind(l - mode.ahead)' <=> Behind(l - mode.ahead)
    BY <2>1 DEF Behind, Routed
  <2> SUFFICES ASSUME AheadOn, ~tripped PROVE FreshInv'
    BY <2>1 DEF FreshInv, AheadOn
  <2>3. JobFresh(job) /\ JobFresh(working) /\ JobFresh(result)
    BY <2>1 DEF FreshInv, Routed
  <2>4. JobFresh(job)' /\ JobFresh(working)' /\ JobFresh(result)'
    BY <2>1, <2>3 DEF JobFresh
  <2>5. \A l \in Layers : l >= mode.ahead /\ Behind(l - mode.ahead) => slot'[l] \in {0, tok}
    BY <2>1, CollectedFresh
  <2> QED BY <2>1, <2>2, <2>4, <2>5 DEF FreshInv
<1>8. CASE Matmul
  BY <1>8 DEF Matmul, Rest, FreshInv, AheadOn, Routed, Behind, JobFresh, vars, graphVars, nodeVars, dropVars, probeVars, mailVars, aheadVars, historyVars
<1>9. CASE NextLayer
  <2>1. /\ il \in Layers /\ (~mode.draft => left = Rising(il)) /\ at = "ran"
        /\ (left = << >> => at' = "idle") /\ (left # << >> => at' = "logits" /\ il' = Head(left))
    BY <1>9 DEF NextLayer, PlaceInv, TypeInv, GraphType
  <2>2. ~mode.draft /\ left # << >> => il' = il + 1 /\ at' = "logits"
    BY <2>1, RisingTail
  <2>3. UNCHANGED <<mode, phase, tok, seq, job, working, result, slot, tripped>> /\ (at' = "idle" \/ at' = "logits")
    BY <1>9 DEF NextLayer, mailVars, aheadVars
  <2> SUFFICES ASSUME AheadOn, ~tripped, at' # "idle" PROVE FreshInv'
    BY <2>3 DEF FreshInv, AheadOn
  <2>4. il' = il + 1 /\ at' = "logits" /\ Routed /\ il \in Nat /\ mode.ahead \in Nat
    BY <2>1, <2>2, ValidAhead DEF AheadOn, Routed, Layers
  <2>5. \A l \in Layers : Behind(l - mode.ahead)' => Behind(l - mode.ahead)
    BY <2>3, <2>4 DEF Behind, Routed, Layers
  <2>6. JobFresh(job)' /\ JobFresh(working)' /\ JobFresh(result)'
    BY <2>1, <2>3, <2>4 DEF FreshInv, JobFresh
  <2> QED BY <2>1, <2>3, <2>5, <2>6 DEF FreshInv
<1>10. CASE Abort
  BY <1>10 DEF Abort, Rest, FreshInv, AheadOn, Routed, Behind, JobFresh, vars, graphVars, nodeVars, dropVars, probeVars, mailVars, aheadVars, historyVars
<1>11. CASE Take
  <2>1. UNCHANGED <<mode, phase, at, il, tok, seq, slot, tripped>> /\ NoJob.seq = 0
    BY <1>11 DEF Take, graphVars, aheadVars, NoJob
  <2>2. JobFresh(job) /\ JobFresh(working) /\ JobFresh(result) => JobFresh(job)' /\ JobFresh(working)' /\ JobFresh(result)'
    BY <1>11, <2>1 DEF Take, JobFresh
  <2>3. \A l \in Layers : Behind(l - mode.ahead)' <=> Behind(l - mode.ahead)
    BY <2>1 DEF Behind, Routed
  <2> QED BY <2>1, <2>2, <2>3 DEF FreshInv, Routed, AheadOn
<1>12. CASE Post
  <2>1. UNCHANGED <<mode, phase, at, il, tok, seq, slot, tripped>> /\ NoJob.seq = 0
    BY <1>12 DEF Post, graphVars, aheadVars, NoJob
  <2>2. JobFresh(job) /\ JobFresh(working) /\ JobFresh(result) => JobFresh(job)' /\ JobFresh(working)' /\ JobFresh(result)'
    BY <1>12, <2>1 DEF Post, JobFresh
  <2>3. \A l \in Layers : Behind(l - mode.ahead)' <=> Behind(l - mode.ahead)
    BY <2>1 DEF Behind, Routed
  <2> QED BY <2>1, <2>2, <2>3 DEF FreshInv, Routed, AheadOn
<1>13. CASE UNCHANGED vars
  BY <1>13 DEF FreshInv, AheadOn, Routed, Behind, JobFresh, vars, graphVars, nodeVars, dropVars, probeVars, mailVars, aheadVars, historyVars
<1> QED
  BY <1>1, <1>2, <1>3, <1>4, <1>5, <1>6, <1>7, <1>8, <1>9, <1>10, <1>11, <1>12, <1>13 DEF Next

\* What a layer is committed to was ranked in its own graph.
LEMMA CommitStep ==
  ASSUME TypeInv, PlaceInv, JobsInv, FreshInv, CommitFromThisToken, [Next]_vars
  PROVE  CommitFromThisToken'
<1>1. ASSUME NEW p \in 0..1, NEW c \in Chains, NEW body \in Bodies, NEW n \in Widths(p), BeginGraph(p, n, c, body)
      PROVE  CommitFromThisToken'
  BY <1>1 DEF BeginGraph, PlaceInv, CommitFromThisToken
<1>2. CASE Logits
  BY <1>2 DEF Logits, Rest, CommitFromThisToken, vars, graphVars, nodeVars, dropVars, probeVars, mailVars, aheadVars, historyVars
<1>3. ASSUME NEW sample \in BOOLEAN, NEW trips \in BOOLEAN, NEW closed \in BOOLEAN, NEW pick \in [1..rows -> Routings],
             NEW commit, Topk(pick, commit, sample, trips, closed)
      PROVE  CommitFromThisToken'
  <2> DEFINE open == IF AheadOn /\ ~tripped THEN Cleared(Collected, il + mode.ahead) ELSE slot
  <2>1. /\ at = "topk" /\ tok' = tok /\ committed' = IF Commits(open, trips) THEN open[il] ELSE 0
    BY <1>3 DEF Topk
  <2> SUFFICES ASSUME Commits(open, trips) PROVE open[il] \in {0, tok}
    BY <2>1 DEF CommitFromThisToken
  <2>2. AheadOn /\ ~tripped /\ il >= mode.ahead /\ mode.ahead \in Nat /\ mode.ahead > 0 /\ il \in Nat /\ il \in Layers
    BY ValidAhead DEF Commits, AheadOn, TypeInv, GraphType, Layers
  <2>3. Collected \in [Layers -> Nat] /\ open = Cleared(Collected, il + mode.ahead)
    BY <2>2, CollectedTyped
  <2>4. open[il] = Collected[il]
    BY <2>2, <2>3 DEF Cleared
  <2>5. Behind(il - mode.ahead)
    BY <2>2 DEF Behind
  <2>6. Collected[il] \in {0, tok}
    BY <2>1, <2>2, <2>5, CollectedFresh
  <2> HIDE DEF open
  <2> QED BY <2>4, <2>6
<1>4. ASSUME NEW ok \in BOOLEAN, Load(ok)
      PROVE  CommitFromThisToken'
  BY <1>4 DEF Load, Rest, CommitFromThisToken, vars, graphVars, nodeVars, dropVars, probeVars, mailVars, aheadVars, historyVars
<1>5. CASE NodeSkipped
  BY <1>5 DEF NodeSkipped, Rest, CommitFromThisToken, vars, graphVars, nodeVars, dropVars, probeVars, mailVars, aheadVars, historyVars
<1>6. CASE NodeObserved
  BY <1>6 DEF NodeObserved, Rest, CommitFromThisToken, vars, graphVars, nodeVars, dropVars, probeVars, mailVars, aheadVars, historyVars
<1>7. ASSUME NEW best \in [1..rows -> Slots], NEW light, NEW resident, NEW ok \in BOOLEAN,
             ApplyDrop(best, light, resident, ok)
      PROVE  CommitFromThisToken'
  BY <1>7 DEF ApplyDrop, Rest, CommitFromThisToken, vars, graphVars, nodeVars, dropVars, probeVars, mailVars, aheadVars, historyVars
<1>8. CASE Matmul
  BY <1>8 DEF Matmul, Rest, CommitFromThisToken, vars, graphVars, nodeVars, dropVars, probeVars, mailVars, aheadVars, historyVars
<1>9. CASE NextLayer
  BY <1>9 DEF NextLayer, Rest, CommitFromThisToken, vars, graphVars, nodeVars, dropVars, probeVars, mailVars, aheadVars, historyVars
<1>10. CASE Abort
  BY <1>10 DEF Abort, Rest, CommitFromThisToken, vars, graphVars, nodeVars, dropVars, probeVars, mailVars, aheadVars, historyVars
<1>11. CASE Take
  BY <1>11 DEF Take, Rest, CommitFromThisToken, vars, graphVars, nodeVars, dropVars, probeVars, mailVars, aheadVars, historyVars
<1>12. CASE Post
  BY <1>12 DEF Post, Rest, CommitFromThisToken, vars, graphVars, nodeVars, dropVars, probeVars, mailVars, aheadVars, historyVars
<1>13. CASE UNCHANGED vars
  BY <1>13 DEF CommitFromThisToken, vars, graphVars, nodeVars, dropVars, probeVars, mailVars, aheadVars, historyVars
<1> QED
  BY <1>1, <1>2, <1>3, <1>4, <1>5, <1>6, <1>7, <1>8, <1>9, <1>10, <1>11, <1>12, <1>13 DEF Next

\* Every prediction of a layer is remade, or withdrawn, before it is graded.
LEMMA ProbeStep ==
  ASSUME TypeInv, PlaceInv, ProbeInv, [Next]_vars
  PROVE  ProbeInv'
<1>1. ASSUME NEW p \in 0..1, NEW c \in Chains, NEW body \in Bodies, NEW n \in Widths(p), BeginGraph(p, n, c, body)
      PROVE  ProbeInv'
  <2>1. mode \in Mode /\ (mode.draft => NLayers > 1) /\ mode' = mode
    BY <1>1, RouterAssumption DEF TypeInv, RestType, BeginGraph
  <2>2. /\ ~mode.draft => il' = 0
        /\ at' = "logits" /\ tok' = tok + 1 /\ UNCHANGED <<stale, stale2, self, prev>>
    BY <1>1, <2>1, BodyShape DEF BeginGraph, probeVars
  <2> SUFFICES ASSUME mode.probe, ~mode.draft PROVE ProbeInv'
    BY <2>1 DEF ProbeInv
  <2>3. prev \in [Layers -> Nat] /\ tok \in Nat
    BY DEF TypeInv, ProbeType, GraphType
  <2>4. \A l \in Layers : prev[l] <= tok /\ prev[l] < tok + 1 /\ prev[l] <= tok + 1
    BY <2>3 DEF ProbeInv
  <2>5. /\ \A l \in Layers : AheadOf(l, 1)' => l = 0
        /\ \A l \in Layers : AheadOf(l, 2)' => l = 0 \/ l = 1
    BY <2>2 DEF AheadOf, Layers
  <2> QED BY <2>2, <2>4, <2>5 DEF ProbeInv
<1>2. CASE Logits
  <2> DEFINE seen == IF Predicting THEN gate \cup {il} ELSE gate
             made(l) == IF l \in seen /\ Scorable THEN tok ELSE 0
             Made(f, l) == IF l \in Layers THEN [f EXCEPT ![l] = made(l)] ELSE f
  <2>1. /\ at = "logits" /\ at' = "topk" /\ UNCHANGED <<mode, phase, il, tok, prev>>
        /\ mode.probe /\ phase = 1 => /\ self' = Made(self, il)
                                     /\ stale' = Made(stale, il + 1)
                                     /\ stale2' = Made(stale2, il + 2)
        /\ ~(mode.probe /\ phase = 1) => UNCHANGED <<self, stale, stale2>>
    BY <1>2 DEF Logits
  <2> SUFFICES ASSUME mode.probe, ~mode.draft PROVE ProbeInv'
    BY <2>1 DEF ProbeInv
  <2>2. /\ stale \in [Layers -> Nat] /\ stale2 \in [Layers -> Nat] /\ self \in [Layers -> Nat]
        /\ il \in Layers /\ il \in Nat
    BY DEF TypeInv, ProbeType, GraphType, Layers
  <2>3. \A l \in Layers : Behind(l)' <=> Behind(l)
    BY <2>1 DEF Behind, Routed
  <2>4. CASE phase = 0
    BY <2>1, <2>3, <2>4 DEF ProbeInv
  <2>5. CASE phase = 1
    <3>1. \A f \in [Layers -> Nat], l \in Nat, m \in Layers :
            Made(f, l)[m] = IF m = l THEN made(l) ELSE f[m]
      OBVIOUS
    <3>2. \A l : made(l) \in {0, tok}
      OBVIOUS
    <3>3. /\ self' = Made(self, il) /\ stale' = Made(stale, il + 1) /\ stale2' = Made(stale2, il + 2)
          /\ il + 1 \in Nat /\ il + 2 \in Nat
      BY <2>1, <2>2, <2>5
    <3> HIDE DEF Made, made, seen
    <3>4. self'[il] \in {0, tok}
      BY <2>2, <3>1, <3>2, <3>3
    <3>5. /\ \A m \in Layers : stale'[m] = IF m = il + 1 THEN made(il + 1) ELSE stale[m]
          /\ \A m \in Layers : stale2'[m] = IF m = il + 2 THEN made(il + 2) ELSE stale2[m]
      BY <2>2, <3>1, <3>3
    <3>6. \A l \in Layers : AheadOf(l, 1)' => l = il + 1 \/ AheadOf(l, 1)
      BY <2>1, <2>2 DEF AheadOf, Layers
    <3>7. \A l \in Layers : AheadOf(l, 2)' => l = il + 2 \/ AheadOf(l, 2)
      BY <2>1, <2>2 DEF AheadOf, Layers
    <3>8. \A m \in Layers : AheadOf(m, 1)' => stale'[m] \in {0, tok}
      BY <2>1, <2>5, <3>2, <3>5, <3>6 DEF ProbeInv
    <3>9. \A m \in Layers : AheadOf(m, 2)' => stale2'[m] \in {0, tok}
      BY <2>1, <2>5, <3>2, <3>5, <3>7 DEF ProbeInv
    <3>10. 0 \in Layers /\ 0 # il + 1 /\ 0 # il + 2 /\ 1 # il + 2
      BY <2>2, RouterAssumption DEF Layers
    <3>11. stale'[0] = 0 /\ stale2'[0] = 0 /\ (1 \in Layers => stale2'[1] = 0)
      BY <3>5, <3>10 DEF ProbeInv
    <3> QED BY <2>1, <2>3, <3>4, <3>8, <3>9, <3>11 DEF ProbeInv
  <2> QED BY <2>4, <2>5 DEF TypeInv, GraphType
<1>3. ASSUME NEW sample \in BOOLEAN, NEW trips \in BOOLEAN, NEW closed \in BOOLEAN, NEW pick \in [1..rows -> Routings],
             NEW commit, Topk(pick, commit, sample, trips, closed)
      PROVE  ProbeInv'
  <2>1. /\ at = "topk" /\ at' \in {"load", "chain"} /\ UNCHANGED <<mode, phase, il, tok>> /\ Score
    BY <1>3 DEF Topk
  <2> SUFFICES ASSUME mode.probe, ~mode.draft PROVE ProbeInv'
    BY <2>1 DEF ProbeInv
  <2> DEFINE Zeroed(f) == [f EXCEPT ![il] = 0]
  <2>2. /\ stale \in [Layers -> Nat] /\ stale2 \in [Layers -> Nat] /\ prev \in [Layers -> Nat]
        /\ il \in Layers /\ il \in Nat /\ tok \in Nat
    BY DEF TypeInv, ProbeType, GraphType, Layers
  <2>3. /\ stale' \in {stale, Zeroed(stale)} /\ stale2' \in {stale2, Zeroed(stale2)}
        /\ prev' = [prev EXCEPT ![il] = tok]
    BY <2>1 DEF Score
  <2>4. \A f \in [Layers -> Nat] : \A l \in Layers : Zeroed(f)[l] = IF l = il THEN 0 ELSE f[l]
    BY <2>2
  <2> HIDE DEF Zeroed
  <2>5. \A l \in Layers : stale'[l] \in {0, stale[l]} /\ stale2'[l] \in {0, stale2[l]}
    BY <2>2, <2>3, <2>4
  <2>6. /\ \A l \in Layers : prev'[l] = IF l = il THEN tok ELSE prev[l]
        /\ \A l \in Layers : Behind(l)' <=> l < il \/ l = il
        /\ \A l \in Layers : l >= il /\ ~(l < il \/ l = il) => l # il /\ ~Behind(l)
    BY <2>1, <2>2, <2>3 DEF Behind, Routed, Layers
  <2>7. /\ \A l \in Layers : AheadOf(l, 1)' <=> AheadOf(l, 1)
        /\ \A l \in Layers : AheadOf(l, 2)' <=> AheadOf(l, 2)
    BY <2>1 DEF AheadOf
  <2>8. \A l \in Layers : prev'[l] <= tok'
    BY <2>1, <2>2, <2>6 DEF ProbeInv
  <2>9. \A l \in Layers : l >= il /\ ~Behind(l)' => prev'[l] < tok
    BY <2>1, <2>6 DEF ProbeInv
  <2>10. phase = 1 => /\ \A l \in Layers : AheadOf(l, 1) => stale'[l] \in {0, tok}
                      /\ \A l \in Layers : AheadOf(l, 2) => stale2'[l] \in {0, tok}
    BY <2>1, <2>5 DEF ProbeInv
  <2>11. 0 \in Layers
    BY RouterAssumption DEF Layers
  <2>12. stale'[0] = 0 /\ stale2'[0] = 0 /\ (1 \in Layers => stale2'[1] = 0)
    BY <2>5, <2>11 DEF ProbeInv
  <2> QED BY <2>1, <2>7, <2>8, <2>9, <2>10, <2>12 DEF ProbeInv
<1>4. ASSUME NEW ok \in BOOLEAN, Load(ok)
      PROVE  ProbeInv'
  BY <1>4 DEF Load, Rest, ProbeInv, AheadOf, Behind, Routed, vars, graphVars, nodeVars, dropVars, probeVars, mailVars, aheadVars, historyVars
<1>5. CASE NodeSkipped
  BY <1>5 DEF NodeSkipped, Rest, ProbeInv, AheadOf, Behind, Routed, vars, graphVars, nodeVars, dropVars, probeVars, mailVars, aheadVars, historyVars
<1>6. CASE NodeObserved
  BY <1>6 DEF NodeObserved, Rest, ProbeInv, AheadOf, Behind, Routed, vars, graphVars, nodeVars, dropVars, probeVars, mailVars, aheadVars, historyVars
<1>7. ASSUME NEW best \in [1..rows -> Slots], NEW light, NEW resident, NEW ok \in BOOLEAN,
             ApplyDrop(best, light, resident, ok)
      PROVE  ProbeInv'
  BY <1>7 DEF ApplyDrop, Rest, ProbeInv, AheadOf, Behind, Routed, vars, graphVars, nodeVars, dropVars, probeVars, mailVars, aheadVars, historyVars
<1>8. CASE Matmul
  BY <1>8 DEF Matmul, Rest, ProbeInv, AheadOf, Behind, Routed, vars, graphVars, nodeVars, dropVars, probeVars, mailVars, aheadVars, historyVars
<1>9. CASE NextLayer
  <2>1. /\ il \in Layers /\ (~mode.draft => left = Rising(il)) /\ at = "ran"
        /\ (left = << >> => at' = "idle") /\ (left # << >> => at' = "logits" /\ il' = Head(left))
    BY <1>9 DEF NextLayer, PlaceInv, TypeInv, GraphType
  <2>2. ~mode.draft /\ left # << >> => il' = il + 1 /\ at' = "logits"
    BY <2>1, RisingTail
  <2>3. UNCHANGED <<mode, phase, tok, stale, stale2, self, prev>> /\ (at' = "idle" \/ at' = "logits")
    BY <1>9 DEF NextLayer, probeVars
  <2> SUFFICES ASSUME mode.probe, ~mode.draft PROVE ProbeInv'
    BY <2>3 DEF ProbeInv
  <2>4. CASE at' = "idle"
    BY <2>3, <2>4 DEF ProbeInv
  <2>5. CASE at' = "logits"
    <3>1. il' = il + 1 /\ il \in Nat /\ Routed
      BY <2>1, <2>2, <2>5 DEF Layers, Routed
    <3>2. \A l \in Layers : l >= il' /\ ~Behind(l)' => l >= il /\ ~Behind(l)
      BY <2>1, <2>5, <3>1 DEF Behind, Routed, Layers
    <3>3. /\ \A l \in Layers : AheadOf(l, 1)' => AheadOf(l, 1)
          /\ \A l \in Layers : AheadOf(l, 2)' => AheadOf(l, 2)
      BY <2>1, <2>5, <3>1 DEF AheadOf, Layers
    <3> QED BY <2>1, <2>3, <2>5, <3>2, <3>3 DEF ProbeInv
  <2> QED BY <2>3, <2>4, <2>5
<1>10. CASE Abort
  BY <1>10 DEF Abort, Rest, ProbeInv, AheadOf, Behind, Routed, vars, graphVars, nodeVars, dropVars, probeVars, mailVars, aheadVars, historyVars
<1>11. CASE Take
  BY <1>11 DEF Take, Rest, ProbeInv, AheadOf, Behind, Routed, vars, graphVars, nodeVars, dropVars, probeVars, mailVars, aheadVars, historyVars
<1>12. CASE Post
  BY <1>12 DEF Post, Rest, ProbeInv, AheadOf, Behind, Routed, vars, graphVars, nodeVars, dropVars, probeVars, mailVars, aheadVars, historyVars
<1>13. CASE UNCHANGED vars
  BY <1>13 DEF ProbeInv, AheadOf, Behind, Routed, vars, graphVars, nodeVars, dropVars, probeVars, mailVars, aheadVars, historyVars
<1> QED
  BY <1>1, <1>2, <1>3, <1>4, <1>5, <1>6, <1>7, <1>8, <1>9, <1>10, <1>11, <1>12, <1>13 DEF Next

\* score_layer grades at the topk node, where the predictions are the graph's.
LEMMA GradesStep ==
  ASSUME TypeInv, PlaceInv, ProbeInv, ~(mode.probe /\ mode.draft), GradesWhatWasPredicted, [Next]_vars
  PROVE  GradesWhatWasPredicted'
<1>1. ASSUME NEW p \in 0..1, NEW c \in Chains, NEW body \in Bodies, NEW n \in Widths(p), BeginGraph(p, n, c, body)
      PROVE  GradesWhatWasPredicted'
  BY <1>1 DEF BeginGraph, PlaceInv, GradesWhatWasPredicted
<1>2. CASE Logits
  BY <1>2 DEF Logits, Rest, GradesWhatWasPredicted, vars, graphVars, nodeVars, dropVars, probeVars, mailVars, aheadVars, historyVars
<1>3. ASSUME NEW sample \in BOOLEAN, NEW trips \in BOOLEAN, NEW closed \in BOOLEAN, NEW pick \in [1..rows -> Routings],
             NEW commit, Topk(pick, commit, sample, trips, closed)
      PROVE  GradesWhatWasPredicted'
  <2>1. /\ at = "topk" /\ UNCHANGED <<mode, tok>> /\ Score
    BY <1>3 DEF Topk
  <2>2. CASE mode.probe /\ phase = 1
    <3>1. scored' = [stale |-> stale[il], stale2 |-> stale2[il], self |-> self[il], prev |-> prev[il]]
      BY <2>1, <2>2 DEF Score
    <3>2. il \in Layers /\ AheadOf(il, 1) /\ AheadOf(il, 2) /\ il >= il /\ ~Behind(il)
      BY <2>1 DEF TypeInv, GraphType, AheadOf, Behind, Routed, Layers
    <3>3. stale[il] \in {0, tok} /\ stale2[il] \in {0, tok} /\ self[il] \in {0, tok} /\ prev[il] < tok
      BY <2>1, <2>2, <3>2 DEF ProbeInv
    <3> QED BY <2>1, <3>1, <3>3 DEF GradesWhatWasPredicted
  <2>3. CASE ~(mode.probe /\ phase = 1)
    BY <2>1, <2>3 DEF Score, PlaceInv, GradesWhatWasPredicted
  <2> QED BY <2>2, <2>3
<1>4. ASSUME NEW ok \in BOOLEAN, Load(ok)
      PROVE  GradesWhatWasPredicted'
  BY <1>4 DEF Load, Rest, GradesWhatWasPredicted, vars, graphVars, nodeVars, dropVars, probeVars, mailVars, aheadVars, historyVars
<1>5. CASE NodeSkipped
  BY <1>5 DEF NodeSkipped, Rest, GradesWhatWasPredicted, vars, graphVars, nodeVars, dropVars, probeVars, mailVars, aheadVars, historyVars
<1>6. CASE NodeObserved
  BY <1>6 DEF NodeObserved, Rest, GradesWhatWasPredicted, vars, graphVars, nodeVars, dropVars, probeVars, mailVars, aheadVars, historyVars
<1>7. ASSUME NEW best \in [1..rows -> Slots], NEW light, NEW resident, NEW ok \in BOOLEAN,
             ApplyDrop(best, light, resident, ok)
      PROVE  GradesWhatWasPredicted'
  BY <1>7 DEF ApplyDrop, Rest, GradesWhatWasPredicted, vars, graphVars, nodeVars, dropVars, probeVars, mailVars, aheadVars, historyVars
<1>8. CASE Matmul
  BY <1>8 DEF Matmul, Rest, GradesWhatWasPredicted, vars, graphVars, nodeVars, dropVars, probeVars, mailVars, aheadVars, historyVars
<1>9. CASE NextLayer
  BY <1>9 DEF NextLayer, Rest, GradesWhatWasPredicted, vars, graphVars, nodeVars, dropVars, probeVars, mailVars, aheadVars, historyVars
<1>10. CASE Abort
  BY <1>10 DEF Abort, Rest, GradesWhatWasPredicted, vars, graphVars, nodeVars, dropVars, probeVars, mailVars, aheadVars, historyVars
<1>11. CASE Take
  BY <1>11 DEF Take, Rest, GradesWhatWasPredicted, vars, graphVars, nodeVars, dropVars, probeVars, mailVars, aheadVars, historyVars
<1>12. CASE Post
  BY <1>12 DEF Post, Rest, GradesWhatWasPredicted, vars, graphVars, nodeVars, dropVars, probeVars, mailVars, aheadVars, historyVars
<1>13. CASE UNCHANGED vars
  BY <1>13 DEF GradesWhatWasPredicted, vars, graphVars, nodeVars, dropVars, probeVars, mailVars, aheadVars, historyVars
<1> QED
  BY <1>1, <1>2, <1>3, <1>4, <1>5, <1>6, <1>7, <1>8, <1>9, <1>10, <1>11, <1>12, <1>13 DEF Next

\* The invariant of the hook.
LEMMA Inductive == Spec => [](TypeInv /\ PlaceInv /\ TermInv /\ LoadInv /\ SlotInv)
<1> DEFINE I == TypeInv /\ PlaceInv /\ TermInv /\ LoadInv /\ SlotInv
<1>1. Init => I
  <2> SUFFICES ASSUME Init PROVE I
    OBVIOUS
  <2>1. at = "idle" /\ committed = 0 /\ scored = NoScore /\ chainLast = NoVariant /\ moves = 0
    BY DEF Init
  <2>2. \A l \in Layers : term[l] = NoVariant /\ faults[l] = 0
    BY DEF Init
  <2> QED BY <2>1, <2>2, TypeInit DEF PlaceInv, TermInv, LoadInv, SlotInv, Routed
<1>2. I /\ [Next]_vars => I'
  BY TypeStep, PlaceStep, TermStep, LoadStep, SlotStep
<1> QED BY <1>1, <1>2, PTL DEF Spec

\* The matmul of a layer reads only what was loaded for it, but once after the
\* graph moved under the terminal the hook had learned (close_drop_layer).
THEOREM LoadedOrMoved == Spec => []UnloadedOnlyAfterMove
<1>1. TermInv => UnloadedOnlyAfterMove
  BY DEF TermInv, UnloadedOnlyAfterMove
<1> QED BY <1>1, Inductive, PTL

\* Whatever is dropped and wherever the load was deferred to, a slot computes the
\* expert selected for it or weighs nothing, and its row keeps a live slot
\* (apply_drop, and the trace of what it dropped).
THEOREM SlotsKeepTheirRow == Spec => []SlotsSelectedOrDead
<1>1. SlotInv => SlotsSelectedOrDead
  BY DEF SlotInv, SlotKept, SlotsSelectedOrDead, Routed
<1> QED BY <1>1, Inductive, PTL

\* Route-ahead never routes a layer by a ranking made for another token, whenever
\* the worker posts it and whichever graphs were aborted (route_ahead_collect,
\* apply_route_ahead).
THEOREM CommitsThisToken == Spec => []CommitFromThisToken
<1> DEFINE I == JobsInv /\ GateInv /\ FreshInv /\ CommitFromThisToken
<1>1. Init => I
  BY DEF Init, JobsInv, JobSound, GateInv, FreshInv, CommitFromThisToken, NoJob
<1>2. TypeInv /\ PlaceInv /\ I /\ [Next]_vars => I'
  BY JobsStep, GateStep, FreshStep, CommitStep
<1> QED BY <1>1, <1>2, Inductive, PTL DEF Spec

\* With a draft head the last trunk layer predicts the head, whose graph comes
\* later and grades it: the claim is made for the other sessions.
NoProbedDraft == \A m \in Modes : ~(m.probe /\ m.draft)
\* The probe grades what this token predicted, and for the previous-token
\* predictor an earlier routing (predict_at_logits, score_layer).
THEOREM GradesThisToken == NoProbedDraft /\ Spec => []GradesWhatWasPredicted
<1> DEFINE I == ProbeInv /\ GradesWhatWasPredicted
<1>1. Init => I
  <2> SUFFICES ASSUME Init PROVE I
    OBVIOUS
  <2>1. at = "idle" /\ scored = NoScore /\ tok = 0
    BY DEF Init
  <2>2. 0 \in Layers /\ \A l \in Layers : stale[l] = 0 /\ stale2[l] = 0 /\ prev[l] = 0
    BY RouterAssumption DEF Init, NoneYet, Layers
  <2> QED BY <2>1, <2>2 DEF ProbeInv, GradesWhatWasPredicted
<1>2. NoProbedDraft /\ TypeInv /\ PlaceInv /\ I /\ [Next]_vars => I'
  <2>1. NoProbedDraft /\ TypeInv => ~(mode.probe /\ mode.draft)
    BY DEF NoProbedDraft, TypeInv, RestType
  <2> QED BY <2>1, ProbeStep, GradesStep
<1>3. NoProbedDraft => []NoProbedDraft
  BY DEF NoProbedDraft
<1> QED BY <1>1, <1>2, <1>3, Inductive, PTL DEF Spec
=============================================================================
