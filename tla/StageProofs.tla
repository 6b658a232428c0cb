------------------------------ MODULE StageProofs ------------------------------
(***************************************************************************)
(* What the stages of a pipeline keep of a transcript.                     *)
(***************************************************************************)
EXTENDS TaskRunnersProofs

(***************************************************************************)
(* The elements of a sequence at some places.                              *)
(***************************************************************************)

\* One more place, after the others.
LEMMA PickedStep ==
  ASSUME NEW s, Listing(s), NEW I, I \subseteq DOMAIN s, NEW i \in DOMAIN s, \A j \in I : j < i
  PROVE  /\ Len(Picked(s, I \cup {i})) = Cardinality(I) + 1
         /\ Upto(Picked(s, I \cup {i}), Cardinality(I)) = Picked(s, I)
         /\ Picked(s, I \cup {i})[Cardinality(I) + 1] = s[i]
<1> DEFINE c == Cardinality(I)
           J == I \cup {i}
<1>1. I \subseteq Nat /\ IsFiniteSet(I) /\ c \in Nat /\ i \in Nat /\ J \subseteq DOMAIN s
  BY ListingFacts, FS_Subset, FS_CardinalityType
<1>2. i \notin I
  BY <1>1
<1>3. J \subseteq Nat /\ IsFiniteSet(J) /\ Cardinality(J) = c + 1
  BY <1>1, <1>2, FS_AddElement
<1>4. ASSUME NEW k \in 1..c PROVE Nth(J, k) = Nth(I, k)
  <2> DEFINE x == Nth(I, k)
  <2>1. x \in I /\ Cardinality({y \in I : y < x}) = k - 1
    BY <1>1, NthFacts
  <2>2. {y \in J : y < x} = {y \in I : y < x}
    <3>1. x < i /\ x \in Nat
      BY <1>1, <2>1
    <3>2. ~(i < x)
      BY <1>1, <3>1
    <3>3. QED
      BY <3>2
  <2>3. k \in 1..Cardinality(J)
    BY <1>1, <1>3
  <2> HIDE DEF x, J
  <2>4. x \in J
    BY <2>1 DEF J
  <2>5. Nth(J, k) = x
    BY <1>3, <2>1, <2>2, <2>3, <2>4, NthIs
  <2>6. QED
    BY <2>5 DEF x
<1>5. Nth(J, c + 1) = i
  <2>1. {y \in J : y < i} = I
    <3>1. ~(i < i)
      BY <1>1
    <3>2. QED
      BY <3>1
  <2>2. c + 1 \in 1..Cardinality(J) /\ (c + 1) - 1 = c /\ i \in J
    BY <1>1, <1>3
  <2> HIDE DEF J
  <2>3. QED
    BY <1>3, <2>1, <2>2, NthIs
<1> HIDE DEF J
<1>6. Len(Picked(s, J)) = c + 1 /\ Listing(Picked(s, J)) /\ DOMAIN Picked(s, J) = 1..(c + 1)
  <2>1. Listing(Picked(s, J)) /\ DOMAIN Picked(s, J) = 1..(c + 1)
    BY <1>1, <1>3, PickedFacts
  <2>2. Len(Picked(s, J)) \in Nat /\ 1..Len(Picked(s, J)) = 1..(c + 1)
    BY <2>1, ListingFacts
  <2>3. QED
    BY <1>1, <2>1, <2>2
<1>7. Upto(Picked(s, J), c) = Picked(s, I)
  <2>1. \A k \in 1..c : Picked(s, J)[k] = s[Nth(I, k)]
    BY <1>1, <1>3, <1>4 DEF Picked
  <2>2. QED
    BY <2>1 DEF Upto, Picked
<1>8. Picked(s, J)[c + 1] = s[i]
  BY <1>1, <1>3, <1>5 DEF Picked
<1>9. QED
  BY <1>6, <1>7, <1>8 DEF J

\* Nothing is picked at no place.
LEMMA PickedNone ==
  ASSUME NEW s
  PROVE  Picked(s, {}) = <<>>
<1>1. Cardinality({}) = 0
  BY FS_EmptySet
<1>2. QED
  BY <1>1 DEF Picked

(***************************************************************************)
(* What the sequences at some places hold.                                 *)
(***************************************************************************)

Held(ss, I) == FlattenSeq(Picked(ss, I))

\* What some of the sequences hold is a sequence.
LEMMA HeldIsListing ==
  ASSUME NEW ss, Blocks(ss), NEW I, I \subseteq DOMAIN ss
  PROVE  Listing(Held(ss, I)) /\ Blocks(Picked(ss, I))
<1>1. Listing(Picked(ss, I)) /\ \A k \in DOMAIN Picked(ss, I) : Listing(Picked(ss, I)[k])
  BY PickedFacts DEF Blocks
<1>2. QED
  BY <1>1, FlattenFacts DEF Held, Blocks

\* None of the sequences hold nothing.
LEMMA HeldNone ==
  ASSUME NEW ss
  PROVE  Held(ss, {}) = <<>>
BY PickedNone, FlattenNone DEF Held

\* One more sequence, after the others, is one more block.
LEMMA HeldStep ==
  ASSUME NEW ss, Blocks(ss), NEW I, I \subseteq DOMAIN ss, NEW i \in DOMAIN ss, \A j \in I : j < i
  PROVE  Held(ss, I \cup {i}) = Held(ss, I) \o ss[i]
<1> DEFINE c == Cardinality(I)
           P == Picked(ss, I \cup {i})
<1>1. Listing(ss) /\ c \in Nat
  BY ListingFacts, FS_Subset, FS_CardinalityType DEF Blocks
<1>2. Len(P) = c + 1 /\ Upto(P, c) = Picked(ss, I) /\ P[c + 1] = ss[i]
  BY <1>1, PickedStep
<1>3. Blocks(P)
  <2>1. I \cup {i} \subseteq DOMAIN ss
    OBVIOUS
  <2>2. QED
    BY <2>1, HeldIsListing
<1> HIDE DEF P, c
<1>4. c \in 0..(Len(P) - 1)
  BY <1>1, <1>2
<1>5. FlattenSeq(Upto(P, c + 1)) = FlattenSeq(Upto(P, c)) \o P[c + 1]
  BY <1>3, <1>4, FlattenStep
<1>6. Upto(P, c + 1) = P
  <2>1. Len(P) \in 0..Len(P)
    BY <1>1, <1>2
  <2>2. QED
    BY <1>2, <1>3, <2>1, UptoFacts DEF Blocks
<1>7. QED
  BY <1>2, <1>5, <1>6 DEF Held, P

\* What the first of the sequences hold.
LEMMA HeldUpto ==
  ASSUME NEW ss, Blocks(ss)
  PROVE  /\ \A m \in 0..Len(ss) : FlattenSeq(Upto(ss, m)) = Held(ss, 1..m)
         /\ FlattenSeq(ss) = Held(ss, DOMAIN ss)
<1> DEFINE n == Len(ss)
           S == {m \in 0..n : FlattenSeq(Upto(ss, m)) = Held(ss, 1..m)}
<1>1. n \in Nat /\ DOMAIN ss = 1..n /\ Listing(ss)
  BY ListingFacts DEF Blocks
<1>2. 0 \in S
  <2>1. Upto(ss, 0) = <<>> /\ 1..0 = {}
    BY <1>1, UptoFacts
  <2>2. FlattenSeq(Upto(ss, 0)) = Held(ss, 1..0)
    BY <2>1, FlattenNone, HeldNone
  <2>3. QED
    BY <1>1, <2>2
<1>3. ASSUME NEW m \in 0..(n - 1), m \in S PROVE m + 1 \in S
  <2>1. m + 1 \in DOMAIN ss /\ 1..m \subseteq DOMAIN ss /\ (\A j \in 1..m : j < m + 1)
        /\ 1..(m + 1) = (1..m) \cup {m + 1}
    BY <1>1
  <2>2. Held(ss, 1..(m + 1)) = Held(ss, 1..m) \o ss[m + 1]
    BY <2>1, HeldStep
  <2>3. FlattenSeq(Upto(ss, m + 1)) = FlattenSeq(Upto(ss, m)) \o ss[m + 1]
    BY FlattenStep
  <2>4. FlattenSeq(Upto(ss, m)) = Held(ss, 1..m)
    BY <1>3
  <2>5. QED
    BY <1>1, <2>1, <2>2, <2>3, <2>4
<1>4. \A m \in 0..n : m \in S
  <2> HIDE DEF S
  <2>1. QED
    BY <1>1, <1>2, <1>3, ReachesAll
<1>5. FlattenSeq(Upto(ss, n)) = Held(ss, 1..n) /\ Upto(ss, n) = ss
  BY <1>1, <1>4, UptoFacts
<1>6. QED
  BY <1>1, <1>4, <1>5

\* Places before others.
LEMMA HeldUnion ==
  ASSUME NEW ss, Blocks(ss), NEW I, I \subseteq DOMAIN ss, NEW J, J \subseteq DOMAIN ss,
         \A i \in I, j \in J : i < j
  PROVE  Held(ss, I \cup J) = Held(ss, I) \o Held(ss, J)
<1> DEFINE n == Len(ss)
           K(m) == J \cap (1..m)
           Sum(m) == Held(ss, I \cup K(m)) = Held(ss, I) \o Held(ss, K(m))
           S == {m \in 0..n : Sum(m)}
<1>1. n \in Nat /\ DOMAIN ss = 1..n
  BY ListingFacts DEF Blocks
<1>2. 0 \in S
  <2>1. K(0) = {} /\ I \cup K(0) = I
    OBVIOUS
  <2>2. Held(ss, I) \o <<>> = Held(ss, I)
    BY HeldIsListing, ConcatWithNone, Zenon
  <2>3. Held(ss, K(0)) = <<>>
    BY <2>1, HeldNone, Zenon
  <2> HIDE DEF K
  <2>4. Sum(0)
    BY <2>1, <2>2, <2>3, Zenon
  <2> HIDE DEF Sum
  <2>5. QED
    BY <1>1, <2>4
<1>3. ASSUME NEW m \in 0..(n - 1), m \in S PROVE m + 1 \in S
  <2>0. m + 1 \in 0..n
    BY <1>1
  <2>1. CASE m + 1 \in J
    <3>1. /\ K(m + 1) = K(m) \cup {m + 1} /\ I \cup K(m + 1) = (I \cup K(m)) \cup {m + 1}
          /\ K(m) \subseteq DOMAIN ss /\ I \cup K(m) \subseteq DOMAIN ss /\ m + 1 \in DOMAIN ss
          /\ \A j \in K(m) : j < m + 1
      BY <1>1, <2>1
    <3>2. \A j \in I \cup K(m) : j < m + 1
      BY <2>1, <3>1
    <3> HIDE DEF K
    <3>3. Held(ss, K(m + 1)) = Held(ss, K(m)) \o ss[m + 1]
      BY <3>1, HeldStep, Zenon
    <3>4. Held(ss, I \cup K(m + 1)) = Held(ss, I \cup K(m)) \o ss[m + 1]
      BY <3>1, <3>2, HeldStep, Zenon
    <3>5. Listing(Held(ss, I)) /\ Listing(Held(ss, K(m))) /\ Listing(ss[m + 1])
      BY <3>1, HeldIsListing DEF Blocks
    <3>6. (Held(ss, I) \o Held(ss, K(m))) \o ss[m + 1] = Held(ss, I) \o (Held(ss, K(m)) \o ss[m + 1])
      <4> DEFINE a == Held(ss, I)
                 b == Held(ss, K(m))
                 c == ss[m + 1]
      <4>1. Listing(a) /\ Listing(b) /\ Listing(c)
        BY <3>5
      <4> HIDE DEF a, b, c
      <4>2. (a \o b) \o c = a \o (b \o c)
        BY <4>1, ConcatInOrder
      <4>3. QED
        BY <4>2 DEF a, b, c
    <3>7. Sum(m)
      <4> HIDE DEF Sum
      <4>1. QED
        BY <1>3
    <3>8. Sum(m + 1)
      BY <3>3, <3>4, <3>6, <3>7, Zenon
    <3> HIDE DEF Sum
    <3>9. QED
      BY <2>0, <3>8
  <2>2. CASE m + 1 \notin J
    <3>1. K(m + 1) = K(m)
      BY <1>1, <2>2
    <3> HIDE DEF K
    <3>2. Sum(m) => Sum(m + 1)
      BY <3>1, Zenon
    <3> HIDE DEF Sum
    <3>3. QED
      BY <1>3, <2>0, <3>2
  <2>3. QED
    BY <2>1, <2>2
<1>4. n \in S
  <2> HIDE DEF S
  <2>1. \A m \in 0..n : m \in S
    BY <1>1, <1>2, <1>3, ReachesAll
  <2>2. QED
    BY <1>1, <2>1
<1>5. K(n) = J
  BY <1>1
<1>6. Sum(n)
  <2> HIDE DEF Sum
  <2>1. QED
    BY <1>4
<1>7. QED
  BY <1>5, <1>6, Zenon

\* Places where nothing is held may be left out.
LEMMA HeldWithout ==
  ASSUME NEW ss, Blocks(ss), NEW J, J \subseteq DOMAIN ss, NEW I, I \subseteq J,
         \A i \in J \ I : ss[i] = <<>>
  PROVE  Held(ss, I) = Held(ss, J)
<1> DEFINE n == Len(ss)
           K(T, m) == T \cap (1..m)
           S == {m \in 0..n : Held(ss, K(I, m)) = Held(ss, K(J, m))}
<1>1. n \in Nat /\ DOMAIN ss = 1..n
  BY ListingFacts DEF Blocks
<1>2. 0 \in S
  <2>1. K(I, 0) = {} /\ K(J, 0) = {}
    OBVIOUS
  <2>2. QED
    BY <1>1, <2>1
<1>3. ASSUME NEW m \in 0..(n - 1), m \in S PROVE m + 1 \in S
  <2>0. Held(ss, K(I, m)) = Held(ss, K(J, m)) /\ m + 1 \in 0..n
    BY <1>1, <1>3
  <2>1. ASSUME NEW T, T \subseteq DOMAIN ss
        PROVE  Held(ss, K(T, m + 1)) = IF m + 1 \in T THEN Held(ss, K(T, m)) \o ss[m + 1] ELSE Held(ss, K(T, m))
    <3>1. CASE m + 1 \in T
      <4>1. /\ K(T, m + 1) = K(T, m) \cup {m + 1} /\ K(T, m) \subseteq DOMAIN ss
            /\ m + 1 \in DOMAIN ss /\ \A j \in K(T, m) : j < m + 1
        BY <1>1, <2>1, <3>1
      <4> HIDE DEF K
      <4>2. Held(ss, K(T, m + 1)) = Held(ss, K(T, m)) \o ss[m + 1]
        BY <4>1, HeldStep
      <4>3. QED
        BY <3>1, <4>2
    <3>2. CASE m + 1 \notin T
      <4>1. K(T, m + 1) = K(T, m)
        BY <1>1, <3>2
      <4>2. QED
        BY <3>2, <4>1
    <3>3. QED
      BY <3>1, <3>2
  <2>2. Listing(Held(ss, K(J, m)))
    <3>1. K(J, m) \subseteq DOMAIN ss
      OBVIOUS
    <3> HIDE DEF K
    <3>2. QED
      BY <3>1, HeldIsListing
  <2>3. I \subseteq DOMAIN ss
    OBVIOUS
  <2> HIDE DEF K
  <2>4. Held(ss, K(I, m + 1)) = Held(ss, K(J, m + 1))
    <3>1. CASE m + 1 \in I
      BY <2>0, <2>1, <2>3, <3>1
    <3>2. CASE m + 1 \in J \ I
      <4>1. Held(ss, K(J, m)) \o ss[m + 1] = Held(ss, K(J, m))
        BY <2>2, <3>2, ConcatWithNone
      <4>2. QED
        BY <2>0, <2>1, <2>3, <3>2, <4>1
    <3>3. CASE m + 1 \notin J
      BY <2>0, <2>1, <2>3, <3>3
    <3>4. QED
      BY <3>1, <3>2, <3>3
  <2>5. QED
    BY <2>0, <2>4
<1>4. \A m \in 0..n : m \in S
  <2> HIDE DEF S
  <2>1. QED
    BY <1>1, <1>2, <1>3, ReachesAll
<1>5. K(I, n) = I /\ K(J, n) = J
  BY <1>1
<1>6. QED
  BY <1>1, <1>4, <1>5

\* Sequences held at places that come in order, one after the other.
LEMMA FlattenOfHeldAll ==
  ASSUME NEW ss, Blocks(ss), NEW n \in Nat, NEW B, \A k \in 1..n : B[k] \subseteq DOMAIN ss,
         \A k, l \in 1..n : k < l => \A i \in B[k], j \in B[l] : i < j
  PROVE  FlattenSeq([k \in 1..n |-> Held(ss, B[k])]) = Held(ss, UNION {B[k] : k \in 1..n})
<1> DEFINE ts == [k \in 1..n |-> Held(ss, B[k])]
           Below(m) == UNION {B[k] : k \in 1..m}
           Sum(m) == FlattenSeq(Upto(ts, m)) = Held(ss, Below(m))
           S == {m \in 0..n : Sum(m)}
<1>1. Blocks(ts) /\ Len(ts) = n /\ \A k \in 1..n : ts[k] = Held(ss, B[k])
  <2>1. ts = [k \in 1..n |-> ts[k]] /\ \A k \in 1..n : ts[k] = Held(ss, B[k])
    OBVIOUS
  <2> HIDE DEF ts
  <2>2. Listing(ts) /\ Len(ts) = n /\ DOMAIN ts = 1..n
    BY <2>1, FunctionIsListing
  <2>3. \A k \in 1..n : Listing(ts[k])
    BY <2>1, HeldIsListing
  <2>4. QED
    BY <2>1, <2>2, <2>3 DEF Blocks
<1> HIDE DEF ts
<1>2. 0 \in S
  <2>1. Below(0) = {}
    OBVIOUS
  <2>2. Upto(ts, 0) = <<>>
    BY <1>1, UptoFacts DEF Blocks
  <2>3. Sum(0)
    BY <2>1, <2>2, FlattenNone, HeldNone, Zenon
  <2> HIDE DEF Sum
  <2>4. QED
    BY <2>3
<1>3. ASSUME NEW m \in 0..(n - 1), m \in S PROVE m + 1 \in S
  <2>1. m + 1 \in 0..n /\ m + 1 \in 1..n /\ 1..(m + 1) = 1..m \cup {m + 1} /\ \A k \in 1..m : k \in 1..n /\ k < m + 1
    OBVIOUS
  <2>2. Below(m + 1) = Below(m) \cup B[m + 1] /\ Below(m) \subseteq DOMAIN ss /\ B[m + 1] \subseteq DOMAIN ss
    BY <2>1
  <2>3. \A i \in Below(m), j \in B[m + 1] : i < j
    BY <2>1
  <2> HIDE DEF Below
  <2>4. Held(ss, Below(m) \cup B[m + 1]) = Held(ss, Below(m)) \o Held(ss, B[m + 1])
    BY <2>2, <2>3, HeldUnion, Zenon
  <2>5. FlattenSeq(Upto(ts, m + 1)) = FlattenSeq(Upto(ts, m)) \o ts[m + 1]
    BY <1>1, FlattenStep
  <2>6. ts[m + 1] = Held(ss, B[m + 1])
    BY <1>1, <2>1
  <2>7. Sum(m) => Sum(m + 1)
    BY <2>2, <2>4, <2>5, <2>6, Zenon
  <2> HIDE DEF Sum
  <2>8. QED
    BY <1>3, <2>1, <2>7
<1>4. n \in S
  <2> HIDE DEF S
  <2>1. \A m \in 0..n : m \in S
    BY <1>2, <1>3, ReachesAll
  <2>2. QED
    BY <2>1
<1>5. Sum(n)
  <2> HIDE DEF Sum
  <2>1. QED
    BY <1>4
<1>6. Upto(ts, n) = ts
  BY <1>1, UptoFacts DEF Blocks
<1>7. QED
  BY <1>5, <1>6, Zenon DEF ts

\* Sequences that are each what some others hold are together what all of these hold.
LEMMA FlattenOfHeld ==
  ASSUME NEW ss, Blocks(ss), NEW n \in Nat, NEW B, \A k \in 1..n : B[k] \subseteq DOMAIN ss,
         \A k, l \in 1..n : k < l => \A i \in B[k], j \in B[l] : i < j,
         NEW ts, ts = [k \in 1..n |-> ts[k]], \A k \in 1..n : ts[k] = Held(ss, B[k]),
         NEW J, \A k \in 1..n : B[k] \subseteq J, \A i \in J : \E k \in 1..n : i \in B[k]
  PROVE  FlattenSeq(ts) = Held(ss, J)
<1>1. FlattenSeq([k \in 1..n |-> Held(ss, B[k])]) = Held(ss, UNION {B[k] : k \in 1..n})
  BY FlattenOfHeldAll
<1>2. ts = [k \in 1..n |-> Held(ss, B[k])]
  OBVIOUS
<1>3. J = UNION {B[k] : k \in 1..n}
  OBVIOUS
<1>4. QED
  BY <1>1, <1>2, <1>3, Zenon

\* Flattening sequences one after the other puts what they hold one after the other.
LEMMA FlattenConcat ==
  ASSUME NEW a, Blocks(a), NEW b, Blocks(b)
  PROVE  Blocks(a \o b) /\ FlattenSeq(a \o b) = FlattenSeq(a) \o FlattenSeq(b)
<1> DEFINE c == a \o b
           n == Len(a)
           p == Len(b)
           Sum(m) == FlattenSeq(Upto(c, n + m)) = FlattenSeq(a) \o FlattenSeq(Upto(b, m))
           S == {m \in 0..p : Sum(m)}
<1>1. Listing(a) /\ Listing(b) /\ n \in Nat /\ p \in Nat /\ DOMAIN a = 1..n /\ DOMAIN b = 1..p
  BY ListingFacts DEF Blocks
<1>2. /\ Listing(c) /\ Len(c) = n + p /\ DOMAIN c = 1..(n + p)
      /\ \A i \in 1..n : c[i] = a[i]
      /\ \A i \in 1..p : c[n + i] = b[i]
  BY <1>1, ConcatIsListing
<1> HIDE DEF c
<1>3. Blocks(c)
  <2>1. ASSUME NEW i \in 1..(n + p) PROVE Listing(c[i])
    <3>1. CASE i \in 1..n
      BY <1>1, <1>2, <3>1 DEF Blocks
    <3>2. CASE i \notin 1..n
      <4>1. i - n \in 1..p /\ n + (i - n) = i
        BY <1>1, <3>2
      <4>2. c[i] = b[i - n]
        BY <1>2, <4>1
      <4>3. QED
        BY <1>1, <4>1, <4>2 DEF Blocks
    <3>3. QED
      BY <3>1, <3>2
  <2>2. QED
    BY <1>2, <2>1 DEF Blocks
<1>4. Upto(c, n) = a
  <2>1. Upto(c, n) = [i \in 1..n |-> a[i]]
    BY <1>2 DEF Upto
  <2>2. QED
    BY <1>1, <2>1, ListingFacts
<1>5. Listing(FlattenSeq(a))
  BY FlattenFacts DEF Blocks
<1>6. 0 \in S
  <2>1. Upto(b, 0) = <<>> /\ n + 0 = n
    BY <1>1, UptoFacts
  <2>2. FlattenSeq(a) \o <<>> = FlattenSeq(a)
    BY <1>5, ConcatWithNone, Zenon
  <2>3. Sum(0)
    BY <1>4, <2>1, <2>2, FlattenNone, Zenon
  <2> HIDE DEF Sum
  <2>4. QED
    BY <1>1, <2>3
<1>7. ASSUME NEW m \in 0..(p - 1), m \in S PROVE m + 1 \in S
  <2>1. m + 1 \in 0..p /\ m + 1 \in 1..p /\ n + m \in 0..(Len(c) - 1) /\ n + (m + 1) = (n + m) + 1
    BY <1>1, <1>2
  <2>2. FlattenSeq(Upto(c, (n + m) + 1)) = FlattenSeq(Upto(c, n + m)) \o c[(n + m) + 1]
    BY <1>3, <2>1, FlattenStep
  <2>3. FlattenSeq(Upto(b, m + 1)) = FlattenSeq(Upto(b, m)) \o b[m + 1]
    BY FlattenStep
  <2>4. c[(n + m) + 1] = b[m + 1]
    BY <1>2, <2>1
  <2>5. Listing(b[m + 1])
    BY <1>1, <2>1 DEF Blocks
  <2>6. Listing(FlattenSeq(Upto(b, m)))
    <3>1. \A i \in 1..m : i \in DOMAIN b
      BY <1>1
    <3>2. m \in 0..p
      BY <1>1
    <3>3. Listing(Upto(b, m)) /\ \A i \in DOMAIN Upto(b, m) : Listing(Upto(b, m)[i])
      BY <1>1, <3>1, <3>2, UptoFacts DEF Blocks
    <3>4. QED
      BY <3>3, FlattenFacts
  <2> DEFINE x == FlattenSeq(a)
             y == FlattenSeq(Upto(b, m))
             z == b[m + 1]
  <2>7. (x \o y) \o z = x \o (y \o z)
    <3>1. Listing(x) /\ Listing(y) /\ Listing(z)
      BY <1>5, <2>5, <2>6
    <3> HIDE DEF x, y, z
    <3>2. QED
      BY <3>1, ConcatInOrder
  <2>8. Sum(m) => Sum(m + 1)
    BY <2>1, <2>2, <2>3, <2>4, <2>7, Zenon
  <2> HIDE DEF Sum
  <2>9. QED
    BY <1>7, <2>1, <2>8
<1>8. p \in S
  <2> HIDE DEF S
  <2>1. \A m \in 0..p : m \in S
    BY <1>1, <1>6, <1>7, ReachesAll
  <2>2. QED
    BY <1>1, <2>1
<1>9. Sum(p)
  <2> HIDE DEF Sum
  <2>1. QED
    BY <1>8
<1>10. Upto(c, n + p) = c /\ Upto(b, p) = b
  <2>1. n + p \in 0..Len(c) /\ p \in 0..p
    BY <1>1, <1>2
  <2>2. QED
    BY <1>1, <1>2, <2>1, UptoFacts
<1>11. FlattenSeq(c) = FlattenSeq(a) \o FlattenSeq(b)
  BY <1>9, <1>10, Zenon
<1>12. QED
  BY <1>3, <1>11 DEF c

\* A function of each element of the sequences, one after the other.
Mapped(s, g) == [i \in DOMAIN s |-> g[s[i]]]

\* A function on the elements of a sequence keeps its places.
LEMMA MappedFacts ==
  ASSUME NEW s, Listing(s), NEW g
  PROVE  /\ Listing(Mapped(s, g)) /\ Len(Mapped(s, g)) = Len(s) /\ DOMAIN Mapped(s, g) = DOMAIN s
         /\ \A i \in DOMAIN s : Mapped(s, g)[i] = g[s[i]]
<1>1. Len(s) \in Nat /\ DOMAIN s = 1..Len(s)
  BY ListingFacts
<1>2. Mapped(s, g) = [i \in 1..Len(s) |-> Mapped(s, g)[i]]
  BY <1>1 DEF Mapped
<1>3. Listing(Mapped(s, g)) /\ Len(Mapped(s, g)) = Len(s) /\ DOMAIN Mapped(s, g) = 1..Len(s)
  BY <1>1, <1>2, FunctionIsListing
<1>4. QED
  BY <1>1, <1>3 DEF Mapped

\* It maps sequences one after the other one after the other.
LEMMA MappedConcat ==
  ASSUME NEW a, Listing(a), NEW b, Listing(b), NEW g
  PROVE  Mapped(a \o b, g) = Mapped(a, g) \o Mapped(b, g)
<1> DEFINE n == Len(a)
           p == Len(b)
           c == a \o b
           x == Mapped(a, g)
           y == Mapped(b, g)
           l == Mapped(c, g)
           r == x \o y
<1>1. n \in Nat /\ p \in Nat /\ DOMAIN a = 1..n /\ DOMAIN b = 1..p
  BY ListingFacts
<1>2. /\ Listing(c) /\ Len(c) = n + p /\ DOMAIN c = 1..(n + p)
      /\ \A i \in 1..n : c[i] = a[i]
      /\ \A i \in 1..p : c[n + i] = b[i]
  BY <1>1, ConcatIsListing
<1>3. /\ Listing(x) /\ Len(x) = n /\ \A i \in 1..n : x[i] = g[a[i]]
      /\ Listing(y) /\ Len(y) = p /\ \A i \in 1..p : y[i] = g[b[i]]
  BY <1>1, MappedFacts
<1> HIDE DEF c, x, y
<1>4. Listing(l) /\ Len(l) = n + p /\ \A i \in 1..(n + p) : l[i] = g[c[i]]
  BY <1>2, MappedFacts
<1>5. /\ Listing(r) /\ Len(r) = n + p
      /\ \A i \in 1..n : r[i] = x[i]
      /\ \A i \in 1..p : r[n + i] = y[i]
  <2>1. /\ Listing(r) /\ Len(r) = Len(x) + Len(y)
        /\ \A i \in 1..Len(x) : r[i] = x[i]
        /\ \A i \in 1..Len(y) : r[Len(x) + i] = y[i]
    <3>1. Listing(x) /\ Listing(y)
      BY <1>3
    <3>2. QED
      BY <3>1, ConcatIsListing
  <2> HIDE DEF r
  <2>2. QED
    BY <1>3, <2>1
<1> HIDE DEF l, r
<1>6. ASSUME NEW i \in 1..(n + p) PROVE l[i] = r[i]
  <2>1. CASE i \in 1..n
    BY <1>2, <1>3, <1>4, <1>5, <2>1
  <2>2. CASE i \notin 1..n
    <3>1. i - n \in 1..p /\ n + (i - n) = i
      BY <1>1, <2>2
    <3>2. c[i] = b[i - n] /\ r[i] = y[i - n] /\ y[i - n] = g[b[i - n]]
      BY <1>2, <1>3, <1>5, <3>1
    <3>3. QED
      BY <1>4, <3>2
  <2>3. QED
    BY <2>1, <2>2
<1>7. l = r
  BY <1>4, <1>5, <1>6, SameListing
<1>8. QED
  BY <1>7, Zenon DEF l, r, c, x, y

\* Sequences of sequences, each element of which holds a sequence.
LEMMA FlattenMapped ==
  ASSUME NEW ss, Blocks(ss), NEW g, \A i \in DOMAIN ss : \A j \in DOMAIN ss[i] : Listing(g[ss[i][j]])
  PROVE  FlattenSeq(Mapped(FlattenSeq(ss), g)) = FlattenSeq([u \in DOMAIN ss |-> FlattenSeq(Mapped(ss[u], g))])
<1> DEFINE n == Len(ss)
           ts == [u \in DOMAIN ss |-> FlattenSeq(Mapped(ss[u], g))]
           Sum(m) == FlattenSeq(Mapped(FlattenSeq(Upto(ss, m)), g)) = FlattenSeq(Upto(ts, m))
           S == {m \in 0..n : Sum(m)}
<1>1. n \in Nat /\ DOMAIN ss = 1..n /\ Listing(ss) /\ \A i \in 1..n : Listing(ss[i])
  BY ListingFacts DEF Blocks
<1>2. ASSUME NEW s, Listing(s), \A j \in DOMAIN s : Listing(g[s[j]]) PROVE Blocks(Mapped(s, g))
  BY <1>2, MappedFacts DEF Blocks
<1>3. Blocks(ts) /\ Len(ts) = n /\ \A u \in 1..n : ts[u] = FlattenSeq(Mapped(ss[u], g))
  <2>1. ts = [u \in 1..n |-> ts[u]] /\ \A u \in 1..n : ts[u] = FlattenSeq(Mapped(ss[u], g))
    BY <1>1
  <2> HIDE DEF ts
  <2>2. Listing(ts) /\ Len(ts) = n /\ DOMAIN ts = 1..n
    BY <1>1, <2>1, FunctionIsListing
  <2>3. ASSUME NEW u \in 1..n PROVE Listing(ts[u])
    <3>1. Blocks(Mapped(ss[u], g))
      BY <1>1, <1>2
    <3>2. QED
      BY <2>1, <3>1, FlattenFacts DEF Blocks
  <2>4. QED
    BY <2>1, <2>2, <2>3 DEF Blocks
<1> HIDE DEF ts
<1>4. 0 \in S
  <2>1. Upto(ss, 0) = <<>> /\ Upto(ts, 0) = <<>>
    BY <1>1, <1>3, UptoFacts DEF Blocks
  <2>2. Mapped(<<>>, g) = <<>>
    BY EmptyIsListing, MappedFacts, ListingFacts
  <2>3. Sum(0)
    BY <2>1, <2>2, FlattenNone, Zenon
  <2> HIDE DEF Sum
  <2>4. QED
    BY <1>1, <2>3
<1>5. ASSUME NEW m \in 0..(n - 1), m \in S PROVE m + 1 \in S
  <2> DEFINE x == FlattenSeq(Upto(ss, m))
             y == ss[m + 1]
  <2>1. m + 1 \in 0..n /\ m + 1 \in 1..n /\ m \in 0..n
    BY <1>1
  <2>2. FlattenSeq(Upto(ss, m + 1)) = x \o y
    BY FlattenStep
  <2>3. Listing(x) /\ \A j \in DOMAIN x : Listing(g[x[j]])
    <3> DEFINE ps == Upto(ss, m)
    <3>1. Listing(ps) /\ DOMAIN ps = 1..m /\ \A i \in 1..m : ps[i] = ss[i] /\ i \in 1..n
      BY <1>1, <2>1, UptoFacts
    <3> HIDE DEF ps
    <3>2. \A i \in DOMAIN ps : Listing(ps[i])
      BY <1>1, <3>1
    <3>3. /\ Listing(FlattenSeq(ps))
          /\ \A k \in DOMAIN FlattenSeq(ps) : \E i \in DOMAIN ps : \E j \in DOMAIN ps[i] : FlattenSeq(ps)[k] = ps[i][j]
      BY <3>1, <3>2, FlattenFacts
    <3>4. \A i \in DOMAIN ps : \A j \in DOMAIN ps[i] : Listing(g[ps[i][j]])
      BY <1>1, <3>1
    <3>5. QED
      BY <3>3, <3>4 DEF ps
  <2>4. Listing(y) /\ \A j \in DOMAIN y : Listing(g[y[j]])
    BY <1>1, <2>1
  <2> HIDE DEF x, y
  <2>5. Mapped(x \o y, g) = Mapped(x, g) \o Mapped(y, g)
    BY <2>3, <2>4, MappedConcat
  <2>6. Blocks(Mapped(x, g)) /\ Blocks(Mapped(y, g))
    BY <1>2, <2>3, <2>4
  <2>7. FlattenSeq(Mapped(x, g) \o Mapped(y, g)) = FlattenSeq(Mapped(x, g)) \o FlattenSeq(Mapped(y, g))
    BY <2>6, FlattenConcat, Zenon
  <2>8. FlattenSeq(Upto(ts, m + 1)) = FlattenSeq(Upto(ts, m)) \o ts[m + 1]
    BY <1>3, FlattenStep
  <2>9. ts[m + 1] = FlattenSeq(Mapped(y, g))
    BY <1>3, <2>1 DEF y
  <2>10. Sum(m) => Sum(m + 1)
    BY <2>2, <2>5, <2>7, <2>8, <2>9, Zenon DEF x
  <2> HIDE DEF Sum
  <2>11. QED
    BY <1>5, <2>1, <2>10
<1>6. n \in S
  <2> HIDE DEF S
  <2>1. \A m \in 0..n : m \in S
    BY <1>1, <1>4, <1>5, ReachesAll
  <2>2. QED
    BY <1>1, <2>1
<1>7. Sum(n)
  <2> HIDE DEF Sum
  <2>1. QED
    BY <1>6
<1>8. Upto(ss, n) = ss /\ Upto(ts, n) = ts
  BY <1>1, <1>3, UptoFacts DEF Blocks
<1>9. FlattenSeq(Mapped(FlattenSeq(ss), g)) = FlattenSeq(ts)
  BY <1>7, <1>8, Zenon
<1>10. QED
  BY <1>9 DEF ts

(***************************************************************************)
(* The groups of a split come in the order of the utterance.               *)
(***************************************************************************)

Rising(s) == \A k, l \in DOMAIN s : k <= l => s[k] <= s[l]

\* Blocks, each of one number, rise when their numbers do.
LEMMA FlattenRises ==
  ASSUME NEW ss, Blocks(ss), NEW v,
         \A i \in DOMAIN ss : v[i] \in Nat /\ \A k \in DOMAIN ss[i] : ss[i][k] = v[i],
         \A i, j \in DOMAIN ss : i <= j => v[i] <= v[j]
  PROVE  Rising(FlattenSeq(ss))
<1> DEFINE n == Len(ss)
           F(m) == FlattenSeq(Upto(ss, m))
           S == {m \in 0..n : Rising(F(m))}
<1>1. n \in Nat /\ DOMAIN ss = 1..n /\ Listing(ss) /\ \A i \in 1..n : Listing(ss[i])
  BY ListingFacts DEF Blocks
<1>2. ASSUME NEW m \in 0..n
      PROVE  Listing(F(m)) /\ \A k \in DOMAIN F(m) : \E i \in 1..m : F(m)[k] = v[i]
  <2> DEFINE ps == Upto(ss, m)
  <2>1. Listing(ps) /\ DOMAIN ps = 1..m /\ \A i \in 1..m : ps[i] = ss[i] /\ i \in 1..n
    BY <1>1, UptoFacts
  <2> HIDE DEF ps
  <2>2. \A i \in DOMAIN ps : Listing(ps[i])
    BY <1>1, <2>1
  <2>3. /\ Listing(FlattenSeq(ps))
        /\ \A k \in DOMAIN FlattenSeq(ps) : \E i \in DOMAIN ps : \E j \in DOMAIN ps[i] : FlattenSeq(ps)[k] = ps[i][j]
    BY <2>1, <2>2, FlattenFacts
  <2>4. \A i \in 1..m : \A j \in DOMAIN ps[i] : ps[i][j] = v[i]
    BY <1>1, <2>1
  <2>5. QED
    BY <2>1, <2>3, <2>4 DEF ps
<1>3. 0 \in S
  <2>1. F(0) = <<>>
    BY <1>1, UptoFacts, FlattenNone
  <2>2. QED
    BY <1>1, <2>1, EmptyIsListing DEF Rising
<1>4. ASSUME NEW m \in 0..(n - 1), m \in S PROVE m + 1 \in S
  <2> DEFINE x == F(m)
             y == ss[m + 1]
             z == F(m + 1)
  <2>1. m + 1 \in 0..n /\ m + 1 \in 1..n /\ m \in 0..n /\ \A i \in 1..m : i <= m + 1 /\ i \in 1..n
    BY <1>1
  <2>2. z = x \o y
    BY FlattenStep
  <2>3. /\ Listing(x) /\ Rising(x) /\ \A k \in DOMAIN x : x[k] \in Nat /\ x[k] <= v[m + 1]
    <3>1. Rising(x)
      BY <1>4
    <3>2. Listing(x) /\ \A k \in DOMAIN x : \E i \in 1..m : x[k] = v[i]
      BY <1>2, <2>1
    <3> HIDE DEF x
    <3>3. \A i \in 1..m : v[i] \in Nat /\ v[i] <= v[m + 1]
      BY <1>1, <2>1
    <3>4. QED
      BY <3>1, <3>2, <3>3
  <2>4. Listing(y) /\ (\A k \in DOMAIN y : y[k] = v[m + 1]) /\ v[m + 1] \in Nat
    BY <1>1, <2>1
  <2> HIDE DEF x, y, z
  <2>5. /\ DOMAIN z = 1..(Len(x) + Len(y))
        /\ \A k \in 1..Len(x) : z[k] = x[k]
        /\ \A k \in 1..Len(y) : z[Len(x) + k] = y[k]
    BY <2>2, <2>3, <2>4, ConcatIsListing
  <2>6. /\ Len(x) \in Nat /\ Len(y) \in Nat /\ DOMAIN x = 1..Len(x) /\ DOMAIN y = 1..Len(y)
    BY <2>3, <2>4, ListingFacts
  <2>7. \A k \in DOMAIN z : IF k <= Len(x) THEN k \in DOMAIN x /\ z[k] = x[k] ELSE z[k] = v[m + 1]
    <3> TAKE k \in DOMAIN z
    <3>1. CASE k <= Len(x)
      BY <2>5, <2>6, <3>1
    <3>2. CASE ~(k <= Len(x))
      <4>1. k - Len(x) \in 1..Len(y) /\ Len(x) + (k - Len(x)) = k
        BY <2>5, <2>6, <3>2
      <4>2. z[k] = y[k - Len(x)]
        BY <2>5, <4>1
      <4>3. QED
        BY <2>4, <2>6, <3>2, <4>1, <4>2
    <3>3. QED
      BY <3>1, <3>2
  <2>8. ASSUME NEW k \in DOMAIN z, NEW l \in DOMAIN z, k <= l PROVE z[k] <= z[l]
    <3>1. k \in Nat /\ l \in Nat
      BY <2>5, <2>6
    <3>2. CASE l <= Len(x)
      <4>1. k <= Len(x)
        BY <2>6, <2>8, <3>1, <3>2
      <4>2. QED
        BY <2>3, <2>7, <2>8, <3>2, <4>1 DEF Rising
    <3>3. CASE ~(l <= Len(x))
      <4>1. z[l] = v[m + 1]
        BY <2>7, <3>3
      <4>2. z[k] <= v[m + 1]
        BY <2>3, <2>4, <2>7
      <4>3. QED
        BY <4>1, <4>2
    <3>4. QED
      BY <3>2, <3>3
  <2>9. Rising(z)
    BY <2>8 DEF Rising
  <2>10. QED
    BY <2>1, <2>9 DEF z
<1>5. n \in S
  <2> HIDE DEF S
  <2>1. \A m \in 0..n : m \in S
    BY <1>1, <1>3, <1>4, ReachesAll
  <2>2. QED
    BY <1>1, <2>1
<1>6. Upto(ss, n) = ss
  BY <1>1, UptoFacts
<1>7. QED
  BY <1>5, <1>6

\* The words stand in the order of the items that hold them.
LEMMA WordToContentRises ==
  ASSUME NEW items, ItemsHold(items)
  PROVE  /\ Rising(WordToContent(items))
         /\ \A k \in DOMAIN WordToContent(items) : WordToContent(items)[k] \in DOMAIN items
<1> DEFINE ss == [i \in DOMAIN items |-> [k \in DOMAIN MorOf(items[i]) |-> i]]
           v == [i \in DOMAIN items |-> i]
<1>1. Len(items) \in Nat /\ DOMAIN items = 1..Len(items)
  BY ListingFacts DEF ItemsHold
<1>2. ASSUME NEW i \in DOMAIN items PROVE Listing(ss[i])
  <2>1. Len(MorOf(items[i])) \in Nat /\ DOMAIN MorOf(items[i]) = 1..Len(MorOf(items[i]))
    BY MorIsListing, ListingFacts
  <2>2. ss[i] = [k \in 1..Len(MorOf(items[i])) |-> ss[i][k]]
    BY <2>1
  <2>3. QED
    BY <2>1, <2>2, FunctionIsListing
<1>3. /\ DOMAIN ss = DOMAIN items /\ ss = [i \in 1..Len(items) |-> ss[i]]
      /\ \A i \in DOMAIN items : v[i] = i /\ v[i] \in Nat /\ \A k \in DOMAIN ss[i] : ss[i][k] = v[i]
  BY <1>1
<1> HIDE DEF ss, v
<1>4. Blocks(ss)
  BY <1>1, <1>2, <1>3, FunctionIsListing DEF Blocks
<1>5. Rising(FlattenSeq(ss))
  <2>1. \A i, j \in DOMAIN ss : i <= j => v[i] <= v[j]
    BY <1>3
  <2>2. QED
    BY <1>3, <1>4, <2>1, FlattenRises
<1>6. \A k \in DOMAIN FlattenSeq(ss) : \E i \in DOMAIN ss : \E j \in DOMAIN ss[i] : FlattenSeq(ss)[k] = ss[i][j]
  BY <1>4, FlattenFacts DEF Blocks
<1>7. ASSUME NEW k \in DOMAIN FlattenSeq(ss) PROVE FlattenSeq(ss)[k] \in DOMAIN items
  <2>1. PICK i \in DOMAIN ss : \E j \in DOMAIN ss[i] : FlattenSeq(ss)[k] = ss[i][j]
    BY <1>6
  <2>2. i \in DOMAIN items /\ \A j \in DOMAIN ss[i] : ss[i][j] = i
    BY <1>3
  <2>3. QED
    BY <2>1, <2>2
<1>8. QED
  BY <1>5, <1>7 DEF WordToContent, ss

Numbered(a) == DOMAIN a \subseteq Nat /\ \A k \in DOMAIN a : a[k] \in Nat

\* The words are in groups that rise, so the items with words are.
LEMMA OwnGroupRises ==
  ASSUME NEW items, ItemsHold(items), NEW a, Numbered(a), Rising(a),
         NEW i \in DOMAIN items, NEW j \in DOMAIN items, i <= j,
         OwnGroup(items, a, i) # None, OwnGroup(items, a, j) # None
  PROVE  OwnGroup(items, a, i) <= OwnGroup(items, a, j)
<1> DEFINE w == WordToContent(items)
           ks(x) == {k \in DOMAIN w \cap DOMAIN a : w[k] = x}
<1>1. ASSUME NEW x \in DOMAIN items, OwnGroup(items, a, x) # None
      PROVE  \E k \in DOMAIN w \cap DOMAIN a : w[k] = x /\ OwnGroup(items, a, x) = a[k]
  <2>1. OwnGroup(items, a, x) = IF ks(x) = {} THEN None ELSE a[Min(ks(x))]
    BY DEF OwnGroup
  <2>2. ks(x) \subseteq Nat
    BY DEF Numbered
  <2>3. ks(x) # {}
    BY <1>1, <2>1
  <2> DEFINE K == ks(x)
  <2>4. Min(K) \in K
    <3> HIDE DEF K
    <3>1. K \subseteq Nat /\ K # {}
      BY <2>2, <2>3 DEF K
    <3>2. QED
      BY <3>1, LeastElement
  <2>5. OwnGroup(items, a, x) = a[Min(K)]
    BY <2>1, <2>3
  <2>6. QED
    BY <2>4, <2>5
<1>2. Rising(w) /\ DOMAIN items \subseteq Nat
  BY WordToContentRises, ListingFacts DEF ItemsHold
<1> HIDE DEF w, ks
<1>3. PICK k \in DOMAIN w \cap DOMAIN a : w[k] = i /\ OwnGroup(items, a, i) = a[k]
  BY <1>1
<1>4. PICK l \in DOMAIN w \cap DOMAIN a : w[l] = j /\ OwnGroup(items, a, j) = a[l]
  BY <1>1
<1>5. k \in Nat /\ l \in Nat /\ i \in Nat /\ j \in Nat /\ a[k] \in Nat /\ a[l] \in Nat
  BY <1>2 DEF Numbered
<1>6. CASE k <= l
  BY <1>3, <1>4, <1>6 DEF Rising
<1>7. CASE l <= k
  <2>1. w[l] <= w[k]
    BY <1>2, <1>7 DEF Rising
  <2>2. i = j
    BY <1>3, <1>4, <1>5, <2>1
  <2>3. QED
    BY <1>3, <1>4, <1>5, <2>2
<1>8. QED
  BY <1>5, <1>6, <1>7

\* A retrace is settled where its correction is, which is not before it.
LEMMA SettledRises ==
  ASSUME NEW items, ItemsHold(items), NEW a, Numbered(a), Rising(a),
         NEW i \in DOMAIN items, NEW j \in DOMAIN items, i <= j,
         Settled(items, a, i) # None, Settled(items, a, j) # None
  PROVE  Settled(items, a, i) <= Settled(items, a, j)
<1> DEFINE own(x) == OwnGroup(items, a, x)
           next(x) == {y \in DOMAIN items : y > x /\ own(y) # None}
           late(x) == own(x) = None /\ items[x].kind = "retrace" /\ next(x) # {}
           place(x) == IF late(x) THEN Min(next(x)) ELSE x
<1>1. DOMAIN items \subseteq Nat
  BY ListingFacts DEF ItemsHold
<1>2. ASSUME NEW x \in DOMAIN items
      PROVE  /\ Settled(items, a, x) = own(place(x)) /\ place(x) \in DOMAIN items /\ x <= place(x)
             /\ late(x) => /\ place(x) \in next(x)
                           /\ \A y \in next(x) : place(x) <= y
  <2> DEFINE N == next(x)
  <2>1. Settled(items, a, x) = own(place(x))
    BY DEF Settled
  <2>2. N \subseteq DOMAIN items /\ N \subseteq Nat /\ \A y \in N : y > x
    BY <1>1
  <2>3. N # {} => Min(N) \in N /\ \A y \in N : Min(N) <= y
    <3> HIDE DEF N
    <3>1. QED
      BY <2>2, LeastElement
  <2>4. place(x) = IF late(x) THEN Min(N) ELSE x
    OBVIOUS
  <2>5. late(x) => N # {}
    OBVIOUS
  <2>6. CASE late(x)
    <3>1. place(x) = Min(N) /\ N # {}
      BY <2>4, <2>5, <2>6
    <3>2. place(x) \in N /\ \A y \in N : place(x) <= y
      BY <2>3, <3>1
    <3>3. place(x) \in DOMAIN items /\ x <= place(x)
      <4> HIDE DEF N, place
      <4>1. place(x) \in Nat /\ x \in Nat /\ place(x) > x
        BY <1>1, <2>2, <3>2
      <4>2. QED
        BY <2>2, <3>2, <4>1
    <3> HIDE DEF own, place, late
    <3>4. QED
      BY <2>1, <3>2, <3>3
  <2>7. CASE ~late(x)
    BY <1>1, <2>1, <2>7
  <2>8. QED
    BY <2>6, <2>7
<1>3. place(i) <= place(j)
  <2>1. place(i) \in Nat /\ place(j) \in Nat /\ i \in Nat /\ j \in Nat /\ j <= place(j)
    BY <1>1, <1>2
  <2>2. CASE ~late(i)
    <3>1. place(i) = i
      BY <2>2
    <3>2. QED
      BY <2>1, <3>1
  <2>3. CASE late(i) /\ i # j
    <3>1. own(place(j)) # None /\ place(j) \in DOMAIN items /\ place(j) > i
      <4>1. own(place(j)) # None /\ place(j) \in DOMAIN items
        BY <1>2
      <4> HIDE DEF place
      <4>2. QED
        BY <2>1, <2>3, <4>1
    <3>2. place(j) \in next(i)
      BY <3>1
    <3>3. \A y \in next(i) : place(i) <= y
      BY <1>2, <2>3
    <3> HIDE DEF next, place
    <3>4. QED
      BY <3>2, <3>3
  <2>4. CASE i = j
    <3> HIDE DEF place
    <3>1. QED
      BY <2>1, <2>4
  <2>5. QED
    BY <2>2, <2>3, <2>4
<1>4. /\ Settled(items, a, i) = OwnGroup(items, a, place(i)) /\ place(i) \in DOMAIN items
      /\ Settled(items, a, j) = OwnGroup(items, a, place(j)) /\ place(j) \in DOMAIN items
  BY <1>2
<1> HIDE DEF place
<1>5. QED
  BY <1>3, <1>4, OwnGroupRises

\* So do the groups of all items, however those without a word were filled in.
LEMMA GroupRises ==
  ASSUME NEW items, ItemsHold(items), NEW a, Numbered(a), Rising(a)
  PROVE  Rising(GroupOf(items, a)) /\ GroupOf(items, a) \in [DOMAIN items -> Nat]
<1> DEFINE settled == [i \in DOMAIN items |-> Settled(items, a, i)]
           S == {j \in DOMAIN settled : settled[j] # None}
           group == GroupOf(items, a)
<1>1. DOMAIN items \subseteq Nat
  BY ListingFacts DEF ItemsHold
<1>2. \A i \in DOMAIN items : settled[i] = Settled(items, a, i)
  OBVIOUS
<1>3. group = [i \in DOMAIN items |-> IF S = {} THEN 0 ELSE settled[Near(S, i)]]
  BY DEF GroupOf, Joined
<1>4. S \subseteq DOMAIN items /\ S \subseteq Nat /\ \A i \in S : Settled(items, a, i) # None
  BY <1>1
<1>5. group \in [DOMAIN items -> Nat]
  <2>1. \A k \in Nat \cap DOMAIN a : a[k] \in Nat
    BY DEF Numbered
  <2>2. QED
    BY <2>1, GroupIsNumber
<1> HIDE DEF settled, S, group
<1>6. ASSUME NEW i \in DOMAIN items, NEW j \in DOMAIN items, i <= j PROVE group[i] <= group[j]
  <2>1. group[i] \in Nat /\ group[j] \in Nat
    BY <1>5
  <2>2. CASE S = {}
    BY <1>3, <2>2
  <2>3. CASE S # {}
    <3> DEFINE x == Near(S, i)
               y == Near(S, j)
    <3>1. x \in S /\ y \in S /\ x <= y
      BY <1>1, <1>4, <1>6, <2>3, NearIsNearest
    <3>2. group[i] = settled[x] /\ group[j] = settled[y]
      BY <1>3, <2>3
    <3> HIDE DEF x, y
    <3>3. Settled(items, a, x) <= Settled(items, a, y)
      BY <1>4, <3>1, SettledRises
    <3>4. QED
      BY <1>2, <1>4, <3>1, <3>2, <3>3
  <2>4. QED
    BY <2>2, <2>3
<1>7. DOMAIN group = DOMAIN items
  BY <1>5
<1>8. Rising(group)
  BY <1>6, <1>7 DEF Rising
<1>9. QED
  BY <1>5, <1>8 DEF group

(***************************************************************************)
(* What a split keeps.                                                     *)
(***************************************************************************)

\* All is in one of the sequences.
LEMMA OneHoldsAll ==
  ASSUME NEW ss, Blocks(ss), NEW i \in DOMAIN ss, \A j \in DOMAIN ss : j # i => ss[j] = <<>>
  PROVE  FlattenSeq(ss) = ss[i]
<1>1. Held(ss, {} \cup {i}) = Held(ss, {}) \o ss[i]
  <2>1. {} \subseteq DOMAIN ss /\ \A j \in {} : j < i
    OBVIOUS
  <2>2. QED
    BY <2>1, HeldStep, Zenon
<1>2. <<>> \o ss[i] = ss[i]
  BY ConcatWithNone DEF Blocks
<1>3. {} \cup {i} = {i}
  OBVIOUS
<1>4. Held(ss, {i}) = ss[i]
  BY <1>1, <1>2, <1>3, HeldNone, Zenon
<1>5. Held(ss, {i}) = Held(ss, DOMAIN ss)
  BY HeldWithout
<1>6. QED
  BY <1>4, <1>5, HeldUpto

WordsOf(items) == [i \in DOMAIN items |-> items[i].words]

\* The words of items are sequences one after the other.
LEMMA WordsAreBlocks ==
  ASSUME NEW items, ItemsHold(items)
  PROVE  Blocks(WordsOf(items)) /\ DOMAIN WordsOf(items) = DOMAIN items
<1>1. Len(items) \in Nat /\ DOMAIN items = 1..Len(items)
  BY ListingFacts DEF ItemsHold
<1>2. WordsOf(items) = [i \in 1..Len(items) |-> WordsOf(items)[i]]
  BY <1>1 DEF WordsOf
<1>3. Listing(WordsOf(items)) /\ DOMAIN WordsOf(items) = DOMAIN items
  BY <1>1, <1>2, FunctionIsListing
<1>4. \A i \in DOMAIN items : Listing(WordsOf(items)[i])
  BY DEF WordsOf, ItemsHold
<1>5. QED
  BY <1>3, <1>4 DEF Blocks

\* The words of some items are the words picked at their places.
LEMMA WordsOfPicked ==
  ASSUME NEW items, ItemsHold(items), NEW I, I \subseteq DOMAIN items
  PROVE  WordsOf(Picked(items, I)) = Picked(WordsOf(items), I)
<1>1. DOMAIN Picked(items, I) = 1..Cardinality(I)
  BY PickedFacts DEF ItemsHold
<1>2. ASSUME NEW k \in 1..Cardinality(I) PROVE WordsOf(Picked(items, I))[k] = Picked(WordsOf(items), I)[k]
  <2>1. Nth(I, k) \in DOMAIN items
    <3>1. I \subseteq Nat /\ IsFiniteSet(I)
      BY ListingFacts, FS_Subset DEF ItemsHold
    <3>2. Nth(I, k) \in I
      BY <3>1, NthFacts
    <3>3. QED
      BY <3>2
  <2>2. QED
    BY <1>1, <2>1 DEF WordsOf, Picked
<1>3. /\ WordsOf(Picked(items, I)) = [k \in 1..Cardinality(I) |-> WordsOf(Picked(items, I))[k]]
      /\ Picked(WordsOf(items), I) = [k \in 1..Cardinality(I) |-> Picked(WordsOf(items), I)[k]]
  BY <1>1 DEF WordsOf, Picked
<1>4. [k \in 1..Cardinality(I) |-> WordsOf(Picked(items, I))[k]] =
        [k \in 1..Cardinality(I) |-> Picked(WordsOf(items), I)[k]]
  BY <1>2
<1>5. QED
  BY <1>3, <1>4, Zenon

\* The groups that get some content, and the places of the k-th of them.
Filled(items, group) == {g \in Range(group) : WithoutLeading(items, group, g) # {}}
Places(items, group, k) == WithoutLeading(items, group, Nth(Filled(items, group), k))

\* The groups with content: their places in order, which leave out separators only.
LEMMA FilledFacts ==
  ASSUME NEW items, ItemsHold(items), NEW group \in [DOMAIN items -> Nat], Rising(group)
  PROVE  LET n == Cardinality(Filled(items, group))
         IN /\ n \in Nat /\ Filled(items, group) \subseteq Nat /\ IsFiniteSet(Filled(items, group))
            /\ \A k \in 1..n : Places(items, group, k) \subseteq DOMAIN items /\ Places(items, group, k) # {}
            /\ \A k, l \in 1..n : k < l =>
                 \A i \in Places(items, group, k), j \in Places(items, group, l) : i < j
            /\ \A i \in DOMAIN items : items[i].kind # "separator" =>
                 \E k \in 1..n : i \in Places(items, group, k)
<1> DEFINE G == Filled(items, group)
           n == Cardinality(G)
           W(g) == WithoutLeading(items, group, g)
<1>1. DOMAIN items \subseteq Nat /\ IsFiniteSet(DOMAIN items) /\ DOMAIN group = DOMAIN items
  BY ListingFacts DEF ItemsHold
<1>2. IsFiniteSet(Range(group)) /\ Range(group) \subseteq Nat
  BY <1>1, RangeIsFinite
<1>3. G \subseteq Range(group) /\ \A g \in G : W(g) # {}
  BY DEF Filled
<1>4. G \subseteq Nat /\ IsFiniteSet(G) /\ n \in Nat
  <2> HIDE DEF G
  <2>1. QED
    BY <1>2, <1>3, FS_Subset, FS_CardinalityType
<1>5. \A g : \A i \in W(g) : i \in DOMAIN items /\ group[i] = g
  BY <1>1 DEF WithoutLeading
<1>6. \A k \in 1..n : Nth(G, k) \in G /\ Places(items, group, k) = W(Nth(G, k))
  BY <1>4, NthFacts DEF Places
<1>7. \A k \in 1..n : Places(items, group, k) \subseteq DOMAIN items /\ Places(items, group, k) # {}
  BY <1>3, <1>5, <1>6
<1>8. ASSUME NEW k \in 1..n, NEW l \in 1..n, k < l,
             NEW i \in Places(items, group, k), NEW j \in Places(items, group, l)
      PROVE  i < j
  <2>1. Nth(G, k) < Nth(G, l)
    <3> HIDE DEF G
    <3>1. QED
      BY <1>4, <1>8, NthOrder
  <2>2. i \in DOMAIN items /\ group[i] = Nth(G, k) /\ j \in DOMAIN items /\ group[j] = Nth(G, l)
    BY <1>5, <1>6
  <2> HIDE DEF G, W
  <2>3. i \in Nat /\ j \in Nat /\ group[i] \in Nat /\ group[j] \in Nat /\ group[i] < group[j]
    BY <1>1, <2>1, <2>2
  <2>4. ~(j <= i)
    BY <1>1, <2>2, <2>3 DEF Rising
  <2>5. QED
    BY <2>3, <2>4
<1>9. ASSUME NEW i \in DOMAIN items, items[i].kind # "separator"
      PROVE  \E k \in 1..n : i \in Places(items, group, k)
  <2>1. i \in W(group[i])
    <3>1. i \in 1..i
      BY ListingFacts DEF ItemsHold
    <3>2. QED
      BY <1>1, <1>9, <3>1 DEF WithoutLeading
  <2>2. group[i] \in G
    BY <1>1, <2>1 DEF Filled, Range
  <2> HIDE DEF G
  <2>3. PICK k \in 1..n : Nth(G, k) = group[i]
    BY <1>4, <2>2, NthCovers
  <2>4. QED
    BY <1>6, <2>1, <2>3
<1>10. QED
  BY <1>4, <1>7, <1>8, <1>9

\* The groups say, one after the other, what the items say.
LEMMA GroupsSayAll ==
  ASSUME NEW items, ItemsHold(items), NEW group \in [DOMAIN items -> Nat], Rising(group)
  PROVE  FlattenSeq([k \in 1..Cardinality(Filled(items, group)) |->
                       FlattenSeq(WordsOf(Picked(items, Places(items, group, k))))])
           = FlattenSeq(WordsOf(items))
<1> DEFINE n == Cardinality(Filled(items, group))
           B == [k \in 1..n |-> Places(items, group, k)]
           ws == WordsOf(items)
           hs == [k \in 1..n |-> FlattenSeq(WordsOf(Picked(items, Places(items, group, k))))]
           J == UNION {B[k] : k \in 1..n}
<1>1. /\ n \in Nat
      /\ \A k \in 1..n : B[k] \subseteq DOMAIN items
      /\ \A k, l \in 1..n : k < l => \A i \in B[k], j \in B[l] : i < j
      /\ \A i \in DOMAIN items : items[i].kind # "separator" => \E k \in 1..n : i \in B[k]
  BY FilledFacts
<1>2. \A k \in 1..n : B[k] = Places(items, group, k)
  OBVIOUS
<1> HIDE DEF n, B
<1>3. Blocks(ws) /\ DOMAIN ws = DOMAIN items
  BY WordsAreBlocks
<1>4. \A k \in 1..n : FlattenSeq(WordsOf(Picked(items, Places(items, group, k)))) = Held(ws, B[k])
  BY <1>1, <1>2, WordsOfPicked DEF Held
<1>5. hs = [k \in 1..n |-> hs[k]] /\ \A k \in 1..n : hs[k] = Held(ws, B[k])
  BY <1>4
<1>6. FlattenSeq(hs) = Held(ws, J)
  <2>1. \A k \in 1..n : B[k] \subseteq DOMAIN ws
    BY <1>1, <1>3
  <2>2. n \in Nat
    BY <1>1
  <2>3. \A k, l \in 1..n : k < l => \A i \in B[k], j \in B[l] : i < j
    BY <1>1
  <2>4. \A k \in 1..n : B[k] \subseteq J
    OBVIOUS
  <2>5. \A i \in J : \E k \in 1..n : i \in B[k]
    OBVIOUS
  <2>6. hs = [k \in 1..n |-> hs[k]]
    BY <1>5
  <2>7. \A k \in 1..n : hs[k] = Held(ws, B[k])
    BY <1>5
  <2>8. Blocks(ws)
    BY <1>3
  <2> HIDE DEF ws, hs, J
  <2>9. QED
    BY <2>1, <2>2, <2>3, <2>4, <2>5, <2>6, <2>7, <2>8, FlattenOfHeld
<1>7. Held(ws, J) = Held(ws, DOMAIN ws)
  <2>1. J \subseteq DOMAIN ws
    BY <1>1, <1>3
  <2>2. ASSUME NEW i \in DOMAIN ws \ J PROVE ws[i] = <<>>
    <3>1. items[i].kind = "separator"
      BY <1>1, <1>3, <2>2
    <3>2. QED
      BY <1>3, <3>1 DEF WordsOf, ItemsHold
  <2> HIDE DEF J, ws
  <2>3. QED
    BY <1>3, <2>1, <2>2, HeldWithout
<1>8. FlattenSeq(ws) = Held(ws, DOMAIN ws)
  BY <1>3, HeldUpto
<1>9. QED
  BY <1>6, <1>7, <1>8, Zenon DEF n, ws, hs

\* Some places give some elements.
LEMMA PickedSome ==
  ASSUME NEW s, Listing(s), NEW I, I \subseteq DOMAIN s
  PROVE  Picked(s, I) # <<>> <=> I # {}
<1>1. IsFiniteSet(I) /\ Cardinality(I) \in Nat /\ DOMAIN Picked(s, I) = 1..Cardinality(I)
  BY ListingFacts, PickedFacts, FS_Subset, FS_CardinalityType
<1>2. I # {} => Cardinality(I) # 0
  BY <1>1, FS_EmptySet
<1>3. I # {} => DOMAIN Picked(s, I) # {}
  BY <1>1, <1>2
<1>4. QED
  BY <1>3, EmptyIsListing, PickedNone

\* The k-th of the n children of an utterance, with some of its items.
OwnWor(wor, g) == IF wor = None THEN <<>> ELSE IF wor[g] = <<>> THEN <<>> ELSE <<Tier("wor", wor[g])>>
ChildIs(c, utt, group, k, n) ==
  /\ c.items = Picked(utt.items, Places(utt.items, group, k))
  /\ c.linkers = IF k = 1 THEN utt.linkers ELSE <<>>
  /\ c.postcodes = IF k = n THEN utt.postcodes ELSE <<>>
  /\ c.tiers = OwnWor(PartitionWor(utt, group), Nth(Filled(utt.items, group), k))
                 \o (IF k = 1 THEN AttachedFirst(utt) ELSE <<>>)

\* What the children of an utterance are made of.
LEMMA GroupedFacts ==
  ASSUME NEW utt, IsUtterance(utt), NEW group \in [DOMAIN utt.items -> Nat], Rising(group),
         NEW n, n = Cardinality(Filled(utt.items, group)), NEW ch, ch = Grouped(utt, group)
  PROVE  /\ n = 0 => ch = <<utt>>
         /\ n # 0 => /\ n \in Nat /\ 1 <= n /\ ch = [k \in 1..n |-> ch[k]]
                     /\ \A k \in 1..n :
                          ChildIs(ch[k], utt, group, k, n)
<1> DEFINE items == utt.items
           content == [g \in Range(group) |-> Picked(items, WithoutLeading(items, group, g))]
           wor == PartitionWor(utt, group)
           G == {g \in DOMAIN content : content[g] # <<>>}
           W == Filled(items, group)
<1>1. ItemsHold(items) /\ DOMAIN group = DOMAIN items
  BY DEF IsUtterance
<1>2. n \in Nat /\ W \subseteq Nat /\ IsFiniteSet(W)
  BY <1>1, FilledFacts
<1>3. \A g : WithoutLeading(items, group, g) \subseteq DOMAIN items
  BY <1>1 DEF WithoutLeading
<1>4. G = W
  <2>1. \A g \in Range(group) : content[g] # <<>> <=> WithoutLeading(items, group, g) # {}
    BY <1>1, <1>3, PickedSome DEF ItemsHold
  <2>2. DOMAIN content = Range(group)
    OBVIOUS
  <2> HIDE DEF content
  <2>3. QED
    BY <2>1, <2>2 DEF Filled
<1>5. ch = Children(utt, content, wor)
  BY DEF Grouped
<1>6. \A g \in W : content[g] = Picked(items, WithoutLeading(items, group, g))
  BY DEF Filled
<1> HIDE DEF content, wor
<1>7. n = 0 => W = {}
  BY <1>2, FS_EmptySet
<1>8. CASE n = 0
  BY <1>4, <1>5, <1>7, <1>8 DEF Children
<1>9. CASE n # 0
  <2>1. W # {} /\ 1 <= n
    BY <1>2, <1>9, FS_EmptySet
  <2> DEFINE own(g) == OwnWor(wor, g)
             last == Cardinality(G)
             child(k) ==
               [speaker |-> utt.speaker, lang |-> utt.lang, items |-> content[Nth(G, k)],
                linkers |-> IF k = 1 THEN utt.linkers ELSE <<>>,
                postcodes |-> IF k = last THEN utt.postcodes ELSE <<>>,
                term |-> IF k = last /\ utt.term # None THEN utt.term ELSE ".",
                bullet |-> IF k = last THEN utt.bullet ELSE None,
                tiers |-> own(Nth(G, k)) \o (IF k = 1 THEN AttachedFirst(utt) ELSE <<>>)]
  <2>2. ch = [k \in 1..last |-> child(k)]
    BY <1>4, <1>5, <2>1, Zenon DEF Children, OwnWor
  <2>3. last = n
    BY <1>4
  <2> HIDE DEF own
  <2>5. ch = [k \in 1..n |-> ch[k]]
    BY <2>2, <2>3
  <2> HIDE DEF G, W
  <2>6. ASSUME NEW k \in 1..n PROVE ChildIs(ch[k], utt, group, k, n)
    <3>1. ch[k] = child(k)
      BY <2>2, <2>3
    <3>2. /\ child(k).items = content[Nth(G, k)]
          /\ child(k).linkers = IF k = 1 THEN utt.linkers ELSE <<>>
          /\ child(k).postcodes = IF k = last THEN utt.postcodes ELSE <<>>
          /\ child(k).tiers = own(Nth(G, k)) \o (IF k = 1 THEN AttachedFirst(utt) ELSE <<>>)
      OBVIOUS
    <3> HIDE DEF child, last
    <3>3. content[Nth(G, k)] = Picked(items, Places(items, group, k))
      <4>1. n = Cardinality(W)
        BY DEF W
      <4>2. Nth(G, k) \in W
        BY <1>2, <1>4, <4>1, NthFacts
      <4>3. QED
        BY <1>4, <1>6, <4>2 DEF Places, W
    <3>4. ch[k].items = Picked(items, Places(items, group, k))
      BY <3>1, <3>2, <3>3, Zenon
    <3>5. /\ ch[k].linkers = IF k = 1 THEN utt.linkers ELSE <<>>
          /\ ch[k].postcodes = IF k = n THEN utt.postcodes ELSE <<>>
          /\ ch[k].tiers = own(Nth(G, k)) \o (IF k = 1 THEN AttachedFirst(utt) ELSE <<>>)
      BY <2>3, <3>1, <3>2, Zenon
    <3>6. Nth(G, k) = Nth(Filled(items, group), k)
      BY <1>4 DEF W
    <3>7. own(Nth(G, k)) = OwnWor(PartitionWor(utt, group), Nth(Filled(items, group), k))
      BY <3>6, Zenon DEF own, wor
    <3>8. QED
      BY <3>4, <3>5, <3>7, Zenon DEF ChildIs
  <2>7. QED
    BY <1>2, <1>9, <2>1, <2>5, <2>6
<1>10. QED
  BY <1>8, <1>9

\* What is picked of a mapped sequence is mapped.
LEMMA PickedMapped ==
  ASSUME NEW s, Listing(s), NEW I, I \subseteq DOMAIN s, NEW g
  PROVE  Mapped(Picked(s, I), g) = Picked(Mapped(s, g), I)
<1>1. DOMAIN Picked(s, I) = 1..Cardinality(I)
  BY PickedFacts
<1>2. ASSUME NEW k \in 1..Cardinality(I) PROVE g[Picked(s, I)[k]] = Mapped(s, g)[Nth(I, k)]
  <2>1. I \subseteq Nat /\ IsFiniteSet(I)
    BY ListingFacts, FS_Subset
  <2>2. Nth(I, k) \in DOMAIN s
    BY <2>1, NthFacts
  <2>3. QED
    BY <2>2 DEF Mapped, Picked
<1>3. Mapped(Picked(s, I), g) = [k \in 1..Cardinality(I) |-> g[Picked(s, I)[k]]]
  BY <1>1 DEF Mapped
<1>4. QED
  BY <1>2, <1>3 DEF Picked

(***************************************************************************)
(* The comments among the tiers of an utterance.                           *)
(***************************************************************************)

CommentLabels == {"com", "xtra"}
CommentIn(tier) == IF tier.label \in CommentLabels THEN <<tier>> ELSE <<>>
CommentsOf(ts) == FlattenSeq([i \in DOMAIN ts |-> CommentIn(ts[i])])

\* The comments among tiers are one or none of each.
LEMMA CommentsAreBlocks ==
  ASSUME NEW ts, Listing(ts), NEW T, Range(ts) \subseteq T
  PROVE  LET g == [t \in T |-> CommentIn(t)]
         IN /\ CommentsOf(ts) = FlattenSeq(Mapped(ts, g)) /\ Blocks(Mapped(ts, g))
            /\ \A i \in DOMAIN ts : Mapped(ts, g)[i] = CommentIn(ts[i])
<1> DEFINE g == [t \in T |-> CommentIn(t)]
<1>1. \A i \in DOMAIN ts : g[ts[i]] = CommentIn(ts[i])
  BY DEF Range
<1>2. \A t : Listing(CommentIn(t))
  BY EmptyIsListing, OneIsListing DEF CommentIn
<1> HIDE DEF g
<1>3. \A i \in DOMAIN ts : Mapped(ts, g)[i] = CommentIn(ts[i])
  BY <1>1, MappedFacts
<1>4. Blocks(Mapped(ts, g))
  BY <1>2, <1>3, MappedFacts DEF Blocks
<1>5. Mapped(ts, g) = [i \in DOMAIN ts |-> CommentIn(ts[i])]
  BY <1>1 DEF Mapped
<1>6. CommentsOf(ts) = FlattenSeq(Mapped(ts, g))
  BY <1>5, Zenon DEF CommentsOf
<1>7. QED
  BY <1>3, <1>4, <1>6 DEF g

\* The comments of tiers one after the other.
LEMMA CommentsAfter ==
  ASSUME NEW a, Listing(a), NEW b, Listing(b)
  PROVE  CommentsOf(a \o b) = CommentsOf(a) \o CommentsOf(b) /\ Listing(CommentsOf(a))
<1> DEFINE T == Range(a) \cup Range(b)
           g == [t \in T |-> CommentIn(t)]
           c == a \o b
<1>1. Range(a) \subseteq T /\ Range(b) \subseteq T
  OBVIOUS
<1>2. Listing(c) /\ DOMAIN c = 1..(Len(a) + Len(b))
      /\ (\A i \in 1..Len(a) : c[i] = a[i]) /\ (\A i \in 1..Len(b) : c[Len(a) + i] = b[i])
  BY ConcatIsListing
<1>3. Range(c) \subseteq T
  <2>1. Len(a) \in Nat /\ Len(b) \in Nat /\ DOMAIN a = 1..Len(a) /\ DOMAIN b = 1..Len(b)
    BY ListingFacts
  <2> HIDE DEF c
  <2>2. ASSUME NEW i \in DOMAIN c PROVE c[i] \in T
    <3>1. CASE i \in 1..Len(a)
      BY <1>2, <2>1, <3>1 DEF Range
    <3>2. CASE i \notin 1..Len(a)
      <4>1. i - Len(a) \in 1..Len(b) /\ Len(a) + (i - Len(a)) = i
        BY <1>2, <2>1, <3>2
      <4>2. c[i] = b[i - Len(a)]
        BY <1>2, <4>1
      <4>3. QED
        BY <2>1, <4>1, <4>2 DEF Range
    <3>3. QED
      BY <3>1, <3>2
  <2>3. QED
    BY <2>2 DEF Range
<1> HIDE DEF T
<1>4. /\ CommentsOf(a) = FlattenSeq(Mapped(a, g)) /\ Blocks(Mapped(a, g))
      /\ CommentsOf(b) = FlattenSeq(Mapped(b, g)) /\ Blocks(Mapped(b, g))
  BY <1>1, CommentsAreBlocks
<1>5. CommentsOf(c) = FlattenSeq(Mapped(c, g))
  <2> HIDE DEF c
  <2>1. QED
    BY <1>2, <1>3, CommentsAreBlocks
<1> HIDE DEF g
<1>6. Mapped(a \o b, g) = Mapped(a, g) \o Mapped(b, g)
  BY MappedConcat
<1>7. FlattenSeq(Mapped(a, g) \o Mapped(b, g)) = FlattenSeq(Mapped(a, g)) \o FlattenSeq(Mapped(b, g))
  BY <1>4, FlattenConcat, Zenon
<1>8. CommentsOf(a \o b) = CommentsOf(a) \o CommentsOf(b)
  BY <1>4, <1>5, <1>6, <1>7, Zenon
<1>9. Listing(CommentsOf(a))
  BY <1>4, FlattenFacts DEF Blocks
<1>10. QED
  BY <1>8, <1>9

\* Where every comment is among what is picked, no comment is lost.
LEMMA CommentsPicked ==
  ASSUME NEW ts, Listing(ts), NEW I, I \subseteq DOMAIN ts,
         \A i \in DOMAIN ts \ I : ts[i].label \notin CommentLabels
  PROVE  CommentsOf(Picked(ts, I)) = CommentsOf(ts)
<1> DEFINE T == Range(ts)
           g == [t \in T |-> CommentIn(t)]
           ss == Mapped(ts, g)
<1>1. /\ CommentsOf(ts) = FlattenSeq(ss) /\ Blocks(ss)
      /\ \A i \in DOMAIN ts : ss[i] = CommentIn(ts[i])
  BY CommentsAreBlocks
<1>2. Listing(Picked(ts, I)) /\ Range(Picked(ts, I)) \subseteq T
  BY PickedFacts DEF Range
<1>3. CommentsOf(Picked(ts, I)) = FlattenSeq(Mapped(Picked(ts, I), g))
  <2> HIDE DEF T
  <2>1. QED
    BY <1>2, CommentsAreBlocks
<1>4. DOMAIN ss = DOMAIN ts
  BY DEF Mapped
<1> HIDE DEF g
<1>5. CommentsOf(Picked(ts, I)) = Held(ss, I)
  BY <1>3, PickedMapped DEF Held
<1> HIDE DEF ss
<1>6. \A i \in DOMAIN ss \ I : ss[i] = <<>>
  BY <1>1, <1>4 DEF CommentIn
<1>7. Held(ss, I) = Held(ss, DOMAIN ss) /\ FlattenSeq(ss) = Held(ss, DOMAIN ss)
  BY <1>1, <1>4, <1>6, HeldWithout, HeldUpto
<1>8. QED
  BY <1>1, <1>5, <1>7

\* Tiers of other labels hold no comment.
LEMMA NoComments ==
  ASSUME NEW ts, Listing(ts), \A i \in DOMAIN ts : ts[i].label \notin CommentLabels
  PROVE  CommentsOf(ts) = <<>>
<1>1. CommentsOf(Picked(ts, {})) = CommentsOf(ts)
  BY CommentsPicked
<1>2. Picked(ts, {}) = <<>> /\ [i \in DOMAIN <<>> |-> CommentIn(<<>>[i])] = <<>>
  BY PickedNone
<1>3. CommentsOf(<<>>) = <<>>
  BY <1>2, FlattenNone, Zenon DEF CommentsOf
<1>4. QED
  BY <1>1, <1>2, <1>3

\* The comments of an utterance are those among its tiers.
LEMMA CommentsAre ==
  ASSUME NEW utt
  PROVE  Comments(utt) = CommentsOf(utt.tiers)
BY DEF Comments, CommentsOf, CommentIn, CommentLabels

(***************************************************************************)
(* The four parts of the substance of utterances.                          *)
(***************************************************************************)

Part(utt, p) ==
  CASE p = 1 -> Said(utt) [] p = 2 -> utt.linkers [] p = 3 -> utt.postcodes [] p = 4 -> Comments(utt)
Whole(us, p) == FlattenSeq([u \in DOMAIN us |-> Part(us[u], p)])

\* Every part of an utterance is a sequence.
LEMMA PartIsListing ==
  ASSUME NEW utt, IsUtterance(utt), NEW p \in 1..4
  PROVE  Listing(Part(utt, p))
<1>1. Listing(Said(utt))
  <2>1. Said(utt) = FlattenSeq(WordsOf(utt.items))
    BY DEF Said, WordsOf
  <2>2. Blocks(WordsOf(utt.items))
    BY WordsAreBlocks DEF IsUtterance
  <2>3. QED
    BY <2>1, <2>2, FlattenFacts DEF Blocks
<1>2. Listing(Comments(utt))
  <2>1. Listing(utt.tiers)
    BY DEF IsUtterance
  <2>2. QED
    BY <2>1, CommentsAre, CommentsAfter
<1>3. p = 1 \/ p = 2 \/ p = 3 \/ p = 4
  OBVIOUS
<1>4. QED
  BY <1>1, <1>2, <1>3 DEF Part, IsUtterance

\* The whole of one utterance is its part.
LEMMA WholeOfOne ==
  ASSUME NEW utt, NEW p
  PROVE  Whole(<<utt>>, p) = Part(utt, p)
<1>1. [u \in DOMAIN <<utt>> |-> Part(<<utt>>[u], p)] = <<Part(utt, p)>>
  OBVIOUS
<1>2. QED
  BY <1>1, FlattenOne, Zenon DEF Whole

\* Utterances one after the other say what each sequence of them says.
LEMMA WholeOfWholes ==
  ASSUME NEW ss, Listing(ss), \A i \in DOMAIN ss : Utterances(ss[i]), NEW p \in 1..4
  PROVE  Whole(FlattenSeq(ss), p) = FlattenSeq([i \in DOMAIN ss |-> Whole(ss[i], p)])
<1> DEFINE T == UNION {Range(ss[i]) : i \in DOMAIN ss}
           g == [t \in T |-> Part(t, p)]
<1>1. \A i \in DOMAIN ss : \A j \in DOMAIN ss[i] : ss[i][j] \in T /\ g[ss[i][j]] = Part(ss[i][j], p)
  BY DEF Range
<1>2. Blocks(ss)
  BY DEF Blocks, Utterances
<1> HIDE DEF T, g
<1>3. \A i \in DOMAIN ss : \A j \in DOMAIN ss[i] : Listing(g[ss[i][j]])
  BY <1>1, PartIsListing DEF Utterances
<1>4. FlattenSeq(Mapped(FlattenSeq(ss), g)) = FlattenSeq([i \in DOMAIN ss |-> FlattenSeq(Mapped(ss[i], g))])
  BY <1>2, <1>3, FlattenMapped
<1>5. \A i \in DOMAIN ss : FlattenSeq(Mapped(ss[i], g)) = Whole(ss[i], p)
  <2> TAKE i \in DOMAIN ss
  <2>1. Mapped(ss[i], g) = [u \in DOMAIN ss[i] |-> Part(ss[i][u], p)]
    BY <1>1 DEF Mapped
  <2>2. QED
    BY <2>1, Zenon DEF Whole
<1>6. FlattenSeq(Mapped(FlattenSeq(ss), g)) = Whole(FlattenSeq(ss), p)
  <2> DEFINE fl == FlattenSeq(ss)
  <2>1. \A k \in DOMAIN fl : \E i \in DOMAIN ss : \E j \in DOMAIN ss[i] : fl[k] = ss[i][j]
    BY <1>2, FlattenFacts DEF Blocks
  <2> HIDE DEF fl
  <2>2. \A k \in DOMAIN fl : g[fl[k]] = Part(fl[k], p)
    BY <1>1, <2>1
  <2>3. Mapped(fl, g) = [u \in DOMAIN fl |-> Part(fl[u], p)]
    BY <2>2 DEF Mapped
  <2>4. FlattenSeq(Mapped(fl, g)) = Whole(fl, p)
    BY <2>3, Zenon DEF Whole
  <2>5. QED
    BY <2>4 DEF fl
<1>7. [i \in DOMAIN ss |-> FlattenSeq(Mapped(ss[i], g))] = [i \in DOMAIN ss |-> Whole(ss[i], p)]
  BY <1>5
<1>8. QED
  BY <1>4, <1>6, <1>7

\* Where each utterance becomes some that keep a part of it, all keep it.
LEMMA FlatKeeps ==
  ASSUME NEW us, NEW n \in Nat, DOMAIN us = 1..n, NEW p \in 1..4,
         NEW ss, ss = [u \in DOMAIN us |-> ss[u]],
         \A u \in DOMAIN us : Utterances(ss[u]) /\ Whole(ss[u], p) = Part(us[u], p)
  PROVE  Whole(FlattenSeq(ss), p) = Whole(us, p)
<1>1. Listing(ss) /\ DOMAIN ss = DOMAIN us
  BY FunctionIsListing
<1>2. Whole(FlattenSeq(ss), p) = FlattenSeq([u \in DOMAIN ss |-> Whole(ss[u], p)])
  BY <1>1, WholeOfWholes
<1>3. [u \in DOMAIN ss |-> Whole(ss[u], p)] = [u \in DOMAIN us |-> Part(us[u], p)]
  BY <1>1
<1>4. QED
  BY <1>2, <1>3 DEF Whole

\* Utterances with the same parts.
LEMMA SameWhole ==
  ASSUME NEW us, NEW vs, DOMAIN us = DOMAIN vs, NEW p,
         \A u \in DOMAIN us : Part(vs[u], p) = Part(us[u], p)
  PROVE  Whole(vs, p) = Whole(us, p)
<1>1. [u \in DOMAIN vs |-> Part(vs[u], p)] = [u \in DOMAIN us |-> Part(us[u], p)]
  OBVIOUS
<1>2. QED
  BY <1>1 DEF Whole

\* The children of an utterance keep all that it says, how it begins and ends,
\* and its comments.
LEMMA GroupedKeeps ==
  ASSUME NEW utt, IsUtterance(utt), NEW group \in [DOMAIN utt.items -> Nat], Rising(group),
         NEW p \in 1..4
  PROVE  Whole(Grouped(utt, group), p) = Part(utt, p)
<1> DEFINE n == Cardinality(Filled(utt.items, group))
           ch == Grouped(utt, group)
           ps == [u \in DOMAIN ch |-> Part(ch[u], p)]
<1>0. n = Cardinality(Filled(utt.items, group)) /\ ch = Grouped(utt, group)
  OBVIOUS
<1> HIDE DEF n, ch
<1>1. /\ n = 0 => ch = <<utt>>
      /\ n # 0 => /\ n \in Nat /\ 1 <= n /\ ch = [k \in 1..n |-> ch[k]]
                  /\ \A k \in 1..n :
                       ChildIs(ch[k], utt, group, k, n)
  BY <1>0, GroupedFacts
<1>2. n = Cardinality(Filled(utt.items, group))
  BY <1>0
<1>3. CASE n = 0
  BY <1>1, <1>3, WholeOfOne DEF ch
<1>4. CASE n # 0
  <2>1. n \in Nat /\ 1 <= n /\ ch = [k \in 1..n |-> ch[k]] /\ DOMAIN ch = 1..n
    BY <1>1, <1>4
  <2>2. ItemsHold(utt.items) /\ Listing(utt.linkers) /\ Listing(utt.postcodes) /\ Listing(utt.tiers)
    BY DEF IsUtterance
  <2>3. DOMAIN ps = 1..n /\ ps = [k \in 1..n |-> ps[k]] /\ \A k \in 1..n : ps[k] = Part(ch[k], p)
    BY <2>1
  <2>4. Whole(ch, p) = FlattenSeq(ps)
    BY DEF Whole
  <2> HIDE DEF ps
  <2>5. CASE p = 1
    <3>1. ASSUME NEW k \in 1..n
          PROVE  ps[k] = FlattenSeq(WordsOf(Picked(utt.items, Places(utt.items, group, k))))
      <4>1. ch[k].items = Picked(utt.items, Places(utt.items, group, k))
        BY <1>1, <1>4, Zenon DEF ChildIs
      <4>2. ps[k] = Said(ch[k])
        BY <2>3, <2>5 DEF Part
      <4>3. Said(ch[k]) = FlattenSeq(WordsOf(ch[k].items))
        BY DEF Said, WordsOf
      <4>4. QED
        BY <4>1, <4>2, <4>3, Zenon
    <3>2. ps = [k \in 1..n |-> FlattenSeq(WordsOf(Picked(utt.items, Places(utt.items, group, k))))]
      BY <2>3, <3>1
    <3>3. FlattenSeq(ps) = FlattenSeq(WordsOf(utt.items))
      BY <1>2, <2>2, <3>2, GroupsSayAll
    <3>4. QED
      BY <2>4, <2>5, <3>3 DEF Part, Said, WordsOf, ch
  <2>6. ASSUME NEW i \in 1..n, NEW all, Listing(all), all = Part(utt, p),
               \A k \in 1..n : ps[k] = IF k = i THEN all ELSE <<>>
        PROVE  Whole(ch, p) = Part(utt, p)
    <3>1. Blocks(ps)
      BY <2>1, <2>3, <2>6, FunctionIsListing, EmptyIsListing DEF Blocks
    <3>2. FlattenSeq(ps) = ps[i]
      BY <2>3, <2>6, <3>1, OneHoldsAll
    <3>3. QED
      BY <2>4, <2>6, <3>2
  <2>7. CASE p = 2
    <3>1. \A k \in 1..n : ps[k] = IF k = 1 THEN utt.linkers ELSE <<>>
      <4>1. \A k \in 1..n : ch[k].linkers = IF k = 1 THEN utt.linkers ELSE <<>>
        BY <1>1, <1>4, Zenon DEF ChildIs
      <4>2. QED
        BY <2>3, <2>7, <4>1 DEF Part
    <3>2. utt.linkers = Part(utt, p) /\ 1 \in 1..n
      BY <2>1, <2>7 DEF Part
    <3>3. QED
      BY <2>2, <2>6, <3>1, <3>2 DEF ch
  <2>8. CASE p = 3
    <3>1. \A k \in 1..n : ps[k] = IF k = n THEN utt.postcodes ELSE <<>>
      <4>1. \A k \in 1..n : ch[k].postcodes = IF k = n THEN utt.postcodes ELSE <<>>
        BY <1>1, <1>4, Zenon DEF ChildIs
      <4>2. QED
        BY <2>3, <2>8, <4>1 DEF Part
    <3>2. utt.postcodes = Part(utt, p) /\ n \in 1..n
      BY <2>1, <2>8 DEF Part
    <3>3. QED
      BY <2>2, <2>6, <3>1, <3>2 DEF ch
  <2>9. CASE p = 4
    <3> DEFINE at == AttachedFirst(utt)
    <3>1. Listing(at) /\ CommentsOf(at) = Comments(utt)
      <4> DEFINE I == {i \in DOMAIN utt.tiers : utt.tiers[i].label \notin WordTiers}
      <4>1. \A i \in DOMAIN utt.tiers \ I : utt.tiers[i].label \notin CommentLabels
        BY DEF WordTiers, CommentLabels
      <4>2. I \subseteq DOMAIN utt.tiers /\ at = Picked(utt.tiers, I)
        BY DEF AttachedFirst
      <4> HIDE DEF I
      <4>3. Listing(at) /\ CommentsOf(at) = CommentsOf(utt.tiers)
        BY <2>2, <4>1, <4>2, PickedFacts, CommentsPicked
      <4>4. QED
        BY <4>3, CommentsAre
    <3> HIDE DEF at
    <3>2. ASSUME NEW k \in 1..n PROVE ps[k] = IF k = 1 THEN Comments(utt) ELSE <<>>
      <4> DEFINE first == IF k = 1 THEN at ELSE <<>>
      <4>1. PICK own : /\ own = <<>> \/ \E c : own = <<Tier("wor", c)>>
                       /\ ch[k].tiers = own \o first
        <5> DEFINE mine == OwnWor(PartitionWor(utt, group), Nth(Filled(utt.items, group), k))
        <5>1. ChildIs(ch[k], utt, group, k, n)
          BY <1>1, <1>4
        <5>2. ch[k].tiers = mine \o first
          BY <5>1, Zenon DEF at, ChildIs
        <5>3. mine = <<>> \/ \E c : mine = <<Tier("wor", c)>>
          BY DEF OwnWor
        <5> HIDE DEF mine
        <5>4. QED
          BY <5>2, <5>3
      <4>2. Listing(own) /\ CommentsOf(own) = <<>>
        <5>1. Listing(own) /\ \A i \in DOMAIN own : own[i].label \notin CommentLabels
          BY <4>1, EmptyIsListing, OneIsListing DEF Tier, CommentLabels
        <5>2. QED
          BY <5>1, NoComments
      <4>3. Listing(first) /\ CommentsOf(first) = IF k = 1 THEN Comments(utt) ELSE <<>>
        <5>1. CommentsOf(<<>>) = <<>> /\ Listing(<<>>)
          BY EmptyIsListing, NoComments
        <5>2. QED
          BY <3>1, <5>1
      <4> HIDE DEF first
      <4>4. CommentsOf(own \o first) = CommentsOf(own) \o CommentsOf(first)
        BY <4>2, <4>3, CommentsAfter
      <4>5. Listing(CommentsOf(first))
        BY <4>3, EmptyIsListing, CommentsAfter
      <4>6. <<>> \o CommentsOf(first) = CommentsOf(first)
        BY <4>5, ConcatWithNone, Zenon
      <4>7. ps[k] = CommentsOf(own \o first)
        <5>1. ps[k] = Comments(ch[k])
          BY <2>3, <2>9 DEF Part
        <5>2. QED
          BY <4>1, <5>1, CommentsAre, Zenon
      <4>8. QED
        BY <4>2, <4>3, <4>4, <4>6, <4>7, Zenon
    <3>3. Listing(Comments(utt)) /\ Comments(utt) = Part(utt, p) /\ 1 \in 1..n
      BY <2>1, <2>9, PartIsListing DEF Part
    <3>4. QED
      BY <2>6, <3>2, <3>3 DEF ch
  <2>10. QED
    BY <2>5, <2>7, <2>8, <2>9
<1>5. QED
  BY <1>3, <1>4

\* A split keeps every part of the utterance.
LEMMA SplitKeeps ==
  ASSUME NEW utt, IsUtterance(utt), NEW a, Numbered(a), Rising(a), NEW p \in 1..4
  PROVE  Whole(Split(utt, a), p) = Part(utt, p) /\ Utterances(Split(utt, a))
<1> DEFINE group == GroupOf(utt.items, a)
<1>1. Split(utt, a) = <<utt>> \/ Split(utt, a) = Grouped(utt, group)
  BY DEF Split
<1>2. Rising(group) /\ group \in [DOMAIN utt.items -> Nat]
  BY GroupRises DEF IsUtterance
<1> HIDE DEF group
<1>3. Whole(Grouped(utt, group), p) = Part(utt, p)
  BY <1>2, GroupedKeeps
<1>4. Utterances(Split(utt, a))
  BY SplitFacts DEF Numbered
<1>5. QED
  BY <1>1, <1>3, <1>4, WholeOfOne

(***************************************************************************)
(* What the runners keep.                                                  *)
(***************************************************************************)

\* A segmentation that splits keeps every part of the file.
LEMMA ApplySplitsKeeps ==
  ASSUME NEW f, IsTranscript(f), NEW map,
         \A u \in DOMAIN map : Numbered(map[u]) /\ Rising(map[u]), NEW p \in 1..4
  PROVE  Whole(ApplySplits(f, map).utts, p) = Whole(f.utts, p)
<1> DEFINE ss == [u \in DOMAIN f.utts |->
                    IF u \in DOMAIN map THEN Split(f.utts[u], map[u]) ELSE <<f.utts[u]>>]
<1>1. Len(f.utts) \in Nat /\ DOMAIN f.utts = 1..Len(f.utts)
  BY UtterancesOf
<1>2. ASSUME NEW u \in DOMAIN f.utts PROVE Utterances(ss[u]) /\ Whole(ss[u], p) = Part(f.utts[u], p)
  <2>1. IsUtterance(f.utts[u])
    BY UtterancesOf
  <2>2. Utterances(<<f.utts[u]>>)
    BY <2>1, OneIsListing DEF Utterances
  <2>3. Whole(<<f.utts[u]>>, p) = Part(f.utts[u], p)
    BY WholeOfOne
  <2>4. u \in DOMAIN map => /\ Utterances(Split(f.utts[u], map[u]))
                            /\ Whole(Split(f.utts[u], map[u]), p) = Part(f.utts[u], p)
    BY <2>1, SplitKeeps
  <2>5. ss[u] = IF u \in DOMAIN map THEN Split(f.utts[u], map[u]) ELSE <<f.utts[u]>>
    OBVIOUS
  <2> HIDE DEF ss
  <2>6. QED
    BY <2>2, <2>3, <2>4, <2>5
<1>3. ss = [u \in DOMAIN f.utts |-> ss[u]]
  OBVIOUS
<1>4. ApplySplits(f, map).utts = FlattenSeq(ss)
  <2>1. ApplySplits(f, map) = [f EXCEPT !.utts = FlattenSeq(ss)]
    BY DEF ApplySplits
  <2> HIDE DEF ss
  <2>2. \A x : [f EXCEPT !.utts = x].utts = x
    BY DEF IsTranscript
  <2>3. QED
    BY <2>1, <2>2
<1> HIDE DEF ss
<1>5. Whole(FlattenSeq(ss), p) = Whole(f.utts, p)
  <2> DEFINE us == f.utts
             n == Len(us)
  <2>1. n \in Nat /\ DOMAIN us = 1..n /\ ss = [u \in DOMAIN us |-> ss[u]]
        /\ \A u \in DOMAIN us : Utterances(ss[u]) /\ Whole(ss[u], p) = Part(us[u], p)
    BY <1>1, <1>2, <1>3
  <2> HIDE DEF us, n
  <2>2. Whole(FlattenSeq(ss), p) = Whole(us, p)
    BY <2>1, FlatKeeps
  <2>3. QED
    BY <2>2 DEF us
<1>6. QED
  BY <1>4, <1>5

\* A segmenter's answer numbers the words from the first span on.
LEMMA SpansRise ==
  ASSUME NEW row, NEW answer, Decodes("utseg", answer), AssignmentsFromSpans(row, answer) # None
  PROVE  Numbered(AssignmentsFromSpans(row, answer)) /\ Rising(AssignmentsFromSpans(row, answer))
<1> DEFINE ss == [s \in DOMAIN answer |-> [k \in DOMAIN answer[s].words |-> s - 1]]
           v == [s \in DOMAIN answer |-> s - 1]
           given == AssignmentsFromSpans(row, answer)
<1>1. Listing(answer) /\ \A s \in DOMAIN answer : Listing(answer[s].words)
  BY DEF Decodes
<1>2. Len(answer) \in Nat /\ DOMAIN answer = 1..Len(answer)
  BY <1>1, ListingFacts
<1>3. ASSUME NEW s \in DOMAIN answer PROVE Listing(ss[s])
  <2>1. Len(answer[s].words) \in Nat /\ DOMAIN answer[s].words = 1..Len(answer[s].words)
    BY <1>1, ListingFacts
  <2>2. ss[s] = [k \in 1..Len(answer[s].words) |-> ss[s][k]]
    BY <2>1
  <2>3. QED
    BY <2>1, <2>2, FunctionIsListing
<1>4. DOMAIN ss = DOMAIN answer /\ ss = [s \in 1..Len(answer) |-> ss[s]]
  BY <1>2
<1>5. /\ \A s \in DOMAIN ss : v[s] \in Nat /\ \A k \in DOMAIN ss[s] : ss[s][k] = v[s]
      /\ \A s, t \in DOMAIN ss : s <= t => v[s] <= v[t]
  BY <1>2
<1>6. given \in {<<>>, FlattenSeq(ss)}
  BY DEF AssignmentsFromSpans
<1>7. \A k \in DOMAIN given : given[k] \in Nat
  BY AssignmentsAreNumbers
<1> HIDE DEF ss, v, given
<1>8. Blocks(ss)
  BY <1>2, <1>3, <1>4, FunctionIsListing DEF Blocks
<1>9. Rising(FlattenSeq(ss)) /\ Listing(FlattenSeq(ss))
  BY <1>5, <1>8, FlattenRises, FlattenFacts DEF Blocks
<1>10. Rising(given) /\ Listing(given)
  BY <1>6, <1>9, EmptyIsListing DEF Rising
<1>11. Numbered(given)
  BY <1>7, <1>10, ListingFacts DEF Numbered
<1>12. QED
  BY <1>10, <1>11 DEF given

\* The speakers are numbered in the order in which they change.
LEMMA SpeakersRise ==
  ASSUME NEW utt, IsUtterance(utt), NEW segs
  PROVE  Numbered(SpeakerAssignments(utt, segs)) /\ Rising(SpeakerAssignments(utt, segs))
<1> DEFINE times == WordTimes(utt)
           timed == {j \in DOMAIN times : times[j] # None}
           speaker(j) == segs[SegmentAt(segs, Middle(times[Near(timed, j)]))].speaker
           C(k) == {j \in 2..k : speaker(j) # speaker(j - 1)}
           given == SpeakerAssignments(utt, segs)
<1>1. DOMAIN times \subseteq Nat
  <2>1. DOMAIN MorWords(utt) \subseteq Nat
    BY MorWordsIsListing, ListingFacts DEF IsUtterance
  <2>2. DOMAIN WorTierWords(utt) \subseteq Nat
    BY DEF WorTierWords, Picked
  <2>3. DOMAIN times \in {DOMAIN MorWords(utt), DOMAIN WorTierWords(utt)}
    BY DEF WordTimes, TimesOf
  <2>4. QED
    BY <2>1, <2>2, <2>3
<1>2. given = IF timed = {} THEN [k \in DOMAIN times |-> 0] ELSE [k \in DOMAIN times |-> Cardinality(C(k))]
  BY DEF SpeakerAssignments
<1> HIDE DEF times, timed
<1>3. ASSUME NEW k \in Nat, NEW l \in Nat, k <= l
      PROVE  Cardinality(C(k)) \in Nat /\ Cardinality(C(l)) \in Nat /\ Cardinality(C(k)) <= Cardinality(C(l))
  <2>1. C(k) \subseteq C(l) /\ C(l) \subseteq 2..l /\ IsFiniteSet(2..l)
    BY <1>3, FS_Interval
  <2> HIDE DEF C
  <2>2. IsFiniteSet(C(l))
    BY <2>1, FS_Subset
  <2>3. IsFiniteSet(C(k)) /\ Cardinality(C(k)) <= Cardinality(C(l))
    BY <2>1, <2>2, FS_Subset
  <2>4. QED
    BY <2>2, <2>3, FS_CardinalityType
<1> HIDE DEF C, given
<1>4. CASE timed = {}
  <2>1. given = [k \in DOMAIN times |-> 0]
    BY <1>2, <1>4
  <2>2. QED
    BY <1>1, <2>1 DEF Numbered, Rising, given
<1>5. CASE timed # {}
  <2>1. DOMAIN given = DOMAIN times /\ \A k \in DOMAIN times : given[k] = Cardinality(C(k))
    BY <1>2, <1>5
  <2>2. QED
    BY <1>1, <1>3, <2>1 DEF Numbered, Rising, given
<1>6. QED
  BY <1>4, <1>5

\* Tiers that are no comments leave every part as it is, and comments the first three.
LEMMA WithKeeps ==
  ASSUME NEW utt, IsUtterance(utt), NEW ts, Listing(ts), NEW p \in 1..4,
         p = 4 => \A i \in DOMAIN ts : ts[i].label \notin CommentLabels
  PROVE  Part(With(utt, ts), p) = Part(utt, p)
<1>1. /\ With(utt, ts).items = utt.items /\ With(utt, ts).linkers = utt.linkers
      /\ With(utt, ts).postcodes = utt.postcodes /\ With(utt, ts).tiers = utt.tiers \o ts
  <2>1. PICK sp, la, it, li, po, te, bu, ti :
          utt = [speaker |-> sp, lang |-> la, items |-> it, linkers |-> li,
                 postcodes |-> po, term |-> te, bullet |-> bu, tiers |-> ti]
    BY DEF IsUtterance
  <2>2. With(utt, ts) = [utt EXCEPT !.tiers = ti \o ts]
    BY <2>1 DEF With
  <2>3. QED
    BY <2>1, <2>2
<1>2. CASE p # 4
  <2>1. Said(With(utt, ts)) = Said(utt)
    BY <1>1 DEF Said
  <2>2. p = 1 \/ p = 2 \/ p = 3
    BY <1>2
  <2>3. QED
    BY <1>1, <2>1, <2>2 DEF Part
<1>3. CASE p = 4
  <2>1. Listing(utt.tiers)
    BY DEF IsUtterance
  <2>2. CommentsOf(utt.tiers \o ts) = CommentsOf(utt.tiers) \o CommentsOf(ts) /\ Listing(CommentsOf(utt.tiers))
    BY <2>1, CommentsAfter
  <2>3. CommentsOf(ts) = <<>>
    BY <1>3, NoComments
  <2>4. CommentsOf(utt.tiers) \o <<>> = CommentsOf(utt.tiers)
    BY <2>2, ConcatWithNone, Zenon
  <2>5. Comments(With(utt, ts)) = Comments(utt)
    BY <1>1, <2>2, <2>3, <2>4, CommentsAre, Zenon
  <2>6. QED
    BY <1>3, <2>5 DEF Part
<1>4. QED
  BY <1>2, <1>3

\* The utterances of a transcript, each with the same part.
LEMMA EachKeeps ==
  ASSUME NEW f, IsTranscript(f), NEW us, DOMAIN us = DOMAIN f.utts, NEW p,
         \A u \in DOMAIN f.utts : IsUtterance(f.utts[u]) => Part(us[u], p) = Part(f.utts[u], p)
  PROVE  Whole([f EXCEPT !.utts = us].utts, p) = Whole(f.utts, p)
<1>1. [f EXCEPT !.utts = us].utts = us
  BY DEF IsTranscript
<1>2. \A u \in DOMAIN f.utts : Part(us[u], p) = Part(f.utts[u], p)
  BY UtterancesOf
<1>3. Whole(us, p) = Whole(f.utts, p)
  BY <1>2, SameWhole
<1>4. QED
  BY <1>1, <1>3

\* Morphosyntax keeps every part.
LEMMA MorKeeps ==
  ASSUME NEW f, IsTranscript(f), NEW rs, NEW as, DOMAIN as = DOMAIN rs, MorApplied(f, rs, as) # None,
         NEW p \in 1..4
  PROVE  Whole(MorApplied(f, rs, as).utts, p) = Whole(f.utts, p)
<1> DEFINE us == [u \in DOMAIN f.utts |->
                    IF AnswerFor(rs, u) = 0 THEN f.utts[u] ELSE MorOrNone(f.utts[u], as[AnswerFor(rs, u)])]
<1>1. MorApplied(f, rs, as) = [f EXCEPT !.utts = us] /\ \A i \in DOMAIN as : MorTiers(as[i]) # "error"
  BY DEF MorApplied
<1>2. ASSUME NEW answer, MorTiers(answer) # "error", NEW utt, IsUtterance(utt)
      PROVE  Part(MorOrNone(utt, answer), p) = Part(utt, p)
  <2>1. CASE MorOrNone(utt, answer) = utt
    BY <2>1
  <2>2. CASE MorOrNone(utt, answer) # utt
    <3>1. MorTiers(answer) # "none" /\ MorOrNone(utt, answer) = With(utt, MorTiers(answer))
      BY <2>2 DEF MorOrNone
    <3>2. PICK m, g : MorTiers(answer) = <<Tier("mor", m), Tier("gra", g)>>
      BY <1>2, <3>1 DEF MorTiers
    <3> DEFINE ts == <<Tier("mor", m), Tier("gra", g)>>
    <3>3. Listing(ts) /\ \A i \in DOMAIN ts : ts[i].label \notin CommentLabels
      <4>1. Listing(ts) /\ Len(ts) = 2 /\ ts[1] = Tier("mor", m) /\ ts[2] = Tier("gra", g)
        BY TwoIsListing
      <4> HIDE DEF ts
      <4>2. DOMAIN ts = 1..2
        BY <4>1, ListingFacts
      <4>3. QED
        BY <4>1, <4>2 DEF Tier, CommentLabels
    <3> HIDE DEF ts
    <3>4. Part(With(utt, ts), p) = Part(utt, p)
      BY <1>2, <3>3, WithKeeps
    <3>5. QED
      BY <3>1, <3>2, <3>4 DEF ts
  <2>3. QED
    BY <2>1, <2>2
<1>3. ASSUME NEW u \in DOMAIN f.utts, IsUtterance(f.utts[u]) PROVE Part(us[u], p) = Part(f.utts[u], p)
  <2>1. CASE AnswerFor(rs, u) = 0
    BY <2>1
  <2>2. CASE AnswerFor(rs, u) # 0
    <3>1. AnswerFor(rs, u) \in DOMAIN as
      BY <2>2 DEF AnswerFor
    <3>2. Part(MorOrNone(f.utts[u], as[AnswerFor(rs, u)]), p) = Part(f.utts[u], p)
      BY <1>1, <1>2, <1>3, <3>1
    <3>3. QED
      BY <2>2, <3>2
  <2>3. QED
    BY <2>1, <2>2
<1>4. DOMAIN us = DOMAIN f.utts
  OBVIOUS
<1> HIDE DEF us
<1>5. Whole([f EXCEPT !.utts = us].utts, p) = Whole(f.utts, p)
  BY <1>3, <1>4, EachKeeps
<1>6. QED
  BY <1>1, <1>5

\* A tier that is no comment keeps every part.
LEMMA OneTierKeeps ==
  ASSUME NEW utt, IsUtterance(utt), NEW label, NEW c, NEW p \in 1..4, p = 4 => label \notin CommentLabels
  PROVE  Part(With(utt, <<Tier(label, c)>>), p) = Part(utt, p)
<1> DEFINE ts == <<Tier(label, c)>>
<1>1. Listing(ts) /\ DOMAIN ts = 1..1 /\ ts[1].label = label
  BY OneIsListing DEF Tier
<1> HIDE DEF ts
<1>2. Part(With(utt, ts), p) = Part(utt, p)
  BY <1>1, WithKeeps
<1>3. QED
  BY <1>2 DEF ts

\* A translation keeps all but the comments, a coreference these too.
LEMMA TextsKeep ==
  ASSUME NEW f, IsTranscript(f), NEW label, NEW texts, TextsApplied(f, label, texts) # None, NEW p \in 1..4,
         p = 4 => label \notin CommentLabels
  PROVE  Whole(TextsApplied(f, label, texts).utts, p) = Whole(f.utts, p)
<1> DEFINE us == [u \in DOMAIN f.utts |->
                    IF texts[u] = "" THEN f.utts[u] ELSE With(f.utts[u], <<Tier(label, texts[u])>>)]
<1>1. TextsApplied(f, label, texts) = [f EXCEPT !.utts = us]
  BY DEF TextsApplied
<1>3. \A u \in DOMAIN f.utts : IsUtterance(f.utts[u]) => Part(us[u], p) = Part(f.utts[u], p)
  <2> SUFFICES ASSUME NEW u \in DOMAIN f.utts, IsUtterance(f.utts[u])
               PROVE  Part(us[u], p) = Part(f.utts[u], p)
    OBVIOUS
  <2>1. Part(With(f.utts[u], <<Tier(label, texts[u])>>), p) = Part(f.utts[u], p)
    BY OneTierKeeps
  <2>2. us[u] = IF texts[u] = "" THEN f.utts[u] ELSE With(f.utts[u], <<Tier(label, texts[u])>>)
    OBVIOUS
  <2> HIDE DEF us
  <2>3. QED
    BY <2>1, <2>2
<1>4. DOMAIN us = DOMAIN f.utts
  OBVIOUS
<1> HIDE DEF us
<1>5. Whole([f EXCEPT !.utts = us].utts, p) = Whole(f.utts, p)
  BY <1>3, <1>4, EachKeeps
<1>6. QED
  BY <1>1, <1>5

\* A phonetic transcription keeps every part.
LEMMA PhoKeeps ==
  ASSUME NEW f, IsTranscript(f), NEW rs, NEW answer, PhoApplied(f, rs, answer) # None, NEW p \in 1..4
  PROVE  Whole(PhoApplied(f, rs, answer).utts, p) = Whole(f.utts, p)
<1> DEFINE at(u) == {i \in DOMAIN rs : rs[i].utt = u}
           ipaOf(i) == [k \in DOMAIN answer[i].ipa |-> Ipa(f, rs[i].units[k], answer[i].ipa[k])]
           us == [u \in DOMAIN f.utts |->
                    IF at(u) = {} THEN f.utts[u] ELSE With(f.utts[u], <<Tier("pho", ipaOf(Min(at(u))))>>)]
<1>1. PhoApplied(f, rs, answer) = [f EXCEPT !.utts = us]
  BY DEF PhoApplied
<1>2. \A u \in DOMAIN f.utts : IsUtterance(f.utts[u]) => Part(us[u], p) = Part(f.utts[u], p)
  <2> SUFFICES ASSUME NEW u \in DOMAIN f.utts, IsUtterance(f.utts[u])
               PROVE  Part(us[u], p) = Part(f.utts[u], p)
    OBVIOUS
  <2>1. \A c : Part(With(f.utts[u], <<Tier("pho", c)>>), p) = Part(f.utts[u], p)
    BY OneTierKeeps DEF CommentLabels
  <2>2. us[u] = f.utts[u] \/ \E c : us[u] = With(f.utts[u], <<Tier("pho", c)>>)
    OBVIOUS
  <2> HIDE DEF us
  <2>3. QED
    BY <2>1, <2>2
<1>3. DOMAIN us = DOMAIN f.utts
  OBVIOUS
<1> HIDE DEF us
<1>4. Whole([f EXCEPT !.utts = us].utts, p) = Whole(f.utts, p)
  BY <1>2, <1>3, EachKeeps
<1>5. QED
  BY <1>1, <1>4

\* Another speaker, or another bullet, is no part of what is kept.
LEMMA SameFields ==
  ASSUME NEW utt, NEW v, v.items = utt.items, v.linkers = utt.linkers,
         v.postcodes = utt.postcodes, v.tiers = utt.tiers, NEW p \in 1..4
  PROVE  Part(v, p) = Part(utt, p)
<1>1. Said(v) = Said(utt) /\ Comments(v) = Comments(utt)
  BY DEF Said, Comments
<1>2. p = 1 \/ p = 2 \/ p = 3 \/ p = 4
  OBVIOUS
<1>3. QED
  BY <1>1, <1>2 DEF Part

\* An utterance of another speaker and bullet keeps its parts.
LEMMA RevoicedKeeps ==
  ASSUME NEW utt, IsUtterance(utt), NEW time, NEW segs, NEW codeOf, NEW p \in 1..4
  PROVE  Part(Revoiced(utt, time, segs, codeOf), p) = Part(utt, p)
<1> DEFINE v == Revoiced(utt, time, segs, codeOf)
<1>1. v.items = utt.items /\ v.linkers = utt.linkers /\ v.postcodes = utt.postcodes /\ v.tiers = utt.tiers
  BY DEF IsUtterance, Revoiced
<1> HIDE DEF v
<1>2. Part(v, p) = Part(utt, p)
  BY <1>1, SameFields
<1>3. QED
  BY <1>2 DEF v

\* So does one of another speaker.
LEMMA RenamedKeeps ==
  ASSUME NEW utt, IsUtterance(utt), NEW s, NEW p \in 1..4
  PROVE  Part([utt EXCEPT !.speaker = s], p) = Part(utt, p)
<1> DEFINE v == [utt EXCEPT !.speaker = s]
<1>1. v.items = utt.items /\ v.linkers = utt.linkers /\ v.postcodes = utt.postcodes /\ v.tiers = utt.tiers
  BY DEF IsUtterance
<1> HIDE DEF v
<1>2. Part(v, p) = Part(utt, p)
  BY <1>1, SameFields
<1>3. QED
  BY <1>2 DEF v

\* A diarization keeps every part.
LEMMA DiarizedKeeps ==
  ASSUME NEW us, Utterances(us), NEW segs, NEW codeOf, NEW p \in 1..4
  PROVE  Whole(Diarized(us, segs, codeOf), p) = Whole(us, p)
<1> DEFINE ss == [u \in DOMAIN us |-> Split(us[u], SpeakerAssignments(us[u], segs))]
           flat == FlattenSeq(ss)
           voiced == RevoicedAll(flat, segs, codeOf)
<1>1. Len(us) \in Nat /\ DOMAIN us = 1..Len(us) /\ \A u \in DOMAIN us : IsUtterance(us[u])
  BY ListingFacts DEF Utterances
<1>2. ss = [u \in DOMAIN us |-> ss[u]]
  OBVIOUS
<1>3. \A u \in DOMAIN us : Utterances(ss[u]) /\ Whole(ss[u], p) = Part(us[u], p)
  <2> TAKE u \in DOMAIN us
  <2>1. ss[u] = Split(us[u], SpeakerAssignments(us[u], segs)) /\ IsUtterance(us[u])
    BY <1>1
  <2> HIDE DEF ss
  <2>2. Numbered(SpeakerAssignments(us[u], segs)) /\ Rising(SpeakerAssignments(us[u], segs))
    BY <2>1, SpeakersRise
  <2>3. QED
    BY <2>1, <2>2, SplitKeeps
<1>4. Diarized(us, segs, codeOf) = voiced
  BY DEF Diarized
<1> HIDE DEF ss
<1>5. Whole(flat, p) = Whole(us, p)
  BY <1>1, <1>2, <1>3, FlatKeeps
<1>6. \A u \in DOMAIN flat : IsUtterance(flat[u])
  <2>1. ss = [u \in 1..Len(us) |-> ss[u]] /\ \A u \in 1..Len(us) : Utterances(ss[u])
    BY <1>1, <1>2, <1>3
  <2>2. Utterances(flat)
    BY <1>1, <2>1, FlatUtterances
  <2>3. QED
    BY <2>2 DEF Utterances
<1> HIDE DEF flat
<1>7. DOMAIN voiced = DOMAIN flat /\ \A u \in DOMAIN flat : Part(voiced[u], p) = Part(flat[u], p)
  <2>1. \A utt, time : IsUtterance(utt) => Part(Revoiced(utt, time, segs, codeOf), p) = Part(utt, p)
    BY RevoicedKeeps
  <2>2. QED
    BY <1>6, <2>1 DEF RevoicedAll
<1> HIDE DEF voiced
<1>8. Whole(voiced, p) = Whole(flat, p)
  BY <1>7, SameWhole
<1>9. QED
  BY <1>4, <1>5, <1>8

\* So does a relabelling by it.
LEMMA RelabelledKeeps ==
  ASSUME NEW f, IsTranscript(f), NEW segs, Relabelled(f, segs) # None, NEW p \in 1..4
  PROVE  Whole(Relabelled(f, segs).utts, p) = Whole(f.utts, p)
<1>1. ASSUME NEW us, Utterances(us), NEW codes, MovedDown(f, us, codes) # None
      PROVE  Whole(MovedDown(f, us, codes).utts, p) = Whole(us, p)
  <2> DEFINE spoken == Spoken(us, codes)
             projected(c) == IF c \in Range(spoken)
                             THEN CodeAt(f.participants, Min({k \in DOMAIN spoken : spoken[k] = c}) - 1)
                             ELSE c
             moved == [u \in DOMAIN us |-> [us[u] EXCEPT !.speaker = projected(@)]]
  <2>1. PICK ps : MovedDown(f, us, codes) = [f EXCEPT !.utts = moved, !.participants = ps]
    BY <1>1 DEF MovedDown
  <2>2. DOMAIN moved = DOMAIN us /\ \A u \in DOMAIN us : Part(moved[u], p) = Part(us[u], p)
    BY <1>1, RenamedKeeps DEF Utterances
  <2> HIDE DEF moved
  <2>3. [f EXCEPT !.utts = moved, !.participants = ps].utts = moved
    BY DEF IsTranscript
  <2>4. Whole(moved, p) = Whole(us, p)
    BY <2>2, SameWhole
  <2>5. QED
    BY <2>1, <2>3, <2>4
<1>2. CASE segs = <<>>
  BY <1>2 DEF Relabelled
<1>3. CASE segs # <<>>
  <2>1. PICK codeOf, codes : Relabelled(f, segs) = MovedDown(f, Diarized(f.utts, segs, codeOf), codes)
    BY <1>3 DEF Relabelled
  <2>2. Utterances(Diarized(f.utts, segs, codeOf)) /\ Utterances(f.utts)
    BY UtterancesOf, DiarizedUtterances
  <2>3. Whole(Diarized(f.utts, segs, codeOf), p) = Whole(f.utts, p)
    BY <2>2, DiarizedKeeps
  <2>4. QED
    BY <1>1, <2>1, <2>2, <2>3
<1>4. QED
  BY <1>2, <1>3

\* A segmentation with the words of the file splits it and does nothing else.
LEMMA UtsegKeeps ==
  ASSUME NEW f, IsTranscript(f), NEW as, \A u \in DOMAIN f.utts : Decodes("utseg", as[u]),
         \A u \in DOMAIN f.utts : AssignmentsFromSpans(Row(f.utts[u]), as[u]) # None,
         NEW bad, NEW p \in 1..4
  PROVE  Whole(UtsegApplied(f, as, bad).utts, p) = Whole(f.utts, p)
<1> DEFINE given(u) == AssignmentsFromSpans(Row(f.utts[u]), as[u])
           map == [u \in {v \in DOMAIN f.utts : given(v) # <<>>} |-> given(u)]
<1>1. UtsegApplied(f, as, bad) = ApplySplits(f, map)
  BY DEF UtsegApplied
<1>2. \A u \in DOMAIN map : Numbered(map[u]) /\ Rising(map[u])
  BY SpansRise
<1> HIDE DEF map
<1>3. QED
  BY <1>1, <1>2, ApplySplitsKeeps

\* Whatever is answered, every runner but a reviser keeps what it must.
LEMMA AppliedKeeps ==
  ASSUME NEW f, IsTranscript(f), NEW t \in Tasks, t # "ai", NEW as, DOMAIN as = DOMAIN RequestsOf(t, f),
         \A i \in DOMAIN as : Decodes(t, as[i]), Applied(t, f, RequestsOf(t, f), as) # None,
         t = "utseg" => \A u \in DOMAIN f.utts : AssignmentsFromSpans(Row(f.utts[u]), as[u]) # None,
         NEW p \in 1..4, t = "translate" => p # 4
  PROVE  Whole(Applied(t, f, RequestsOf(t, f), as).utts, p) = Whole(f.utts, p)
<1> DEFINE rs == RequestsOf(t, f)
           new == Applied(t, f, rs, as)
<1>1. t \in {"utseg", "morphosyntax", "phonetic", "translate", "coref", "speaker"}
  BY RunnersAssumption
<1>2. CASE rs = <<>>
  BY <1>2 DEF Applied
<1>3. CASE rs # <<>>
  <2>1. t = "utseg" => DOMAIN as = DOMAIN f.utts
    BY <1>3, RequestsAreListed
  <2>2. new # None
    OBVIOUS
  <2> HIDE DEF rs
  <2>3. CASE t = "utseg"
    <3>1. new = UtsegApplied(f, as, Unwritable)
      BY <1>3, <2>3 DEF Applied
    <3>2. \A u \in DOMAIN f.utts : Decodes("utseg", as[u])
      BY <2>1, <2>3
    <3> HIDE DEF new
    <3>3. Whole(new.utts, p) = Whole(f.utts, p)
      BY <2>3, <3>1, <3>2, UtsegKeeps
    <3>4. QED
      BY <3>3 DEF new, rs
  <2>4. CASE t = "morphosyntax"
    <3>1. new = MorApplied(f, rs, as)
      BY <1>3, <2>4 DEF Applied
    <3>2. DOMAIN as = DOMAIN rs
      BY DEF rs
    <3> HIDE DEF new
    <3>3. Whole(new.utts, p) = Whole(f.utts, p)
      BY <2>2, <3>1, <3>2, MorKeeps
    <3>4. QED
      BY <3>3 DEF new, rs
  <2>5. CASE t = "phonetic"
    <3>1. new = PhoApplied(f, rs[1], as[1])
      BY <1>3, <2>5 DEF Applied
    <3> HIDE DEF new
    <3>2. Whole(new.utts, p) = Whole(f.utts, p)
      BY <2>2, <3>1, PhoKeeps
    <3>3. QED
      BY <3>2 DEF new, rs
  <2>6. CASE t = "translate"
    <3> DEFINE texts == TextsApplied(f, "xtra", as[1].texts)
    <3>1. new = IF texts = None \/ as[1].provider = None THEN texts
                ELSE Stamped(texts, "translate", as[1].provider)
      BY <1>3, <2>6 DEF Applied, TranslateApplied
    <3>2. p \in 1..4 /\ p # 4
      BY <2>6
    <3> HIDE DEF texts, new
    <3>3. texts # None => IsTranscript(texts) /\ Whole(texts.utts, p) = Whole(f.utts, p)
      BY <3>2, TextsTranscript, TextsKeep DEF texts
    <3>4. texts # None => Stamped(texts, "translate", as[1].provider).utts = texts.utts
      <4>1. \A x : [texts EXCEPT !.stamps = x].utts = texts.utts \/ texts = None
        BY <3>3 DEF IsTranscript
      <4>2. \E x : Stamped(texts, "translate", as[1].provider) = [texts EXCEPT !.stamps = x]
        BY DEF Stamped
      <4>3. QED
        BY <4>1, <4>2
    <3>5. Whole(new.utts, p) = Whole(f.utts, p)
      BY <2>2, <3>1, <3>3, <3>4
    <3>6. QED
      BY <3>5 DEF new, rs
  <2>7. CASE t = "coref"
    <3>1. new = TextsApplied(f, "xcor", as[1].texts)
      BY <1>3, <2>7 DEF Applied, CorefApplied
    <3>2. "xcor" \notin CommentLabels
      BY DEF CommentLabels
    <3> HIDE DEF new
    <3>3. Whole(new.utts, p) = Whole(f.utts, p)
      BY <2>2, <3>1, <3>2, TextsKeep
    <3>4. QED
      BY <3>3 DEF new, rs
  <2>8. CASE t = "speaker"
    <3>1. new = Relabelled(f, as[1])
      BY <1>3, <2>8 DEF Applied
    <3> HIDE DEF new
    <3>2. Whole(new.utts, p) = Whole(f.utts, p)
      BY <2>2, <3>1, RelabelledKeeps
    <3>3. QED
      BY <3>2 DEF new, rs
  <2>9. QED
    BY <1>1, <2>3, <2>4, <2>5, <2>6, <2>7, <2>8
<1>4. QED
  BY <1>2, <1>3

\* A stage becomes idle only when its answers are put in, and its file is written.
LEMMA OnlyInjectEnds ==
  ASSUME [Next]_vars, phase = "asking", phase' = "idle"
  PROVE  /\ DOMAIN answers = DOMAIN requests /\ stage' = stage
         /\ Applied(stage, file, requests, answers) # None
         /\ file' = Applied(stage, file, requests, answers) /\ Parses(file')
<1>1. Inject
  <2>1. ~ \E t \in Tasks : Begin(t)
    BY DEF Begin
  <2>2. ~Send
    BY DEF Send
  <2>3. ~ \E i \in DOMAIN requests : Tick(i) \/ Answer(i) \/ BackendFails(i)
    BY DEF Tick, Answer, BackendFails
  <2>4. ~(UNCHANGED vars)
    BY DEF vars
  <2>5. QED
    BY <2>1, <2>2, <2>3, <2>4 DEF Next
<1> DEFINE new == Applied(stage, file, requests, answers)
<1>2. DOMAIN answers = DOMAIN requests /\ stage' = stage /\ Gate(new)
  BY <1>1 DEF Inject
<1> HIDE DEF new
<1>3. new # None /\ file' = new /\ Parses(file')
  BY <1>2 DEF Gate
<1>4. QED
  BY <1>2, <1>3 DEF new

\* So does every step that ends a stage.
LEMMA StepKeeps ==
  ASSUME StageUnderWay, [Next]_vars, phase = "asking", phase' = "idle", stage # "ai", ~NewWords,
         NEW p \in 1..4, stage = "translate" => p # 4
  PROVE  Whole(file'.utts, p) = Whole(file.utts, p)
<1>1. /\ DOMAIN answers = DOMAIN requests
      /\ Applied(stage, file, requests, answers) # None
      /\ file' = Applied(stage, file, requests, answers)
  BY OnlyInjectEnds
<1>2. /\ IsTranscript(file) /\ stage \in Tasks /\ requests = RequestsOf(stage, file)
      /\ \A i \in DOMAIN answers : Decodes(stage, answers[i])
  BY DEF StageUnderWay
<1>3. stage = "utseg" => \A u \in DOMAIN file.utts : AssignmentsFromSpans(Row(file.utts[u]), answers[u]) # None
  BY DEF NewWords
<1>4. Whole(Applied(stage, file, RequestsOf(stage, file), answers).utts, p) = Whole(file.utts, p)
  BY <1>1, <1>2, <1>3, AppliedKeeps
<1>5. QED
  BY <1>1, <1>2, <1>4

\* Whatever the back ends answer, a stage that is not asked for new words loses,
\* repeats and reorders none of them, nor a linker, a postcode, a comment or a
\* translation (but for the stage that translates): for
\* any transcript, any split of its utterances, any diarization and any tiers
\* (taskrunners/, segmentation/mod.rs).
THEOREM WhatIsSaidIsKept == Spec => SubstanceKept
<1>1. ASSUME NEW f PROVE \A p \in 1..4 : Substance(f)[p] = Whole(f.utts, p)
  <2>1. /\ Whole(f.utts, 1) = FlattenSeq([u \in DOMAIN f.utts |-> Said(f.utts[u])])
        /\ Whole(f.utts, 2) = FlattenSeq([u \in DOMAIN f.utts |-> f.utts[u].linkers])
        /\ Whole(f.utts, 3) = FlattenSeq([u \in DOMAIN f.utts |-> f.utts[u].postcodes])
        /\ Whole(f.utts, 4) = FlattenSeq([u \in DOMAIN f.utts |-> Comments(f.utts[u])])
    BY DEF Whole, Part
  <2>2. /\ Substance(f)[1] = Whole(f.utts, 1) /\ Substance(f)[2] = Whole(f.utts, 2)
        /\ Substance(f)[3] = Whole(f.utts, 3) /\ Substance(f)[4] = Whole(f.utts, 4)
    BY <2>1 DEF Substance
  <2>3. QED
    BY <2>2
<1>2. StageUnderWay /\ [Next]_vars =>
        [phase = "asking" /\ phase' = "idle" /\ stage # "ai" /\ ~NewWords =>
           LET old == Substance(file)
               new == Substance(file') IN
           /\ new[1] = old[1] /\ new[2] = old[2] /\ new[3] = old[3]
           /\ stage # "translate" => new[4] = old[4]]_vars
  <2> SUFFICES ASSUME StageUnderWay, [Next]_vars, phase = "asking", phase' = "idle", stage # "ai", ~NewWords
               PROVE  /\ Substance(file')[1] = Substance(file)[1] /\ Substance(file')[2] = Substance(file)[2]
                      /\ Substance(file')[3] = Substance(file)[3]
                      /\ stage # "translate" => Substance(file')[4] = Substance(file)[4]
    OBVIOUS
  <2>1. ASSUME NEW p \in 1..4, stage = "translate" => p # 4
        PROVE  Substance(file')[p] = Substance(file)[p]
    BY <1>1, <2>1, StepKeeps
  <2>2. QED
    BY <2>1
<1>3. QED
  BY <1>2, StagesKeepTheTranscript, PTL DEF Spec, SubstanceKept

(***************************************************************************)
(* What a segmentation that the runner accepts is worth.                   *)
(***************************************************************************)

\* Sequences of the same lengths make sequences of the same length.
LEMMA SameLengths ==
  ASSUME NEW ss, Blocks(ss), NEW ts, Blocks(ts), DOMAIN ss = DOMAIN ts,
         \A i \in DOMAIN ss : Len(ss[i]) = Len(ts[i])
  PROVE  Len(FlattenSeq(ss)) = Len(FlattenSeq(ts))
<1> DEFINE n == Len(ss)
           S == {m \in 0..n : Len(FlattenSeq(Upto(ss, m))) = Len(FlattenSeq(Upto(ts, m)))}
<1>1. n \in Nat /\ DOMAIN ss = 1..n /\ DOMAIN ts = 1..n /\ Len(ts) = n
  <2> DEFINE l == Len(ts)
  <2>1. n \in Nat /\ DOMAIN ss = 1..n
    BY ListingFacts DEF Blocks
  <2>2. l \in Nat /\ DOMAIN ts = 1..l
    BY ListingFacts DEF Blocks
  <2> HIDE DEF n, l
  <2>3. 1..l = 1..n
    BY <2>1, <2>2
  <2>4. l = n
    BY <2>1, <2>2, <2>3
  <2>5. QED
    BY <2>1, <2>2, <2>4 DEF l
<1>2. 0 \in S
  <2>1. Upto(ss, 0) = <<>> /\ Upto(ts, 0) = <<>>
    BY <1>1, UptoFacts DEF Blocks
  <2>2. QED
    BY <1>1, <2>1
<1>3. ASSUME NEW rs, Blocks(rs), Len(rs) = n, NEW m \in 0..(n - 1)
      PROVE  /\ Len(FlattenSeq(Upto(rs, m + 1))) = Len(FlattenSeq(Upto(rs, m))) + Len(rs[m + 1])
  <2> DEFINE ps == Upto(rs, m)
             x == FlattenSeq(ps)
             y == rs[m + 1]
  <2>1. Listing(rs) /\ DOMAIN rs = 1..n /\ \A i \in 1..n : Listing(rs[i])
    BY <1>1, <1>3, ListingFacts DEF Blocks
  <2>2. m \in 0..Len(rs) /\ m + 1 \in 1..n /\ \A i \in 1..m : i \in 1..n
    BY <1>1, <1>3
  <2>3. Listing(ps) /\ DOMAIN ps = 1..m /\ \A i \in 1..m : ps[i] = rs[i]
    BY <2>1, <2>2, UptoFacts
  <2> HIDE DEF ps
  <2>4. \A i \in DOMAIN ps : Listing(ps[i])
    BY <2>1, <2>2, <2>3
  <2>5. Listing(x) /\ Listing(y)
    BY <2>1, <2>2, <2>3, <2>4, FlattenFacts
  <2>6. FlattenSeq(Upto(rs, m + 1)) = x \o y
    BY <1>3, FlattenStep DEF ps
  <2> HIDE DEF x, y
  <2>7. Len(x \o y) = Len(x) + Len(y)
    BY <2>5, ConcatIsListing
  <2>8. QED
    BY <2>6, <2>7 DEF x, y, ps
<1>4. ASSUME NEW m \in 0..(n - 1), m \in S PROVE m + 1 \in S
  <2>1. m + 1 \in 0..n /\ m + 1 \in DOMAIN ss
    BY <1>1
  <2>2. /\ Len(FlattenSeq(Upto(ss, m + 1))) = Len(FlattenSeq(Upto(ss, m))) + Len(ss[m + 1])
        /\ Len(FlattenSeq(Upto(ts, m + 1))) = Len(FlattenSeq(Upto(ts, m))) + Len(ts[m + 1])
    BY <1>1, <1>3
  <2>3. QED
    BY <1>4, <2>1, <2>2
<1>5. \A m \in 0..n : m \in S
  <2> HIDE DEF S
  <2>1. QED
    BY <1>1, <1>2, <1>4, ReachesAll
<1>6. Upto(ss, n) = ss /\ Upto(ts, n) = ts
  BY <1>1, UptoFacts DEF Blocks
<1>7. QED
  BY <1>1, <1>5, <1>6

\* An answer that is accepted gives every word that %mor counts a group.
LEMMA EveryWordIsAssigned ==
  ASSUME NEW utt, IsUtterance(utt), NEW answer, Decodes("utseg", answer),
         AssignmentsFromSpans(Row(utt), answer) \notin {None, <<>>}
  PROVE  /\ Listing(AssignmentsFromSpans(Row(utt), answer))
         /\ Len(AssignmentsFromSpans(Row(utt), answer)) = Len(MorWords(utt))
<1> DEFINE ss == [s \in DOMAIN answer |-> [k \in DOMAIN answer[s].words |-> s - 1]]
           ws == [s \in DOMAIN answer |-> answer[s].words]
           given == AssignmentsFromSpans(Row(utt), answer)
<1>1. Listing(answer) /\ \A s \in DOMAIN answer : Listing(answer[s].words)
  BY DEF Decodes
<1>2. Len(answer) \in Nat /\ DOMAIN answer = 1..Len(answer)
  BY <1>1, ListingFacts
<1>3. ASSUME NEW s \in DOMAIN answer PROVE Listing(ss[s]) /\ Len(ss[s]) = Len(ws[s])
  <2>1. Len(answer[s].words) \in Nat /\ DOMAIN answer[s].words = 1..Len(answer[s].words)
    BY <1>1, ListingFacts
  <2>2. ss[s] = [k \in 1..Len(answer[s].words) |-> ss[s][k]]
    BY <2>1
  <2>3. Listing(ss[s]) /\ Len(ss[s]) = Len(answer[s].words)
    BY <2>1, <2>2, FunctionIsListing
  <2>4. QED
    BY <2>3
<1>4. /\ DOMAIN ss = DOMAIN answer /\ ss = [s \in 1..Len(answer) |-> ss[s]]
      /\ DOMAIN ws = DOMAIN answer /\ ws = [s \in 1..Len(answer) |-> ws[s]]
      /\ \A s \in DOMAIN answer : Listing(ws[s])
  BY <1>1, <1>2
<1>5. given = FlattenSeq(ss) /\ TextsOf(Row(utt)) = TextsOf(FlattenSeq(ws))
  BY DEF AssignmentsFromSpans, SpanWords
<1> HIDE DEF ss, ws, given
<1>6. Blocks(ss) /\ Blocks(ws)
  BY <1>2, <1>3, <1>4, FunctionIsListing DEF Blocks
<1>7. Len(FlattenSeq(ss)) = Len(FlattenSeq(ws)) /\ Listing(FlattenSeq(ss)) /\ Listing(FlattenSeq(ws))
  BY <1>3, <1>4, <1>6, SameLengths, FlattenFacts DEF Blocks
<1>8. DOMAIN MorWords(utt) = DOMAIN FlattenSeq(ws)
  <2>1. DOMAIN Row(utt) = DOMAIN MorWords(utt)
    BY DEF Row
  <2>2. \A x : DOMAIN TextsOf(x) = DOMAIN x
    BY DEF TextsOf
  <2>3. QED
    BY <1>5, <2>1, <2>2
<1>9. Listing(MorWords(utt))
  BY MorWordsIsListing DEF IsUtterance
<1>10. Len(MorWords(utt)) = Len(FlattenSeq(ws))
  <2> DEFINE a == MorWords(utt)
             b == FlattenSeq(ws)
  <2>1. Len(a) \in Nat /\ Len(b) \in Nat /\ 1..Len(a) = 1..Len(b)
    BY <1>7, <1>8, <1>9, ListingFacts
  <2> HIDE DEF a, b
  <2>2. Len(a) = Len(b)
    BY <2>1
  <2>3. QED
    BY <2>2 DEF a, b
<1>11. QED
  BY <1>5, <1>7, <1>10 DEF given

\* A single word is in one group, whichever.
LEMMA OneGroupIsNoSplit ==
  ASSUME NEW utt, NEW a, Listing(a), Len(a) <= 1
  PROVE  Split(utt, a) = <<utt>>
<1>1. Len(a) \in Nat /\ DOMAIN a = 1..Len(a) /\ a = [i \in 1..Len(a) |-> a[i]]
  BY ListingFacts
<1>2. CASE Len(a) = 0
  <2>1. a = <<>>
    BY <1>1, <1>2
  <2>2. QED
    BY <2>1 DEF Split
<1>3. CASE Len(a) = 1
  <2>1. Range(a) = {a[1]}
    BY <1>1, <1>3 DEF Range
  <2>2. Cardinality(Range(a)) = 1
    BY <2>1, FS_Singleton
  <2>3. QED
    BY <2>2 DEF Split
<1>4. QED
  BY <1>1, <1>2, <1>3

\* A segmentation that the runner accepts is aligned in the eyes of the library
\* and needs no review, and an utterance the library would not send is not split:
\* for any transcript and any answer (utseg.rs, segmentation/mod.rs).
THEOREM SegmentationsAgree == Spec => []SplitsAgreed
<1>1. StageUnderWay => SplitsAgreed
  <2> SUFFICES ASSUME StageUnderWay, phase = "asking", stage = "utseg", NEW u \in DOMAIN answers
               PROVE  LET utt == file.utts[u]
                          given == AssignmentsFromSpans(Row(utt), answers[u])
                      IN IF u \in Payloads(file)
                         THEN given \notin {None, <<>>} => DecisionOf(Validated(utt, given)) = None
                         ELSE /\ ~DecisionOf(NotApplicable(file)[u]).needsReview
                              /\ given # None => Split(utt, given) = <<utt>>
    BY DEF SplitsAgreed
  <2> DEFINE utt == file.utts[u]
             given == AssignmentsFromSpans(Row(utt), answers[u])
  <2>1. /\ IsTranscript(file) /\ Listing(requests) /\ requests = UtsegRequests(file)
        /\ sent \in 0..Len(requests) /\ DOMAIN answers \subseteq 1..sent
        /\ Decodes("utseg", answers[u])
    BY DEF StageUnderWay, RequestsOf
  <2>2. u \in DOMAIN file.utts
    <3>1. Len(requests) \in Nat /\ DOMAIN requests = 1..Len(requests)
      BY <2>1, ListingFacts
    <3>2. u \in DOMAIN requests
      BY <2>1, <3>1
    <3>3. QED
      BY <2>1, <3>2 DEF UtsegRequests
  <2>3. IsUtterance(utt) /\ Listing(MorWords(utt)) /\ Len(MorWords(utt)) \in Nat
    BY <2>1, <2>2, UtterancesOf, MorWordsIsListing, ListingFacts
  <2>4. given \notin {None, <<>>} => Listing(given) /\ Len(given) = Len(MorWords(utt))
    BY <2>1, <2>3, EveryWordIsAssigned
  <2>5. u \in Payloads(file) <=> Len(MorWords(utt)) > 1
    BY <2>2 DEF Payloads
  <2> HIDE DEF given
  <2>6. CASE u \in Payloads(file)
    BY <2>4, <2>6 DEF Validated, DecisionOf, given
  <2>7. CASE u \notin Payloads(file)
    <3>1. NotApplicable(file)[u] \in {"empty", "single_word"}
      BY <2>2, <2>7 DEF NotApplicable
    <3>2. ~DecisionOf(NotApplicable(file)[u]).needsReview
      BY <3>1 DEF DecisionOf
    <3>3. given # None => Split(utt, given) = <<utt>>
      <4>1. CASE given = <<>>
        BY <4>1 DEF Split
      <4>2. CASE given \notin {None, <<>>}
        <5>1. Listing(given) /\ Len(given) <= 1
          BY <2>3, <2>4, <2>5, <2>7, <4>2
        <5>2. QED
          BY <5>1, OneGroupIsNoSplit
      <4>3. QED
        BY <4>1, <4>2
    <3>4. QED
      BY <2>7, <3>2, <3>3 DEF given
  <2>8. QED
    BY <2>6, <2>7
<1>2. QED
  BY <1>1, StagesKeepTheTranscript, PTL

(***************************************************************************)
(* Tiers that describe the words they hang from.                           *)
(***************************************************************************)

(***************************************************************************)
(* What is picked of what is picked, or out of sequences one after the     *)
(* other.                                                                  *)
(***************************************************************************)

\* The k-th of some numbers one after the other.
LEMMA NthOfInterval ==
  ASSUME NEW d \in Nat, NEW n \in Nat, NEW k \in 1..n
  PROVE  Cardinality((d + 1)..(d + n)) = n /\ Nth((d + 1)..(d + n), k) = d + k
<1> DEFINE S == (d + 1)..(d + n)
<1>1. S \subseteq Nat /\ IsFiniteSet(S) /\ Cardinality(S) = n
  <2>1. d + 1 \in Int /\ d + n \in Int /\ d + n - (d + 1) + 1 = n
    OBVIOUS
  <2>2. ~(d + 1 > d + n)
    OBVIOUS
  <2>3. QED
    BY <2>1, <2>2, FS_Interval
<1>2. {y \in S : y < d + k} = (d + 1)..(d + k - 1)
  OBVIOUS
<1>3. Cardinality((d + 1)..(d + k - 1)) = k - 1
  <2>1. d + 1 \in Int /\ d + k - 1 \in Int /\ d + k - 1 - (d + 1) + 1 = k - 1
    OBVIOUS
  <2>2. CASE k = 1
    <3>1. (d + 1)..(d + k - 1) = {}
      BY <2>2
    <3>2. QED
      BY <2>2, <3>1, FS_EmptySet
  <2>3. CASE k # 1
    <3>1. ~(d + 1 > d + k - 1)
      BY <2>3
    <3>2. QED
      BY <2>1, <3>1, FS_Interval
  <2>4. QED
    BY <2>2, <2>3
<1>4. d + k \in S
  OBVIOUS
<1> HIDE DEF S
<1>5. Nth(S, k) = d + k
  <2>1. k \in 1..Cardinality(S) /\ Cardinality({y \in S : y < d + k}) = k - 1
    BY <1>1, <1>2, <1>3
  <2>2. QED
    BY <1>1, <1>4, <2>1, NthIs
<1>6. QED
  BY <1>1, <1>5 DEF S

\* All places give the sequence.
LEMMA PickedWhole ==
  ASSUME NEW s, Listing(s)
  PROVE  Picked(s, DOMAIN s) = s
<1>1. Len(s) \in Nat /\ DOMAIN s = 1..Len(s) /\ s = [k \in 1..Len(s) |-> s[k]]
  BY ListingFacts
<1>2. CASE Len(s) = 0
  <2>1. DOMAIN s = {} /\ s = <<>>
    BY <1>1, <1>2
  <2>2. QED
    BY <2>1, PickedNone
<1>3. CASE Len(s) # 0
  <2>1. Cardinality(1..Len(s)) = Len(s) /\ \A k \in 1..Len(s) : Nth(1..Len(s), k) = k
    <3>1. 1 \in 1..Len(s)
      BY <1>1, <1>3
    <3>2. \A k \in 1..Len(s) : Cardinality((0 + 1)..(0 + Len(s))) = Len(s) /\ Nth((0 + 1)..(0 + Len(s)), k) = 0 + k
      BY <1>1, NthOfInterval
    <3>3. 0 + 1 = 1 /\ 0 + Len(s) = Len(s) /\ \A k \in 1..Len(s) : 0 + k = k
      BY <1>1
    <3>4. QED
      BY <3>1, <3>2, <3>3
  <2>2. Picked(s, 1..Len(s)) = [k \in 1..Len(s) |-> s[k]]
    BY <2>1 DEF Picked
  <2>3. QED
    BY <1>1, <2>2
<1>4. QED
  BY <1>2, <1>3

\* J numbers what is in P among the places I.
Numbers(I, P, J) ==
  J \subseteq 1..Cardinality(I) /\ \A k \in 1..Cardinality(I) : k \in J <=> Nth(I, k) \in P

\* What is picked of the elements picked is what is picked by both.
LEMMA PickedOfPicked ==
  ASSUME NEW s, Listing(s), NEW I, I \subseteq DOMAIN s, NEW P, NEW J, Numbers(I, P, J)
  PROVE  J \subseteq DOMAIN Picked(s, I) /\ Picked(Picked(s, I), J) = Picked(s, I \cap P)
<1> DEFINE N(k) == Nth(I, k)
           M == {N(k) : k \in J}
           n == Cardinality(I)
<1>0. J \subseteq 1..Cardinality(I) /\ \A k \in 1..Cardinality(I) : k \in J <=> Nth(I, k) \in P
  BY DEF Numbers
<1>1. I \subseteq Nat /\ IsFiniteSet(I) /\ n \in Nat
  BY ListingFacts, FS_Subset, FS_CardinalityType
<1>2. J \subseteq Nat /\ IsFiniteSet(J) /\ Cardinality(J) \in Nat
  <2> HIDE DEF n
  <2>1. IsFiniteSet(1..n) /\ 1..n \subseteq Nat
    BY <1>1, FS_Interval
  <2>2. J \subseteq 1..n
    BY <1>0 DEF n
  <2>3. IsFiniteSet(J)
    BY <2>1, <2>2, FS_Subset
  <2>4. Cardinality(J) \in Nat
    BY <2>3, FS_CardinalityType
  <2>5. QED
    BY <2>1, <2>2, <2>3, <2>4
<1>3. \A k \in 1..n : N(k) \in I /\ N(k) \in Nat
  BY <1>1, NthFacts
<1>4. \A k, l \in 1..n : k < l => N(k) < N(l)
  BY <1>1, NthOrder
<1> HIDE DEF N, n
<1>5. \A k, l \in J : N(k) < N(l) <=> k < l
  <2> SUFFICES ASSUME NEW k \in J, NEW l \in J PROVE N(k) < N(l) <=> k < l
    OBVIOUS
  <2>1. k \in 1..n /\ l \in 1..n /\ k \in Nat /\ l \in Nat
    BY <1>0, <1>2 DEF n
  <2>2. N(k) \in Nat /\ N(l) \in Nat
    BY <1>3, <2>1
  <2>3. CASE k < l
    BY <1>4, <2>1, <2>3
  <2>4. CASE k = l
    BY <2>1, <2>2, <2>4
  <2>5. CASE l < k
    <3>1. N(l) < N(k)
      BY <1>4, <2>1, <2>5
    <3>2. QED
      BY <2>1, <2>2, <2>5, <3>1
  <2>6. QED
    BY <2>1, <2>3, <2>4, <2>5
<1>6. \A k, l \in J : N(k) = N(l) => k = l
  <2> SUFFICES ASSUME NEW k \in J, NEW l \in J, N(k) = N(l) PROVE k = l
    OBVIOUS
  <2>1. k \in Nat /\ l \in Nat /\ N(k) \in Nat
    BY <1>0, <1>2, <1>3 DEF n
  <2>2. ~(N(k) < N(l)) /\ ~(N(l) < N(k))
    BY <2>1
  <2>3. ~(k < l) /\ ~(l < k)
    BY <1>5, <2>2
  <2>4. QED
    BY <2>1, <2>3
\* What is numbered has as many numbers.
<1>7. ASSUME NEW K, K \subseteq J
      PROVE  IsFiniteSet({N(k) : k \in K}) /\ Cardinality({N(k) : k \in K}) = Cardinality(K)
  <2> DEFINE h == [k \in K |-> N(k)]
             T == {N(k) : k \in K}
  <2>1. IsFiniteSet(K)
    BY <1>2, <1>7, FS_Subset
  <2>2. h \in Bijection(K, T)
    <3>1. h \in [K -> T] /\ \A t \in T : \E k \in K : h[k] = t
      OBVIOUS
    <3>2. \A k, l \in K : h[k] = h[l] => k = l
      BY <1>6, <1>7
    <3> HIDE DEF h, T
    <3>3. QED
      BY <3>1, <3>2 DEF Bijection, Injection, Surjection, IsInjective
  <2> HIDE DEF h, T
  <2>3. IsFiniteSet(T) /\ Cardinality(T) = Cardinality(K)
    <3>1. ExistsBijection(K, T)
      BY <2>2 DEF ExistsBijection
    <3>2. QED
      BY <2>1, <3>1, FS_Bijection
  <2>4. QED
    BY <2>3 DEF T
<1>8. M \subseteq Nat /\ IsFiniteSet(M) /\ Cardinality(M) = Cardinality(J)
  <2>1. \A k \in J : N(k) \in Nat
    BY <1>0, <1>3 DEF n
  <2>2. QED
    BY <1>7, <2>1
<1>9. ASSUME NEW k \in 1..Cardinality(J) PROVE Nth(M, k) = N(Nth(J, k))
  <2> DEFINE j == Nth(J, k)
             B == {l \in J : l < j}
  <2>1. j \in J /\ Cardinality(B) = k - 1
    BY <1>2, NthFacts
  <2> HIDE DEF j
  <2>2. {y \in M : y < N(j)} = {N(l) : l \in B}
    BY <1>5, <2>1
  <2>3. B \subseteq J
    OBVIOUS
  <2>4. N(j) \in M
    BY <2>1
  <2> HIDE DEF B, M
  <2>5. Cardinality({y \in M : y < N(j)}) = k - 1
    BY <1>7, <2>1, <2>2, <2>3
  <2>6. k \in 1..Cardinality(M)
    BY <1>8
  <2>7. Nth(M, k) = N(j)
    BY <1>8, <2>4, <2>5, <2>6, NthIs
  <2>8. QED
    BY <2>7 DEF j
<1>10. \A k \in 1..Cardinality(J) : Picked(s, I)[Nth(J, k)] = s[Nth(M, k)]
  <2> TAKE k \in 1..Cardinality(J)
  <2>1. Nth(J, k) \in 1..n
    <3>1. Nth(J, k) \in J
      BY <1>2, NthFacts
    <3>2. QED
      BY <1>0, <3>1 DEF n
  <2>2. Picked(s, I)[Nth(J, k)] = s[N(Nth(J, k))]
    BY <2>1 DEF Picked, N, n
  <2>3. QED
    BY <1>9, <2>2
<1>11. Picked(Picked(s, I), J) = [k \in 1..Cardinality(J) |-> Picked(s, I)[Nth(J, k)]]
  BY DEF Picked
<1>12. Picked(s, M) = [k \in 1..Cardinality(J) |-> s[Nth(M, k)]]
  BY <1>8 DEF Picked
<1>13. Picked(Picked(s, I), J) = Picked(s, M)
  BY <1>10, <1>11, <1>12
<1>14. M = I \cap P
  <2>1. \A k \in J : N(k) \in I /\ N(k) \in P
    BY <1>0, <1>3 DEF N, n
  <2>2. \A i \in I \cap P : \E k \in 1..n : N(k) = i /\ k \in J
    BY <1>0, <1>1, NthCovers DEF N, n
  <2>3. QED
    BY <2>1, <2>2
<1>15. DOMAIN Picked(s, I) = 1..Cardinality(I)
  BY PickedFacts
<1>16. QED
  BY <1>0, <1>13, <1>14, <1>15

\* Each element a sequence of its own.
Singles(s) == [i \in DOMAIN s |-> <<s[i]>>]

\* Elements each in a sequence of its own flatten to the sequence.
LEMMA FlattenSingles ==
  ASSUME NEW s, Listing(s)
  PROVE  Blocks(Singles(s)) /\ DOMAIN Singles(s) = DOMAIN s /\ FlattenSeq(Singles(s)) = s
<1> DEFINE n == Len(s)
           ss == Singles(s)
           Sum(m) == FlattenSeq(Upto(ss, m)) = Upto(s, m)
           S == {m \in 0..n : Sum(m)}
<1>1. n \in Nat /\ DOMAIN s = 1..n
  BY ListingFacts
<1>2. ss = [i \in 1..n |-> ss[i]] /\ \A i \in 1..n : ss[i] = <<s[i]>>
  BY <1>1 DEF Singles
<1> HIDE DEF ss
<1>3. Listing(ss) /\ Len(ss) = n /\ DOMAIN ss = 1..n
  BY <1>1, <1>2, FunctionIsListing
<1>4. Blocks(ss)
  BY <1>2, <1>3, OneIsListing DEF Blocks
<1>5. 0 \in S
  <2>0. Upto(ss, 0) = <<>> /\ Upto(s, 0) = <<>>
    BY <1>1, <1>3, UptoFacts
  <2>1. Sum(0)
    BY <2>0, FlattenNone, Zenon
  <2> HIDE DEF Sum
  <2>2. QED
    BY <1>1, <2>1
<1>6. ASSUME NEW m \in 0..(n - 1), m \in S PROVE m + 1 \in S
  <2> DEFINE a == Upto(s, m)
             b == <<s[m + 1]>>
             c == Upto(s, m + 1)
             d == a \o b
  <2>1. m \in 0..n /\ m + 1 \in 0..n /\ m + 1 \in 1..n /\ m \in Nat
    BY <1>1
  <2>2. FlattenSeq(Upto(ss, m + 1)) = FlattenSeq(Upto(ss, m)) \o ss[m + 1]
    BY <1>3, <1>4, FlattenStep
  <2>3. /\ Listing(a) /\ Len(a) = m /\ (\A i \in 1..m : a[i] = s[i])
        /\ Listing(c) /\ Len(c) = m + 1 /\ (\A i \in 1..(m + 1) : c[i] = s[i])
        /\ Listing(b) /\ Len(b) = 1 /\ b[1] = s[m + 1]
    BY <2>1, UptoFacts, OneIsListing
  <2> HIDE DEF a, b, c
  <2>4. Listing(d) /\ Len(d) = m + 1 /\ (\A i \in 1..m : d[i] = a[i]) /\ d[m + 1] = b[1]
    <3>1. /\ Listing(d) /\ Len(d) = Len(a) + Len(b)
          /\ \A i \in 1..Len(a) : d[i] = a[i]
          /\ \A i \in 1..Len(b) : d[Len(a) + i] = b[i]
      <4>1. Listing(a) /\ Listing(b)
        BY <2>3
      <4>2. QED
        BY <4>1, ConcatIsListing
    <3> HIDE DEF d
    <3>2. 1 \in 1..Len(b)
      BY <2>3
    <3>3. QED
      BY <2>3, <3>1, <3>2
  <2> HIDE DEF d
  <2>5. \A i \in 1..Len(c) : c[i] = d[i]
    <3> SUFFICES ASSUME NEW i \in 1..(m + 1) PROVE c[i] = d[i]
      BY <2>3
    <3>1. CASE i = m + 1
      BY <2>1, <2>3, <2>4, <3>1
    <3>2. CASE i # m + 1
      <4>1. i \in 1..m
        BY <2>1, <3>2
      <4>2. QED
        BY <2>3, <2>4, <4>1
    <3>3. QED
      BY <3>1, <3>2
  <2>6. c = d
    BY <2>3, <2>4, <2>5, SameListing
  <2>7. Sum(m) => Sum(m + 1)
    <3>1. ss[m + 1] = b
      BY <1>2, <2>1 DEF b
    <3>2. QED
      BY <2>2, <2>6, <3>1, Zenon DEF a, c, d
  <2> HIDE DEF Sum
  <2>8. QED
    BY <1>6, <2>1, <2>7
<1>7. n \in S
  <2> HIDE DEF S
  <2>1. \A m \in 0..n : m \in S
    BY <1>1, <1>5, <1>6, ReachesAll
  <2>2. QED
    BY <1>1, <2>1
<1>8. Sum(n)
  <2> HIDE DEF Sum
  <2>1. QED
    BY <1>7
<1>9. Upto(ss, n) = ss /\ Upto(s, n) = s
  BY <1>1, <1>3, UptoFacts
<1>10. FlattenSeq(ss) = s
  BY <1>8, <1>9, Zenon
<1>11. QED
  BY <1>1, <1>3, <1>4, <1>10 DEF ss

\* What is picked is what the elements at these places hold, each on its own.
LEMMA PickedIsHeld ==
  ASSUME NEW s, Listing(s), NEW I, I \subseteq DOMAIN s
  PROVE  Picked(s, I) = Held(Singles(s), I)
<1>1. Listing(Picked(s, I)) /\ DOMAIN Picked(s, I) = 1..Cardinality(I)
  BY PickedFacts
<1>2. Singles(Picked(s, I)) = Picked(Singles(s), I)
  <2>1. \A k \in 1..Cardinality(I) : <<Picked(s, I)[k]>> = Singles(s)[Nth(I, k)]
    <3> TAKE k \in 1..Cardinality(I)
    <3>1. I \subseteq Nat /\ IsFiniteSet(I)
      BY ListingFacts, FS_Subset
    <3>2. Nth(I, k) \in DOMAIN s
      BY <3>1, NthFacts
    <3>3. QED
      BY <3>2 DEF Singles, Picked
  <2>2. Singles(Picked(s, I)) = [k \in 1..Cardinality(I) |-> <<Picked(s, I)[k]>>]
    BY <1>1 DEF Singles
  <2>3. Picked(Singles(s), I) = [k \in 1..Cardinality(I) |-> Singles(s)[Nth(I, k)]]
    BY DEF Picked
  <2>4. QED
    BY <2>1, <2>2, <2>3
<1>3. FlattenSeq(Singles(Picked(s, I))) = Picked(s, I)
  BY <1>1, FlattenSingles
<1>4. QED
  BY <1>2, <1>3 DEF Held

\* Of places before other places, what is picked comes before it too.
LEMMA PickedUnion ==
  ASSUME NEW s, Listing(s), NEW I, I \subseteq DOMAIN s, NEW J, J \subseteq DOMAIN s,
         \A i \in I, j \in J : i < j
  PROVE  Picked(s, I \cup J) = Picked(s, I) \o Picked(s, J)
<1> DEFINE ss == Singles(s)
<1>1. Blocks(ss) /\ DOMAIN ss = DOMAIN s
  BY FlattenSingles
<1>2. Picked(s, I) = Held(ss, I) /\ Picked(s, J) = Held(ss, J) /\ Picked(s, I \cup J) = Held(ss, I \cup J)
  BY PickedIsHeld
<1> HIDE DEF ss
<1>3. Held(ss, I \cup J) = Held(ss, I) \o Held(ss, J)
  BY <1>1, HeldUnion
<1>4. QED
  BY <1>2, <1>3, Zenon

\* Of two sequences one after the other, places of the first pick of the first.
LEMMA PickedFirst ==
  ASSUME NEW a, Listing(a), NEW b, Listing(b), NEW I, I \subseteq DOMAIN a
  PROVE  Picked(a \o b, I) = Picked(a, I)
<1> DEFINE c == a \o b
<1>0. DOMAIN a = 1..Len(a)
  BY ListingFacts
<1>1. \A i \in 1..Len(a) : c[i] = a[i]
  BY ConcatIsListing
<1>2. I \subseteq Nat /\ IsFiniteSet(I)
  BY ListingFacts, FS_Subset
<1> HIDE DEF c
<1>3. \A k \in 1..Cardinality(I) : c[Nth(I, k)] = a[Nth(I, k)]
  BY <1>0, <1>1, <1>2, NthFacts
<1>4. Picked(c, I) = Picked(a, I)
  BY <1>3 DEF Picked
<1>5. QED
  BY <1>4 DEF c

\* Places after the first pick of the last.
LEMMA PickedLast ==
  ASSUME NEW a, Listing(a), NEW b, Listing(b)
  PROVE  Picked(a \o b, (Len(a) + 1)..(Len(a) + Len(b))) = b
<1> DEFINE c == a \o b
           d == Len(a)
           n == Len(b)
           I == (d + 1)..(d + n)
<1>1. d \in Nat /\ n \in Nat /\ b = [k \in 1..n |-> b[k]]
  BY ListingFacts
<1>2. \A k \in 1..n : c[d + k] = b[k]
  BY ConcatIsListing
<1> HIDE DEF c, d, n
<1>3. CASE n = 0
  <2>1. I = {} /\ b = <<>>
    BY <1>1, <1>3
  <2>2. Picked(c, I) = b
    BY <2>1, PickedNone
  <2>3. QED
    BY <2>2 DEF c, d, n
<1>4. CASE n # 0
  <2>1. \A k \in 1..n : Cardinality(I) = n /\ Nth(I, k) = d + k
    BY <1>1, NthOfInterval
  <2>2. 1 \in 1..n
    BY <1>1, <1>4
  <2> HIDE DEF I
  <2>3. Picked(c, I) = [k \in 1..n |-> b[k]]
    BY <1>2, <2>1, <2>2 DEF Picked
  <2>4. QED
    BY <1>1, <2>3 DEF c, d, n, I
<1>5. QED
  BY <1>3, <1>4

\* The texts of what is picked are picked of the texts.
LEMMA TextsOfPicked ==
  ASSUME NEW s, Listing(s), NEW I, I \subseteq DOMAIN s
  PROVE  TextsOf(Picked(s, I)) = Picked(TextsOf(s), I)
<1>1. DOMAIN Picked(s, I) = 1..Cardinality(I)
  BY PickedFacts
<1>2. \A k \in 1..Cardinality(I) : Nth(I, k) \in DOMAIN s
  BY ListingFacts, FS_Subset, NthFacts
<1>3. QED
  BY <1>1, <1>2 DEF TextsOf, Picked

(***************************************************************************)
(* The part of a %wor tier that each group of a split gets.                *)
(***************************************************************************)

\* J is the places up to n at which v has g.
Marks(v, g, n, J) == J \subseteq 1..n /\ \A k \in 1..n : k \in J <=> v[k] = g

\* Each sequence of gg has v at its place for each element that ss has there.
Repeats(gg, ss, v) ==
  /\ Blocks(gg) /\ Len(gg) = Len(ss)
  /\ \A i \in DOMAIN ss : Len(gg[i]) = Len(ss[i]) /\ \A k \in 1..Len(ss[i]) : gg[i][k] = v[i]

\* The sequences that stand at the places of a group hold what is picked, of all
\* that the sequences hold, at the places of that group.
LEMMA HeldIsPicked ==
  ASSUME NEW ss, Blocks(ss), NEW v, NEW g, NEW gg, Repeats(gg, ss, v),
         NEW J, Marks(v, g, Len(ss), J),
         NEW L, Marks(FlattenSeq(gg), g, Len(FlattenSeq(ss)), L)
  PROVE  Held(ss, J) = Picked(FlattenSeq(ss), L)
<1> DEFINE n == Len(ss)
           A(m) == FlattenSeq(Upto(ss, m))
           B(m) == FlattenSeq(Upto(gg, m))
           I(m) == {i \in 1..m : v[i] = g}
           K(m) == {k \in 1..Len(A(m)) : B(m)[k] = g}
           Sum(m) == Len(B(m)) = Len(A(m)) /\ Held(ss, I(m)) = Picked(A(m), K(m))
           S == {m \in 0..n : Sum(m)}
<1>0. /\ Blocks(gg) /\ Len(gg) = Len(ss)
      /\ \A i \in DOMAIN ss : Len(gg[i]) = Len(ss[i]) /\ \A k \in 1..Len(ss[i]) : gg[i][k] = v[i]
  BY DEF Repeats
<1>1. n \in Nat /\ DOMAIN ss = 1..n /\ DOMAIN gg = 1..n /\ Listing(ss) /\ Listing(gg)
  BY <1>0, ListingFacts DEF Blocks
<1>2. \A m \in 0..n : Listing(A(m)) /\ Listing(B(m))
  <2> SUFFICES ASSUME NEW m \in 0..n PROVE Listing(FlattenSeq(Upto(ss, m))) /\ Listing(FlattenSeq(Upto(gg, m)))
    OBVIOUS
  <2> DEFINE a == Upto(ss, m)
             b == Upto(gg, m)
  <2>1. /\ Listing(a) /\ DOMAIN a = 1..m /\ \A i \in 1..m : a[i] = ss[i]
        /\ Listing(b) /\ DOMAIN b = 1..m /\ \A i \in 1..m : b[i] = gg[i]
    BY <1>1, UptoFacts
  <2>2. (\A i \in DOMAIN a : Listing(a[i])) /\ \A i \in DOMAIN b : Listing(b[i])
    BY <1>0, <1>1, <2>1 DEF Blocks
  <2> HIDE DEF a, b
  <2>3. Listing(FlattenSeq(a)) /\ Listing(FlattenSeq(b))
    BY <2>1, <2>2, FlattenFacts
  <2>4. QED
    BY <2>3 DEF a, b
<1>3. A(0) = <<>> /\ B(0) = <<>>
  <2>1. Upto(ss, 0) = <<>> /\ Upto(gg, 0) = <<>>
    BY <1>1, UptoFacts
  <2>2. QED
    BY <2>1, FlattenNone, Zenon
<1>4. ASSUME NEW m \in 0..(n - 1)
      PROVE  A(m + 1) = A(m) \o ss[m + 1] /\ B(m + 1) = B(m) \o gg[m + 1]
  BY <1>0, <1>1, <1>4, FlattenStep
<1> HIDE DEF A, B, n
<1>5. 0 \in S
  <2>1. I(0) = {} /\ K(0) = {}
    BY <1>3
  <2>2. Sum(0)
    BY <1>3, <2>1, HeldNone, PickedNone
  <2> HIDE DEF Sum
  <2>3. QED
    BY <1>1, <2>2
<1>6. ASSUME NEW m \in 0..(n - 1), m \in S PROVE m + 1 \in S
  <2> DEFINE a == A(m)
             b == ss[m + 1]
             c == A(m + 1)
             p == Len(a)
             q == Len(b)
             ga == B(m)
             gb == gg[m + 1]
             gc == B(m + 1)
             E == (p + 1)..(p + q)
             KA == K(m)
             KC == K(m + 1)
             IA == I(m)
             IC == I(m + 1)
  <2>1. m \in 0..n /\ m + 1 \in 0..n /\ m + 1 \in 1..n /\ m \in Nat
    BY <1>1
  <2>2. Listing(a) /\ Listing(ga) /\ Listing(c) /\ Listing(gc)
    BY <1>2, <2>1
  <2>3. Listing(b) /\ Listing(gb)
    BY <1>0, <1>1, <2>1 DEF Blocks
  <2>4. p \in Nat /\ q \in Nat /\ DOMAIN a = 1..p /\ DOMAIN b = 1..q
    BY <2>2, <2>3, ListingFacts
  <2>5. Len(ga) = p /\ Held(ss, IA) = Picked(a, KA)
    BY <1>6
  <2>7. Len(gb) = q /\ \A k \in 1..q : gb[k] = v[m + 1]
    BY <1>0, <1>1, <2>1
  <2>8. c = a \o b /\ gc = ga \o gb
    BY <1>4, <1>6
  <2>9. IC = IF v[m + 1] = g THEN IA \cup {m + 1} ELSE IA
    BY <2>1
  <2>10. /\ IA \subseteq DOMAIN ss /\ m + 1 \in DOMAIN ss /\ \A j \in IA : j < m + 1
    BY <1>1, <2>1
  <2>11. KA = {k \in 1..p : ga[k] = g} /\ KC = {k \in 1..Len(c) : gc[k] = g}
    OBVIOUS
  <2> HIDE DEF a, b, c, p, q, ga, gb, gc, KA, KC, IA, IC, I, K
  <2>12. /\ Len(c) = p + q /\ DOMAIN c = 1..(p + q)
    BY <2>2, <2>3, <2>8, ConcatIsListing DEF p, q
  <2>13. /\ Len(gc) = p + q
         /\ \A k \in 1..p : gc[k] = ga[k]
         /\ \A k \in 1..q : gc[p + k] = v[m + 1]
    <3>1. /\ Len(ga \o gb) = Len(ga) + Len(gb)
          /\ \A k \in 1..Len(ga) : (ga \o gb)[k] = ga[k]
          /\ \A k \in 1..Len(gb) : (ga \o gb)[Len(ga) + k] = gb[k]
      BY <2>2, <2>3, ConcatIsListing
    <3>2. /\ Len(gc) = Len(ga) + Len(gb)
          /\ \A k \in 1..Len(ga) : gc[k] = ga[k]
          /\ \A k \in 1..Len(gb) : gc[Len(ga) + k] = gb[k]
      BY <2>8, <3>1, Zenon
    <3> HIDE DEF Sum, S, E
    <3>3. QED
      BY <2>4, <2>5, <2>7, <3>2
  <2>14. KC = IF v[m + 1] = g THEN KA \cup E ELSE KA
    <3>1. \A k \in 1..p : k \in KC <=> k \in KA
      BY <2>4, <2>11, <2>12, <2>13
    <3>2. \A k \in E : k \in KC <=> v[m + 1] = g
      <4> SUFFICES ASSUME NEW k \in E PROVE k \in KC <=> v[m + 1] = g
        OBVIOUS
      <4>1. k - p \in 1..q /\ p + (k - p) = k /\ k \in 1..(p + q)
        BY <2>4
      <4>2. gc[k] = v[m + 1]
        BY <2>13, <4>1
      <4>3. QED
        BY <2>11, <2>12, <4>1, <4>2
    <3>3. KC \subseteq 1..p \cup E /\ KA \subseteq 1..p /\ E \cap 1..p = {}
      BY <2>4, <2>11, <2>12
    <3> HIDE DEF E
    <3>4. QED
      BY <3>1, <3>2, <3>3
  <2>15. KA \subseteq DOMAIN a /\ KA \subseteq DOMAIN c /\ E \subseteq DOMAIN c
    BY <2>4, <2>11, <2>12
  <2>16. \A k \in KA, l \in E : k < l
    BY <2>4, <2>11
  <2>17. Picked(c, KA) = Picked(a, KA)
    BY <2>2, <2>3, <2>8, <2>15, PickedFirst
  <2>18. Picked(c, E) = b
    BY <2>2, <2>3, <2>8, PickedLast DEF p, q
  <2>19. Picked(c, KA \cup E) = Picked(c, KA) \o Picked(c, E)
    <3>1. KA \subseteq DOMAIN c
      BY <2>15
    <3>2. E \subseteq DOMAIN c
      BY <2>15
    <3> HIDE DEF E, Sum, S
    <3>3. QED
      BY <2>2, <3>1, <3>2, <2>16, PickedUnion
  <2>20. Held(ss, IA \cup {m + 1}) = Held(ss, IA) \o b
    <3>1. IA \subseteq DOMAIN ss
      BY <2>10
    <3>2. m + 1 \in DOMAIN ss
      BY <2>10
    <3>3. \A j \in IA : j < m + 1
      BY <2>10
    <3> HIDE DEF Sum, S
    <3>4. QED
      BY <3>1, <3>2, <3>3, HeldStep DEF b
  <2>21. Held(ss, IC) = Picked(c, KC)
    <3> HIDE DEF E, Sum, S
    <3>1. CASE v[m + 1] = g
      BY <2>5, <2>9, <2>14, <2>17, <2>18, <2>19, <2>20, <3>1, Zenon
    <3>2. CASE v[m + 1] # g
      BY <2>5, <2>9, <2>14, <2>17, <3>2, Zenon
    <3>3. QED
      BY <3>1, <3>2
  <2>22. Sum(m + 1)
    BY <2>12, <2>13, <2>21 DEF c, gc, IC, KC, I, K
  <2> HIDE DEF Sum
  <2>23. QED
    BY <2>1, <2>22
<1>7. n \in S
  <2> HIDE DEF S
  <2>1. \A m \in 0..n : m \in S
    BY <1>1, <1>5, <1>6, ReachesAll
  <2>2. QED
    BY <1>1, <2>1
<1>8. Sum(n)
  <2> HIDE DEF Sum
  <2>1. QED
    BY <1>7
<1>9. A(n) = FlattenSeq(ss) /\ B(n) = FlattenSeq(gg)
  <2>1. Upto(ss, n) = ss /\ Upto(gg, n) = gg
    BY <1>1, UptoFacts DEF n
  <2>2. QED
    BY <2>1, Zenon DEF A, B
<1>10. I(n) = J
  BY DEF Marks, n
<1>11. K(n) = L
  BY <1>9 DEF Marks
<1>12. QED
  BY <1>8, <1>9, <1>10, <1>11, Zenon

\* The content of a tier, found by a label that no other has.
LEMMA ContentIs ==
  ASSUME NEW utt, Listing(utt.tiers), NEW i \in DOMAIN utt.tiers,
         \A j \in DOMAIN utt.tiers : utt.tiers[j].label = utt.tiers[i].label => j = i
  PROVE  Content(utt, utt.tiers[i].label) = utt.tiers[i].content
<1> DEFINE S == {j \in DOMAIN utt.tiers : utt.tiers[j].label = utt.tiers[i].label}
<1>1. S = {i} /\ S \subseteq Nat
  BY ListingFacts
<1>2. S # {}
  BY <1>1
<1> HIDE DEF S
<1>3. Min(S) \in S
  BY <1>1, <1>2, LeastElement
<1>4. Min(S) = i
  BY <1>1, <1>3
<1>5. QED
  BY <1>4, Zenon DEF Content, S

\* The groups of the words that %wor counts.
WorGroups(items, group) ==
  FlattenSeq([i \in DOMAIN items |-> [k \in DOMAIN WorOf(items[i]) |-> group[i]]])
WorsOf(items) == [i \in DOMAIN items |-> WorOf(items[i])]

\* The words that %wor counts are sequences one after the other.
LEMMA WorsAreBlocks ==
  ASSUME NEW items, ItemsHold(items)
  PROVE  Blocks(WorsOf(items)) /\ DOMAIN WorsOf(items) = DOMAIN items
<1>1. Len(items) \in Nat /\ DOMAIN items = 1..Len(items)
  BY ListingFacts DEF ItemsHold
<1>2. WorsOf(items) = [i \in 1..Len(items) |-> WorsOf(items)[i]]
  BY <1>1 DEF WorsOf
<1>3. Listing(WorsOf(items)) /\ DOMAIN WorsOf(items) = 1..Len(items)
  BY <1>1, <1>2, FunctionIsListing
<1>4. \A i \in DOMAIN items : Listing(WorOf(items[i]))
  BY EmptyIsListing DEF ItemsHold, WorOf
<1>5. \A i \in DOMAIN items : WorsOf(items)[i] = WorOf(items[i])
  BY DEF WorsOf
<1>6. QED
  BY <1>1, <1>3, <1>4, <1>5 DEF Blocks

\* Those of some items are picked at their places.
LEMMA WorsOfPicked ==
  ASSUME NEW items, ItemsHold(items), NEW I, I \subseteq DOMAIN items
  PROVE  WorsOf(Picked(items, I)) = Picked(WorsOf(items), I)
<1>1. DOMAIN Picked(items, I) = 1..Cardinality(I) /\ I \subseteq Nat /\ IsFiniteSet(I)
  BY ListingFacts, PickedFacts, FS_Subset DEF ItemsHold
<1>2. \A k \in 1..Cardinality(I) : Nth(I, k) \in DOMAIN items
  BY <1>1, NthFacts
<1>3. \A k \in 1..Cardinality(I) : WorOf(Picked(items, I)[k]) = WorsOf(items)[Nth(I, k)]
  BY <1>2 DEF Picked, WorsOf
<1>4. WorsOf(Picked(items, I)) = [k \in 1..Cardinality(I) |-> WorOf(Picked(items, I)[k])]
  BY <1>1 DEF WorsOf
<1>5. Picked(WorsOf(items), I) = [k \in 1..Cardinality(I) |-> WorsOf(items)[Nth(I, k)]]
  BY DEF Picked
<1>6. QED
  BY <1>3, <1>4, <1>5

\* What %wor counts of the items of a group are the words of that group.
LEMMA GroupHolds ==
  ASSUME NEW items, ItemsHold(items), NEW group \in [DOMAIN items -> Nat], NEW g,
         NEW L, Marks(WorGroups(items, group), g, Len(FlattenSeq(WorsOf(items))), L)
  PROVE  FlattenSeq(WorsOf(Picked(items, WithoutLeading(items, group, g))))
           = Picked(FlattenSeq(WorsOf(items)), L)
<1> DEFINE ws == WorsOf(items)
           gg == [i \in DOMAIN items |-> [k \in DOMAIN WorOf(items[i]) |-> group[i]]]
           I == WithoutLeading(items, group, g)
           J == {i \in DOMAIN ws : group[i] = g}
<1>1. Blocks(ws) /\ DOMAIN ws = DOMAIN items
  BY WorsAreBlocks
<1>2. Len(items) \in Nat /\ DOMAIN items = 1..Len(items) /\ \A i \in DOMAIN items : ws[i] = WorOf(items[i])
  BY ListingFacts DEF ItemsHold, WorsOf
<1>3. \A i \in DOMAIN items : gg[i] = [k \in DOMAIN WorOf(items[i]) |-> group[i]]
  OBVIOUS
<1>4. gg = [i \in 1..Len(items) |-> gg[i]]
  BY <1>2
<1>5. WorGroups(items, group) = FlattenSeq(gg)
  BY DEF WorGroups
<1> HIDE DEF gg, ws
<1>6. Listing(gg) /\ Len(gg) = Len(items) /\ DOMAIN gg = DOMAIN items
  BY <1>2, <1>4, FunctionIsListing
<1>7. Len(ws) = Len(items)
  <2>1. Len(ws) \in Nat /\ DOMAIN ws = 1..Len(ws)
    BY <1>1, ListingFacts DEF Blocks
  <2>2. QED
    BY <1>1, <1>2, <2>1
<1>8. \A i \in DOMAIN ws :
        Listing(gg[i]) /\ Len(gg[i]) = Len(ws[i]) /\ \A k \in 1..Len(ws[i]) : gg[i][k] = group[i]
  <2>1. ASSUME NEW i \in DOMAIN ws
        PROVE  Listing(gg[i]) /\ Len(gg[i]) = Len(ws[i]) /\ \A k \in 1..Len(ws[i]) : gg[i][k] = group[i]
    <3> DEFINE s == gg[i]
               n == Len(ws[i])
    <3>1. Listing(ws[i])
      BY <1>1 DEF Blocks
    <3>2. n \in Nat /\ DOMAIN ws[i] = 1..n
      BY <3>1, ListingFacts
    <3>3. s = [k \in 1..n |-> s[k]] /\ \A k \in 1..n : s[k] = group[i]
      BY <1>1, <1>2, <1>3, <3>2
    <3> HIDE DEF s, n
    <3>4. Listing(s) /\ Len(s) = n
      BY <3>2, <3>3, FunctionIsListing
    <3>5. QED
      BY <3>3, <3>4 DEF s, n
  <2>2. QED
    BY <2>1
<1>9. Blocks(gg)
  BY <1>1, <1>6, <1>8 DEF Blocks
<1>10. Len(gg) = Len(ws)
  BY <1>6, <1>7
<1>11. Held(ws, J) = Picked(FlattenSeq(ws), L)
  <2>1. Marks(group, g, Len(ws), J)
    BY <1>1, <1>2, <1>7 DEF Marks
  <2>2. Repeats(gg, ws, group)
    BY <1>8, <1>9, <1>10 DEF Repeats
  <2>3. Marks(FlattenSeq(gg), g, Len(FlattenSeq(ws)), L)
    BY <1>5 DEF ws
  <2>4. Blocks(ws)
    BY <1>1
  <2> HIDE DEF J, I
  <2>5. QED
    BY <2>1, <2>2, <2>3, <2>4, HeldIsPicked
<1>12. Held(ws, I) = Held(ws, J)
  <2>1. I \subseteq J /\ J \subseteq DOMAIN ws
    BY <1>1 DEF WithoutLeading
  <2>2. ASSUME NEW i \in J \ I PROVE ws[i] = <<>>
    <3>1. i \in DOMAIN items /\ i \in 1..i
      BY <1>1, <1>2
    <3>2. items[i].kind = "separator"
      BY <1>1, <2>2, <3>1 DEF WithoutLeading
    <3>3. QED
      BY <1>2, <3>1, <3>2 DEF WorOf
  <2> HIDE DEF I, J
  <2>3. QED
    BY <1>1, <2>1, <2>2, HeldWithout
<1>13. FlattenSeq(WorsOf(Picked(items, I))) = Held(ws, I)
  <2>1. I \subseteq DOMAIN items
    BY DEF WithoutLeading
  <2> HIDE DEF I
  <2>2. WorsOf(Picked(items, I)) = Picked(ws, I)
    BY <2>1, WorsOfPicked DEF ws
  <2>3. QED
    BY <2>2, Zenon DEF Held
<1>14. QED
  BY <1>5, <1>11, <1>12, <1>13 DEF ws

\* What is picked twice may be picked in either order.
LEMMA PickedEitherWay ==
  ASSUME NEW s, Listing(s), NEW Q, Q \subseteq DOMAIN s, NEW T, T \subseteq DOMAIN s,
         NEW L, Numbers(Q, T, L), NEW M, Numbers(T, Q, M)
  PROVE  Picked(Picked(s, Q), L) = Picked(Picked(s, T), M)
<1>1. Picked(Picked(s, Q), L) = Picked(s, Q \cap T)
  BY PickedOfPicked
<1>2. Picked(Picked(s, T), M) = Picked(s, T \cap Q)
  BY PickedOfPicked
<1>3. Q \cap T = T \cap Q
  OBVIOUS
<1>4. QED
  BY <1>1, <1>2, <1>3, Zenon

\* Where a %wor tier has words; and where it has those of group g, and what
\* follows these: to counts the words up to a place.
Texted(wor) == {i \in DOMAIN wor : wor[i].text # None}
Apportioned(wor, groups, g, to, Q) ==
  /\ \A i \in DOMAIN wor : to[i] = Cardinality({j \in 1..i : wor[j].text # None})
  /\ Q = {i \in DOMAIN wor : (IF to[i] = 0 THEN 0 ELSE groups[to[i]]) = g}

\* The words of the part of a %wor tier that a group gets are the words of that
\* group among those of the tier.
LEMMA PartHolds ==
  ASSUME NEW wor, Listing(wor), NEW groups, NEW g,
         NEW to, NEW Q, Apportioned(wor, groups, g, to, Q),
         NEW M, Marks(groups, g, Cardinality(Texted(wor)), M)
  PROVE  /\ Listing(Picked(wor, Q))
         /\ Picked(Picked(wor, Q), Texted(Picked(wor, Q))) = Picked(Picked(wor, Texted(wor)), M)
<1> DEFINE part == Picked(wor, Q)
           L == Texted(part)
           T == Texted(wor)
<1>0. /\ T = {i \in DOMAIN wor : wor[i].text # None}
      /\ L = {k \in DOMAIN part : part[k].text # None}
      /\ \A i \in DOMAIN wor : to[i] = Cardinality({j \in 1..i : wor[j].text # None})
      /\ Q = {i \in DOMAIN wor : (IF to[i] = 0 THEN 0 ELSE groups[to[i]]) = g}
  BY DEF Texted, Apportioned
<1> HIDE DEF L, T
<1>1. /\ T \subseteq DOMAIN wor /\ Q \subseteq DOMAIN wor /\ DOMAIN wor \subseteq Nat
      /\ IsFiniteSet(T) /\ IsFiniteSet(Q) /\ DOMAIN wor = 1..Len(wor) /\ Len(wor) \in Nat
  BY <1>0, ListingFacts, FS_Subset
<1>2. Listing(part) /\ DOMAIN part = 1..Cardinality(Q)
  BY <1>1, PickedFacts
<1>3. L \subseteq 1..Cardinality(Q) /\ \A k \in 1..Cardinality(Q) : k \in L <=> Nth(Q, k) \in T
  <2>1. \A k \in 1..Cardinality(Q) : Nth(Q, k) \in DOMAIN wor /\ part[k] = wor[Nth(Q, k)]
    BY <1>1, NthFacts DEF Picked
  <2> HIDE DEF part
  <2>2. QED
    BY <1>0, <1>2, <2>1
<1>4. ASSUME NEW m \in 1..Cardinality(T) PROVE to[Nth(T, m)] = m
  <2> DEFINE i == Nth(T, m)
             B == {y \in T : y < i}
  <2>1. i \in T /\ Cardinality(B) = m - 1
    BY <1>1, NthFacts
  <2> HIDE DEF i
  <2>2. i \in Nat /\ i \in DOMAIN wor /\ wor[i].text # None
    BY <1>0, <1>1, <2>1
  <2>3. {j \in 1..i : wor[j].text # None} = B \cup {i}
    <3>1. \A j \in 1..i : j \in DOMAIN wor
      BY <1>1, <2>2
    <3>2. \A j \in T : j < i => j \in 1..i
      BY <1>1, <2>2
    <3>3. \A j \in 1..i : j < i \/ j = i
      BY <2>2
    <3>4. QED
      BY <1>0, <1>1, <2>2, <3>1, <3>2, <3>3
  <2>4. IsFiniteSet(B) /\ i \notin B
    BY <1>1, <2>2, FS_Subset
  <2> HIDE DEF B
  <2>5. Cardinality(B \cup {i}) = Cardinality(B) + 1
    BY <2>4, FS_AddElement
  <2>6. Cardinality(T) \in Nat
    BY <1>1, FS_CardinalityType
  <2>7. to[i] = Cardinality(B) + 1
    BY <1>0, <2>2, <2>3, <2>5
  <2>8. to[i] = m
    BY <2>1, <2>6, <2>7
  <2>9. QED
    BY <2>8 DEF i
<1>5. Numbers(T, Q, M)
  <2>1. \A m \in 1..Cardinality(T) : Nth(T, m) \in DOMAIN wor /\ to[Nth(T, m)] = m /\ m # 0
    <3>1. Cardinality(T) \in Nat
      BY <1>1, FS_CardinalityType
    <3>2. \A m \in 1..Cardinality(T) : Nth(T, m) \in T
      BY <1>1, NthFacts
    <3>3. \A m \in 1..Cardinality(T) : m # 0
      BY <3>1
    <3>4. QED
      BY <1>1, <1>4, <3>2, <3>3
  <2>2. QED
    BY <1>0, <2>1 DEF Numbers, Marks, T
<1>7. Numbers(Q, T, L)
  BY <1>3 DEF Numbers
<1>8. T \subseteq DOMAIN wor /\ Q \subseteq DOMAIN wor
  BY <1>1
<1>9. Picked(part, L) = Picked(Picked(wor, T), M)
  BY <1>5, <1>7, <1>8, PickedEitherWay
<1>10. QED
  BY <1>2, <1>9 DEF L, T

\* A %wor tier is a sequence, its words have the texts that %wor counts.
LEMMA WorOfSound ==
  ASSUME NEW utt, IsUtterance(utt), Sound(utt), Has(utt, "wor"),
         NEW wor, wor = Content(utt, "wor")
  PROVE  /\ Listing(wor) /\ Texted(wor) \subseteq DOMAIN wor
         /\ WorTierWords(utt) = Picked(wor, Texted(wor)) /\ DOMAIN WorTierWords(utt) = 1..Cardinality(Texted(wor))
         /\ TextsOf(WorTierWords(utt)) = TextsOf(WorWords(utt))
<1>1. PICK i \in DOMAIN utt.tiers : utt.tiers[i].label = "wor"
  BY DEF Has
<1>2. \A j \in DOMAIN utt.tiers : utt.tiers[j].label = utt.tiers[i].label => j = i
  BY DEF Sound, ItemsTexted
<1>3. Listing(utt.tiers)
  BY DEF IsUtterance
<1>4. Content(utt, "wor") = utt.tiers[i].content
  BY <1>1, <1>2, <1>3, ContentIs
<1>5. Listing(wor)
  BY <1>1, <1>4 DEF Sound, ItemsTexted
<1>6. WorTierWords(utt) = Picked(wor, Texted(wor))
  BY DEF WorTierWords, Texted
<1>7. Texted(wor) \subseteq DOMAIN wor
  BY DEF Texted
<1>8. DOMAIN Picked(wor, Texted(wor)) = 1..Cardinality(Texted(wor))
  BY <1>5, <1>7, PickedFacts
<1>9. TextsOf(WorTierWords(utt)) = TextsOf(WorWords(utt))
  BY DEF Sound, Described, ItemsTexted, EndsWell
<1>10. QED
  BY <1>5, <1>6, <1>7, <1>8, <1>9

\* The part of the %wor tier that a group gets describes the items the group gets.
LEMMA PartDescribes ==
  ASSUME NEW utt, IsUtterance(utt), Sound(utt), NEW group \in [DOMAIN utt.items -> Nat],
         NEW g \in Range(group), PartitionWor(utt, group) # None,
         NEW part, part = PartitionWor(utt, group)[g]
  PROVE  /\ Listing(part)
         /\ TextsOf(Picked(part, Texted(part)))
              = TextsOf(FlattenSeq(WorsOf(Picked(utt.items, WithoutLeading(utt.items, group, g)))))
<1> DEFINE items == utt.items
           wor == Content(utt, "wor")
           groups == WorGroups(items, group)
           T == Texted(wor)
           to == [i \in DOMAIN wor |-> Cardinality({j \in 1..i : wor[j].text # None})]
           Q == {i \in DOMAIN wor : (IF to[i] = 0 THEN 0 ELSE groups[to[i]]) = g}
           n == Cardinality(T)
           M == {m \in 1..n : groups[m] = g}
           W == WorTierWords(utt)
           ww == FlattenSeq(WorsOf(items))
<1>1. Has(utt, "wor")
  BY DEF PartitionWor
<1>2. ItemsHold(items)
  BY DEF IsUtterance
<1>3. part = Picked(wor, Q)
  <2>1. part = Picked(wor, {i \in DOMAIN wor :
                  (IF Cardinality({j \in 1..i : wor[j].text # None}) = 0 THEN 0
                   ELSE groups[Cardinality({j \in 1..i : wor[j].text # None})]) = g})
    BY <1>1 DEF PartitionWor, WorGroups
  <2>2. Q = {i \in DOMAIN wor :
                  (IF Cardinality({j \in 1..i : wor[j].text # None}) = 0 THEN 0
                   ELSE groups[Cardinality({j \in 1..i : wor[j].text # None})]) = g}
    OBVIOUS
  <2>3. QED
    BY <2>1, <2>2, Zenon
<1>4. Listing(wor) /\ T \subseteq DOMAIN wor /\ W = Picked(wor, T) /\ DOMAIN W = 1..n
  BY <1>1, WorOfSound
<1>5. TextsOf(W) = TextsOf(ww)
  <2>1. TextsOf(W) = TextsOf(WorWords(utt))
    BY <1>1, WorOfSound
  <2>2. WorWords(utt) = ww
    BY DEF WorWords, WorsOf
  <2>3. QED
    BY <2>1, <2>2, Zenon
<1>6. Listing(W)
  BY <1>4, PickedFacts
<1>7. Listing(ww)
  BY <1>2, WorsAreBlocks, FlattenFacts DEF Blocks
<1>8. DOMAIN ww = DOMAIN W
  <2>1. DOMAIN TextsOf(ww) = DOMAIN ww /\ DOMAIN TextsOf(W) = DOMAIN W
    BY DEF TextsOf
  <2>2. QED
    BY <1>5, <2>1
<1>9. n \in Nat /\ Len(ww) = n
  <2>1. Len(ww) \in Nat /\ DOMAIN ww = 1..Len(ww)
    BY <1>7, ListingFacts
  <2>2. n \in Nat
    BY <1>4, ListingFacts, FS_Subset, FS_CardinalityType
  <2>3. QED
    BY <1>4, <1>8, <2>1, <2>2
<1>10. Marks(groups, g, n, M)
  BY DEF Marks
<1>11. M \subseteq DOMAIN W /\ M \subseteq DOMAIN ww
  BY <1>4, <1>8
<1>12. Apportioned(wor, groups, g, to, Q)
  BY DEF Apportioned
<1> HIDE DEF M, n, T, Q, W, ww, to, groups, wor
<1>14. /\ Listing(part)
       /\ Picked(part, Texted(part)) = Picked(W, M)
  <2>1. Marks(groups, g, Cardinality(Texted(wor)), M)
    BY <1>10 DEF n, T
  <2>2. /\ Listing(Picked(wor, Q))
        /\ Picked(Picked(wor, Q), Texted(Picked(wor, Q))) = Picked(Picked(wor, Texted(wor)), M)
    BY <1>4, <1>12, <2>1, PartHolds
  <2>3. QED
    BY <1>3, <1>4, <2>2, Zenon DEF T
<1>15. FlattenSeq(WorsOf(Picked(items, WithoutLeading(items, group, g)))) = Picked(ww, M)
  <2>1. Marks(WorGroups(items, group), g, Len(FlattenSeq(WorsOf(items))), M)
    BY <1>9, <1>10 DEF ww, groups
  <2> HIDE DEF items
  <2>2. QED
    BY <1>2, <2>1, GroupHolds DEF ww, items
<1>16. TextsOf(Picked(W, M)) = Picked(TextsOf(W), M) /\ TextsOf(Picked(ww, M)) = Picked(TextsOf(ww), M)
  BY <1>6, <1>7, <1>11, TextsOfPicked
<1>17. QED
  BY <1>5, <1>14, <1>15, <1>16, Zenon

(***************************************************************************)
(* How a group of a split ends.                                            *)
(***************************************************************************)

\* Only a word is in a group by its own words.
LEMMA OwnGroupIsOfWord ==
  ASSUME NEW items, ItemsHold(items), NEW a, NEW i, OwnGroup(items, a, i) # None
  PROVE  i \in DOMAIN items /\ items[i].kind = "word"
<1> DEFINE ss == [j \in DOMAIN items |-> [k \in DOMAIN MorOf(items[j]) |-> j]]
           wtc == WordToContent(items)
           ks == {k \in DOMAIN wtc \cap DOMAIN a : wtc[k] = i}
<1>1. Len(items) \in Nat /\ DOMAIN items = 1..Len(items)
  BY ListingFacts DEF ItemsHold
<1>2. ASSUME NEW j \in DOMAIN items PROVE Listing(ss[j])
  <2>1. Len(MorOf(items[j])) \in Nat /\ DOMAIN MorOf(items[j]) = 1..Len(MorOf(items[j]))
    BY MorIsListing, ListingFacts
  <2>2. ss[j] = [k \in 1..Len(MorOf(items[j])) |-> ss[j][k]]
    BY <2>1
  <2>3. QED
    BY <2>1, <2>2, FunctionIsListing
<1>3. /\ DOMAIN ss = DOMAIN items /\ ss = [j \in 1..Len(items) |-> ss[j]]
      /\ \A j \in DOMAIN items : DOMAIN ss[j] = DOMAIN MorOf(items[j]) /\ \A k \in DOMAIN ss[j] : ss[j][k] = j
  BY <1>1
<1>4. wtc = FlattenSeq(ss)
  BY DEF WordToContent
<1>5. ks # {}
  <2>1. OwnGroup(items, a, i) = IF ks = {} THEN None ELSE a[Min(ks)]
    BY DEF OwnGroup
  <2>2. QED
    BY <2>1
<1> HIDE DEF ss, wtc
<1>6. PICK k \in DOMAIN wtc : wtc[k] = i
  BY <1>5
<1>7. Listing(ss)
  BY <1>1, <1>3, FunctionIsListing
<1>8. \E j \in DOMAIN ss : \E l \in DOMAIN ss[j] : wtc[k] = ss[j][l]
  <2>1. \A j \in DOMAIN ss : Listing(ss[j])
    BY <1>2, <1>3
  <2>2. \A x \in DOMAIN FlattenSeq(ss) : \E j \in DOMAIN ss : \E l \in DOMAIN ss[j] : FlattenSeq(ss)[x] = ss[j][l]
    BY <1>7, <2>1, FlattenFacts
  <2>3. QED
    BY <1>4, <1>6, <2>2
<1>9. PICK j \in DOMAIN items : \E l \in DOMAIN MorOf(items[j]) : i = j
  BY <1>3, <1>6, <1>8
<1>10. items[j].kind # "word" => DOMAIN MorOf(items[j]) = {}
  BY EmptyIsListing DEF MorOf
<1>11. QED
  BY <1>9, <1>10

\* A place among the places is the nearest to itself.
LEMMA NearHere ==
  ASSUME NEW S, S \subseteq Nat, NEW i \in S
  PROVE  Near(S, i) = i
<1> DEFINE L == {j \in S : j <= i}
<1>0. i \in Nat
  OBVIOUS
<1>1. i \in L /\ L \subseteq Nat /\ L # {} /\ \A x \in L : x <= i
  <2>1. i <= i
    BY <1>0
  <2>2. i \in L
    BY <2>1
  <2>3. QED
    BY <2>2
<1>2. Near(S, i) = Max(L)
  BY <1>1 DEF Near
<1> HIDE DEF L
<1>3. Max(L) \in L /\ \A y \in L : y <= Max(L)
  BY <1>0, <1>1, GreatestElement
<1>4. Max(L) \in Nat /\ i <= Max(L) /\ Max(L) <= i
  BY <1>1, <1>3
<1>5. QED
  BY <1>0, <1>2, <1>4

\* Past the last of the places that one is the nearest.
LEMMA NearLast ==
  ASSUME NEW S, S \subseteq Nat, S # {}, NEW i \in Nat, NEW j \in Nat,
         \A x \in S : x <= i /\ x <= j
  PROVE  Near(S, i) = Near(S, j)
<1>1. {x \in S : x <= i} = S /\ {x \in S : x <= j} = S
  OBVIOUS
<1>2. (\E x \in S : x <= i) /\ (\E x \in S : x <= j)
  OBVIOUS
<1>3. QED
  BY <1>1, <1>2 DEF Near

\* A retrace that something follows is in a group with something that follows it.
LEMMA RetraceJoins ==
  ASSUME NEW items, ItemsHold(items), NEW a,
         NEW i \in DOMAIN items, items[i].kind = "retrace",
         NEW z \in DOMAIN items, i < z, items[z].kind # "separator"
  PROVE  \E m \in DOMAIN items :
           i < m /\ items[m].kind # "separator" /\ GroupOf(items, a)[m] = GroupOf(items, a)[i]
<1> DEFINE settled == [j \in DOMAIN items |-> Settled(items, a, j)]
           S == {j \in DOMAIN settled : settled[j] # None}
           group == GroupOf(items, a)
           own(j) == OwnGroup(items, a, j)
           next(j) == {x \in DOMAIN items : x > j /\ own(x) # None}
<1>1. DOMAIN items \subseteq Nat
  BY ListingFacts DEF ItemsHold
<1>2. S \subseteq DOMAIN items /\ S \subseteq Nat /\ \A j \in DOMAIN items : j \in S <=> Settled(items, a, j) # None
  BY <1>1
<1>3. \A j \in DOMAIN items : group[j] = IF S = {} THEN 0 ELSE settled[Near(S, j)]
  BY DEF GroupOf, Joined
<1>4. \A j \in DOMAIN items : settled[j] = Settled(items, a, j)
  OBVIOUS
<1>5. own(i) = None
  BY OwnGroupIsOfWord
<1>6. \A j \in DOMAIN items :
        Settled(items, a, j) = IF own(j) = None /\ items[j].kind = "retrace" /\ next(j) # {}
                               THEN own(Min(next(j))) ELSE own(j)
  BY DEF Settled
<1> HIDE DEF S, settled, group
<1>7. CASE S = {}
  BY <1>3, <1>7 DEF group
<1>8. CASE S # {} /\ next(i) # {}
  <2> DEFINE N == next(i)
             m == Min(N)
  <2>1. N \subseteq Nat /\ N # {} /\ \A x \in N : x \in DOMAIN items /\ x > i /\ own(x) # None
    BY <1>1, <1>8
  <2>2. m \in N
    <3> HIDE DEF N
    <3>1. QED
      BY <2>1, LeastElement
  <2>3. m \in DOMAIN items /\ m > i /\ own(m) # None
    <3> HIDE DEF N, m
    <3>1. QED
      BY <2>1, <2>2
  <2>4. Settled(items, a, i) = own(m)
    BY <1>5, <1>6, <1>8
  <2> HIDE DEF m, N
  <2>5. Settled(items, a, m) = own(m)
    BY <1>6, <2>3
  <2>6. i \in S /\ m \in S
    BY <1>2, <2>3, <2>4, <2>5
  <2>7. Near(S, i) = i /\ Near(S, m) = m
    BY <1>2, <2>6, NearHere
  <2>8. group[i] = own(m) /\ group[m] = own(m)
    BY <1>3, <1>4, <1>8, <2>3, <2>4, <2>5, <2>7
  <2>9. items[m].kind = "word" /\ i < m
    <3>1. items[m].kind = "word"
      BY <2>3, OwnGroupIsOfWord
    <3>2. QED
      BY <1>1, <2>3, <3>1
  <2>10. QED
    BY <2>3, <2>8, <2>9 DEF group
<1>9. CASE S # {} /\ next(i) = {}
  <2>1. ASSUME NEW j \in S PROVE j <= i /\ j <= z
    <3>1. j \in DOMAIN items /\ j \in Nat /\ i \in Nat /\ z \in Nat
      BY <1>1, <1>2
    <3>2. j < i
      <4> SUFFICES ASSUME i <= j PROVE FALSE
        BY <3>1
      <4>1. next(j) = {}
        <5>1. next(j) \subseteq next(i)
          BY <1>1, <3>1
        <5>2. QED
          BY <1>9, <5>1
      <4>2. own(j) = None
        <5>1. CASE j = i
          BY <1>5, <5>1
        <5>2. CASE j # i
          <6>1. j > i
            BY <3>1, <5>2
          <6>2. QED
            BY <1>9, <3>1, <6>1
        <5>3. QED
          BY <5>1, <5>2
      <4>3. Settled(items, a, j) = None
        BY <1>6, <3>1, <4>1, <4>2
      <4>4. QED
        BY <1>2, <3>1, <4>3
    <3>3. QED
      BY <3>1, <3>2
  <2>2. i \in Nat /\ z \in Nat
    BY <1>1
  <2>3. Near(S, i) = Near(S, z)
    BY <1>2, <1>9, <2>1, <2>2, NearLast
  <2>4. group[i] = group[z]
    BY <1>3, <2>3
  <2>5. QED
    BY <2>4 DEF group
<1>10. QED
  BY <1>7, <1>8, <1>9

\* Every group ends as an utterance may end, when the utterance does.
LEMMA GroupEndsWell ==
  ASSUME NEW items, ItemsHold(items), EndsWell(items), NEW a, NEW g,
         NEW I, I = WithoutLeading(items, GroupOf(items, a), g), I # {},
         DOMAIN GroupOf(items, a) = DOMAIN items
  PROVE  EndsWell(Picked(items, I))
<1> DEFINE group == GroupOf(items, a)
           N == {i \in I : items[i].kind # "separator"}
           b == Max(N)
           n == Cardinality(I)
<1>1. Len(items) \in Nat /\ DOMAIN items = 1..Len(items) /\ DOMAIN items \subseteq Nat
  BY ListingFacts DEF ItemsHold
<1>2. I \subseteq DOMAIN items /\ I \subseteq Nat /\ IsFiniteSet(I)
  BY <1>1, ListingFacts, FS_Subset DEF WithoutLeading, ItemsHold
<1>3. \A i \in DOMAIN items : group[i] = g /\ items[i].kind # "separator" => i \in I
  BY <1>1 DEF WithoutLeading
<1>4. \A i \in I : group[i] = g
  BY DEF WithoutLeading
<1>5. N # {}
  <2>1. PICK i \in I : TRUE
    OBVIOUS
  <2>2. PICK j \in 1..i : group[j] = g /\ items[j].kind # "separator"
    BY <2>1 DEF WithoutLeading
  <2>3. j \in DOMAIN items
    BY <1>1, <1>2, <2>1, <2>2
  <2>4. QED
    BY <1>3, <2>2, <2>3
<1>6. N \subseteq I /\ N \subseteq Nat /\ \A i \in N : i <= Len(items)
  BY <1>1, <1>2
<1>7. b \in N /\ \A i \in N : i <= b
  <2> HIDE DEF N
  <2>1. QED
    BY <1>1, <1>5, <1>6, GreatestElement
<1>8. PICK z \in DOMAIN items : /\ items[z].kind \notin {"separator", "retrace"}
                               /\ \A j \in DOMAIN items : j > z => items[j].kind = "separator"
  BY DEF EndsWell
<1> HIDE DEF b, group
<1>9. items[b].kind # "retrace"
  <2> SUFFICES ASSUME items[b].kind = "retrace" PROVE FALSE
    OBVIOUS
  <2>1. b \in DOMAIN items /\ b \in Nat /\ z \in Nat /\ items[b].kind # "separator"
    BY <1>1, <1>2, <1>7
  <2>2. b < z
    BY <1>8, <2>1
  <2>3. PICK m \in DOMAIN items : b < m /\ items[m].kind # "separator" /\ group[m] = group[b]
    BY <1>8, <2>1, <2>2, RetraceJoins DEF group
  <2>4. m \in N
    BY <1>3, <1>4, <1>7, <2>3
  <2>5. QED
    BY <1>1, <1>7, <2>1, <2>3, <2>4
<1>10. b \in I /\ items[b].kind # "separator"
  BY <1>7
<1>11. DOMAIN Picked(items, I) = 1..n /\ n \in Nat
  BY <1>2, PickedFacts, FS_CardinalityType DEF ItemsHold
<1>12. PICK p \in 1..n : Nth(I, p) = b
  BY <1>2, <1>10, NthCovers
<1>13. \A k \in 1..n : Picked(items, I)[k] = items[Nth(I, k)]
  BY DEF Picked
<1>14. ASSUME NEW k \in 1..n, k > p PROVE items[Nth(I, k)].kind = "separator"
  <2>1. p < k
    BY <1>11, <1>14
  <2>2. Nth(I, p) < Nth(I, k)
    BY <1>2, <2>1, NthOrder
  <2>3. Nth(I, k) \in I /\ Nth(I, k) \in Nat /\ b \in Nat
    BY <1>2, <1>10, NthFacts
  <2>4. Nth(I, k) \notin N
    BY <1>7, <1>12, <2>2, <2>3
  <2>5. QED
    BY <2>3, <2>4
<1>15. QED
  BY <1>9, <1>10, <1>11, <1>12, <1>13, <1>14 DEF EndsWell

(***************************************************************************)
(* What a split makes of a sound utterance.                                *)
(***************************************************************************)

\* No two tiers of one label; a label among the tiers.
OneEach(ts) == \A i, j \in DOMAIN ts : ts[i].label = ts[j].label => i = j
Labelled(ts, label) == \E i \in DOMAIN ts : ts[i].label = label
Apart(a, b) == \A i \in DOMAIN a, j \in DOMAIN b : a[i].label # b[j].label

\* The content of a label that one tier has.
LEMMA ContentOf ==
  ASSUME NEW utt, Listing(utt.tiers), OneEach(utt.tiers),
         NEW i \in DOMAIN utt.tiers, NEW label, utt.tiers[i].label = label
  PROVE  Content(utt, label) = utt.tiers[i].content
<1>1. \A j \in DOMAIN utt.tiers : utt.tiers[j].label = utt.tiers[i].label => j = i
  BY DEF OneEach
<1>2. Content(utt, utt.tiers[i].label) = utt.tiers[i].content
  BY <1>1, ContentIs
<1>3. QED
  BY <1>2

\* Some of the tiers are of different labels when all are.
LEMMA OneEachPicked ==
  ASSUME NEW ts, Listing(ts), OneEach(ts), NEW I, I \subseteq DOMAIN ts
  PROVE  OneEach(Picked(ts, I))
<1>1. I \subseteq Nat /\ IsFiniteSet(I) /\ DOMAIN Picked(ts, I) = 1..Cardinality(I) /\ Cardinality(I) \in Nat
  BY ListingFacts, FS_Subset, PickedFacts, FS_CardinalityType
<1> SUFFICES ASSUME NEW k \in 1..Cardinality(I), NEW l \in 1..Cardinality(I),
                    Picked(ts, I)[k].label = Picked(ts, I)[l].label
             PROVE  k = l
  BY <1>1 DEF OneEach
<1>2. Picked(ts, I)[k] = ts[Nth(I, k)] /\ Picked(ts, I)[l] = ts[Nth(I, l)]
  BY DEF Picked
<1>3. Nth(I, k) \in DOMAIN ts /\ Nth(I, l) \in DOMAIN ts
  BY <1>1, NthFacts
<1>4. Nth(I, k) = Nth(I, l)
  BY <1>2, <1>3 DEF OneEach
<1>5. Nth(I, k) \in Nat /\ k \in Nat /\ l \in Nat
  <2>1. Nth(I, k) \in Nat
    BY <1>1, NthFacts
  <2>2. k \in Nat /\ l \in Nat
    BY <1>1
  <2>3. QED
    BY <2>1, <2>2
<1>6. ~(k < l)
  <2> SUFFICES ASSUME k < l PROVE FALSE
    OBVIOUS
  <2>1. Nth(I, k) < Nth(I, l)
    BY <1>1, NthOrder
  <2>2. QED
    BY <1>4, <1>5, <2>1
<1>7. ~(l < k)
  <2> SUFFICES ASSUME l < k PROVE FALSE
    OBVIOUS
  <2>1. Nth(I, l) < Nth(I, k)
    BY <1>1, NthOrder
  <2>2. QED
    BY <1>4, <1>5, <2>1
<1>8. QED
  BY <1>5, <1>6, <1>7

\* Tiers of other labels one after the other.
HoldsBoth(c, a, b) ==
  /\ Listing(c) /\ OneEach(c)
  /\ \A k \in DOMAIN c : (\E i \in DOMAIN a : c[k] = a[i]) \/ (\E j \in DOMAIN b : c[k] = b[j])
  /\ \A i \in DOMAIN a : \E k \in DOMAIN c : c[k] = a[i]
  /\ \A j \in DOMAIN b : \E k \in DOMAIN c : c[k] = b[j]

\* They are of different labels together, and no tier is lost.
LEMMA TiersJoined ==
  ASSUME NEW a, Listing(a), NEW b, Listing(b), OneEach(a), OneEach(b),
         Apart(a, b),
         NEW c, c = a \o b
  PROVE  HoldsBoth(c, a, b)
<1> DEFINE p == Len(a)
           q == Len(b)
<1>1. p \in Nat /\ q \in Nat /\ DOMAIN a = 1..p /\ DOMAIN b = 1..q
  BY ListingFacts
<1>2. /\ Listing(a \o b) /\ DOMAIN (a \o b) = 1..(p + q)
      /\ \A i \in 1..p : (a \o b)[i] = a[i]
      /\ \A i \in 1..q : (a \o b)[p + i] = b[i]
  BY ConcatIsListing
<1>3. /\ Listing(c) /\ DOMAIN c = 1..(p + q)
      /\ \A i \in 1..p : c[i] = a[i]
      /\ \A i \in 1..q : c[p + i] = b[i]
  BY <1>2, Zenon
<1> HIDE DEF p, q
<1>4. \A k \in 1..(p + q) : k \in 1..p \/ (k - p \in 1..q /\ p + (k - p) = k)
  BY <1>1
<1>5. \A k \in 1..(p + q) : (k \in 1..p /\ c[k] = a[k]) \/ (k - p \in 1..q /\ c[k] = b[k - p])
  BY <1>3, <1>4
<1>6. OneEach(c)
  <2> SUFFICES ASSUME NEW k \in 1..(p + q), NEW l \in 1..(p + q), c[k].label = c[l].label PROVE k = l
    BY <1>3 DEF OneEach
  <2>1. CASE k \in 1..p /\ c[k] = a[k]
    <3>1. ~(l - p \in 1..q /\ c[l] = b[l - p])
      BY <1>1, <2>1 DEF Apart
    <3>2. l \in 1..p /\ c[l] = a[l]
      BY <1>5, <3>1
    <3>3. QED
      BY <1>1, <2>1, <3>2 DEF OneEach
  <2>2. CASE k - p \in 1..q /\ c[k] = b[k - p]
    <3>1. ~(l \in 1..p /\ c[l] = a[l])
      BY <1>1, <2>2 DEF Apart
    <3>2. l - p \in 1..q /\ c[l] = b[l - p]
      BY <1>5, <3>1
    <3>3. k - p = l - p
      BY <1>1, <2>2, <3>2 DEF OneEach
    <3>4. QED
      BY <1>1, <3>3
  <2>3. QED
    BY <1>5, <2>1, <2>2
<1>7. \A k \in DOMAIN c : (\E i \in DOMAIN a : c[k] = a[i]) \/ (\E j \in DOMAIN b : c[k] = b[j])
  BY <1>1, <1>3, <1>5
<1>8. \A i \in DOMAIN a : i \in DOMAIN c /\ c[i] = a[i]
  BY <1>1, <1>3
<1>9. \A j \in DOMAIN b : p + j \in DOMAIN c /\ c[p + j] = b[j]
  BY <1>1, <1>3
<1>10. QED
  <2>1. \A i \in DOMAIN a : \E k \in DOMAIN c : c[k] = a[i]
    BY <1>8
  <2>2. \A j \in DOMAIN b : \E k \in DOMAIN c : c[k] = b[j]
    BY <1>9
  <2>3. QED
    BY <1>3, <1>6, <1>7, <2>1, <2>2, Zenon DEF HoldsBoth

\* What is sound, and translated or resolved only when utt is.
Inherits(c, utt) == Sound(c) /\ \A label \in {"xtra", "xcor"} : Has(c, label) => Has(utt, label)

\* The words of some of the items have texts when all have.
LEMMA TextsPicked ==
  ASSUME NEW items, ItemsHold(items), NEW I, I \subseteq DOMAIN items,
         \A i \in DOMAIN items : \A k \in DOMAIN items[i].words : items[i].words[k].text # None,
         NEW its, its = Picked(items, I)
  PROVE  \A i \in DOMAIN its : \A k \in DOMAIN its[i].words : its[i].words[k].text # None
<1>1. \A i \in DOMAIN its : \E j \in I : its[i] = items[j]
  BY PickedFacts DEF ItemsHold
<1>2. QED
  BY <1>1

\* Every child of a sound utterance is sound, with no tier that was not there.
LEMMA ChildSound ==
  ASSUME NEW utt, IsUtterance(utt), Sound(utt), NEW a,
         NEW group, group = GroupOf(utt.items, a), group \in [DOMAIN utt.items -> Nat],
         NEW n, n = Cardinality(Filled(utt.items, group)), NEW k \in 1..n, n \in Nat,
         Filled(utt.items, group) \subseteq Nat, IsFiniteSet(Filled(utt.items, group)),
         NEW c, ChildIs(c, utt, group, k, n)
  PROVE  Inherits(c, utt)
<1> DEFINE items == utt.items
           g == Nth(Filled(items, group), k)
           I == WithoutLeading(items, group, g)
           wor == PartitionWor(utt, group)
           own == OwnWor(wor, g)
           first == IF k = 1 THEN AttachedFirst(utt) ELSE <<>>
           A == {i \in DOMAIN utt.tiers : utt.tiers[i].label \notin WordTiers}
<1>1. ItemsHold(items) /\ Listing(utt.tiers) /\ OneEach(utt.tiers)
  BY DEF IsUtterance, Sound, OneEach, ItemsTexted
<1>2. g \in Filled(items, group)
  BY NthFacts
<1>3. g \in Range(group) /\ I # {} /\ I \subseteq DOMAIN items
  BY <1>2 DEF Filled, WithoutLeading
<1>4. c.items = Picked(items, I)
  BY DEF ChildIs, Places
<1>5. c.tiers = own \o first
  BY Zenon DEF ChildIs
<1>6. EndsWell(c.items)
  <2>1. EndsWell(items)
    BY DEF Sound, Described, EndsWell, ItemsTexted
  <2>2. DOMAIN GroupOf(items, a) = DOMAIN items
    OBVIOUS
  <2>3. I = WithoutLeading(items, GroupOf(items, a), g)
    OBVIOUS
  <2> HIDE DEF items, I, g
  <2>4. EndsWell(Picked(items, I))
    BY <1>1, <1>3, <2>1, <2>2, <2>3, GroupEndsWell
  <2>5. QED
    BY <1>4, <2>4
<1>7. \A i \in DOMAIN c.items : \A l \in DOMAIN c.items[i].words : c.items[i].words[l].text # None
  <2>1. \A i \in DOMAIN items : \A l \in DOMAIN items[i].words : items[i].words[l].text # None
    BY DEF Sound, ItemsTexted
  <2> HIDE DEF items, I
  <2>2. QED
    BY <1>1, <1>3, <1>4, <2>1, TextsPicked
<1>8. /\ Listing(first) /\ OneEach(first)
      /\ \A j \in DOMAIN first : first[j].label \notin WordTiers /\ Labelled(utt.tiers, first[j].label)
  <2>1. A \subseteq DOMAIN utt.tiers /\ AttachedFirst(utt) = Picked(utt.tiers, A)
    BY DEF AttachedFirst
  <2>2. \A i \in A : utt.tiers[i].label \notin WordTiers /\ Labelled(utt.tiers, utt.tiers[i].label)
    BY DEF Labelled
  <2> DEFINE at == Picked(utt.tiers, A)
  <2> HIDE DEF A
  <2>3. Listing(at) /\ OneEach(at) /\ \A j \in DOMAIN at : \E i \in A : at[j] = utt.tiers[i]
    BY <1>1, <2>1, PickedFacts, OneEachPicked
  <2>4. \A j \in DOMAIN at : at[j].label \notin WordTiers /\ Labelled(utt.tiers, at[j].label)
    BY <2>2, <2>3
  <2>5. first = at \/ first = <<>>
    BY <2>1
  <2> HIDE DEF at, first
  <2>6. QED
    BY <2>3, <2>4, <2>5, EmptyIsListing DEF OneEach
<1>9. CASE own = <<>>
  <2>1. c.tiers = first
    BY <1>5, <1>8, <1>9, ConcatWithNone, Zenon
  <2> HIDE DEF first, items
  <2>2. \A l : Has(c, l) => l \notin WordTiers /\ Has(utt, l)
    BY <1>8, <2>1 DEF Has, Labelled
  <2>3. ~Has(c, "mor") /\ ~Has(c, "gra") /\ ~Has(c, "wor") /\ ~Has(c, "pho")
    BY <2>2 DEF WordTiers
  <2>4. Described(c)
    BY <1>6, <2>3 DEF Described, EndsWell
  <2>5. OneEach(c.tiers) /\ \A i \in DOMAIN c.tiers : c.tiers[i].label # "wor"
    BY <1>8, <2>1 DEF WordTiers
  <2>6. Sound(c)
    BY <1>7, <2>3, <2>4, <2>5 DEF Sound, OneEach, ItemsTexted
  <2>7. QED
    BY <2>2, <2>6 DEF Inherits
<1>10. CASE own # <<>>
  <2> DEFINE part == wor[g]
  <2>1. wor # None /\ own = <<Tier("wor", part)>>
    BY <1>10 DEF OwnWor
  <2>2. /\ Listing(part)
        /\ TextsOf(Picked(part, Texted(part))) = TextsOf(FlattenSeq(WorsOf(c.items)))
    BY <1>3, <1>4, <2>1, PartDescribes
  <2>3. Listing(own) /\ DOMAIN own = {1} /\ own[1].label = "wor" /\ own[1].content = part
    BY <2>1, OneIsListing DEF Tier
  <2>4. OneEach(own) /\ \A i \in DOMAIN own, j \in DOMAIN first : own[i].label # first[j].label
    BY <1>8, <2>3 DEF OneEach, WordTiers
  <2> HIDE DEF own, first, part, items
  <2>5. /\ Listing(c.tiers) /\ OneEach(c.tiers)
        /\ \A l \in DOMAIN c.tiers : (\E i \in DOMAIN own : c.tiers[l] = own[i]) \/ (\E j \in DOMAIN first : c.tiers[l] = first[j])
    <3>1. Listing(own) /\ OneEach(own)
      BY <2>3, <2>4
    <3>2. Listing(first) /\ OneEach(first)
      BY <1>8
    <3>3. Apart(own, first)
      BY <2>4 DEF Apart
    <3> DEFINE ct == c.tiers
    <3>4. ct = own \o first
      BY <1>5
    <3> HIDE DEF ct
    <3>5. HoldsBoth(ct, own, first)
      BY <3>1, <3>2, <3>3, <3>4, TiersJoined
    <3>6. /\ Listing(ct) /\ OneEach(ct)
          /\ \A l \in DOMAIN ct : (\E i \in DOMAIN own : ct[l] = own[i]) \/ (\E j \in DOMAIN first : ct[l] = first[j])
      BY <3>5, Zenon DEF HoldsBoth
    <3>7. QED
      BY <3>6 DEF ct
  <2>6. \A l \in DOMAIN c.tiers :
          \/ c.tiers[l].label = "wor" /\ c.tiers[l].content = part
          \/ c.tiers[l].label \notin WordTiers /\ Has(utt, c.tiers[l].label)
    BY <1>8, <2>3, <2>5 DEF Labelled, Has
  <2>7. ~Has(c, "mor") /\ ~Has(c, "gra") /\ ~Has(c, "pho")
    BY <2>6 DEF Has, WordTiers
  <2>8. \A label \in {"xtra", "xcor"} : Has(c, label) => Has(utt, label)
    BY <2>6 DEF Has
  <2>9. \A l \in DOMAIN c.tiers : c.tiers[l].label = "wor" => c.tiers[l].content = part
    BY <2>6 DEF WordTiers
  <2>10. Has(c, "wor") => TextsOf(WorTierWords(c)) = TextsOf(WorWords(c))
    <3> SUFFICES ASSUME NEW l \in DOMAIN c.tiers, c.tiers[l].label = "wor"
                 PROVE  TextsOf(WorTierWords(c)) = TextsOf(WorWords(c))
      BY DEF Has
    <3>1. Content(c, "wor") = part
      BY <2>5, <2>9, ContentOf
    <3>2. WorTierWords(c) = Picked(part, Texted(part))
      BY <3>1 DEF WorTierWords, Texted
    <3>3. WorWords(c) = FlattenSeq(WorsOf(c.items))
      BY DEF WorWords, WorsOf
    <3>4. QED
      BY <2>2, <3>2, <3>3, Zenon
  <2>11. Described(c)
    BY <1>6, <2>7, <2>10 DEF Described, EndsWell
  <2>12. Sound(c)
    BY <1>7, <2>2, <2>5, <2>7, <2>9, <2>11 DEF Sound, OneEach, ItemsTexted
  <2>13. QED
    BY <2>8, <2>12 DEF Inherits
<1>11. QED
  BY <1>9, <1>10

\* An utterance that is sound, and has of the tiers that only a translation and a
\* coreference write those in L.
Allowed(utt, L) == Sound(utt) /\ \A label \in {"xtra", "xcor"} : Has(utt, label) => label \in L
AllAllowed(us, L) == \A u \in DOMAIN us : Allowed(us[u], L)
Pieces(ss, L) == \A u \in DOMAIN ss : Utterances(ss[u]) /\ AllAllowed(ss[u], L)

\* An utterance on its own.
LEMMA OneAllowed ==
  ASSUME NEW utt, NEW L, Allowed(utt, L)
  PROVE  AllAllowed(<<utt>>, L)
BY OneIsListing DEF AllAllowed

\* A child has no more tiers than its utterance may have.
LEMMA InheritsAllowed ==
  ASSUME NEW utt, NEW L, Allowed(utt, L), NEW c, Inherits(c, utt)
  PROVE  Allowed(c, L)
BY DEF Allowed, Inherits

\* A split of a sound utterance is of sound ones.
LEMMA SplitAllowed ==
  ASSUME NEW utt, IsUtterance(utt), NEW a, Numbered(a), Rising(a), NEW L, Allowed(utt, L)
  PROVE  AllAllowed(Split(utt, a), L)
<1> DEFINE group == GroupOf(utt.items, a)
           n == Cardinality(Filled(utt.items, group))
           ch == Grouped(utt, group)
<1>1. Split(utt, a) = <<utt>> \/ Split(utt, a) = ch
  BY DEF Split
<1>2. Rising(group) /\ group \in [DOMAIN utt.items -> Nat] /\ ItemsHold(utt.items)
  BY GroupRises DEF IsUtterance
<1>3. n \in Nat /\ Filled(utt.items, group) \subseteq Nat /\ IsFiniteSet(Filled(utt.items, group))
  <2> HIDE DEF group
  <2>1. QED
    BY <1>2, FilledFacts
<1>4. group = GroupOf(utt.items, a) /\ n = Cardinality(Filled(utt.items, group)) /\ ch = Grouped(utt, group)
  OBVIOUS
<1> HIDE DEF group, n, ch
<1>5. /\ n = 0 => ch = <<utt>>
      /\ n # 0 => /\ n \in Nat /\ 1 <= n /\ ch = [k \in 1..n |-> ch[k]]
                  /\ \A k \in 1..n : ChildIs(ch[k], utt, group, k, n)
  BY <1>2, <1>4, GroupedFacts
<1>6. Sound(utt)
  BY DEF Allowed
<1>7. ASSUME n # 0 PROVE AllAllowed(ch, L)
  <2>1. DOMAIN ch = 1..n
    BY <1>5, <1>7
  <2>2. ASSUME NEW k \in 1..n PROVE Allowed(ch[k], L)
    <3> DEFINE c == ch[k]
    <3>1. ChildIs(c, utt, group, k, n)
      BY <1>5, <1>7
    <3> HIDE DEF c
    <3>2. Inherits(c, utt)
      BY <1>2, <1>3, <1>4, <1>6, <3>1, ChildSound
    <3>3. Allowed(c, L)
      BY <3>2, InheritsAllowed
    <3>4. QED
      BY <3>3 DEF c
  <2>3. QED
    BY <2>1, <2>2 DEF AllAllowed
<1>8. QED
  BY <1>1, <1>5, <1>7, OneAllowed

\* Sound utterances one after the other.
LEMMA FlatAllowed ==
  ASSUME NEW n \in Nat, NEW ss, ss = [u \in 1..n |-> ss[u]], NEW L, Pieces(ss, L)
  PROVE  AllAllowed(FlattenSeq(ss), L)
<1>1. Listing(ss) /\ DOMAIN ss = 1..n
  BY FunctionIsListing
<1>2. \A k \in DOMAIN FlattenSeq(ss) :
         \E i \in DOMAIN ss : \E j \in DOMAIN ss[i] : FlattenSeq(ss)[k] = ss[i][j]
  <2>1. \A i \in DOMAIN ss : Listing(ss[i])
    BY DEF Utterances, Pieces
  <2>2. QED
    BY <1>1, <2>1, FlattenFacts
<1>3. QED
  BY <1>2 DEF AllAllowed, Pieces

\* Segments that rise.
Ascends(a) == Numbered(a) /\ Rising(a)

\* A segmentation that splits leaves sound utterances.
LEMMA ApplySplitsAllowed ==
  ASSUME NEW f, IsTranscript(f), NEW map, \A u \in DOMAIN map : Ascends(map[u]),
         NEW L, AllAllowed(f.utts, L)
  PROVE  AllAllowed(ApplySplits(f, map).utts, L)
<1> DEFINE us == f.utts
           n == Len(us)
           ss == [u \in DOMAIN us |-> IF u \in DOMAIN map THEN Split(us[u], map[u]) ELSE <<us[u]>>]
<1>1. n \in Nat /\ DOMAIN us = 1..n /\ \A u \in DOMAIN us : IsUtterance(us[u])
  BY UtterancesOf
<1>2. ApplySplits(f, map).utts = FlattenSeq(ss)
  <2>1. ApplySplits(f, map) = [f EXCEPT !.utts = FlattenSeq(ss)]
    BY DEF ApplySplits
  <2> HIDE DEF ss
  <2>2. \A x : [f EXCEPT !.utts = x].utts = x
    BY DEF IsTranscript
  <2>3. QED
    BY <2>1, <2>2
<1>3. ASSUME NEW u \in 1..n PROVE Utterances(ss[u]) /\ AllAllowed(ss[u], L)
  <2>1. IsUtterance(us[u]) /\ Allowed(us[u], L)
    BY <1>1 DEF AllAllowed
  <2>2. Utterances(<<us[u]>>) /\ AllAllowed(<<us[u]>>, L)
    <3> HIDE DEF us
    <3>1. QED
      BY <2>1, OneIsListing, OneAllowed DEF Utterances
  <2>3. u \in DOMAIN map => Utterances(Split(us[u], map[u])) /\ AllAllowed(Split(us[u], map[u]), L)
    <3> SUFFICES ASSUME u \in DOMAIN map
                 PROVE  Utterances(Split(us[u], map[u])) /\ AllAllowed(Split(us[u], map[u]), L)
      OBVIOUS
    <3>1. Numbered(map[u]) /\ Rising(map[u])
      BY DEF Ascends
    <3>2. 1 \in 1..4
      OBVIOUS
    <3> HIDE DEF us
    <3>3. AllAllowed(Split(us[u], map[u]), L)
      BY <2>1, <3>1, SplitAllowed
    <3>4. Utterances(Split(us[u], map[u]))
      BY <2>1, <3>1, <3>2, SplitKeeps
    <3>5. QED
      BY <3>3, <3>4
  <2>4. ss[u] = IF u \in DOMAIN map THEN Split(us[u], map[u]) ELSE <<us[u]>>
    BY <1>1
  <2> HIDE DEF ss, us
  <2>5. QED
    BY <2>2, <2>3, <2>4
<1>4. ss = [u \in 1..n |-> ss[u]] /\ DOMAIN ss = 1..n
  BY <1>1
<1> HIDE DEF ss, n, us
<1>5. Pieces(ss, L)
  BY <1>3, <1>4 DEF Pieces
<1>6. QED
  BY <1>1, <1>2, <1>4, <1>5, FlatAllowed

(***************************************************************************)
(* What a diarization makes of sound utterances.                           *)
(***************************************************************************)

\* Only items and tiers make an utterance sound.
LEMMA SameAllowed ==
  ASSUME NEW utt, NEW L, Allowed(utt, L), NEW v, v.items = utt.items, v.tiers = utt.tiers
  PROVE  Allowed(v, L)
<1>1. \A label : (Has(v, label) <=> Has(utt, label)) /\ Content(v, label) = Content(utt, label)
  BY DEF Has, Content
<1>2. MorWords(v) = MorWords(utt) /\ WorWords(v) = WorWords(utt) /\ Units(v) = Units(utt)
  BY DEF MorWords, WorWords, Units
<1>3. WorTierWords(v) = WorTierWords(utt)
  BY <1>1 DEF WorTierWords
<1>4. Described(v)
  BY <1>1, <1>2, <1>3, Zenon DEF Allowed, Sound, Described, ItemsTexted, EndsWell
<1>5. Sound(v)
  BY <1>1, <1>4 DEF Allowed, Sound, ItemsTexted
<1>6. QED
  BY <1>1, <1>5 DEF Allowed

\* So one of another speaker is.
LEMMA RenamedAllowed ==
  ASSUME NEW utt, IsUtterance(utt), NEW L, Allowed(utt, L), NEW s
  PROVE  Allowed([utt EXCEPT !.speaker = s], L)
<1> DEFINE v == [utt EXCEPT !.speaker = s]
<1>1. v.items = utt.items /\ v.tiers = utt.tiers
  BY DEF IsUtterance
<1> HIDE DEF v
<1>2. Allowed(v, L)
  BY <1>1, SameAllowed
<1>3. QED
  BY <1>2 DEF v

\* So is one of another speaker and bullet.
LEMMA RevoicedAllowed ==
  ASSUME NEW utt, IsUtterance(utt), NEW L, Allowed(utt, L), NEW time, NEW segs, NEW codeOf
  PROVE  Allowed(Revoiced(utt, time, segs, codeOf), L)
<1> DEFINE v == Revoiced(utt, time, segs, codeOf)
<1>1. v.items = utt.items /\ v.tiers = utt.tiers
  BY DEF IsUtterance, Revoiced
<1> HIDE DEF v
<1>2. Allowed(v, L)
  BY <1>1, SameAllowed
<1>3. QED
  BY <1>2 DEF v

\* A diarization leaves sound utterances.
LEMMA DiarizedAllowed ==
  ASSUME NEW us, Utterances(us), NEW L, AllAllowed(us, L), NEW segs, NEW codeOf
  PROVE  AllAllowed(Diarized(us, segs, codeOf), L)
<1> DEFINE n == Len(us)
           ss == [u \in DOMAIN us |-> Split(us[u], SpeakerAssignments(us[u], segs))]
           flat == FlattenSeq(ss)
           voiced == RevoicedAll(flat, segs, codeOf)
<1>1. n \in Nat /\ DOMAIN us = 1..n /\ \A u \in DOMAIN us : IsUtterance(us[u]) /\ Allowed(us[u], L)
  BY ListingFacts DEF Utterances, AllAllowed
<1>2. ss = [u \in 1..n |-> ss[u]] /\ DOMAIN ss = 1..n
  BY <1>1
<1>3. ASSUME NEW u \in 1..n PROVE Utterances(ss[u]) /\ AllAllowed(ss[u], L)
  <2>1. ss[u] = Split(us[u], SpeakerAssignments(us[u], segs)) /\ IsUtterance(us[u]) /\ Allowed(us[u], L)
    BY <1>1
  <2> HIDE DEF ss
  <2>2. Numbered(SpeakerAssignments(us[u], segs)) /\ Rising(SpeakerAssignments(us[u], segs))
    BY <2>1, SpeakersRise
  <2>3. AllAllowed(Split(us[u], SpeakerAssignments(us[u], segs)), L)
    BY <2>1, <2>2, SplitAllowed
  <2>4. 1 \in 1..4
    OBVIOUS
  <2>5. Utterances(Split(us[u], SpeakerAssignments(us[u], segs)))
    BY <2>1, <2>2, <2>4, SplitKeeps
  <2>6. QED
    BY <2>1, <2>3, <2>5
<1>4. Diarized(us, segs, codeOf) = voiced
  BY DEF Diarized
<1> HIDE DEF ss, n
<1>5. Pieces(ss, L)
  BY <1>2, <1>3 DEF Pieces
<1>6. AllAllowed(flat, L)
  BY <1>1, <1>2, <1>5, FlatAllowed
<1>7. Utterances(flat)
  BY <1>1, <1>2, <1>3, FlatUtterances
<1> HIDE DEF flat
<1>8. \A u \in DOMAIN flat : IsUtterance(flat[u]) /\ Allowed(flat[u], L)
  BY <1>6, <1>7 DEF Utterances, AllAllowed
<1>9. AllAllowed(voiced, L)
  <2>1. \A utt, time : IsUtterance(utt) /\ Allowed(utt, L) => Allowed(Revoiced(utt, time, segs, codeOf), L)
    BY RevoicedAllowed
  <2>2. QED
    BY <1>8, <2>1 DEF RevoicedAll, AllAllowed
<1>10. QED
  BY <1>4, <1>9

\* So does a relabelling by it.
LEMMA RelabelledAllowed ==
  ASSUME NEW f, IsTranscript(f), NEW segs, Relabelled(f, segs) # None, NEW L, AllAllowed(f.utts, L)
  PROVE  AllAllowed(Relabelled(f, segs).utts, L)
<1>1. ASSUME NEW us, Utterances(us), AllAllowed(us, L), NEW codes, MovedDown(f, us, codes) # None
      PROVE  AllAllowed(MovedDown(f, us, codes).utts, L)
  <2> DEFINE spoken == Spoken(us, codes)
             projected(c) == IF c \in Range(spoken)
                             THEN CodeAt(f.participants, Min({k \in DOMAIN spoken : spoken[k] = c}) - 1)
                             ELSE c
             moved == [u \in DOMAIN us |-> [us[u] EXCEPT !.speaker = projected(@)]]
  <2>1. PICK ps : MovedDown(f, us, codes) = [f EXCEPT !.utts = moved, !.participants = ps]
    BY <1>1 DEF MovedDown
  <2>2. DOMAIN moved = DOMAIN us /\ \A u \in DOMAIN us : Allowed(moved[u], L)
    BY <1>1, RenamedAllowed DEF Utterances, AllAllowed
  <2> HIDE DEF moved
  <2>3. [f EXCEPT !.utts = moved, !.participants = ps].utts = moved
    BY DEF IsTranscript
  <2>4. AllAllowed(moved, L)
    BY <2>2 DEF AllAllowed
  <2>5. QED
    BY <2>1, <2>3, <2>4
<1>2. CASE segs = <<>>
  BY <1>2 DEF Relabelled
<1>3. CASE segs # <<>>
  <2>1. PICK codeOf, codes : Relabelled(f, segs) = MovedDown(f, Diarized(f.utts, segs, codeOf), codes)
    BY <1>3 DEF Relabelled
  <2>2. Utterances(Diarized(f.utts, segs, codeOf)) /\ Utterances(f.utts)
    BY UtterancesOf, DiarizedUtterances
  <2>3. AllAllowed(Diarized(f.utts, segs, codeOf), L)
    BY <2>2, DiarizedAllowed
  <2>4. QED
    BY <1>1, <2>1, <2>2, <2>3
<1>4. QED
  BY <1>2, <1>3

(***************************************************************************)
(* What tiers make of a sound utterance.                                   *)
(***************************************************************************)

\* Tiers that describe the utterance they are added to.
Describes(ts, utt) ==
  \A i \in DOMAIN ts :
    /\ ts[i].label # "wor"
    /\ ts[i].label = "mor" => TextsOf(ts[i].content) = TextsOf(MorWords(utt)) /\ Labelled(ts, "gra")
    /\ ts[i].label = "gra" => Labelled(ts, "mor")
    /\ ts[i].label = "pho" => Len(ts[i].content) = Len(Units(utt))

\* Tiers that describe an utterance, of labels it has not, leave it sound.
LEMMA WithAllowed ==
  ASSUME NEW utt, IsUtterance(utt), NEW L, Allowed(utt, L),
         NEW ts, Listing(ts), OneEach(ts), Apart(utt.tiers, ts), Describes(ts, utt),
         NEW M, L \subseteq M, \A label \in {"xtra", "xcor"} : Labelled(ts, label) => label \in M
  PROVE  Allowed(With(utt, ts), M)
<1> DEFINE v == With(utt, ts)
           a == utt.tiers
           c == v.tiers
<1>1. v.items = utt.items /\ c = a \o ts
  <2>1. PICK sp, la, it, li, po, te, bu, ti :
          utt = [speaker |-> sp, lang |-> la, items |-> it, linkers |-> li,
                 postcodes |-> po, term |-> te, bullet |-> bu, tiers |-> ti]
    BY DEF IsUtterance
  <2>2. v = [utt EXCEPT !.tiers = ti \o ts]
    BY <2>1 DEF With
  <2>3. QED
    BY <2>1, <2>2
<1>2. MorWords(v) = MorWords(utt) /\ WorWords(v) = WorWords(utt) /\ Units(v) = Units(utt)
  BY <1>1 DEF MorWords, WorWords, Units
<1>3. Listing(a) /\ OneEach(a)
  BY DEF IsUtterance, Allowed, Sound, OneEach, ItemsTexted
<1>4. Sound(utt)
  BY DEF Allowed
<1>5. HoldsBoth(c, a, ts)
  <2>1. Apart(a, ts)
    OBVIOUS
  <2> HIDE DEF c, a
  <2>2. QED
    BY <1>1, <1>3, <2>1, TiersJoined
<1> HIDE DEF v
<1>6. Listing(c) /\ OneEach(c)
  BY <1>5 DEF HoldsBoth
<1>7. \A k \in DOMAIN c : (\E i \in DOMAIN a : c[k] = a[i]) \/ (\E j \in DOMAIN ts : c[k] = ts[j])
  BY <1>5, Zenon DEF HoldsBoth
<1>8. /\ \A i \in DOMAIN a : \E k \in DOMAIN c : c[k] = a[i]
      /\ \A j \in DOMAIN ts : \E k \in DOMAIN c : c[k] = ts[j]
  BY <1>5, Zenon DEF HoldsBoth
<1>9. \A l : Has(v, l) <=> Has(utt, l) \/ Labelled(ts, l)
  BY <1>7, <1>8 DEF Has, Labelled
<1>10. ASSUME NEW l, Has(utt, l) PROVE Content(v, l) = Content(utt, l)
  <2>1. PICK i \in DOMAIN a : a[i].label = l
    BY <1>10 DEF Has
  <2>2. PICK k \in DOMAIN c : c[k] = a[i]
    BY <1>8
  <2>3. Content(utt, l) = a[i].content
    BY <1>3, <2>1, ContentOf
  <2>4. Content(v, l) = c[k].content
    BY <1>6, <2>1, <2>2, ContentOf
  <2>5. QED
    BY <2>2, <2>3, <2>4
<1>11. ASSUME NEW l, Labelled(ts, l) PROVE \E i \in DOMAIN ts : ts[i].label = l /\ Content(v, l) = ts[i].content
  <2>1. PICK i \in DOMAIN ts : ts[i].label = l
    BY <1>11 DEF Labelled
  <2>2. PICK k \in DOMAIN c : c[k] = ts[i]
    BY <1>8
  <2>3. Content(v, l) = c[k].content
    BY <1>6, <2>1, <2>2, ContentOf
  <2>4. QED
    BY <2>1, <2>2, <2>3
<1> HIDE DEF a, c
<1>12. Has(v, "mor") => TextsOf(Content(v, "mor")) = TextsOf(MorWords(v)) /\ Has(v, "gra")
  <2>1. CASE Has(utt, "mor")
    BY <1>2, <1>4, <1>9, <1>10, <2>1 DEF Sound, Described, ItemsTexted, EndsWell
  <2>2. CASE Labelled(ts, "mor")
    BY <1>2, <1>9, <1>11, <2>2 DEF Describes
  <2>3. QED
    BY <1>9, <2>1, <2>2
<1>13. Has(v, "gra") => Has(v, "mor")
  <2>1. Has(utt, "gra") => Has(utt, "mor")
    BY <1>4 DEF Sound, ItemsTexted
  <2>2. Labelled(ts, "gra") => Labelled(ts, "mor")
    BY DEF Describes, Labelled
  <2>3. QED
    BY <1>9, <2>1, <2>2
<1>14. Has(v, "wor") => TextsOf(WorTierWords(v)) = TextsOf(WorWords(v))
  <2>1. ~Labelled(ts, "wor")
    BY DEF Describes, Labelled
  <2>2. Has(v, "wor") => Has(utt, "wor")
    BY <1>9, <2>1
  <2>3. Has(utt, "wor") => WorTierWords(v) = WorTierWords(utt)
    BY <1>10 DEF WorTierWords
  <2>4. Has(utt, "wor") => TextsOf(WorTierWords(utt)) = TextsOf(WorWords(utt))
    BY <1>4 DEF Sound, Described, ItemsTexted, EndsWell
  <2>5. QED
    BY <1>2, <2>2, <2>3, <2>4
<1>15. Has(v, "pho") => Len(Content(v, "pho")) = Len(Units(v))
  <2>1. CASE Has(utt, "pho")
    BY <1>2, <1>4, <1>10, <2>1 DEF Sound, Described, ItemsTexted, EndsWell
  <2>2. CASE Labelled(ts, "pho")
    BY <1>2, <1>11, <2>2 DEF Describes
  <2>3. QED
    BY <1>9, <2>1, <2>2
<1>16. EndsWell(v.items)
  BY <1>1, <1>4 DEF Sound, Described, EndsWell, ItemsTexted
<1>17. Described(v)
  BY <1>12, <1>14, <1>15, <1>16 DEF Described, EndsWell
<1>18. \A i \in DOMAIN v.tiers : v.tiers[i].label = "wor" => Listing(v.tiers[i].content)
  <2>1. \A i \in DOMAIN a : a[i].label = "wor" => Listing(a[i].content)
    BY <1>4 DEF Sound, a, ItemsTexted
  <2>2. \A i \in DOMAIN ts : ts[i].label # "wor"
    BY DEF Describes
  <2>3. \A k \in DOMAIN c : c[k].label = "wor" => Listing(c[k].content)
    BY <1>7, <2>1, <2>2
  <2>4. QED
    BY <2>3 DEF c
<1>19. Sound(v)
  <2>1. \A i \in DOMAIN v.items : \A k \in DOMAIN v.items[i].words : v.items[i].words[k].text # None
    BY <1>1, <1>4 DEF Sound, ItemsTexted
  <2>2. OneEach(v.tiers)
    BY <1>6 DEF c
  <2>3. QED
    BY <1>13, <1>17, <1>18, <2>1, <2>2 DEF Sound, OneEach, ItemsTexted
<1>20. \A label \in {"xtra", "xcor"} : Has(v, label) => label \in M
  BY <1>9 DEF Allowed
<1>21. QED
  BY <1>19, <1>20 DEF Allowed, v

(***************************************************************************)
(* What a new segmentation makes of sound utterances.                      *)
(***************************************************************************)

\* What a new utterance is made of, when its text reads as its words.
Reads(n) ==
  /\ NewHolds(n) /\ ReadsAsWords(n.items, n.words) /\ ItemsTexted(n.items)
  /\ \A k \in DOMAIN n.words : n.words[k].text # None

\* An utterance of words and items anew: a %wor tier, if any, is of the words.
LEMMA FreshAllowed ==
  ASSUME NEW utt, NEW n, Reads(n), NEW L
  PROVE  Allowed(Fresh(utt, n), L)
<1> DEFINE words == n.words
           m == Len(words)
           v == Fresh(utt, n)
           wor == [k \in DOMAIN words |-> [text |-> words[k].text,
                                           time |-> IF words[k].time.end > words[k].time.start
                                                    THEN words[k].time ELSE None]]
<1>1. m \in Nat /\ DOMAIN words = 1..m
  BY ListingFacts DEF Reads, NewHolds
<1>2. v.items = n.items /\ v.tiers = WordTimings(words)
  BY DEF Fresh
<1>3. v.tiers = <<>> \/ v.tiers = <<Tier("wor", wor)>>
  BY <1>2 DEF WordTimings
<1>4. wor = [k \in 1..m |-> wor[k]]
  BY <1>1
<1>5. Listing(wor) /\ DOMAIN wor = 1..m
  <2> HIDE DEF wor, m
  <2>1. QED
    BY <1>1, <1>4, FunctionIsListing
<1>6. \A k \in 1..m : wor[k].text = words[k].text /\ words[k].text # None
  BY <1>1 DEF Reads
<1>7. /\ EndsWell(v.items) /\ ItemsTexted(v.items)
      /\ v.tiers # <<>> => TextsOf(words) = TextsOf(WorWords(v))
  BY <1>2 DEF Reads, ReadsAsWords, WorWords
<1> HIDE DEF v, wor, m, words
<1>11. ASSUME v.tiers = <<>> PROVE Allowed(v, L)
  <2>1. DOMAIN v.tiers = {}
    BY <1>11, EmptyIsListing
  <2>2. \A l : ~Has(v, l)
    BY <2>1 DEF Has
  <2>3. Described(v)
    BY <1>7, <2>2 DEF Described
  <2>4. QED
    BY <1>7, <2>1, <2>2, <2>3 DEF Allowed, Sound
<1>12. ASSUME v.tiers = <<Tier("wor", wor)>> PROVE Allowed(v, L)
  <2>1. DOMAIN v.tiers = {1} /\ v.tiers[1].label = "wor" /\ v.tiers[1].content = wor /\ Listing(v.tiers)
    BY <1>12, OneIsListing DEF Tier
  <2>2. \A l : Has(v, l) => l = "wor"
    BY <2>1 DEF Has
  <2>3. OneEach(v.tiers)
    BY <2>1 DEF OneEach
  <2>4. Content(v, "wor") = wor
    <3>1. 1 \in DOMAIN v.tiers
      BY <2>1
    <3>2. QED
      BY <2>1, <2>3, <3>1, ContentOf
  <2>5. WorTierWords(v) = Picked(wor, {i \in DOMAIN wor : wor[i].text # None})
    BY <2>4 DEF WorTierWords
  <2>6. {i \in DOMAIN wor : wor[i].text # None} = DOMAIN wor
    BY <1>5, <1>6
  <2>7. WorTierWords(v) = wor
    BY <1>5, <2>5, <2>6, PickedWhole
  <2>8. TextsOf(wor) = TextsOf(words)
    BY <1>1, <1>5, <1>6 DEF TextsOf
  <2>9. TextsOf(WorTierWords(v)) = TextsOf(WorWords(v))
    <3>1. v.tiers # <<>>
      BY <2>1, EmptyIsListing
    <3>2. QED
      BY <1>7, <2>7, <2>8, <3>1
  <2>10. ~Has(v, "mor") /\ ~Has(v, "gra") /\ ~Has(v, "pho") /\ ~Has(v, "xtra") /\ ~Has(v, "xcor")
    BY <2>2
  <2>11. Described(v)
    BY <1>7, <2>9, <2>10 DEF Described
  <2>12. Sound(v)
    BY <1>5, <1>7, <2>1, <2>3, <2>10, <2>11 DEF Sound, OneEach
  <2>13. QED
    BY <2>10, <2>12 DEF Allowed
<1>13. Allowed(v, L)
  BY <1>3, <1>11, <1>12
<1>14. QED
  BY <1>13 DEF v

\* The words of a sound utterance, read again, are those words.
LEMMA RowReads ==
  ASSUME NEW utt, IsUtterance(utt), NEW L, Allowed(utt, L), MorWords(utt) # <<>>
  PROVE  LET n == [items |-> ReadAgain(Row(utt)), words |-> Row(utt), term |-> ".", bullet |-> None]
         IN Reads(n)
<1> DEFINE row == Row(utt)
           items == ReadAgain(row)
           ws == [k \in DOMAIN row |-> [text |-> row[k].text, time |-> None]]
           n == [items |-> items, words |-> row, term |-> ".", bullet |-> None]
           m == Len(row)
<1>1. Listing(row) /\ Clocked(row)
  BY RowFacts
<1>2. m \in Nat /\ DOMAIN row = 1..m
  BY <1>1, ListingFacts
<1>3. m # 0
  <2>1. DOMAIN row = DOMAIN MorWords(utt) /\ Listing(MorWords(utt))
    BY MorWordsIsListing DEF Row, IsUtterance
  <2>2. Len(MorWords(utt)) \in Nat /\ MorWords(utt) = [k \in 1..Len(MorWords(utt)) |-> MorWords(utt)[k]]
        /\ DOMAIN MorWords(utt) = 1..Len(MorWords(utt))
    BY <2>1, ListingFacts
  <2>3. Len(MorWords(utt)) # 0
    BY <2>2
  <2>4. 1 \in DOMAIN row
    BY <2>1, <2>2, <2>3
  <2> HIDE DEF row, m
  <2>5. QED
    BY <1>2, <2>4
<1>4. \A k \in DOMAIN row : row[k].text # None
  <2>1. \A k \in DOMAIN MorWords(utt) : MorWords(utt)[k].text # None
    <3> DEFINE ss == [i \in DOMAIN utt.items |-> MorOf(utt.items[i])]
    <3>1. ItemsHold(utt.items) /\ Len(utt.items) \in Nat /\ DOMAIN utt.items = 1..Len(utt.items)
      BY ListingFacts DEF ItemsHold, IsUtterance
    <3>2. ss = [i \in 1..Len(utt.items) |-> ss[i]] /\ DOMAIN ss = DOMAIN utt.items
      BY <3>1
    <3>3. \A i \in DOMAIN ss : Listing(ss[i])
      BY <3>1, MorIsListing
    <3>4. \A i \in DOMAIN ss : \A j \in DOMAIN ss[i] : ss[i][j].text # None
      <4>1. \A i \in DOMAIN utt.items : \A k \in DOMAIN utt.items[i].words : utt.items[i].words[k].text # None
        BY DEF Allowed, Sound, ItemsTexted
      <4>2. QED
        BY <4>1, EmptyIsListing DEF MorOf
    <3>5. MorWords(utt) = FlattenSeq(ss)
      BY DEF MorWords
    <3> HIDE DEF ss
    <3>6. Listing(ss)
      BY <3>1, <3>2, FunctionIsListing
    <3>7. QED
      BY <3>3, <3>4, <3>5, <3>6, FlattenFacts
  <2>2. QED
    BY <2>1 DEF Row
<1> HIDE DEF row
<1>5. /\ ItemsHold(items) /\ ItemsClocked(items) /\ DOMAIN items = 1..m
  BY <1>1, <1>2, ReadAgainHolds
<1>6. \A k \in 1..m : items[k].kind = "word" /\ items[k].words = <<ws[k]>> /\ ws[k].text = row[k].text
  BY <1>2 DEF ReadAgain
<1>7. Listing(ws) /\ DOMAIN ws = 1..m
  <2>1. ws = [k \in 1..m |-> ws[k]]
    BY <1>2
  <2> HIDE DEF ws, m
  <2>2. QED
    BY <1>2, <2>1, FunctionIsListing
<1> HIDE DEF items, ws, m
<1>8. ItemsTexted(items)
  BY <1>2, <1>4, <1>5, <1>6, OneIsListing DEF ItemsTexted
<1>9. EndsWell(items)
  <2>1. m \in 1..m /\ \A j \in 1..m : ~(j > m)
    BY <1>2, <1>3
  <2>2. QED
    BY <1>5, <1>6, <2>1 DEF EndsWell
<1>10. TextsOf(row) = TextsOf(FlattenSeq([i \in DOMAIN items |-> WorOf(items[i])]))
  <2>1. [i \in DOMAIN items |-> WorOf(items[i])] = Singles(ws)
    BY <1>5, <1>6, <1>7 DEF WorOf, Singles
  <2>2. FlattenSeq(Singles(ws)) = ws
    BY <1>7, FlattenSingles
  <2>3. TextsOf(ws) = TextsOf(row)
    BY <1>2, <1>6, <1>7 DEF TextsOf
  <2>4. QED
    BY <2>1, <2>2, <2>3
<1>11. IsTime(None)
  BY DEF IsTime
<1>12. Reads(n)
  BY <1>1, <1>4, <1>5, <1>8, <1>9, <1>10, <1>11 DEF Reads, NewHolds, ReadsAsWords
<1>13. QED
  BY <1>12 DEF items, row

\* The new utterances of an answer whose texts read as its words.
LEMMA NewUtterancesRead ==
  ASSUME NEW utt, IsUtterance(utt), NEW L, Allowed(utt, L),
         NEW answer, Decodes("utseg", answer), NEW request, Fair("utseg", request, answer),
         NEW s \in DOMAIN NewUtterances(utt, answer)
  PROVE  Reads(NewUtterances(utt, answer)[s])
<1> DEFINE new == NewUtterances(utt, answer)
           I == {k \in DOMAIN answer : answer[k].items # <<>>}
           spans == Picked(answer, I)
<1>1. /\ Listing(answer)
      /\ \A k \in DOMAIN answer : /\ \A w \in DOMAIN answer[k].words : answer[k].words[w].text # None
                                  /\ ItemsTexted(answer[k].items)
      /\ \A k \in I : ReadsAsWords(answer[k].items, answer[k].words)
  BY DEF Decodes, Fair
<1>2. NewHolds(new[s])
  BY NewUtterancesHold
<1>3. CASE answer = <<>>
  <2> DEFINE x == [items |-> ReadAgain(Row(utt)), words |-> Row(utt), term |-> ".", bullet |-> None]
  <2>1. MorWords(utt) # <<>> => Reads(x)
    BY RowReads
  <2>2. new = IF MorWords(utt) = <<>> THEN <<>> ELSE <<x>>
    BY <1>3 DEF NewUtterances
  <2>3. s \in DOMAIN new
    OBVIOUS
  <2> HIDE DEF new, x
  <2>4. MorWords(utt) # <<>>
    BY <2>2, <2>3, EmptyIsListing
  <2>5. new[s] = x
    BY <2>2, <2>3, <2>4, OneIsListing
  <2>6. QED
    BY <2>1, <2>4, <2>5 DEF new
<1>4. CASE answer # <<>>
  <2>1. \A k \in DOMAIN spans : \E i \in I : spans[k] = answer[i]
    <3>1. I \subseteq DOMAIN answer
      OBVIOUS
    <3> HIDE DEF I
    <3>2. QED
      BY <1>1, <3>1, PickedFacts
  <2>2. new = [k \in DOMAIN spans |->
                 [items |-> spans[k].items, words |-> spans[k].words,
                  term |-> IF spans[k].term = None THEN "." ELSE spans[k].term,
                  bullet |-> IF spans[k].window = Untimed THEN None ELSE spans[k].window]]
    BY <1>4 DEF NewUtterances
  <2>3. s \in DOMAIN spans /\ new[s].words = spans[s].words /\ new[s].items = spans[s].items
    <3>1. s \in DOMAIN new
      OBVIOUS
    <3> HIDE DEF new, spans
    <3>2. QED
      BY <2>2, <3>1
  <2> HIDE DEF spans
  <2>4. PICK i \in I : spans[s] = answer[i]
    BY <2>1, <2>3
  <2> HIDE DEF new
  <2>5. Reads(new[s])
    BY <1>1, <1>2, <2>3, <2>4 DEF Reads
  <2>6. QED
    BY <2>5 DEF new
<1>5. QED
  BY <1>3, <1>4

\* A file built anew from such answers is of sound utterances.
LEMMA RebuiltAllowed ==
  ASSUME NEW f, IsTranscript(f), NEW as, NEW rs,
         \A u \in DOMAIN f.utts : Decodes("utseg", as[u]) /\ Fair("utseg", rs[u], as[u]),
         NEW bad, Rebuilt(f, as, bad) # None, NEW L, AllAllowed(f.utts, L)
  PROVE  AllAllowed(Rebuilt(f, as, bad).utts, L)
<1> DEFINE n == Len(f.utts)
           newOf(u) == NewUtterances(f.utts[u], as[u])
           ss == [u \in DOMAIN f.utts |-> [s \in DOMAIN newOf(u) |-> Fresh(f.utts[u], newOf(u)[s])]]
<1>1. n \in Nat /\ DOMAIN f.utts = 1..n /\ ss = [u \in 1..n |-> ss[u]] /\ DOMAIN ss = 1..n
  BY UtterancesOf
<1>2. ASSUME NEW u \in 1..n PROVE Utterances(ss[u]) /\ AllAllowed(ss[u], L)
  <2> DEFINE new == newOf(u)
  <2>0. /\ IsUtterance(f.utts[u]) /\ Allowed(f.utts[u], L)
        /\ Decodes("utseg", as[u]) /\ Fair("utseg", rs[u], as[u])
    BY <1>1, UtterancesOf DEF AllAllowed
  <2>1. Listing(new) /\ \A s \in DOMAIN new : NewHolds(new[s])
    BY <2>0, NewUtterancesHold
  <2>2. ss[u] = [s \in DOMAIN new |-> Fresh(f.utts[u], new[s])]
    BY <1>1
  <2>3. \A s \in DOMAIN new : Reads(new[s])
    BY <2>0, NewUtterancesRead
  <2> HIDE DEF new, ss
  <2>4. \A s \in DOMAIN new : IsUtterance(Fresh(f.utts[u], new[s])) /\ Allowed(Fresh(f.utts[u], new[s]), L)
    BY <2>1, <2>3, FreshFacts, FreshAllowed
  <2>5. Len(new) \in Nat /\ DOMAIN new = 1..Len(new)
    BY <2>1, ListingFacts
  <2>6. ss[u] = [s \in 1..Len(new) |-> ss[u][s]]
    BY <2>2, <2>5
  <2>7. Listing(ss[u]) /\ DOMAIN ss[u] = DOMAIN new
    BY <2>5, <2>6, FunctionIsListing
  <2>8. QED
    BY <2>2, <2>4, <2>7 DEF Utterances, AllAllowed
<1>3. Rebuilt(f, as, bad).utts = FlattenSeq(ss)
  BY DEF Rebuilt, AllFresh
<1> HIDE DEF ss, n
<1>4. Pieces(ss, L)
  BY <1>1, <1>2 DEF Pieces
<1>5. AllAllowed(FlattenSeq(ss), L)
  BY <1>1, <1>4, FlatAllowed
<1>6. QED
  BY <1>3, <1>5

\* So a segmentation leaves sound utterances, when its texts read as its words.
LEMMA UtsegAllowed ==
  ASSUME NEW f, IsTranscript(f), NEW as, NEW rs,
         \A u \in DOMAIN f.utts : Decodes("utseg", as[u]) /\ Fair("utseg", rs[u], as[u]),
         NEW bad, UtsegApplied(f, as, bad) # None, NEW L, AllAllowed(f.utts, L)
  PROVE  AllAllowed(UtsegApplied(f, as, bad).utts, L)
<1> DEFINE given(u) == AssignmentsFromSpans(Row(f.utts[u]), as[u])
           map == [u \in {v \in DOMAIN f.utts : given(v) # <<>>} |-> given(u)]
<1>1. CASE \E u \in DOMAIN f.utts : given(u) = None
  <2>1. UtsegApplied(f, as, bad) = Rebuilt(f, as, bad)
    BY <1>1 DEF UtsegApplied
  <2>2. Rebuilt(f, as, bad) # None
    BY <2>1
  <2>3. AllAllowed(Rebuilt(f, as, bad).utts, L)
    BY <2>2, RebuiltAllowed
  <2>4. QED
    BY <2>1, <2>3
<1>2. CASE \A u \in DOMAIN f.utts : given(u) # None
  <2>1. UtsegApplied(f, as, bad) = ApplySplits(f, map)
    BY <1>2 DEF UtsegApplied
  <2>2. \A u \in DOMAIN map : Numbered(map[u]) /\ Rising(map[u])
    BY <1>2, SpansRise
  <2>3. \A u \in DOMAIN map : Ascends(map[u])
    BY <2>2 DEF Ascends
  <2> HIDE DEF map
  <2>4. QED
    BY <2>1, <2>3, ApplySplitsAllowed
<1>3. QED
  BY <1>1, <1>2

(***************************************************************************)
(* What the annotators make of sound utterances.                           *)
(***************************************************************************)

\* An answer that tags words it was asked for, each in its place.
TagsWords(answer, tokens) ==
  \A k \in DOMAIN answer.words : k \in DOMAIN tokens /\ answer.words[k].text = tokens[k]

\* Two tiers of different labels.
LEMMA TwoTiers ==
  ASSUME NEW x, NEW y, x.label # y.label, NEW ts, ts = <<x, y>>
  PROVE  /\ Listing(ts) /\ OneEach(ts) /\ DOMAIN ts = {1, 2} /\ ts[1] = x /\ ts[2] = y
         /\ \A i \in DOMAIN ts : ts[i] = x \/ ts[i] = y
<1>1. Listing(ts) /\ Len(ts) = 2 /\ ts[1] = x /\ ts[2] = y
  BY TwoIsListing
<1>2. DOMAIN ts = 1..2
  BY <1>1, ListingFacts
<1>3. DOMAIN ts = {1, 2}
  BY <1>2
<1>4. QED
  BY <1>1, <1>3 DEF OneEach

\* What a tagger tagged describes the utterance: of as many words as it has there
\* is none without a tag, so they are its words.
LEMMA TaggedAllowed ==
  ASSUME NEW utt, IsUtterance(utt), NEW L, Allowed(utt, L), ~Has(utt, "mor"),
         NEW answer, Listing(answer.words), TagsWords(answer, TextsOf(MorWords(utt))),
         MorTiers(answer) # "error"
  PROVE  Allowed(MorOrNone(utt, answer), L)
<1> DEFINE K == {k \in DOMAIN answer.words : answer.words[k].units # <<>>}
           words == Picked(answer.words, K)
           all == answer.words
           asked == MorWords(utt)
           tokens == TextsOf(asked)
<1>1. CASE MorOrNone(utt, answer) = utt
  BY <1>1
<1>2. CASE MorOrNone(utt, answer) # utt
  <2>1. /\ MorTiers(answer) # "none" /\ MorOrNone(utt, answer) = With(utt, MorTiers(answer))
        /\ MorFits(utt, MorTiers(answer))
    BY <1>2 DEF MorOrNone
  <2>2. PICK g : MorTiers(answer) = <<Tier("mor", words), Tier("gra", g)>>
    BY <2>1 DEF MorTiers
  <2> DEFINE x == Tier("mor", words)
             y == Tier("gra", g)
             ts == <<x, y>>
  <2>3. x.label = "mor" /\ y.label = "gra" /\ x.content = words
    BY DEF Tier
  <2>4. ItemsHold(utt.items) /\ Sound(utt) /\ Listing(asked)
    BY MorWordsIsListing DEF IsUtterance, Allowed
  <2>5. ~Has(utt, "gra")
    BY <2>4 DEF Sound, ItemsTexted
  <2>6. ts = <<x, y>> /\ MorTiers(answer) = ts
    BY <2>2
  <2> HIDE DEF x, y, ts, words, K
  <2>7. /\ Listing(ts) /\ OneEach(ts) /\ DOMAIN ts = {1, 2} /\ ts[1] = x /\ ts[2] = y
        /\ \A i \in DOMAIN ts : ts[i] = x \/ ts[i] = y
    BY <2>3, <2>6, TwoTiers
  <2>8. Len(words) = Len(asked)
    BY <2>1, <2>3, <2>6, <2>7 DEF MorFits
  <2>9. /\ Len(all) \in Nat /\ DOMAIN all = 1..Len(all) /\ IsFiniteSet(DOMAIN all)
        /\ Len(asked) \in Nat /\ DOMAIN asked = 1..Len(asked)
    BY <2>4, ListingFacts
  <2>10. K \subseteq DOMAIN all
    BY DEF K
  <2>11. Len(words) = Cardinality(K)
    <3>1. Listing(words) /\ DOMAIN words = 1..Cardinality(K)
      BY <2>10, PickedFacts DEF words
    <3>2. Len(words) \in Nat /\ DOMAIN words = 1..Len(words)
      BY <3>1, ListingFacts
    <3>3. Cardinality(K) \in Nat
      BY <2>9, <2>10, FS_Subset, FS_CardinalityType
    <3>4. QED
      BY <3>1, <3>2, <3>3
  <2>12. DOMAIN tokens = DOMAIN asked /\ \A k \in DOMAIN asked : tokens[k] = asked[k].text
    BY DEF TextsOf
  <2>13. \A k \in DOMAIN all : k \in DOMAIN asked /\ all[k].text = asked[k].text
    BY <2>12 DEF TagsWords
  <2>14. Len(all) <= Len(asked)
    <3>1. CASE Len(all) = 0
      BY <2>9, <3>1
    <3>2. CASE Len(all) # 0
      <4>1. Len(all) \in DOMAIN all
        BY <2>9, <3>2
      <4>2. Len(all) \in 1..Len(asked)
        BY <2>9, <2>13, <4>1
      <4>3. QED
        BY <2>9, <4>2
    <3>3. QED
      BY <3>1, <3>2
  <2>15. Cardinality(DOMAIN all) = Len(all)
    BY <2>9, FS_Interval
  <2>16. IsFiniteSet(K) /\ Cardinality(K) <= Cardinality(DOMAIN all) /\ Cardinality(K) \in Nat
         /\ (Cardinality(K) = Cardinality(DOMAIN all) => K = DOMAIN all)
    BY <2>9, <2>10, FS_Subset, FS_CardinalityType
  <2>17. Cardinality(K) = Cardinality(DOMAIN all) /\ Len(all) = Len(asked)
    BY <2>8, <2>9, <2>11, <2>14, <2>15, <2>16
  <2>18. words = all
    <3>1. K = DOMAIN all
      BY <2>16, <2>17
    <3>2. Picked(all, DOMAIN all) = all
      BY PickedWhole
    <3>3. QED
      BY <3>1, <3>2 DEF words
  <2>19. TextsOf(words) = TextsOf(asked)
    <3>1. DOMAIN all = DOMAIN asked
      BY <2>9, <2>17
    <3>2. TextsOf(all) = TextsOf(asked)
      BY <2>13, <3>1 DEF TextsOf
    <3>3. QED
      BY <2>18, <3>2
  <2>20. Labelled(ts, "mor") /\ Labelled(ts, "gra") /\ ~Labelled(ts, "xtra") /\ ~Labelled(ts, "xcor")
    BY <2>3, <2>7 DEF Labelled
  <2>21. Describes(ts, utt)
    BY <2>3, <2>7, <2>19, <2>20 DEF Describes
  <2>22. Apart(utt.tiers, ts)
    BY <2>3, <2>5, <2>7 DEF Apart, Has
  <2>23. L \subseteq L /\ \A label \in {"xtra", "xcor"} : Labelled(ts, label) => label \in L
    BY <2>20
  <2>24. Allowed(With(utt, ts), L)
    BY <2>7, <2>21, <2>22, <2>23, WithAllowed
  <2>25. QED
    BY <2>1, <2>6, <2>24
<1>3. QED
  BY <1>1, <1>2

\* Morphosyntax leaves sound utterances when the tagger tags the words it was sent.
LEMMA MorAllowed ==
  ASSUME NEW f, IsTranscript(f), NEW rs, rs = MorRequests(f), NEW as, DOMAIN as = DOMAIN rs,
         \A i \in DOMAIN as : Listing(as[i].words) /\ TagsWords(as[i], rs[i].tokens),
         MorApplied(f, rs, as) # None, NEW L, AllAllowed(f.utts, L)
  PROVE  AllAllowed(MorApplied(f, rs, as).utts, L)
<1> DEFINE us == [u \in DOMAIN f.utts |->
                    IF AnswerFor(rs, u) = 0 THEN f.utts[u] ELSE MorOrNone(f.utts[u], as[AnswerFor(rs, u)])]
           U == {u \in DOMAIN f.utts : ~Has(f.utts[u], "mor")}
<1>1. MorApplied(f, rs, as) = [f EXCEPT !.utts = us] /\ \A i \in DOMAIN as : MorTiers(as[i]) # "error"
  BY DEF MorApplied
<1>2. U \subseteq DOMAIN f.utts /\ U \subseteq Nat /\ IsFiniteSet(U) /\ Cardinality(U) \in Nat
  <2>1. IsFiniteSet(DOMAIN f.utts) /\ DOMAIN f.utts \subseteq Nat
    BY ListingFacts DEF IsTranscript
  <2>2. U \subseteq DOMAIN f.utts
    OBVIOUS
  <2> HIDE DEF U
  <2>3. QED
    BY <2>1, <2>2, FS_Subset, FS_CardinalityType
<1>3. rs = [i \in 1..Cardinality(U) |-> MorRequest(f, Nth(U, i))]
  BY DEF MorRequests
<1>4. \A u \in U : ~Has(f.utts[u], "mor")
  OBVIOUS
<1> HIDE DEF U
<1>5. ASSUME NEW u \in DOMAIN f.utts PROVE Allowed(us[u], L)
  <2>1. IsUtterance(f.utts[u]) /\ Allowed(f.utts[u], L)
    BY UtterancesOf DEF AllAllowed
  <2>2. CASE AnswerFor(rs, u) = 0
    BY <2>1, <2>2
  <2>3. CASE AnswerFor(rs, u) # 0
    <3> DEFINE i == AnswerFor(rs, u)
    <3>1. i \in DOMAIN rs /\ rs[i].utt = u
      BY <2>3 DEF AnswerFor
    <3>2. us[u] = MorOrNone(f.utts[u], as[i])
      BY <2>3
    <3> HIDE DEF i, us
    <3>3. i \in 1..Cardinality(U) /\ rs[i] = MorRequest(f, Nth(U, i))
      BY <1>3, <3>1
    <3>4. Nth(U, i) \in U /\ rs[i].utt = Nth(U, i) /\ rs[i].tokens = TextsOf(MorWords(f.utts[Nth(U, i)]))
      <4>1. Nth(U, i) \in U
        BY <1>2, <3>3, NthFacts
      <4>2. rs[i].utt = Nth(U, i) /\ rs[i].tokens = TextsOf(MorWords(f.utts[Nth(U, i)]))
        BY <3>3 DEF MorRequest
      <4>3. QED
        BY <4>1, <4>2
    <3>5. u \in U /\ rs[i].tokens = TextsOf(MorWords(f.utts[u]))
      BY <3>1, <3>4
    <3>6. ~Has(f.utts[u], "mor")
      BY <1>4, <3>5
    <3>7. Listing(as[i].words) /\ TagsWords(as[i], TextsOf(MorWords(f.utts[u]))) /\ MorTiers(as[i]) # "error"
      BY <1>1, <3>1, <3>5
    <3>8. Allowed(MorOrNone(f.utts[u], as[i]), L)
      BY <2>1, <3>6, <3>7, TaggedAllowed
    <3>9. QED
      BY <3>2, <3>8
  <2>4. QED
    BY <2>2, <2>3
<1>6. DOMAIN us = DOMAIN f.utts
  OBVIOUS
<1> HIDE DEF us
<1>7. [f EXCEPT !.utts = us].utts = us
  BY DEF IsTranscript
<1>8. QED
  BY <1>1, <1>5, <1>6, <1>7 DEF AllAllowed

\* A tier with the text of a translation or of a coreference: there is none yet, or
\* there are two of it now.
LEMMA OneTierAllowed ==
  ASSUME NEW utt, IsUtterance(utt), NEW L, Allowed(utt, L), NEW label \in {"xtra", "xcor"}, NEW t,
         NEW M, L \subseteq M, label \in M, NEW v, v = With(utt, <<Tier(label, t)>>)
  PROVE  /\ ~Has(utt, label) => Allowed(v, M)
         /\ Has(utt, label) => ~OneEach(v.tiers)
<1> DEFINE ts == <<Tier(label, t)>>
           a == utt.tiers
           c == v.tiers
<1>1. Listing(ts) /\ DOMAIN ts = {1} /\ ts[1].label = label
  BY OneIsListing DEF Tier
<1>2. v = With(utt, ts) /\ Listing(a)
  BY DEF IsUtterance
<1>3. c = a \o ts
  <2>1. PICK sp, la, it, li, po, te, bu, ti :
          utt = [speaker |-> sp, lang |-> la, items |-> it, linkers |-> li,
                 postcodes |-> po, term |-> te, bullet |-> bu, tiers |-> ti]
    BY DEF IsUtterance
  <2>2. v = [utt EXCEPT !.tiers = ti \o ts]
    BY <2>1 DEF With
  <2>3. QED
    BY <2>1, <2>2
<1> HIDE DEF ts
<1>4. ASSUME ~Has(utt, label) PROVE Allowed(v, M)
  <2>1. Apart(utt.tiers, ts)
    BY <1>1, <1>4 DEF Apart, Has
  <2>2. OneEach(ts)
    BY <1>1 DEF OneEach
  <2>3. Describes(ts, utt)
    BY <1>1 DEF Describes
  <2>4. \A l \in {"xtra", "xcor"} : Labelled(ts, l) => l \in M
    BY <1>1 DEF Labelled
  <2>5. Allowed(With(utt, ts), M)
    BY <1>1, <2>1, <2>2, <2>3, <2>4, WithAllowed
  <2>6. QED
    BY <1>2, <2>5
<1>5. ASSUME Has(utt, label) PROVE ~OneEach(c)
  <2>1. PICK i \in DOMAIN a : a[i].label = label
    BY <1>5 DEF Has
  <2> DEFINE p == Len(a)
             q == Len(ts)
  <2> HIDE DEF c, a
  <2>2. p \in Nat /\ q \in Nat /\ DOMAIN a = 1..p /\ DOMAIN ts = 1..q
    BY <1>1, <1>2, ListingFacts
  <2>3. /\ DOMAIN (a \o ts) = 1..(p + q)
        /\ \A x \in 1..p : (a \o ts)[x] = a[x]
        /\ \A x \in 1..q : (a \o ts)[p + x] = ts[x]
    BY <1>1, <1>2, ConcatIsListing
  <2>4. /\ DOMAIN c = 1..(p + q)
        /\ \A x \in 1..p : c[x] = a[x]
        /\ \A x \in 1..q : c[p + x] = ts[x]
    BY <1>3, <2>3, Zenon
  <2> HIDE DEF p, q
  <2>5. 1 \in 1..q
    BY <1>1, <2>2
  <2>6. i \in DOMAIN c /\ p + 1 \in DOMAIN c /\ i # p + 1
    BY <2>2, <2>4, <2>5
  <2>7. c[i].label = label /\ c[p + 1].label = label
    BY <1>1, <2>1, <2>2, <2>4, <2>5
  <2>8. QED
    BY <2>6, <2>7 DEF OneEach
<1>6. QED
  BY <1>4, <1>5

\* A translation leaves sound utterances, or one with two of its tiers.
LEMMA TextsAllowed ==
  ASSUME NEW f, IsTranscript(f), NEW label \in {"xtra", "xcor"}, NEW texts,
         TextsApplied(f, label, texts) # None,
         NEW L, AllAllowed(f.utts, L), NEW M, L \subseteq M, label \in M,
         NEW us, us = TextsApplied(f, label, texts).utts
  PROVE  /\ (\A u \in DOMAIN us : OneEach(us[u].tiers)) => AllAllowed(us, M)
         /\ (\E u \in DOMAIN us : ~OneEach(us[u].tiers)) => label \in L
<1> DEFINE vs == [u \in DOMAIN f.utts |->
                    IF texts[u] = "" THEN f.utts[u] ELSE With(f.utts[u], <<Tier(label, texts[u])>>)]
<1>1. TextsApplied(f, label, texts) = [f EXCEPT !.utts = vs]
  BY DEF TextsApplied
<1>2. DOMAIN vs = DOMAIN f.utts
  OBVIOUS
<1>3. ASSUME NEW u \in DOMAIN f.utts
      PROVE  \/ Allowed(vs[u], M) /\ OneEach(vs[u].tiers)
             \/ ~OneEach(vs[u].tiers) /\ label \in L
  <2> DEFINE utt == f.utts[u]
             v == With(utt, <<Tier(label, texts[u])>>)
  <2>1. IsUtterance(utt) /\ Allowed(utt, L)
    BY UtterancesOf DEF AllAllowed
  <2>2. vs[u] = utt \/ vs[u] = v
    OBVIOUS
  <2>3. v = With(utt, <<Tier(label, texts[u])>>)
    OBVIOUS
  <2> HIDE DEF vs, utt, v
  <2>4. (~Has(utt, label) => Allowed(v, M)) /\ (Has(utt, label) => ~OneEach(v.tiers))
    BY <2>1, <2>3, OneTierAllowed
  <2>5. Has(utt, label) => label \in L
    BY <2>1 DEF Allowed
  <2>6. \A x : Allowed(x, M) => OneEach(x.tiers)
    BY DEF Allowed, Sound, OneEach, ItemsTexted
  <2>7. Allowed(utt, M)
    BY <2>1 DEF Allowed
  <2>8. QED
    BY <2>2, <2>4, <2>5, <2>6, <2>7
<1> HIDE DEF vs
<1>4. us = vs
  <2>1. [f EXCEPT !.utts = vs].utts = vs
    BY DEF IsTranscript
  <2>2. QED
    BY <1>1, <2>1
<1>5. QED
  BY <1>2, <1>3, <1>4 DEF AllAllowed

\* A phonetic transcription has as many units as were sent.
LEMMA PhoAllowed ==
  ASSUME NEW f, IsTranscript(f), NEW rs, rs = PhoRequests(f), NEW answer, Decodes("phonetic", answer),
         PhoApplied(f, rs, answer) # None, NEW L, AllAllowed(f.utts, L)
  PROVE  AllAllowed(PhoApplied(f, rs, answer).utts, L)
<1> DEFINE at(u) == {i \in DOMAIN rs : rs[i].utt = u}
           ipaOf(i) == [k \in DOMAIN answer[i].ipa |-> Ipa(f, rs[i].units[k], answer[i].ipa[k])]
           us == [u \in DOMAIN f.utts |->
                    IF at(u) = {} THEN f.utts[u] ELSE With(f.utts[u], <<Tier("pho", ipaOf(Min(at(u))))>>)]
           asked(utt) == /\ ~Has(utt, "pho") /\ Units(utt) # <<>>
                         /\ utt.bullet # None /\ utt.bullet.end > utt.bullet.start
           U == {u \in DOMAIN f.utts : asked(f.utts[u])}
<1>1. PhoApplied(f, rs, answer) = [f EXCEPT !.utts = us] /\ PhoOwned(rs, answer)
  BY DEF PhoApplied
<1>2. U \subseteq Nat /\ IsFiniteSet(U) /\ Cardinality(U) \in Nat
  <2>1. IsFiniteSet(DOMAIN f.utts) /\ DOMAIN f.utts \subseteq Nat
    BY ListingFacts DEF IsTranscript
  <2>2. U \subseteq DOMAIN f.utts
    OBVIOUS
  <2> HIDE DEF U
  <2>3. QED
    BY <2>1, <2>2, FS_Subset, FS_CardinalityType
<1>3. rs = [i \in 1..Cardinality(U) |-> [utt |-> Nth(U, i), units |-> Units(f.utts[Nth(U, i)])]]
  BY DEF PhoRequests
<1>4. \A u \in U : ~Has(f.utts[u], "pho")
  OBVIOUS
<1> HIDE DEF U, asked
<1>5. ASSUME NEW u \in DOMAIN f.utts PROVE Allowed(us[u], L)
  <2>1. IsUtterance(f.utts[u]) /\ Allowed(f.utts[u], L)
    BY UtterancesOf DEF AllAllowed
  <2>2. CASE at(u) = {}
    BY <2>1, <2>2
  <2>3. CASE at(u) # {}
    <3> DEFINE i == Min(at(u))
               ts == <<Tier("pho", ipaOf(i))>>
    <3>1. i \in DOMAIN rs /\ rs[i].utt = u
      <4>1. at(u) \subseteq DOMAIN rs /\ DOMAIN rs \subseteq Nat /\ \A j \in at(u) : rs[j].utt = u
        BY <1>3
      <4>2. at(u) \subseteq Nat
        BY <4>1
      <4> HIDE DEF at
      <4>3. i \in at(u)
        BY <2>3, <4>2, LeastElement
      <4>4. QED
        BY <4>1, <4>3
    <3>2. us[u] = With(f.utts[u], ts)
      BY <2>3
    <3>3. Listing(ts) /\ DOMAIN ts = {1} /\ ts[1].label = "pho" /\ ts[1].content = ipaOf(i)
      BY OneIsListing DEF Tier
    <3> HIDE DEF i, us, ts, at
    <3>4. i \in 1..Cardinality(U)
      BY <1>3, <3>1
    <3>5. Nth(U, i) \in U
      BY <1>2, <3>4, NthFacts
    <3>6. rs[i].utt = Nth(U, i) /\ rs[i].units = Units(f.utts[Nth(U, i)])
      BY <1>3, <3>4
    <3>7. ~Has(f.utts[u], "pho") /\ rs[i].units = Units(f.utts[u])
      BY <1>4, <3>1, <3>5, <3>6
    <3>8. Len(answer[i].ipa) = Len(rs[i].units) /\ Listing(answer[i].ipa)
      <4>1. Len(answer[i].ipa) = Len(rs[i].units) /\ Len(answer) = Len(rs)
        BY <1>1, <3>1 DEF PhoOwned
      <4>2. Listing(answer) /\ \A j \in DOMAIN answer : Listing(answer[j].ipa)
        BY DEF Decodes
      <4>3. DOMAIN answer = 1..Len(answer)
        BY <4>2, ListingFacts
      <4>4. Len(rs) = Cardinality(U) /\ DOMAIN rs = 1..Cardinality(U)
        <5>1. rs = [j \in 1..Cardinality(U) |-> rs[j]]
          BY <1>3
        <5>2. QED
          BY <1>2, <5>1, FunctionIsListing
      <4>5. QED
        BY <3>1, <4>1, <4>2, <4>3, <4>4
    <3>9. Len(ipaOf(i)) = Len(answer[i].ipa)
      <4> DEFINE s == answer[i].ipa
                 g == ipaOf(i)
      <4>1. Len(s) \in Nat /\ DOMAIN s = 1..Len(s)
        BY <3>8, ListingFacts
      <4>2. g = [k \in 1..Len(s) |-> g[k]]
        BY <4>1
      <4> HIDE DEF g, s
      <4>3. Len(g) = Len(s)
        BY <4>1, <4>2, FunctionIsListing
      <4>4. QED
        BY <4>3 DEF g, s
    <3>10. Len(ipaOf(i)) = Len(Units(f.utts[u]))
      BY <3>7, <3>8, <3>9
    <3> HIDE DEF ipaOf
    <3> DEFINE utt == f.utts[u]
    <3>11. Apart(utt.tiers, ts)
      BY <3>3, <3>7 DEF Apart, Has
    <3>12. OneEach(ts)
      BY <3>3 DEF OneEach
    <3>13. Describes(ts, utt)
      BY <3>3, <3>10 DEF Describes
    <3>14. L \subseteq L /\ \A l \in {"xtra", "xcor"} : Labelled(ts, l) => l \in L
      BY <3>3 DEF Labelled
    <3>15. Allowed(With(utt, ts), L)
      <4>1. IsUtterance(utt) /\ Allowed(utt, L)
        BY <2>1
      <4> HIDE DEF utt
      <4>2. QED
        BY <3>3, <3>11, <3>12, <3>13, <3>14, <4>1, WithAllowed
    <3>16. QED
      BY <3>2, <3>15
  <2>4. QED
    BY <2>2, <2>3
<1>6. DOMAIN us = DOMAIN f.utts
  OBVIOUS
<1> HIDE DEF us
<1>7. [f EXCEPT !.utts = us].utts = us
  BY DEF IsTranscript
<1>8. QED
  BY <1>1, <1>5, <1>6, <1>7 DEF AllAllowed

(***************************************************************************)
(* What a stage makes of sound utterances.                                 *)
(***************************************************************************)

\* A revision leaves old utterances and offered ones.
LEMMA AiAllowed ==
  ASSUME NEW f, IsTranscript(f), NEW answer, Decodes("ai", answer), AiApplied(f, answer) # None,
         NEW request, Fair("ai", request, answer), NEW L, AllAllowed(f.utts, L)
  PROVE  AllAllowed(AiApplied(f, answer).utts, L)
<1> DEFINE us == AiApplied(f, answer).utts
<1>1. Known(us, f, answer)
  BY AiTranscript
<1> HIDE DEF us
<1>2. ASSUME NEW x \in Range(f.utts) PROVE Allowed(x, L)
  BY DEF Range, AllAllowed
<1>3. ASSUME NEW x \in Offered(answer) PROVE Allowed(x, L)
  <2>1. PICK i \in DOMAIN answer : answer[i].block # None /\ x \in Range(answer[i].block)
    BY DEF Offered
  <2>2. PICK u \in DOMAIN answer[i].block : x = answer[i].block[u]
    BY <2>1 DEF Range
  <2>3. Unmarked(x)
    BY <2>1, <2>2 DEF Fair
  <2>4. QED
    BY <2>3 DEF Unmarked, Allowed
<1>4. \A u \in DOMAIN us : us[u] \in Range(us)
  BY DEF Range
<1>5. \A u \in DOMAIN us : us[u] \in Range(f.utts) \cup Offered(answer)
  BY <1>1, <1>4 DEF Known
<1>6. AllAllowed(us, L)
  BY <1>2, <1>3, <1>5 DEF AllAllowed
<1>7. QED
  BY <1>6 DEF us

\* The tier that only a translation, or a coreference, writes.
Marking(t, label) == (t = "translate" /\ label = "xtra") \/ (t = "coref" /\ label = "xcor")

\* What a stage makes of sound utterances: sound ones again, or, for a second
\* translation or coreference, ones that do not parse.
Settles(us, t, L, M) ==
  \/ AllAllowed(us, M)
  \/ /\ \E u \in DOMAIN us : ~OneEach(us[u].tiers)
     /\ \E label \in L : Marking(t, label)

\* Utterances that are sound stay so when a stage is over.
LEMMA AllowedSettles ==
  ASSUME NEW us, NEW t, NEW L, AllAllowed(us, L), NEW M, L \subseteq M
  PROVE  Settles(us, t, L, M)
BY DEF AllAllowed, Allowed, Settles

\* What a translation or a coreference leaves is sound, or does not parse.
LEMMA TextsSettle ==
  ASSUME NEW f, IsTranscript(f), NEW label, NEW t, Marking(t, label),
         NEW texts, TextsApplied(f, label, texts) # None,
         NEW L, AllAllowed(f.utts, L), NEW M, L \subseteq M, label \in M
  PROVE  Settles(TextsApplied(f, label, texts).utts, t, L, M)
<1> DEFINE us == TextsApplied(f, label, texts).utts
<1>1. label \in {"xtra", "xcor"}
  BY DEF Marking
<1>2. us = TextsApplied(f, label, texts).utts
  OBVIOUS
<1> HIDE DEF us
<1>3. /\ (\A u \in DOMAIN us : OneEach(us[u].tiers)) => AllAllowed(us, M)
      /\ (\E u \in DOMAIN us : ~OneEach(us[u].tiers)) => label \in L
  BY <1>1, <1>2, TextsAllowed
<1>4. Marking(t, label)
  OBVIOUS
<1>5. Settles(us, t, L, M)
  BY <1>3, <1>4 DEF Settles
<1>6. QED
  BY <1>5 DEF us

\* So is what any stage leaves, when the answers are fair.
LEMMA AppliedSettles ==
  ASSUME NEW f, IsTranscript(f), NEW t \in Tasks, NEW as, DOMAIN as = DOMAIN RequestsOf(t, f),
         \A i \in DOMAIN as : Decodes(t, as[i]) /\ Fair(t, RequestsOf(t, f)[i], as[i]),
         Applied(t, f, RequestsOf(t, f), as) # None,
         NEW L, AllAllowed(f.utts, L), NEW M, L \subseteq M,
         t = "translate" => "xtra" \in M, t = "coref" => "xcor" \in M
  PROVE  Settles(Applied(t, f, RequestsOf(t, f), as).utts, t, L, M)
<1> DEFINE rs == RequestsOf(t, f)
           new == Applied(t, f, rs, as)
<1>1. t \in {"utseg", "morphosyntax", "phonetic", "translate", "coref", "speaker", "ai"}
  BY RunnersAssumption
<1>2. CASE rs = <<>>
  <2>1. new = f
    BY <1>2 DEF Applied
  <2> HIDE DEF new
  <2>2. Settles(new.utts, t, L, M)
    BY <2>1, AllowedSettles
  <2>3. QED
    BY <2>2 DEF new
<1>3. CASE rs # <<>>
  <2>1. t = "utseg" => DOMAIN as = DOMAIN f.utts
    BY <1>3, RequestsAreListed
  <2>2. t \notin {"utseg", "morphosyntax"} => DOMAIN as = 1..1
    BY <1>3, RequestsAreListed
  <2>3. new # None
    OBVIOUS
  <2>4. \A i \in DOMAIN as : Decodes(t, as[i]) /\ Fair(t, rs[i], as[i])
    OBVIOUS
  <2>5. t \notin {"utseg", "morphosyntax"} => Decodes(t, as[1]) /\ Fair(t, rs[1], as[1])
    <3>1. t \notin {"utseg", "morphosyntax"} => 1 \in DOMAIN as
      <4>1. 1 \in 1..1
        OBVIOUS
      <4>2. QED
        BY <2>2, <4>1
    <3> HIDE DEF rs
    <3>2. QED
      BY <2>4, <3>1
  <2>6. CASE t = "utseg"
    <3>1. new = UtsegApplied(f, as, Unwritable)
      BY <1>3, <2>6 DEF Applied
    <3>2. \A u \in DOMAIN f.utts : Decodes("utseg", as[u]) /\ Fair("utseg", rs[u], as[u])
      BY <2>1, <2>4, <2>6
    <3> HIDE DEF new, rs
    <3>3. AllAllowed(new.utts, L)
      BY <2>3, <3>1, <3>2, UtsegAllowed
    <3>4. Settles(new.utts, t, L, M)
      BY <3>3, AllowedSettles
    <3>5. QED
      BY <3>4 DEF new, rs
  <2>7. CASE t = "morphosyntax"
    <3>1. new = MorApplied(f, rs, as)
      BY <1>3, <2>7 DEF Applied
    <3>2. DOMAIN as = DOMAIN rs
      OBVIOUS
    <3>3. rs = MorRequests(f)
      BY <1>3, <2>7 DEF RequestsOf
    <3> HIDE DEF new, rs
    <3>4. \A i \in DOMAIN as : Listing(as[i].words) /\ TagsWords(as[i], rs[i].tokens)
      BY <2>4, <2>7 DEF Decodes, Fair, TagsWords
    <3>5. AllAllowed(new.utts, L)
      BY <2>3, <3>1, <3>2, <3>3, <3>4, MorAllowed
    <3>6. Settles(new.utts, t, L, M)
      BY <3>5, AllowedSettles
    <3>7. QED
      BY <3>6 DEF new, rs
  <2>8. CASE t = "phonetic"
    <3> DEFINE r == rs[1]
               a == as[1]
    <3>1. new = PhoApplied(f, r, a)
      BY <1>3, <2>8 DEF Applied
    <3>2. r = PhoRequests(f)
      BY <1>3, <2>8, OneIsListing DEF RequestsOf, One
    <3>3. Decodes("phonetic", a)
      BY <2>5, <2>8
    <3> HIDE DEF new, r, a
    <3>4. AllAllowed(new.utts, L)
      BY <2>3, <3>1, <3>2, <3>3, PhoAllowed
    <3>5. Settles(new.utts, t, L, M)
      BY <3>4, AllowedSettles
    <3>6. QED
      BY <3>5 DEF new, rs
  <2>9. CASE t = "translate"
    <3> DEFINE texts == TextsApplied(f, "xtra", as[1].texts)
    <3>1. new = IF texts = None \/ as[1].provider = None THEN texts
                ELSE Stamped(texts, "translate", as[1].provider)
      BY <1>3, <2>9 DEF Applied, TranslateApplied
    <3>2. texts # None => IsTranscript(texts)
      BY TextsTranscript
    <3>3. texts # None => Settles(texts.utts, t, L, M)
      <4>1. Marking(t, "xtra") /\ "xtra" \in M
        BY <2>9 DEF Marking
      <4> DEFINE ts == as[1].texts
      <4> HIDE DEF ts
      <4>2. TextsApplied(f, "xtra", ts) # None => Settles(TextsApplied(f, "xtra", ts).utts, t, L, M)
        BY <4>1, TextsSettle
      <4>3. QED
        BY <4>2 DEF ts
    <3> HIDE DEF texts, new
    <3>4. texts # None => Stamped(texts, "translate", as[1].provider).utts = texts.utts
      <4>1. \A x : [texts EXCEPT !.stamps = x].utts = texts.utts \/ texts = None
        BY <3>2 DEF IsTranscript
      <4>2. \E x : Stamped(texts, "translate", as[1].provider) = [texts EXCEPT !.stamps = x]
        BY DEF Stamped
      <4>3. QED
        BY <4>1, <4>2
    <3>5. Settles(new.utts, t, L, M)
      BY <2>3, <3>1, <3>3, <3>4
    <3>6. QED
      BY <3>5 DEF new, rs
  <2>10. CASE t = "coref"
    <3>1. new = TextsApplied(f, "xcor", as[1].texts)
      BY <1>3, <2>10 DEF Applied, CorefApplied
    <3>2. Marking(t, "xcor") /\ "xcor" \in M
      BY <2>10 DEF Marking
    <3> DEFINE ts == as[1].texts
    <3> HIDE DEF new, ts
    <3>3. Settles(new.utts, t, L, M)
      <4>1. new = TextsApplied(f, "xcor", ts) /\ TextsApplied(f, "xcor", ts) # None
        BY <2>3, <3>1 DEF ts
      <4>2. Settles(TextsApplied(f, "xcor", ts).utts, t, L, M)
        BY <3>2, <4>1, TextsSettle
      <4>3. QED
        BY <4>1, <4>2
    <3>4. QED
      BY <3>3 DEF new, rs
  <2>11. CASE t = "speaker"
    <3>1. new = Relabelled(f, as[1])
      BY <1>3, <2>11 DEF Applied
    <3> HIDE DEF new
    <3>2. AllAllowed(new.utts, L)
      BY <2>3, <3>1, RelabelledAllowed
    <3>3. Settles(new.utts, t, L, M)
      BY <3>2, AllowedSettles
    <3>4. QED
      BY <3>3 DEF new, rs
  <2>12. CASE t = "ai"
    <3> DEFINE r == rs[1]
               a == as[1]
    <3>1. new = AiApplied(f, a)
      BY <1>3, <2>12 DEF Applied
    <3>2. Decodes("ai", a) /\ Fair("ai", r, a)
      BY <2>5, <2>12
    <3> HIDE DEF new, r, a
    <3>3. AllAllowed(new.utts, L)
      BY <2>3, <3>1, <3>2, AiAllowed
    <3>4. Settles(new.utts, t, L, M)
      BY <3>3, AllowedSettles
    <3>5. QED
      BY <3>4 DEF new, rs
  <2>13. QED
    BY <1>1, <2>6, <2>7, <2>8, <2>9, <2>10, <2>11, <2>12
<1>4. QED
  BY <1>2, <1>3

\* The stages that came leave the tiers that only they write.
MarksOf(l) == {label \in {"xtra", "xcor"} : \E t \in Range(l) : Marking(t, label)}

\* The invariant: every utterance is sound, and has a translation or a coreference
\* only after a stage of it.
StageSound ==
  /\ AllAllowed(file.utts, MarksOf(log)) /\ Listing(log)
  /\ RefusedOnlyForRepeats

\* What it takes: the files were sound to begin with, and the answers are fair.
BeginsSound == \A f \in Files : AllAllowed(f.utts, {})
FairAnswers == phase = "asking" => \A i \in DOMAIN answers : Fair(stage, requests[i], answers[i])

\* The log with one more stage.
LEMMA AppendedListing ==
  ASSUME NEW l, Listing(l), NEW t
  PROVE  Listing(Append(l, t)) /\ Range(Append(l, t)) = Range(l) \cup {t}
<1> DEFINE S == Range(l) \cup {t}
           s == Append(l, t)
<1>1. Len(l) \in Nat /\ DOMAIN l = 1..Len(l)
  BY ListingFacts
<1>2. l \in Seq(S)
  <2>1. l \in Seq(Range(l)) /\ Range(l) \subseteq S
    BY DEF Listing
  <2> HIDE DEF S
  <2>2. QED
    BY <2>1, SeqMonotonic
<1>3. /\ s \in Seq(S) /\ DOMAIN s = 1..(Len(l) + 1)
      /\ \A i \in 1..Len(l) : s[i] = l[i]
      /\ s[Len(l) + 1] = t
  <2>1. t \in S
    OBVIOUS
  <2> HIDE DEF S
  <2>2. QED
    BY <1>2, <2>1
<1>4. Range(s) \subseteq S
  BY <1>1, <1>3 DEF Range
<1>5. S \subseteq Range(s)
  BY <1>1, <1>3 DEF Range
<1>6. Range(s) = S
  BY <1>4, <1>5
<1>7. QED
  BY <1>3, <1>6 DEF Listing

\* Sound utterances parse, two tiers of a label do not.
LEMMA AllowedParses ==
  ASSUME NEW f, NEW L
  PROVE  /\ AllAllowed(f.utts, L) => Parses(f)
         /\ (\E u \in DOMAIN f.utts : ~OneEach(f.utts[u].tiers)) => ~Parses(f)
BY DEF AllAllowed, Allowed, Sound, OneEach, Parses, ItemsTexted

\* The files to begin with are sound.
LEMMA InitSound == BeginsSound /\ Init => StageSound
<1> SUFFICES ASSUME BeginsSound, Init PROVE StageSound
  OBVIOUS
<1>1. file \in Files /\ phase = "idle" /\ log = <<>>
  BY DEF Init
<1>2. AllAllowed(file.utts, {})
  BY <1>1 DEF BeginsSound
<1>3. AllAllowed(file.utts, MarksOf(log))
  BY <1>2 DEF AllAllowed, Allowed
<1>4. QED
  BY <1>1, <1>3, EmptyIsListing DEF StageSound, RefusedOnlyForRepeats

\* Putting in fair answers keeps the invariant, and refuses only what was marked before.
LEMMA InjectSound ==
  ASSUME StageUnderWay, StageSound, FairAnswers, Inject
  PROVE  StageSound'
<1> DEFINE new == Applied(stage, file, requests, answers)
           L == MarksOf(log)
           M == MarksOf(Append(log, stage))
<1>1. phase = "asking" /\ DOMAIN answers = DOMAIN requests /\ stage' = stage /\ Gate(new)
  BY DEF Inject
<1>2. /\ IsTranscript(file) /\ stage \in Tasks /\ requests = RequestsOf(stage, file)
      /\ \A i \in DOMAIN answers : Decodes(stage, answers[i]) /\ Fair(stage, requests[i], answers[i])
  BY <1>1 DEF StageUnderWay, FairAnswers
<1>3. AllAllowed(file.utts, L) /\ Listing(log)
  BY DEF StageSound
<1>4. Listing(Append(log, stage)) /\ Range(Append(log, stage)) = Range(log) \cup {stage}
  BY <1>3, AppendedListing
<1>5. L \subseteq M /\ (stage = "translate" => "xtra" \in M) /\ (stage = "coref" => "xcor" \in M)
  BY <1>4 DEF MarksOf, Marking
<1> HIDE DEF L, M
<1>6. new # None => Settles(new.utts, stage, L, M)
  <2>1. Applied(stage, file, RequestsOf(stage, file), answers) # None =>
          Settles(Applied(stage, file, RequestsOf(stage, file), answers).utts, stage, L, M)
    BY <1>1, <1>2, <1>3, <1>5, AppliedSettles
  <2>2. QED
    BY <1>2, <2>1
<1> HIDE DEF new
<1>7. CASE new = None
  <2>1. phase' = "failed" /\ file' = file /\ log' = log
    BY <1>1, <1>7 DEF Gate
  <2>2. QED
    BY <1>3, <2>1 DEF StageSound, RefusedOnlyForRepeats, L
<1>8. CASE new # None /\ ~Parses(new)
  <2>1. phase' = "refused" /\ file' = file /\ log' = log
    BY <1>1, <1>8 DEF Gate
  <2>2. ~AllAllowed(new.utts, M)
    BY <1>8, AllowedParses
  <2>3. PICK label \in L : Marking(stage, label)
    BY <1>6, <1>8, <2>2 DEF Settles
  <2>4. stage \in {"translate", "coref"} /\ stage \in Range(log)
    BY <2>3 DEF L, MarksOf, Marking
  <2>5. QED
    BY <1>1, <1>3, <2>1, <2>4 DEF StageSound, RefusedOnlyForRepeats, L
<1>9. CASE new # None /\ Parses(new)
  <2>1. file' = new /\ log' = Append(log, stage) /\ phase' = "idle"
    BY <1>1, <1>9 DEF Gate
  <2>2. AllAllowed(new.utts, M)
    BY <1>6, <1>9, AllowedParses DEF Settles
  <2>3. QED
    BY <1>4, <2>1, <2>2 DEF StageSound, RefusedOnlyForRepeats, M
<1>10. QED
  BY <1>7, <1>8, <1>9

\* So does every step.
LEMMA NextSound ==
  StageUnderWay /\ StageSound /\ FairAnswers /\ [Next]_vars => StageSound'
<1> SUFFICES ASSUME StageUnderWay, StageSound, FairAnswers, [Next]_vars PROVE StageSound'
  OBVIOUS
<1>1. CASE Inject
  BY <1>1, InjectSound
<1>2. CASE ~Inject
  <2>1. UNCHANGED <<file, log>> /\ (phase' \in {"asking", "failed"} \/ UNCHANGED <<phase, stage>>)
    <3>1. CASE \E t \in Tasks : Begin(t)
      BY <3>1 DEF Begin
    <3>2. CASE Send
      BY <3>2 DEF Send
    <3>3. CASE \E i \in DOMAIN requests : Tick(i) \/ Answer(i) \/ BackendFails(i)
      BY <3>3 DEF Tick, Answer, BackendFails
    <3>4. CASE UNCHANGED vars
      BY <3>4 DEF vars
    <3>5. QED
      BY <1>2, <3>1, <3>2, <3>3, <3>4 DEF Next
  <2>2. QED
    BY <2>1 DEF StageSound, RefusedOnlyForRepeats
<1>3. QED
  BY <1>1, <1>2

\* Out of a sound file a stage leaves a sound one, if its answers are fair: a
\* segmenter's texts read as its words, a tagger tags the words it was asked for,
\* and a language model writes sound utterances; whatever the file, the stage and
\* the answers (taskrunners/, segmentation/mod.rs).
THEOREM SoundnessIsKept == Spec => SoundStaysSound
<1> DEFINE All == {"xtra", "xcor"}
           Ends == /\ phase = "asking" /\ phase' = "idle" /\ AllSound(file)
                   /\ \A i \in DOMAIN answers : Fair(stage, requests[i], answers[i])
<1>1. \A f : AllSound(f) <=> AllAllowed(f.utts, All)
  BY DEF AllSound, AllAllowed, Allowed
<1>2. ASSUME StageUnderWay, [Next]_vars, Ends PROVE AllSound(file')
  <2>1. /\ DOMAIN answers = DOMAIN requests
        /\ Applied(stage, file, requests, answers) # None
        /\ file' = Applied(stage, file, requests, answers) /\ Parses(file')
    BY <1>2, OnlyInjectEnds
  <2>2. /\ IsTranscript(file) /\ stage \in Tasks /\ requests = RequestsOf(stage, file)
        /\ \A i \in DOMAIN answers : Decodes(stage, answers[i]) /\ Fair(stage, requests[i], answers[i])
    BY <1>2 DEF StageUnderWay
  <2>3. AllAllowed(file.utts, All)
    BY <1>1, <1>2
  <2>4. Settles(Applied(stage, file, RequestsOf(stage, file), answers).utts, stage, All, All)
    <3>1. All \subseteq All /\ "xtra" \in All /\ "xcor" \in All
      OBVIOUS
    <3> HIDE DEF All
    <3>2. QED
      BY <2>1, <2>2, <2>3, <3>1, AppliedSettles
  <2>5. AllAllowed(file'.utts, All)
    BY <2>1, <2>2, <2>4, AllowedParses DEF Settles
  <2>6. QED
    BY <1>1, <2>5
<1>3. StageUnderWay /\ [Next]_vars => [Ends => AllSound(file')]_vars
  BY <1>2
<1>4. QED
  BY <1>3, StagesKeepTheTranscript, PTL DEF Spec, SoundStaysSound

\* Out of sound files, and as long as the answers are fair, every file that any
\* stages leave, in whatever order they and the answers come, is sound, and the
\* gate refuses nothing but a second translation or coreference (taskrunners/,
\* segmentation/mod.rs, validate_stage_output of base.rs).
THEOREM StagesLeaveSoundTranscripts ==
  BeginsSound /\ Spec /\ []FairAnswers => [](AllSound(file) /\ RefusedOnlyForRepeats)
<1>1. StageSound => AllSound(file) /\ RefusedOnlyForRepeats
  BY DEF StageSound, AllAllowed, Allowed, AllSound
<1>2. BeginsSound /\ Init => StageSound
  BY InitSound
<1>3. StageUnderWay /\ StageSound /\ FairAnswers /\ [Next]_vars => StageSound'
  BY NextSound
<1>4. QED
  BY <1>1, <1>2, <1>3, StagesKeepTheTranscript, PTL DEF Spec

(***************************************************************************)
(* The voices of a diarization.                                            *)
(***************************************************************************)

Segments(segs) ==
  Listing(segs) /\ Range(segs) \subseteq [start : Nat, end : Nat, speaker : Range(Labels)]

\* What a diarization hears at a time.
LabelAt(segs, t) == segs[SegmentAt(segs, t)].speaker
LabelOf(segs, utt) == LabelAt(segs, Middle(Timing(utt)))

\* Some segment is heard at every time.
LEMMA SegmentIsThere ==
  ASSUME NEW segs, Segments(segs), segs # <<>>, NEW t \in Nat
  PROVE  SegmentAt(segs, t) \in DOMAIN segs
<1> DEFINE holding == {i \in DOMAIN segs : segs[i].start <= t /\ t <= segs[i].end}
           nearest == {i \in DOMAIN segs : \A j \in DOMAIN segs : Distance(t, segs[i]) <= Distance(t, segs[j])}
           D == {Distance(t, segs[i]) : i \in DOMAIN segs}
<1>1. DOMAIN segs \subseteq Nat /\ DOMAIN segs # {}
  <2>1. Len(segs) \in Nat /\ DOMAIN segs = 1..Len(segs) /\ segs = [i \in 1..Len(segs) |-> segs[i]]
    BY ListingFacts DEF Segments
  <2>2. Len(segs) # 0
    BY <2>1
  <2>3. QED
    BY <2>1, <2>2
<1>2. ASSUME NEW i \in DOMAIN segs PROVE Distance(t, segs[i]) \in Nat
  <2> DEFINE a == IF t > segs[i].start THEN t - segs[i].start ELSE segs[i].start - t
             b == IF t > segs[i].end THEN t - segs[i].end ELSE segs[i].end - t
  <2>1. segs[i].start \in Nat /\ segs[i].end \in Nat
    BY DEF Segments, Range
  <2>2. a \in Nat /\ b \in Nat
    BY <2>1
  <2>3. Distance(t, segs[i]) = Min({a, b})
    BY DEF Distance
  <2> HIDE DEF a, b
  <2>4. {a, b} \subseteq Nat /\ {a, b} # {}
    BY <2>2
  <2>5. Min({a, b}) \in {a, b}
    BY <2>4, LeastElement
  <2>6. QED
    BY <2>2, <2>3, <2>5
<1>3. D \subseteq Nat /\ D # {}
  BY <1>1, <1>2
<1>4. nearest # {}
  <2>1. Min(D) \in D /\ \A x \in D : Min(D) <= x
    <3> HIDE DEF D
    <3>1. QED
      BY <1>3, LeastElement
  <2>2. PICK i \in DOMAIN segs : Min(D) = Distance(t, segs[i])
    BY <2>1
  <2>3. \A j \in DOMAIN segs : Distance(t, segs[i]) <= Distance(t, segs[j])
    BY <2>1, <2>2
  <2>4. QED
    BY <2>3
<1>5. holding \subseteq DOMAIN segs /\ nearest \subseteq DOMAIN segs
  OBVIOUS
<1>6. SegmentAt(segs, t) = IF holding # {} THEN Min(holding) ELSE Min(nearest)
  BY DEF SegmentAt
<1> HIDE DEF holding, nearest
<1>7. holding \subseteq Nat /\ nearest \subseteq Nat
  BY <1>1, <1>5
<1>8. QED
  BY <1>4, <1>5, <1>6, <1>7, LeastElement

\* The time of an utterance has a middle, at which some label is heard.
LEMMA LabelIsHeard ==
  ASSUME NEW segs, Segments(segs), segs # <<>>, NEW utt, IsUtterance(utt), Timing(utt) # None
  PROVE  LabelOf(segs, utt) \in {segs[s].speaker : s \in DOMAIN segs}
<1> DEFINE time == Timing(utt)
<1>1. time.start \in Nat /\ time.end \in Nat /\ time.end >= time.start
  BY TimingFacts
<1> HIDE DEF time
<1>2. Middle(time) \in Nat
  BY <1>1 DEF Middle
<1>3. SegmentAt(segs, Middle(time)) \in DOMAIN segs
  BY <1>2, SegmentIsThere
<1>4. QED
  BY <1>3 DEF LabelOf, LabelAt, time

\* The time of an utterance is that of its words, or its bullet.
LEMMA SameTiming ==
  ASSUME NEW utt, NEW v, v.items = utt.items, v.tiers = utt.tiers,
         v.bullet = utt.bullet \/ (Timing(utt) # None /\ v.bullet = Timing(utt))
  PROVE  Timing(v) = Timing(utt)
<1>1. Said(v) = Said(utt) /\ (Has(v, "wor") <=> Has(utt, "wor")) /\ WorTierWords(v) = WorTierWords(utt)
  BY DEF Said, Has, WorTierWords, Content
<1> DEFINE own == {t \in Range(TimesOf(Said(utt))) : t # None}
           wor == IF Has(utt, "wor") THEN {t \in Range(TimesOf(WorTierWords(utt))) : t # None} ELSE {}
           T == IF own # {} THEN own ELSE wor
           span == [start |-> Min({t.start : t \in T}), end |-> Max({t.end : t \in T})]
           Good == T # {} /\ span.end >= span.start
<1>2. Timing(utt) = IF Good THEN span
                    ELSE IF utt.bullet # None /\ utt.bullet.end >= utt.bullet.start THEN utt.bullet
                    ELSE None
  BY DEF Timing
<1>3. Timing(v) = IF Good THEN span
                  ELSE IF v.bullet # None /\ v.bullet.end >= v.bullet.start THEN v.bullet
                  ELSE None
  BY <1>1 DEF Timing
<1> HIDE DEF Good, span
<1>4. QED
  BY <1>2, <1>3

\* A revoiced utterance says what it said, its bullet is what it was or its time,
\* and its voice, when it has a time, is that of the label at the middle.
LEMMA RevoicedFacts ==
  ASSUME NEW utt, IsUtterance(utt), NEW segs, NEW codeOf,
         NEW w, w = Revoiced(utt, Timing(utt), segs, codeOf)
  PROVE  /\ w.items = utt.items /\ w.tiers = utt.tiers
         /\ w.bullet = utt.bullet \/ (Timing(utt) # None /\ w.bullet = Timing(utt))
         /\ Timing(utt) # None => w.speaker = codeOf[LabelOf(segs, utt)]
BY DEF Revoiced, IsUtterance, LabelOf, LabelAt

\* The codes of different numbers differ, unless one that would be made up is
\* declared for another number.
LEMMA CodesDiffer ==
  ASSUME NEW f, Distinct(f.participants), CodesApart(f),
         NEW i \in 1..Len(Labels), NEW j \in 1..Len(Labels),
         CodeAt(f.participants, i - 1) = CodeAt(f.participants, j - 1)
  PROVE  i = j
<1> DEFINE ds == f.participants
           n == Len(Labels)
<1>1. n \in Nat
  BY SpeakerAssumption, ListingFacts DEF Distinct
<1> HIDE DEF n
<1>2. \A k \in 1..n : CodeAt(ds, k - 1) = IF k \in DOMAIN ds THEN ds[k] ELSE Par[k - 1]
  <2> TAKE k \in 1..n
  <2>1. (k - 1) + 1 = k
    BY <1>1
  <2>2. QED
    BY <2>1 DEF CodeAt
<1>3. \A k \in 1..n : k - 1 \in DOMAIN Par
  BY <1>1, SpeakerAssumption DEF n
<1>4. \A k, l \in 1..n : k \in DOMAIN ds /\ ds[k] = Par[l - 1] => k = l
  <2> SUFFICES ASSUME NEW k \in 1..n, NEW l \in 1..n, k \in DOMAIN ds, ds[k] = Par[l - 1] PROVE k = l
    OBVIOUS
  <2>1. k = (l - 1) + 1
    BY <1>3 DEF CodesApart
  <2>2. QED
    BY <1>1, <2>1
<1>5. \A k, l \in 1..n : Par[k - 1] = Par[l - 1] => k = l
  <2> SUFFICES ASSUME NEW k \in 1..n, NEW l \in 1..n, Par[k - 1] = Par[l - 1] PROVE k = l
    OBVIOUS
  <2>1. k - 1 = l - 1
    BY <1>3, SpeakerAssumption
  <2>2. QED
    BY <1>1, <2>1
<1>6. \A k, l \in DOMAIN ds : ds[k] = ds[l] => k = l
  BY DEF Distinct
<1>7. i \in 1..n /\ j \in 1..n
  BY DEF n
<1>8. QED
  BY <1>2, <1>4, <1>5, <1>6, <1>7

\* What a diarization makes of the utterances.
LEMMA DiarizedFacts ==
  ASSUME NEW us, Utterances(us), NEW segs, NEW codeOf
  PROVE  \E flat : /\ Utterances(flat) /\ DOMAIN Diarized(us, segs, codeOf) = DOMAIN flat
                   /\ \A u \in DOMAIN flat :
                        Diarized(us, segs, codeOf)[u] = Revoiced(flat[u], Timing(flat[u]), segs, codeOf)
<1> DEFINE flat == FlattenSeq([u \in DOMAIN us |-> Split(us[u], SpeakerAssignments(us[u], segs))])
<1>1. Utterances(flat)
  BY SplitVoices
<1>2. Diarized(us, segs, codeOf) = [u \in DOMAIN flat |-> Revoiced(flat[u], Timing(flat[u]), segs, codeOf)]
  BY DEF Diarized, RevoicedAll
<1> HIDE DEF flat
<1>3. QED
  BY <1>1, <1>2

\* The code of a label of the answer is among the codes; different labels have
\* different codes, unless a made-up one was taken.
LEMMA LabelsHaveCodes ==
  ASSUME NEW f, Distinct(f.participants), NEW S, S \subseteq Range(Labels)
  PROVE  LET labels == Picked(Labels, {i \in DOMAIN Labels : Labels[i] \in S})
             codes == [k \in DOMAIN labels |-> CodeAt(f.participants, k - 1)]
             codeOf == [l \in Range(labels) |-> codes[CHOOSE k \in DOMAIN labels : labels[k] = l]]
         IN /\ \A l \in S : codeOf[l] \in Range(codes)
            /\ CodesApart(f) => \A l, m \in S : codeOf[l] = codeOf[m] => l = m
            /\ CodesApart(f) => \A i, j \in DOMAIN codes : codes[i] = codes[j] => i = j
<1> DEFINE I == {i \in DOMAIN Labels : Labels[i] \in S}
           labels == Picked(Labels, I)
           codes == [k \in DOMAIN labels |-> CodeAt(f.participants, k - 1)]
           at(l) == CHOOSE k \in DOMAIN labels : labels[k] = l
           codeOf == [l \in Range(labels) |-> codes[at(l)]]
<1>1. Listing(Labels) /\ I \subseteq DOMAIN Labels /\ Len(Labels) \in Nat
  BY SpeakerAssumption, ListingFacts DEF Distinct
<1>2. \A l \in S : \E i \in I : Labels[i] = l
  BY DEF Range
<1> HIDE DEF I
<1>3. Listing(labels) /\ Len(labels) \in 0..Len(Labels)
  BY <1>1, PickedFewer
<1>4. \A l \in S : \E k \in DOMAIN labels : labels[k] = l
  <2> TAKE l \in S
  <2>1. PICK i \in I : Labels[i] = l
    BY <1>2
  <2>2. QED
    BY <1>1, <2>1, PickedReaches
<1> HIDE DEF labels
<1>5. DOMAIN labels \subseteq 1..Len(Labels)
  <2>1. DOMAIN labels = 1..Len(labels)
    BY <1>3, ListingFacts
  <2>2. QED
    BY <1>1, <1>3, <2>1
<1>6. \A l \in S : l \in Range(labels) /\ at(l) \in DOMAIN labels /\ labels[at(l)] = l
  BY <1>4 DEF Range
<1> HIDE DEF at
<1>7. \A l \in S : codeOf[l] = codes[at(l)] /\ codes[at(l)] \in Range(codes)
  BY <1>6 DEF Range
<1>8. CodesApart(f) => \A i, j \in DOMAIN labels : codes[i] = codes[j] => i = j
  <2> SUFFICES ASSUME CodesApart(f), NEW i \in DOMAIN labels, NEW j \in DOMAIN labels, codes[i] = codes[j]
               PROVE  i = j
    OBVIOUS
  <2>1. CodeAt(f.participants, i - 1) = CodeAt(f.participants, j - 1)
    OBVIOUS
  <2>2. QED
    BY <1>5, <2>1, CodesDiffer
<1>9. DOMAIN codes = DOMAIN labels
  OBVIOUS
<1> HIDE DEF codes
<1>10. CodesApart(f) => \A l, m \in S : codeOf[l] = codeOf[m] => l = m
  <2> SUFFICES ASSUME CodesApart(f), NEW l \in S, NEW m \in S, codeOf[l] = codeOf[m] PROVE l = m
    OBVIOUS
  <2>1. codes[at(l)] = codes[at(m)]
    BY <1>7
  <2>2. at(l) = at(m)
    BY <1>6, <1>8, <2>1
  <2>3. QED
    BY <1>6, <2>2
<1>11. QED
  BY <1>7, <1>8, <1>9, <1>10 DEF codes, codeOf, labels, at, I

\* The code that a spoken one is moved down to is declared, and different ones
\* move to different ones, unless a made-up one was taken.
LEMMA MovedDownFacts ==
  ASSUME NEW f, Distinct(f.participants), NEW spoken, Listing(spoken), Len(spoken) \in 0..Len(Labels)
  PROVE  LET projected(c) == IF c \in Range(spoken)
                             THEN CodeAt(f.participants, Min({k \in DOMAIN spoken : spoken[k] = c}) - 1)
                             ELSE c
             ps == f.participants \o Undeclared(f.participants, Len(spoken))
         IN /\ \A c \in Range(spoken) : projected(c) \in Range(ps)
            /\ CodesApart(f) => \A c, d \in Range(spoken) : projected(c) = projected(d) => c = d
<1> DEFINE at(c) == Min({k \in DOMAIN spoken : spoken[k] = c})
           n == Len(spoken)
           ps == f.participants \o Undeclared(f.participants, n)
<1>1. n \in Nat /\ DOMAIN spoken = 1..n /\ Len(Labels) \in Nat
  BY SpeakerAssumption, ListingFacts DEF Distinct
<1>2. ASSUME NEW c \in Range(spoken) PROVE at(c) \in DOMAIN spoken /\ spoken[at(c)] = c
  <2> DEFINE K == {k \in DOMAIN spoken : spoken[k] = c}
  <2>1. K \subseteq Nat /\ K # {}
    BY <1>1 DEF Range
  <2> HIDE DEF K
  <2>2. Min(K) \in K
    BY <2>1, LeastElement
  <2>3. QED
    BY <2>2 DEF K
<1> HIDE DEF at
<1>3. \A k \in 1..n : CodeAt(f.participants, k - 1) \in Range(ps) /\ k \in 1..Len(Labels)
  <2>1. \A k \in 1..n : CodeAt(f.participants, k - 1) \in Range(ps)
    BY DeclaredOnce
  <2>2. \A k \in 1..n : k \in 1..Len(Labels)
    <3> HIDE DEF ps
    <3>1. QED
      BY <1>1 DEF n
  <2>3. QED
    BY <2>1, <2>2
<1> HIDE DEF n, ps
<1>4. \A c \in Range(spoken) : CodeAt(f.participants, at(c) - 1) \in Range(ps)
  BY <1>1, <1>2, <1>3
<1>5. ASSUME CodesApart(f), NEW c \in Range(spoken), NEW d \in Range(spoken),
             CodeAt(f.participants, at(c) - 1) = CodeAt(f.participants, at(d) - 1)
      PROVE  c = d
  <2>1. at(c) = at(d)
    BY <1>1, <1>2, <1>3, <1>5, CodesDiffer
  <2>2. QED
    BY <1>2, <2>1
<1>6. QED
  BY <1>4, <1>5 DEF at, n, ps

\* The utterances of a diarization that have a time: their voices are declared, and
\* one exactly when the label at their middle is.
LEMMA VoicesOf ==
  ASSUME NEW f, IsTranscript(f), NEW segs, Segments(segs), segs # <<>>, Relabelled(f, segs) # None
  PROVE  LET new == Relabelled(f, segs)
             timed == {u \in DOMAIN new.utts : Timing(new.utts[u]) # None}
         IN /\ \A u \in timed : new.utts[u].speaker \in Range(new.participants)
            /\ CodesApart(f) =>
                 \A u, v \in timed : new.utts[u].speaker = new.utts[v].speaker
                                     <=> LabelOf(segs, new.utts[u]) = LabelOf(segs, new.utts[v])
<1> DEFINE S == {segs[s].speaker : s \in DOMAIN segs}
           labels == Picked(Labels, {i \in DOMAIN Labels : Labels[i] \in S})
           codes == [k \in DOMAIN labels |-> CodeAt(f.participants, k - 1)]
           codeOf == [l \in Range(labels) |-> codes[CHOOSE k \in DOMAIN labels : labels[k] = l]]
           us == Diarized(f.utts, segs, codeOf)
           spoken == Spoken(us, codes)
           projected(c) == IF c \in Range(spoken)
                           THEN CodeAt(f.participants, Min({k \in DOMAIN spoken : spoken[k] = c}) - 1)
                           ELSE c
           moved == [u \in DOMAIN us |-> [us[u] EXCEPT !.speaker = projected(@)]]
           ps == f.participants \o Undeclared(f.participants, Len(spoken))
           new == Relabelled(f, segs)
<1>1. {i \in DOMAIN Labels : \E s \in DOMAIN segs : segs[s].speaker = Labels[i]}
        = {i \in DOMAIN Labels : Labels[i] \in S}
  OBVIOUS
<1>2. new = MovedDown(f, us, codes)
  <2> DEFINE I == {i \in DOMAIN Labels : \E s \in DOMAIN segs : segs[s].speaker = Labels[i]}
             J == {i \in DOMAIN Labels : Labels[i] \in S}
             listed(K) == Picked(Labels, K)
             coded(K) == [k \in DOMAIN listed(K) |-> CodeAt(f.participants, k - 1)]
             voices(K) == [l \in Range(listed(K)) |-> coded(K)[CHOOSE k \in DOMAIN listed(K) : listed(K)[k] = l]]
             relabelled(K) == MovedDown(f, Diarized(f.utts, segs, voices(K)), coded(K))
  <2>1. new = relabelled(I)
    BY DEF Relabelled
  <2>2. MovedDown(f, us, codes) = relabelled(J)
    OBVIOUS
  <2>3. I = J
    BY <1>1
  <2> HIDE DEF I, J, new, us, codes, relabelled
  <2>4. QED
    BY <2>1, <2>2, <2>3
<1>3. new = [f EXCEPT !.utts = moved, !.participants = ps]
  BY <1>2 DEF MovedDown
<1>4. S \subseteq Range(Labels)
  BY DEF Segments, Range
<1>5. Distinct(f.participants)
  BY DEF IsTranscript
<1>6. \E flat : /\ Utterances(flat) /\ DOMAIN us = DOMAIN flat
                /\ \A u \in DOMAIN flat : us[u] = Revoiced(flat[u], Timing(flat[u]), segs, codeOf)
  <2>1. Utterances(f.utts)
    BY UtterancesOf
  <2> HIDE DEF codeOf
  <2>2. QED
    BY <2>1, DiarizedFacts
<1>7. /\ \A l \in S : codeOf[l] \in Range(codes)
      /\ CodesApart(f) => \A l, m \in S : codeOf[l] = codeOf[m] => l = m
  BY <1>4, <1>5, LabelsHaveCodes
<1>8. /\ Listing(codes) /\ Listing(spoken) /\ Len(spoken) \in 0..Len(Labels)
  <2> HIDE DEF S, us
  <2>1. QED
    BY CodesFew
<1>9. spoken = Picked(codes, {k \in DOMAIN codes : \E u \in DOMAIN us : us[u].speaker = codes[k]})
  BY DEF Spoken
<1>11. \A u \in DOMAIN us : moved[u] = [us[u] EXCEPT !.speaker = projected(us[u].speaker)]
  OBVIOUS
<1>12. new.utts = moved /\ new.participants = ps
  <2> HIDE DEF new, moved, ps
  <2>1. QED
    BY <1>3 DEF IsTranscript
<1> HIDE DEF codeOf
<1> HIDE DEF codes
<1>13. \A l \in S : LET c == codeOf[l] IN
         (\E u \in DOMAIN us : us[u].speaker = c) => c \in Range(spoken)
  <2> HIDE DEF us, S
  <2> SUFFICES ASSUME NEW l \in S, NEW u \in DOMAIN us, us[u].speaker = codeOf[l]
               PROVE  codeOf[l] \in Range(spoken)
    OBVIOUS
  <2> DEFINE I == {k \in DOMAIN codes : \E v \in DOMAIN us : us[v].speaker = codes[k]}
  <2>1. PICK k \in DOMAIN codes : codes[k] = codeOf[l]
    BY <1>7 DEF Range
  <2>2. k \in I /\ I \subseteq DOMAIN codes
    BY <2>1
  <2> HIDE DEF I
  <2>3. \E j \in DOMAIN Picked(codes, I) : Picked(codes, I)[j] = codes[k]
    BY <1>8, <2>2, PickedReaches
  <2>4. spoken = Picked(codes, I)
    BY <1>9 DEF I
  <2> HIDE DEF spoken
  <2>5. QED
    BY <2>1, <2>3, <2>4 DEF Range
<1> HIDE DEF spoken
<1>14. /\ \A c \in Range(spoken) : projected(c) \in Range(ps)
       /\ CodesApart(f) => \A c, d \in Range(spoken) : projected(c) = projected(d) => c = d
  BY <1>5, <1>8, MovedDownFacts
<1> HIDE DEF us, projected, ps
<1>15. PICK flat : /\ Utterances(flat) /\ DOMAIN us = DOMAIN flat
                   /\ \A u \in DOMAIN flat : us[u] = Revoiced(flat[u], Timing(flat[u]), segs, codeOf)
  BY <1>6
<1>16. ASSUME NEW u \in DOMAIN us, Timing(moved[u]) # None
       PROVE  /\ LabelOf(segs, moved[u]) \in S
              /\ moved[u].speaker = projected(codeOf[LabelOf(segs, moved[u])])
              /\ codeOf[LabelOf(segs, moved[u])] \in Range(spoken)
  <2> DEFINE utt == flat[u]
             l == LabelOf(segs, utt)
  <2>1. IsUtterance(utt) /\ us[u] = Revoiced(utt, Timing(utt), segs, codeOf)
    BY <1>15 DEF Utterances
  <2>2. moved[u] = [us[u] EXCEPT !.speaker = projected(us[u].speaker)]
    BY <1>11
  <2> HIDE DEF moved, utt
  <2>3. Timing(moved[u]) = Timing(utt) /\ moved[u].speaker = projected(us[u].speaker)
        /\ (Timing(utt) # None => us[u].speaker = codeOf[l])
    <3> DEFINE s == projected(us[u].speaker)
               w == us[u]
               x == moved[u]
    <3>1. IsUtterance(utt) /\ w = Revoiced(utt, Timing(utt), segs, codeOf)
      BY <2>1
    <3>2. x = [w EXCEPT !.speaker = s]
      BY <2>2
    <3> HIDE DEF s, w, x
    <3>3. "speaker" \in DOMAIN w
      BY <3>1 DEF IsUtterance, Revoiced
    <3>4. x.items = w.items /\ x.tiers = w.tiers /\ x.bullet = w.bullet /\ x.speaker = s
      BY <3>2, <3>3
    <3>5. x.items = w.items /\ x.tiers = w.tiers /\ x.bullet = w.bullet
      BY <3>4
    <3>6. Timing(utt) # None => w.speaker = codeOf[LabelOf(segs, utt)]
      BY <3>1, RevoicedFacts
    <3>7. Timing(w) = Timing(utt)
      <4>1. /\ w.items = utt.items /\ w.tiers = utt.tiers
            /\ w.bullet = utt.bullet \/ (Timing(utt) # None /\ w.bullet = Timing(utt))
        BY <3>1, RevoicedFacts
      <4>2. QED
        BY <4>1, SameTiming
    <3>8. Timing(x) = Timing(w)
      BY <3>5, SameTiming
    <3>9. QED
      BY <3>4, <3>6, <3>7, <3>8 DEF s, w, x, l
  <2>4. LabelOf(segs, moved[u]) = l
    BY <2>3 DEF LabelOf
  <2>5. Timing(utt) # None
    BY <1>16, <2>3
  <2>6. l \in S
    BY <2>1, <2>5, LabelIsHeard
  <2> HIDE DEF l
  <2>7. us[u].speaker = codeOf[l]
    BY <2>3, <2>5
  <2>8. codeOf[l] \in Range(spoken)
    BY <1>13, <2>6, <2>7
  <2>9. QED
    BY <2>3, <2>4, <2>6, <2>7, <2>8
<1>17. DOMAIN moved = DOMAIN us
  OBVIOUS
<1> HIDE DEF moved, S
<1>18. \A u \in DOMAIN us : Timing(moved[u]) # None => moved[u].speaker \in Range(ps)
  BY <1>14, <1>16
<1>19. ASSUME CodesApart(f), NEW u \in DOMAIN us, NEW v \in DOMAIN us,
              Timing(moved[u]) # None, Timing(moved[v]) # None
       PROVE  moved[u].speaker = moved[v].speaker <=> LabelOf(segs, moved[u]) = LabelOf(segs, moved[v])
  BY <1>7, <1>14, <1>16, <1>19
<1> HIDE DEF new
<1>20. QED
  BY <1>12, <1>17, <1>18, <1>19 DEF new

\* After a diarization every speaker that is heard is declared, and two timed
\* utterances have one speaker exactly when the same label is heard in the middle
\* of both: for any transcript and any segments, unless a code that had to be made
\* up was taken (speaker.rs, relabel_utterances_by_diarization).
THEOREM VoicesStayApart == Spec => VoicesToldApart
<1> DEFINE Told(segs, new) ==
             LET timed == {u \in DOMAIN new.utts : Timing(new.utts[u]) # None}
                 label(u) == segs[SegmentAt(segs, Middle(Timing(new.utts[u])))].speaker
             IN /\ CodesApart(file) =>
                     \A u, v \in timed : new.utts[u].speaker = new.utts[v].speaker <=> label(u) = label(v)
                /\ \A u \in timed : new.utts[u].speaker \in Range(new.participants)
<1>1. StageUnderWay /\ [Next]_vars =>
        [phase = "asking" /\ phase' = "idle" /\ stage = "speaker" /\ answers[1] # <<>> =>
           LET timed == {u \in DOMAIN file'.utts : Timing(file'.utts[u]) # None}
               label(u) == answers[1][SegmentAt(answers[1], Middle(Timing(file'.utts[u])))].speaker
           IN /\ CodesApart(file) =>
                   \A u, v \in timed : file'.utts[u].speaker = file'.utts[v].speaker <=> label(u) = label(v)
              /\ \A u \in timed : file'.utts[u].speaker \in Range(file'.participants)]_vars
  <2> SUFFICES ASSUME StageUnderWay, [Next]_vars, phase = "asking", phase' = "idle", stage = "speaker",
                      answers[1] # <<>>
               PROVE  Told(answers[1], file')
    OBVIOUS
  <2>1. /\ DOMAIN answers = DOMAIN requests
        /\ Applied(stage, file, requests, answers) # None
        /\ file' = Applied(stage, file, requests, answers)
    BY OnlyInjectEnds
  <2>2. /\ IsTranscript(file) /\ requests = One("audio")
        /\ \A i \in DOMAIN answers : Decodes("speaker", answers[i])
    BY DEF StageUnderWay, RequestsOf
  <2>3. DOMAIN requests = {1} /\ requests # <<>>
    BY <2>2, OneIsListing DEF One
  <2>4. Segments(answers[1])
    BY <2>1, <2>2, <2>3 DEF Decodes, Segments
  <2>5. file' = Relabelled(file, answers[1]) /\ Relabelled(file, answers[1]) # None
    BY <2>1, <2>3 DEF Applied
  <2> DEFINE new == Relabelled(file, answers[1])
             timed == {u \in DOMAIN new.utts : Timing(new.utts[u]) # None}
  <2>6. /\ \A u \in timed : new.utts[u].speaker \in Range(new.participants)
        /\ CodesApart(file) =>
             \A u, v \in timed : new.utts[u].speaker = new.utts[v].speaker
                                 <=> LabelOf(answers[1], new.utts[u]) = LabelOf(answers[1], new.utts[v])
    BY <2>2, <2>4, <2>5, VoicesOf
  <2>7. \A segs, utt : LabelOf(segs, utt) = segs[SegmentAt(segs, Middle(Timing(utt)))].speaker
    BY DEF LabelOf, LabelAt
  <2> HIDE DEF new
  <2>8. Told(answers[1], new)
    BY <2>6, <2>7
  <2> HIDE DEF Told
  <2>9. QED
    BY <2>5, <2>8 DEF new
<1>2. QED
  BY <1>1, StagesKeepTheTranscript, PTL DEF Spec, VoicesToldApart
===============================================================================
