-------------------------- MODULE TaskRunnersProofs --------------------------
(***************************************************************************)
(* Whatever stages a transcript goes through and whatever the back ends    *)
(* answer, it stays a transcript, and the progress of a stage stays within *)
(* its total.                                                              *)
(***************************************************************************)
EXTENDS TaskRunners, TLAPS, FiniteSetTheorems, SequenceTheorems, WellFoundedInduction

(***************************************************************************)
(* Sets of numbers, and sequences picked out of sequences.                 *)
(***************************************************************************)

\* Min is the least element of a set of natural numbers.
LEMMA LeastElement ==
  ASSUME NEW S, S \subseteq Nat, S # {}
  PROVE  Min(S) \in S /\ \A y \in S : Min(S) <= y
<1>1. PICK x \in S : \A y \in S : ~ (<<y, x>> \in OpToRel(<, Nat))
  BY NatLessThanWellFounded, WFMin
<1>2. \A y \in S : <<y, x>> \notin {ss \in Nat \X Nat : ss[1] < ss[2]}
  BY <1>1, Zenon DEF OpToRel
<1>3. \A y \in S : x <= y
  <2> TAKE y \in S
  <2>1. <<y, x>> \in Nat \X Nat /\ <<y, x>>[1] = y /\ <<y, x>>[2] = x
    OBVIOUS
  <2>2. ~ (y < x)
    BY <1>2, <2>1
  <2>3. QED
    BY <2>2
<1>4. QED
  BY <1>3 DEF Min

\* Induction up to n, for a set of numbers.
LEMMA ReachesAll ==
  ASSUME NEW n \in Nat, NEW S, 0 \in S, \A m \in 0..(n - 1) : m \in S => m + 1 \in S
  PROVE  \A m \in 0..n : m \in S
<1> DEFINE Bad == {m \in 0..n : m \notin S}
<1>1. ASSUME Bad # {} PROVE FALSE
  <2>1. PICK m \in Bad : \A y \in Bad : m <= y
    <3>1. Bad \subseteq Nat
      OBVIOUS
    <3> HIDE DEF Bad
    <3>2. QED
      BY <1>1, <3>1, LeastElement
  <2>2. m \in 1..n
    OBVIOUS
  <2>3. m - 1 \in 0..(n - 1) /\ m - 1 \notin Bad
    BY <2>1, <2>2
  <2>4. m - 1 \in S
    BY <2>3
  <2>5. (m - 1) + 1 \in S
    BY <2>3, <2>4
  <2>6. QED
    BY <2>2, <2>5
<1>2. QED
  BY <1>1

\* Max is the greatest element of a set of natural numbers with a bound.
LEMMA GreatestElement ==
  ASSUME NEW S, S \subseteq Nat, S # {}, NEW b \in Nat, \A x \in S : x <= b
  PROVE  Max(S) \in S /\ \A y \in S : y <= Max(S)
<1> DEFINE D == {b - x : x \in S}
<1>1. D \subseteq Nat /\ D # {}
  OBVIOUS
<1>2. PICK d \in D : \A y \in D : d <= y
  <2> HIDE DEF D
  <2>1. QED
    BY <1>1, LeastElement
<1>3. PICK x \in S : d = b - x
  OBVIOUS
<1>4. \A y \in S : x >= y
  <2> TAKE y \in S
  <2>1. b - x <= b - y /\ x \in Nat /\ y \in Nat
    BY <1>2, <1>3
  <2>2. QED
    BY <2>1
<1>5. QED
  BY <1>4 DEF Max

\* The nearest of some places, for one place and for a later one.
LEMMA NearIsNearest ==
  ASSUME NEW S, S \subseteq Nat, S # {}, NEW i \in Nat
  PROVE  Near(S, i) \in S /\ \A j \in Nat : i <= j => Near(S, i) <= Near(S, j)
<1> DEFINE L(k) == {x \in S : x <= k}
<1>1. ASSUME NEW k \in Nat
      PROVE  IF L(k) # {} THEN Near(S, k) \in L(k) /\ \A x \in L(k) : x <= Near(S, k)
             ELSE Near(S, k) = Min(S)
  <2>1. Near(S, k) = IF L(k) # {} THEN Max(L(k)) ELSE Min(S)
    BY DEF Near
  <2>2. L(k) \subseteq Nat /\ \A x \in L(k) : x <= k
    OBVIOUS
  <2> HIDE DEF L
  <2>3. QED
    BY <2>1, <2>2, GreatestElement
<1>2. Min(S) \in S /\ \A y \in S : Min(S) <= y
  BY LeastElement
<1>3. \A k \in Nat : Near(S, k) \in S
  BY <1>1, <1>2
<1>4. ASSUME NEW j \in Nat, i <= j PROVE Near(S, i) <= Near(S, j)
  <2>1. CASE L(i) = {}
    <3>1. Near(S, i) = Min(S)
      BY <1>1, <2>1
    <3>2. Near(S, j) \in S
      BY <1>3
    <3>3. QED
      BY <1>2, <3>1, <3>2
  <2>2. CASE L(i) # {}
    <3>1. Near(S, i) \in L(j)
      <4>1. Near(S, i) \in S /\ Near(S, i) \in Nat /\ Near(S, i) <= i
        BY <1>1, <2>2
      <4>2. QED
        BY <1>4, <4>1
    <3>2. QED
      BY <1>1, <3>1
  <2>3. QED
    BY <2>1, <2>2
<1>5. QED
  BY <1>3, <1>4

\* The first k numbers of a finite set: there is a k-th, the next are greater.
LEMMA NthFacts ==
  ASSUME NEW S, S \subseteq Nat, IsFiniteSet(S), NEW k \in 1..Cardinality(S)
  PROVE  /\ Nth(S, k) \in S
         /\ Cardinality({y \in S : y < Nth(S, k)}) = k - 1
<1> DEFINE Below(x) == {y \in S : y < x}
           Good == {m \in Nat : m < Cardinality(S) => \E x \in S : Cardinality(Below(x)) = m}
<1>0. Cardinality(S) \in Nat /\ \A T \in SUBSET S : IsFiniteSet(T) /\ Cardinality(T) \in Nat
  BY FS_CardinalityType, FS_Subset
<1>1. 0 \in Good
  <2> SUFFICES ASSUME 0 < Cardinality(S) PROVE \E x \in S : Cardinality(Below(x)) = 0
    OBVIOUS
  <2>1. S # {}
    BY FS_EmptySet
  <2>2. PICK x \in S : \A y \in S : x <= y
    BY <2>1, LeastElement
  <2>3. Below(x) = {}
    <3>1. ASSUME NEW y \in S, y < x PROVE FALSE
      BY <2>2, <3>1
    <3>2. QED
      BY <3>1
  <2>4. QED
    BY <2>3, FS_EmptySet
<1>2. ASSUME NEW m \in 0..(k - 1), m \in Good PROVE m + 1 \in Good
  <2> SUFFICES ASSUME m + 1 < Cardinality(S) PROVE \E x \in S : Cardinality(Below(x)) = m + 1
    BY <1>2
  <2>1. PICK x \in S : Cardinality(Below(x)) = m
    BY <1>0, <1>2
  <2> DEFINE T == Below(x) \cup {x}
  <2>2. T \in SUBSET S /\ Cardinality(T) = m + 1
    <3>1. IsFiniteSet(Below(x)) /\ x \notin Below(x)
      BY <1>0
    <3> HIDE DEF Below
    <3>2. Cardinality(T) = m + 1
      BY <2>1, <3>1, FS_AddElement
    <3>3. QED
      BY <3>2 DEF Below
  <2>3. S \ T # {} /\ S \ T \subseteq Nat
    <3>1. S # T
      BY <1>0, <2>2
    <3>2. QED
      BY <2>2, <3>1
  <2>4. PICK z \in S \ T : \A y \in S \ T : z <= y
    <3> HIDE DEF T
    <3>1. QED
      BY <2>3, LeastElement
  <2>5. Below(z) = T
    <3>1. \A y \in S : x \in Nat /\ y \in Nat /\ z \in Nat /\ (y \in T <=> y <= x)
      OBVIOUS
    <3>2. z > x
      BY <2>4, <3>1
    <3>3. \A y \in S : y \in T <=> y < z
      <4>1. \A y \in S : y \notin T => z <= y
        BY <2>4
      <4>2. QED
        BY <3>1, <3>2, <4>1
    <3> HIDE DEF T
    <3>4. QED
      BY <2>2, <3>3
  <2>6. QED
    BY <2>2, <2>4, <2>5
<1>3. k - 1 \in Good
  <2>1. \A m \in 0..k : m \in Good
    <3> HIDE DEF Good
    <3>1. QED
      BY <1>0, <1>1, <1>2, ReachesAll
  <2>2. QED
    BY <1>0, <2>1
<1>4. \E x \in S : Cardinality(Below(x)) = k - 1
  BY <1>0, <1>3
<1>5. QED
  BY <1>4, Zenon DEF Nth

\* The numbers of a set come in their order.
LEMMA NthOrder ==
  ASSUME NEW S, S \subseteq Nat, IsFiniteSet(S),
         NEW k \in 1..Cardinality(S), NEW l \in 1..Cardinality(S), k < l
  PROVE  Nth(S, k) < Nth(S, l)
<1> DEFINE x == Nth(S, k)
           z == Nth(S, l)
<1>1. Cardinality(S) \in Nat
  BY FS_CardinalityType
<1>2. x \in S /\ Cardinality({y \in S : y < x}) = k - 1
  BY NthFacts
<1>3. z \in S /\ Cardinality({y \in S : y < z}) = l - 1
  BY NthFacts
<1> HIDE DEF x, z
<1>4. ASSUME z <= x PROVE FALSE
  <2> DEFINE A == {y \in S : y < z}
             B == {y \in S : y < x}
  <2>1. A \subseteq B /\ B \subseteq S
    <3>1. \A y \in S : y \in Nat /\ x \in Nat /\ z \in Nat
      BY <1>2, <1>3
    <3>2. \A y \in S : y < z => y < x
      BY <1>4, <3>1
    <3>3. QED
      BY <3>2
  <2> HIDE DEF A, B
  <2>2. IsFiniteSet(B)
    BY <2>1, FS_Subset
  <2>3. Cardinality(A) <= Cardinality(B)
    BY <2>1, <2>2, FS_Subset
  <2>4. QED
    BY <1>1, <1>2, <1>3, <2>3 DEF A, B
<1>5. x \in Nat /\ z \in Nat
  BY <1>2, <1>3
<1>6. x < z
  BY <1>4, <1>5
<1>7. QED
  BY <1>6 DEF x, z

\* The k-th number of a set is the one with k - 1 below it.
LEMMA NthIs ==
  ASSUME NEW S, S \subseteq Nat, IsFiniteSet(S), NEW k \in 1..Cardinality(S),
         NEW x \in S, Cardinality({y \in S : y < x}) = k - 1
  PROVE  Nth(S, k) = x
<1> DEFINE Below(z) == {y \in S : y < z}
<1>1. ASSUME NEW v \in S, NEW w \in S, v < w, Cardinality(Below(v)) = Cardinality(Below(w))
      PROVE  FALSE
  <2>1. \A y \in S : y \in Nat
    OBVIOUS
  <2>2. Below(v) \cup {v} \subseteq Below(w) /\ v \notin Below(v) /\ Below(w) \subseteq S
    <3>1. \A y \in S : y < v => y < w
      BY <1>1, <2>1
    <3>2. ~(v < v)
      BY <2>1
    <3>3. QED
      BY <1>1, <3>1, <3>2
  <2> HIDE DEF Below
  <2>3. IsFiniteSet(Below(v)) /\ IsFiniteSet(Below(w)) /\ Cardinality(Below(v)) \in Nat
    <3>1. IsFiniteSet(Below(w))
      BY <2>2, FS_Subset
    <3>2. Below(v) \subseteq Below(w)
      BY <2>2
    <3>3. QED
      BY <3>1, <3>2, FS_Subset, FS_CardinalityType
  <2>4. Cardinality(Below(v) \cup {v}) = Cardinality(Below(v)) + 1
    BY <2>2, <2>3, FS_AddElement
  <2>5. Cardinality(Below(v) \cup {v}) <= Cardinality(Below(w))
    BY <2>2, <2>3, FS_Subset
  <2>6. QED
    BY <1>1, <2>3, <2>4, <2>5
<1>2. Nth(S, k) \in S /\ Cardinality(Below(Nth(S, k))) = k - 1
  BY NthFacts
<1> HIDE DEF Below
<1>3. ~(x < Nth(S, k)) /\ ~(Nth(S, k) < x)
  BY <1>1, <1>2 DEF Below
<1>4. x \in Nat /\ Nth(S, k) \in Nat
  BY <1>2
<1>5. QED
  BY <1>3, <1>4

\* Every number of a set is the k-th, for some k.
LEMMA NthCovers ==
  ASSUME NEW S, S \subseteq Nat, IsFiniteSet(S), NEW x \in S
  PROVE  \E k \in 1..Cardinality(S) : Nth(S, k) = x
<1> DEFINE B == {y \in S : y < x}
           k == Cardinality(B) + 1
<1>1. B \subseteq S /\ x \notin B
  <2>1. ~(x < x)
    OBVIOUS
  <2>2. QED
    BY <2>1
<1>2. Cardinality(B) = k - 1
  <2> HIDE DEF B
  <2>1. Cardinality(B) \in Nat
    BY <1>1, FS_Subset, FS_CardinalityType
  <2>2. QED
    BY <2>1
<1>3. k \in 1..Cardinality(S)
  <2> HIDE DEF B
  <2>1. IsFiniteSet(B) /\ Cardinality(B) \in Nat /\ Cardinality(S) \in Nat
    BY <1>1, FS_Subset, FS_CardinalityType
  <2>2. Cardinality(B \cup {x}) = Cardinality(B) + 1
    BY <1>1, <2>1, FS_AddElement
  <2>3. B \cup {x} \subseteq S
    BY <1>1
  <2>4. Cardinality(B \cup {x}) <= Cardinality(S)
    BY <2>3, FS_Subset
  <2>5. QED
    BY <2>1, <2>2, <2>4
<1> HIDE DEF k
<1>4. Nth(S, k) = x
  BY <1>2, <1>3, NthIs
<1>5. QED
  BY <1>3, <1>4

\* A function on 1..n is a sequence, and a sequence is one.
LEMMA FunctionIsListing ==
  ASSUME NEW s, NEW n \in Nat, s = [i \in 1..n |-> s[i]]
  PROVE  Listing(s) /\ Len(s) = n /\ DOMAIN s = 1..n
<1>1. DOMAIN s = 1..n
  OBVIOUS
<1>2. s \in [1..n -> Range(s)]
  BY <1>1 DEF Range
<1>3. s \in Seq(Range(s))
  BY <1>2
<1>4. QED
  BY <1>1, <1>3 DEF Listing

\* What a listing is made of.
LEMMA ListingFacts ==
  ASSUME NEW s, Listing(s)
  PROVE  /\ Len(s) \in Nat /\ DOMAIN s = 1..Len(s) /\ s = [i \in 1..Len(s) |-> s[i]]
         /\ IsFiniteSet(DOMAIN s) /\ DOMAIN s \subseteq Nat
<1>1. Len(s) \in Nat /\ DOMAIN s = 1..Len(s) /\ s \in [1..Len(s) -> Range(s)]
  BY LenProperties DEF Listing
<1>2. IsFiniteSet(1..Len(s))
  BY <1>1, FS_Interval
<1>3. QED
  BY <1>1, <1>2

\* Nothing is a listing.
LEMMA EmptyIsListing == Listing(<<>>) /\ DOMAIN <<>> = {}
  BY EmptySeq DEF Listing

\* One element is a listing.
LEMMA OneIsListing ==
  ASSUME NEW x
  PROVE  Listing(<<x>>) /\ Len(<<x>>) = 1 /\ DOMAIN <<x>> = 1..1 /\ <<x>>[1] = x
<1>1. <<x>> = [i \in 1..1 |-> <<x>>[i]]
  OBVIOUS
<1>2. QED
  BY <1>1, FunctionIsListing

\* So are two.
LEMMA TwoIsListing ==
  ASSUME NEW x, NEW y
  PROVE  Listing(<<x, y>>) /\ Len(<<x, y>>) = 2 /\ <<x, y>>[1] = x /\ <<x, y>>[2] = y
<1>1. <<x, y>> = [i \in 1..2 |-> <<x, y>>[i]]
  OBVIOUS
<1>2. QED
  BY <1>1, FunctionIsListing

\* What is picked out of a sequence is a sequence of its elements.
LEMMA PickedFacts ==
  ASSUME NEW s, Listing(s), NEW I, I \subseteq DOMAIN s
  PROVE  /\ Listing(Picked(s, I))
         /\ DOMAIN Picked(s, I) = 1..Cardinality(I)
         /\ \A k \in DOMAIN Picked(s, I) : \E i \in I : Picked(s, I)[k] = s[i]
<1>1. I \subseteq Nat /\ IsFiniteSet(I) /\ Cardinality(I) \in Nat
  BY ListingFacts, FS_Subset, FS_CardinalityType
<1>2. Picked(s, I) = [k \in 1..Cardinality(I) |-> Picked(s, I)[k]]
  BY DEF Picked
<1>3. Listing(Picked(s, I)) /\ DOMAIN Picked(s, I) = 1..Cardinality(I)
  BY <1>1, <1>2, FunctionIsListing
<1>4. ASSUME NEW k \in 1..Cardinality(I)
      PROVE  \E i \in I : Picked(s, I)[k] = s[i]
  <2>1. Nth(I, k) \in I
    BY <1>1, NthFacts
  <2>2. QED
    BY <2>1 DEF Picked
<1>5. QED
  BY <1>3, <1>4

\* Sequences of a length are equal when their elements are.
LEMMA SameListing ==
  ASSUME NEW s, Listing(s), NEW t, Listing(t), Len(s) = Len(t), \A i \in 1..Len(s) : s[i] = t[i]
  PROVE  s = t
<1>1. s = [i \in 1..Len(s) |-> s[i]] /\ t = [i \in 1..Len(s) |-> t[i]]
  BY ListingFacts
<1>2. [i \in 1..Len(s) |-> s[i]] = [i \in 1..Len(s) |-> t[i]]
  OBVIOUS
<1>3. QED
  BY <1>1, <1>2

\* One sequence after another.
LEMMA ConcatIsListing ==
  ASSUME NEW a, Listing(a), NEW b, Listing(b)
  PROVE  /\ Listing(a \o b) /\ Len(a \o b) = Len(a) + Len(b) /\ DOMAIN (a \o b) = 1..(Len(a) + Len(b))
         /\ \A i \in 1..Len(a) : (a \o b)[i] = a[i]
         /\ \A i \in 1..Len(b) : (a \o b)[Len(a) + i] = b[i]
<1> DEFINE S == Range(a) \cup Range(b)
<1>1. a \in Seq(S) /\ b \in Seq(S)
  <2>1. Range(a) \subseteq S /\ Range(b) \subseteq S
    OBVIOUS
  <2> HIDE DEF S
  <2>2. QED
    BY <2>1, SeqMonotonic DEF Listing
<1> HIDE DEF S
<1>2. Len(a) \in Nat /\ Len(b) \in Nat
  BY ListingFacts
<1>3. /\ a \o b \in Seq(S) /\ Len(a \o b) = Len(a) + Len(b)
      /\ \A i \in 1..(Len(a) + Len(b)) : (a \o b)[i] = IF i <= Len(a) THEN a[i] ELSE b[i - Len(a)]
  BY <1>1, ConcatProperties
<1>4. Listing(a \o b) /\ DOMAIN (a \o b) = 1..(Len(a) + Len(b))
  BY <1>3, SeqOfRange, LenProperties DEF Listing
<1>5. ASSUME NEW i \in 1..Len(a) PROVE (a \o b)[i] = a[i]
  BY <1>2, <1>3
<1>6. ASSUME NEW i \in 1..Len(b) PROVE (a \o b)[Len(a) + i] = b[i]
  <2>1. Len(a) + i \in 1..(Len(a) + Len(b)) /\ ~(Len(a) + i <= Len(a)) /\ (Len(a) + i) - Len(a) = i
    BY <1>2
  <2>2. QED
    BY <1>3, <2>1
<1>7. QED
  BY <1>3, <1>4, <1>5, <1>6

\* It does not matter which two of three are joined first.
LEMMA ConcatInOrder ==
  ASSUME NEW a, Listing(a), NEW b, Listing(b), NEW c, Listing(c)
  PROVE  (a \o b) \o c = a \o (b \o c)
<1> DEFINE S == (Range(a) \cup Range(b)) \cup Range(c)
<1>1. Range(a) \subseteq S /\ Range(b) \subseteq S /\ Range(c) \subseteq S
  OBVIOUS
<1> HIDE DEF S
<1>2. a \in Seq(S) /\ b \in Seq(S) /\ c \in Seq(S)
  BY <1>1, SeqMonotonic DEF Listing
<1>3. QED
  BY <1>2, ConcatAssociative

\* Nothing before or after changes nothing.
LEMMA ConcatWithNone ==
  ASSUME NEW s, Listing(s)
  PROVE  <<>> \o s = s /\ s \o <<>> = s
BY ConcatEmptySeq DEF Listing

(***************************************************************************)
(* Sequences one after the other.                                          *)
(***************************************************************************)

\* The first m of a sequence, and a sequence of sequences.
Upto(s, m) == [i \in 1..m |-> s[i]]
Blocks(ss) == Listing(ss) /\ \A i \in DOMAIN ss : Listing(ss[i])

\* The first elements of a listing.
LEMMA UptoFacts ==
  ASSUME NEW s, Listing(s), NEW m \in 0..Len(s)
  PROVE  /\ Listing(Upto(s, m)) /\ Len(Upto(s, m)) = m /\ DOMAIN Upto(s, m) = 1..m
         /\ \A i \in 1..m : Upto(s, m)[i] = s[i]
         /\ Upto(s, Len(s)) = s /\ Upto(s, 0) = <<>>
<1>1. m \in Nat /\ Len(s) \in Nat
  BY ListingFacts
<1>2. Upto(s, m) = [i \in 1..m |-> Upto(s, m)[i]]
  BY DEF Upto
<1>3. Listing(Upto(s, m)) /\ Len(Upto(s, m)) = m /\ DOMAIN Upto(s, m) = 1..m
  BY <1>1, <1>2, FunctionIsListing
<1>4. Upto(s, Len(s)) = s
  BY ListingFacts DEF Upto
<1>5. Upto(s, 0) = <<>>
  <2>1. Upto(s, 0) = [i \in 1..0 |-> s[i]]
    BY DEF Upto
  <2>2. QED
    BY <2>1
<1>6. QED
  BY <1>3, <1>4, <1>5 DEF Upto

\* The recursion that FlattenSeq is defined by has a solution, and one only.
Adds(ss, n, g) == g = [i \in 1..n |-> IF i = 1 THEN ss[i] ELSE g[i - 1] \o ss[i]]

\* The recursion has a solution.
LEMMA FlattenOpens ==
  ASSUME NEW ss, NEW n \in Nat
  PROVE  \E g : Adds(ss, n, g)
<1> DEFINE Flat(m, g) == g = [i \in 1..m |-> IF i = 1 THEN ss[i] ELSE g[i - 1] \o ss[i]]
           Known == {m \in 0..n : \E g : Flat(m, g)}
<1>1. 0 \in Known
  <2>1. <<>> = [i \in 1..0 |-> IF i = 1 THEN ss[i] ELSE <<>>[i - 1] \o ss[i]]
    OBVIOUS
  <2>2. Flat(0, <<>>)
    BY <2>1
  <2> HIDE DEF Flat
  <2>3. QED
    BY <2>2
<1>2. ASSUME NEW m \in 0..(n - 1), m \in Known PROVE m + 1 \in Known
  <2>1. PICK g : Flat(m, g)
    BY <1>2
  <2> DEFINE h == [i \in 1..(m + 1) |->
                     IF i = m + 1 THEN IF i = 1 THEN ss[i] ELSE g[m] \o ss[i] ELSE g[i]]
  <2>2. ASSUME NEW i \in 1..(m + 1) PROVE h[i] = IF i = 1 THEN ss[i] ELSE h[i - 1] \o ss[i]
    <3>1. CASE i = m + 1
      BY <3>1
    <3>2. CASE i # m + 1
      <4>1. i \in 1..m /\ h[i] = g[i] /\ (i # 1 => i - 1 \in 1..m /\ h[i - 1] = g[i - 1])
        BY <3>2
      <4>2. g[i] = IF i = 1 THEN ss[i] ELSE g[i - 1] \o ss[i]
        BY <2>1, <4>1
      <4> HIDE DEF h
      <4>3. QED
        BY <4>1, <4>2
    <3>3. QED
      BY <3>1, <3>2
  <2>3. h = [i \in 1..(m + 1) |-> h[i]]
    OBVIOUS
  <2> HIDE DEF h
  <2>4. Flat(m + 1, h)
    BY <2>2, <2>3
  <2> HIDE DEF Flat
  <2>5. QED
    BY <2>4
<1> HIDE DEF Known, Flat
<1>3. n \in Known
  <2>1. \A m \in 0..n : m \in Known
    BY <1>1, <1>2, ReachesAll
  <2>2. QED
    BY <2>1
<1>4. \E g : Flat(n, g)
  BY <1>3 DEF Known
<1>5. QED
  BY <1>4 DEF Flat, Adds

\* Its solution at the end is what FlattenSeq chooses.
LEMMA FlattenIs ==
  ASSUME NEW ss, NEW n \in Nat \ {0}, Len(ss) = n,
         NEW g, Adds(ss, n, g)
  PROVE  FlattenSeq(ss) = g[n]
<1> DEFINE Flat(h) == h = [i \in 1..n |-> IF i = 1 THEN ss[i] ELSE h[i - 1] \o ss[i]]
           f == CHOOSE h : Flat(h)
<1>0. g = [i \in 1..n |-> IF i = 1 THEN ss[i] ELSE g[i - 1] \o ss[i]]
  BY DEF Adds
<1>1. Flat(f)
  <2>1. Flat(g)
    BY <1>0
  <2> HIDE DEF Flat
  <2>2. QED
    BY <2>1, Zenon
<1>2. FlattenSeq(ss) = f[n]
  BY DEF FlattenSeq
<1> HIDE DEF f
<1> DEFINE Same == {m \in 0..n : m # 0 => f[m] = g[m]}
<1>3. 0 \in Same
  OBVIOUS
<1>4. ASSUME NEW m \in 0..(n - 1), m \in Same PROVE m + 1 \in Same
  <2>1. m + 1 \in 1..n /\ (m + 1) - 1 = m /\ (m = 0 \/ f[m] = g[m])
    BY <1>4
  <2>2. f[m + 1] = IF m + 1 = 1 THEN ss[m + 1] ELSE f[(m + 1) - 1] \o ss[m + 1]
    BY <1>1, <2>1
  <2>3. g[m + 1] = IF m + 1 = 1 THEN ss[m + 1] ELSE g[(m + 1) - 1] \o ss[m + 1]
    BY <1>0, <2>1
  <2>4. f[m + 1] = g[m + 1]
    BY <2>1, <2>2, <2>3
  <2>5. QED
    BY <2>1, <2>4
<1>5. n \in Same
  <2> HIDE DEF Same
  <2>1. \A m \in 0..n : m \in Same
    BY <1>3, <1>4, ReachesAll
  <2>2. QED
    BY <2>1
<1>6. QED
  BY <1>2, <1>5

\* No sequences one after the other.
LEMMA FlattenNone == FlattenSeq(<<>>) = <<>>
BY EmptySeq, LenProperties DEF FlattenSeq

\* One sequence is itself.
LEMMA FlattenOne ==
  ASSUME NEW x
  PROVE  FlattenSeq(<<x>>) = x
<1> DEFINE g == [i \in 1..1 |-> x]
<1>1. g = [i \in 1..1 |-> IF i = 1 THEN <<x>>[i] ELSE g[i - 1] \o <<x>>[i]] /\ g[1] = x
  OBVIOUS
<1> HIDE DEF g
<1>2. Adds(<<x>>, 1, g)
  BY <1>1 DEF Adds
<1>3. 1 \in Nat \ {0} /\ Len(<<x>>) = 1
  BY OneIsListing
<1>4. FlattenSeq(<<x>>) = g[1]
  BY <1>2, <1>3, FlattenIs, Zenon
<1>5. QED
  BY <1>1, <1>4

\* One more sequence comes after the others.
LEMMA FlattenStep ==
  ASSUME NEW ss, Blocks(ss), NEW m \in 0..(Len(ss) - 1)
  PROVE  FlattenSeq(Upto(ss, m + 1)) = FlattenSeq(Upto(ss, m)) \o ss[m + 1]
<1>1. Len(ss) \in Nat /\ DOMAIN ss = 1..Len(ss) /\ m \in Nat /\ Listing(ss)
  BY ListingFacts DEF Blocks
<1>0. m + 1 \in Nat /\ m + 1 \in Nat \ {0}
  BY <1>1
<1> PICK g : Adds(ss, m + 1, g)
  BY <1>0, FlattenOpens, Zenon
<1>2. g = [i \in 1..(m + 1) |-> IF i = 1 THEN ss[i] ELSE g[i - 1] \o ss[i]]
  BY DEF Adds
<1>3. /\ Len(Upto(ss, m + 1)) = m + 1 /\ \A i \in 1..(m + 1) : Upto(ss, m + 1)[i] = ss[i]
      /\ Len(Upto(ss, m)) = m /\ \A i \in 1..m : Upto(ss, m)[i] = ss[i]
  BY <1>1, UptoFacts
<1>4. FlattenSeq(Upto(ss, m + 1)) = g[m + 1]
  <2>1. g = [i \in 1..(m + 1) |-> IF i = 1 THEN Upto(ss, m + 1)[i] ELSE g[i - 1] \o Upto(ss, m + 1)[i]]
    BY <1>2, <1>3
  <2>2. Adds(Upto(ss, m + 1), m + 1, g)
    BY <2>1 DEF Adds
  <2>3. QED
    BY <1>0, <1>3, <2>2, FlattenIs, Zenon
<1>5. CASE m = 0
  <2>1. g[m + 1] = ss[m + 1]
    BY <1>2, <1>5
  <2>2. FlattenSeq(Upto(ss, m)) = <<>>
    BY <1>1, <1>5, UptoFacts, FlattenNone
  <2>3. Listing(ss[m + 1])
    BY <1>1 DEF Blocks
  <2>4. QED
    BY <1>4, <2>1, <2>2, <2>3, ConcatWithNone
<1>6. CASE m # 0
  <2> DEFINE h == [i \in 1..m |-> g[i]]
  <2>1. h = [i \in 1..m |-> IF i = 1 THEN Upto(ss, m)[i] ELSE h[i - 1] \o Upto(ss, m)[i]]
    <3>1. ASSUME NEW i \in 1..m PROVE h[i] = IF i = 1 THEN ss[i] ELSE h[i - 1] \o ss[i]
      <4>1. i \in 1..(m + 1) /\ h[i] = g[i] /\ (i # 1 => h[i - 1] = g[i - 1])
        BY <1>1
      <4> HIDE DEF h
      <4>2. g[i] = IF i = 1 THEN ss[i] ELSE g[i - 1] \o ss[i]
        BY <1>2, <4>1
      <4>3. QED
        BY <4>1, <4>2
    <3>2. h = [i \in 1..m |-> h[i]]
      OBVIOUS
    <3> HIDE DEF h
    <3>3. QED
      BY <1>3, <3>1, <3>2
  <2>2. h[m] = g[m]
    BY <1>1, <1>6
  <2> HIDE DEF h
  <2>3. FlattenSeq(Upto(ss, m)) = g[m]
    <3>1. Adds(Upto(ss, m), m, h) /\ m \in Nat \ {0}
      BY <1>1, <1>6, <2>1 DEF Adds
    <3>2. QED
      BY <1>3, <2>2, <3>1, FlattenIs
  <2>4. g[m + 1] = g[m] \o ss[m + 1]
    <3>1. m + 1 \in 1..(m + 1) /\ m + 1 # 1 /\ (m + 1) - 1 = m
      BY <1>1, <1>6
    <3>2. g[m + 1] = IF m + 1 = 1 THEN ss[m + 1] ELSE g[(m + 1) - 1] \o ss[m + 1]
      BY <1>2, <3>1
    <3>3. QED
      BY <3>1, <3>2
  <2>5. QED
    BY <1>4, <2>3, <2>4
<1>7. QED
  BY <1>5, <1>6

\* The sequences one after the other hold what each holds.
LEMMA FlattenFacts ==
  ASSUME NEW ss, Listing(ss), \A i \in DOMAIN ss : Listing(ss[i])
  PROVE  /\ Listing(FlattenSeq(ss))
         /\ \A k \in DOMAIN FlattenSeq(ss) :
              \E i \in DOMAIN ss : \E j \in DOMAIN ss[i] : FlattenSeq(ss)[k] = ss[i][j]
<1> DEFINE n == Len(ss)
           T == UNION {Range(ss[i]) : i \in DOMAIN ss}
           Typed == {m \in 0..n : FlattenSeq(Upto(ss, m)) \in Seq(T)}
<1>1. n \in Nat /\ DOMAIN ss = 1..n
  BY ListingFacts
<1>2. ASSUME NEW i \in 1..n PROVE ss[i] \in Seq(T)
  <2>1. ss[i] \in Seq(Range(ss[i])) /\ Range(ss[i]) \subseteq T
    BY <1>1 DEF Listing
  <2> HIDE DEF T
  <2>2. QED
    BY <2>1, SeqMonotonic
<1> HIDE DEF T
<1>3. 0 \in Typed
  <2>1. Upto(ss, 0) = <<>>
    BY <1>1, UptoFacts
  <2>2. FlattenSeq(Upto(ss, 0)) \in Seq(T)
    BY <2>1, FlattenNone, EmptySeq
  <2>3. QED
    BY <1>1, <2>2
<1>4. ASSUME NEW m \in 0..(n - 1), m \in Typed PROVE m + 1 \in Typed
  <2>1. FlattenSeq(Upto(ss, m + 1)) = FlattenSeq(Upto(ss, m)) \o ss[m + 1]
    BY FlattenStep DEF Blocks
  <2>2. m + 1 \in 1..n
    BY <1>1
  <2>3. FlattenSeq(Upto(ss, m)) \in Seq(T) /\ ss[m + 1] \in Seq(T)
    BY <1>2, <1>4, <2>2
  <2>4. FlattenSeq(Upto(ss, m)) \o ss[m + 1] \in Seq(T)
    BY <2>3, ConcatProperties
  <2>5. FlattenSeq(Upto(ss, m + 1)) \in Seq(T)
    BY <2>1, <2>4, Zenon
  <2>6. QED
    BY <1>1, <2>2, <2>5
<1>5. FlattenSeq(ss) \in Seq(T)
  <2>1. n \in Typed
    <3> HIDE DEF Typed
    <3>1. \A m \in 0..n : m \in Typed
      BY <1>1, <1>3, <1>4, ReachesAll
    <3>2. QED
      BY <1>1, <3>1
  <2>2. Upto(ss, n) = ss
    BY <1>1, UptoFacts
  <2>3. QED
    BY <2>1, <2>2
<1>6. Listing(FlattenSeq(ss)) /\ \A k \in DOMAIN FlattenSeq(ss) : FlattenSeq(ss)[k] \in T
  BY <1>5, SeqOfRange, LenProperties, ElementOfSeq DEF Listing
<1>7. QED
  BY <1>6 DEF Range, T

(***************************************************************************)
(* The split of an utterance.                                              *)
(***************************************************************************)

Utterances(us) == Listing(us) /\ \A u \in DOMAIN us : IsUtterance(us[u])

\* The words of an item that %mor counts.
LEMMA MorIsListing ==
  ASSUME NEW items, ItemsHold(items), NEW i \in DOMAIN items
  PROVE  Listing(MorOf(items[i]))
BY EmptyIsListing DEF ItemsHold, MorOf

\* The words of an utterance that %mor counts.
LEMMA MorWordsIsListing ==
  ASSUME NEW utt, ItemsHold(utt.items)
  PROVE  Listing(MorWords(utt))
<1> DEFINE ss == [i \in DOMAIN utt.items |-> MorOf(utt.items[i])]
<1>1. Len(utt.items) \in Nat /\ DOMAIN utt.items = 1..Len(utt.items)
  BY ListingFacts DEF ItemsHold
<1>2. DOMAIN ss = DOMAIN utt.items /\ \A i \in DOMAIN ss : Listing(ss[i])
  BY MorIsListing
<1>3. ss = [i \in 1..Len(utt.items) |-> ss[i]]
  BY <1>1
<1> HIDE DEF ss
<1>4. Listing(ss)
  BY <1>1, <1>3, FunctionIsListing
<1>5. Listing(FlattenSeq(ss))
  BY <1>2, <1>4, FlattenFacts
<1>6. QED
  BY <1>5 DEF MorWords, ss

\* The item of each of them.
LEMMA WordToContentIsListing ==
  ASSUME NEW items, ItemsHold(items)
  PROVE  Listing(WordToContent(items))
<1> DEFINE ss == [i \in DOMAIN items |-> [k \in DOMAIN MorOf(items[i]) |-> i]]
<1>1. Len(items) \in Nat /\ DOMAIN items = 1..Len(items)
  BY ListingFacts DEF ItemsHold
<1>2. ASSUME NEW i \in DOMAIN items PROVE Listing(ss[i])
  <2>1. Len(MorOf(items[i])) \in Nat /\ DOMAIN MorOf(items[i]) = 1..Len(MorOf(items[i]))
    BY MorIsListing, ListingFacts
  <2>2. ss[i] = [k \in 1..Len(MorOf(items[i])) |-> ss[i][k]]
    BY <2>1
  <2>3. QED
    BY <2>1, <2>2, FunctionIsListing
<1>3. DOMAIN ss = DOMAIN items /\ ss = [i \in 1..Len(items) |-> ss[i]]
  BY <1>1
<1> HIDE DEF ss
<1>4. Listing(ss)
  BY <1>1, <1>3, FunctionIsListing
<1>5. Listing(FlattenSeq(ss))
  BY <1>2, <1>3, <1>4, FlattenFacts
<1>6. QED
  BY <1>5 DEF WordToContent, ss

\* Every item of an utterance gets a group, which is a number.
LEMMA GroupIsNumber ==
  ASSUME NEW items, ItemsHold(items), NEW a, \A k \in Nat \cap DOMAIN a : a[k] \in Nat
  PROVE  GroupOf(items, a) \in [DOMAIN items -> Nat]
<1>1. Len(items) \in Nat /\ DOMAIN items = 1..Len(items)
  BY ListingFacts DEF ItemsHold
<1>2. ASSUME NEW i PROVE OwnGroup(items, a, i) \in Nat \cup {None}
  <2> DEFINE ks == {k \in DOMAIN WordToContent(items) \cap DOMAIN a : WordToContent(items)[k] = i}
  <2>1. ks \subseteq Nat \cap DOMAIN a
    BY WordToContentIsListing, ListingFacts
  <2>2. OwnGroup(items, a, i) = IF ks = {} THEN None ELSE a[Min(ks)]
    BY DEF OwnGroup
  <2> HIDE DEF ks
  <2>3. QED
    BY <2>1, <2>2, LeastElement
<1>3. ASSUME NEW i PROVE Settled(items, a, i) \in Nat \cup {None}
  BY <1>2 DEF Settled
<1> DEFINE settled == [i \in DOMAIN items |-> Settled(items, a, i)]
           S == {j \in DOMAIN settled : settled[j] # None}
<1>4. GroupOf(items, a) = [i \in DOMAIN items |-> IF S = {} THEN 0 ELSE settled[Near(S, i)]]
  BY DEF GroupOf, Joined
<1>5. \A j \in S : settled[j] \in Nat
  BY <1>3
<1>6. S \subseteq Nat /\ DOMAIN items \subseteq Nat
  BY <1>1
<1> HIDE DEF settled, S
<1>7. ASSUME NEW i \in DOMAIN items, S # {} PROVE Near(S, i) \in S
  BY <1>6, <1>7, NearIsNearest
<1>8. QED
  BY <1>4, <1>5, <1>7

\* The range of a sequence is finite.
LEMMA RangeIsFinite ==
  ASSUME NEW S, IsFiniteSet(S), NEW T, NEW f \in [S -> T]
  PROVE  IsFiniteSet(Range(f)) /\ Range(f) \subseteq T
<1>1. f \in [S -> Range(f)] /\ \A t \in Range(f) : \E s \in S : f[s] = t
  BY DEF Range
<1>2. f \in Surjection(S, Range(f))
  BY <1>1 DEF Surjection
<1>3. Range(f) \subseteq T
  BY DEF Range
<1>4. QED
  BY <1>2, <1>3, FS_Surjection

\* A group of items is a piece of the utterance's.
LEMMA PickedItemsHold ==
  ASSUME NEW items, ItemsHold(items), NEW I, I \subseteq DOMAIN items
  PROVE  /\ ItemsHold(Picked(items, I))
         /\ ItemsClocked(items) => ItemsClocked(Picked(items, I))
BY PickedFacts DEF ItemsHold, ItemsClocked

\* So is a part of a %wor tier, and a tier more keeps the times.
LEMMA PickedClocked ==
  ASSUME NEW words, Listing(words), Clocked(words), NEW I, I \subseteq DOMAIN words
  PROVE  Listing(Picked(words, I)) /\ Clocked(Picked(words, I))
BY PickedFacts DEF Clocked

\* Timed tiers before timed tiers.
LEMMA TiersClockedJoined ==
  ASSUME NEW ts, Listing(ts), TiersClocked(ts), NEW rs, Listing(rs), TiersClocked(rs)
  PROVE  TiersClocked(ts \o rs)
<1>1. /\ DOMAIN (ts \o rs) = 1..(Len(ts) + Len(rs))
      /\ \A i \in 1..Len(ts) : (ts \o rs)[i] = ts[i]
      /\ \A i \in 1..Len(rs) : (ts \o rs)[Len(ts) + i] = rs[i]
  BY ConcatIsListing
<1>2. /\ Len(ts) \in Nat /\ DOMAIN ts = 1..Len(ts)
      /\ Len(rs) \in Nat /\ DOMAIN rs = 1..Len(rs)
  BY ListingFacts
<1>3. ASSUME NEW i \in DOMAIN (ts \o rs)
      PROVE  (\E j \in DOMAIN ts : (ts \o rs)[i] = ts[j]) \/ (\E j \in DOMAIN rs : (ts \o rs)[i] = rs[j])
  <2> DEFINE a == Len(ts)
             b == Len(rs)
  <2>1. a \in Nat /\ b \in Nat /\ i \in 1..(a + b)
    BY <1>1, <1>2
  <2> HIDE DEF a, b
  <2>2. i \in 1..a \/ (i - a \in 1..b /\ i = a + (i - a))
    BY <2>1
  <2>3. QED
    BY <1>1, <1>2, <2>2 DEF a, b
<1> DEFINE s == ts \o rs
<1> HIDE DEF s
<1>4. \A i \in DOMAIN s : (\E j \in DOMAIN ts : s[i] = ts[j]) \/ (\E j \in DOMAIN rs : s[i] = rs[j])
  BY <1>3 DEF s
<1>5. TiersClocked(s)
  BY <1>4 DEF TiersClocked
<1>6. QED
  BY <1>5 DEF s

\* The words of a %wor tier of an utterance have times.
LEMMA WorClocked ==
  ASSUME NEW utt, IsUtterance(utt), Has(utt, "wor")
  PROVE  Listing(Content(utt, "wor")) /\ Clocked(Content(utt, "wor"))
<1> DEFINE S == {i \in DOMAIN utt.tiers : utt.tiers[i].label = "wor"}
<1>1. S \subseteq Nat /\ S # {}
  BY ListingFacts DEF IsUtterance, Has
<1>2. Content(utt, "wor") = utt.tiers[Min(S)].content
  BY DEF Content
<1>3. Min(S) \in S
  <2> HIDE DEF S
  <2>1. QED
    BY <1>1, LeastElement
<1>4. QED
  BY <1>2, <1>3 DEF IsUtterance, TiersClocked

\* The part of a %wor tier that a group gets.
LEMMA PartitionClocked ==
  ASSUME NEW utt, IsUtterance(utt), NEW group, PartitionWor(utt, group) # None, NEW g \in Range(group)
  PROVE  Listing(PartitionWor(utt, group)[g]) /\ Clocked(PartitionWor(utt, group)[g])
<1> DEFINE wor == Content(utt, "wor")
<1>1. Has(utt, "wor")
  BY DEF PartitionWor
<1>2. Listing(wor) /\ Clocked(wor)
  BY <1>1, WorClocked
<1>3. PICK I : I \subseteq DOMAIN wor /\ PartitionWor(utt, group)[g] = Picked(wor, I)
  BY DEF PartitionWor
<1>4. QED
  BY <1>2, <1>3, PickedClocked

\* The children of an utterance are utterances.
LEMMA ChildrenFacts ==
  ASSUME NEW utt, IsUtterance(utt), NEW content, NEW wor,
         IsFiniteSet(DOMAIN content), DOMAIN content \subseteq Nat,
         \A g \in DOMAIN content : ItemsHold(content[g]) /\ ItemsClocked(content[g]),
         wor # None => \A g \in DOMAIN content : Listing(wor[g]) /\ Clocked(wor[g])
  PROVE  Utterances(Children(utt, content, wor))
<1> DEFINE G == {g \in DOMAIN content : content[g] # <<>>}
           last == Cardinality(G)
           children == Children(utt, content, wor)
           own(g) == IF wor = None THEN <<>>
                     ELSE IF wor[g] = <<>> THEN <<>> ELSE <<Tier("wor", wor[g])>>
           first(k) == IF k = 1 THEN AttachedFirst(utt) ELSE <<>>
<1>1. CASE G = {}
  <2>1. children = <<utt>>
    BY <1>1 DEF Children
  <2>2. QED
    BY <2>1, OneIsListing DEF Utterances
<1>2. CASE G # {}
  <2>1. G \subseteq Nat /\ IsFiniteSet(G) /\ last \in Nat
    BY FS_Subset, FS_CardinalityType
  <2>2. DOMAIN children = 1..last /\ children = [k \in 1..last |-> children[k]]
    BY <1>2 DEF Children
  <2>3. ASSUME NEW k \in 1..last
        PROVE  /\ children[k] = [speaker |-> children[k].speaker, lang |-> children[k].lang,
                                 items |-> children[k].items, linkers |-> children[k].linkers,
                                 postcodes |-> children[k].postcodes, term |-> children[k].term,
                                 bullet |-> children[k].bullet, tiers |-> children[k].tiers]
               /\ children[k].items = content[Nth(G, k)]
               /\ children[k].linkers \in {utt.linkers, <<>>}
               /\ children[k].postcodes \in {utt.postcodes, <<>>}
               /\ children[k].tiers = own(Nth(G, k)) \o first(k)
    BY <1>2 DEF Children
  <2>8. \A k \in 1..last : children[k].bullet \in {utt.bullet, None}
    BY <1>2 DEF Children
  <2> HIDE DEF children
  <2>4. ASSUME NEW k \in 1..last PROVE Nth(G, k) \in DOMAIN content
    <3> HIDE DEF G
    <3>1. Nth(G, k) \in G
      BY <2>1, NthFacts
    <3>2. QED
      BY <3>1 DEF G
  <2>5. ASSUME NEW k \in 1..last PROVE IsUtterance(children[k])
    <3>1. ItemsHold(children[k].items) /\ ItemsClocked(children[k].items)
      BY <2>3, <2>4
    <3>2. Listing(children[k].linkers) /\ Listing(children[k].postcodes)
      BY <2>3, EmptyIsListing DEF IsUtterance
    <3>3. Listing(AttachedFirst(utt)) /\ TiersClocked(AttachedFirst(utt))
      BY PickedFacts DEF IsUtterance, TiersClocked, AttachedFirst
    <3>4. Listing(children[k].tiers) /\ TiersClocked(children[k].tiers)
      <4>1. Listing(own(Nth(G, k))) /\ Listing(first(k))
        BY <3>3, EmptyIsListing, OneIsListing
      <4>2. TiersClocked(first(k))
        BY <3>3, EmptyIsListing DEF TiersClocked
      <4>3. TiersClocked(own(Nth(G, k)))
        <5>1. wor # None => Listing(wor[Nth(G, k)]) /\ Clocked(wor[Nth(G, k)])
          BY <2>4
        <5> HIDE DEF G
        <5>2. QED
          BY <5>1, EmptyIsListing, OneIsListing DEF TiersClocked, Tier
      <4> HIDE DEF own, first, G
      <4>4. Listing(own(Nth(G, k)) \o first(k)) /\ TiersClocked(own(Nth(G, k)) \o first(k))
        BY <4>1, <4>2, <4>3, ConcatIsListing, TiersClockedJoined
      <4>5. QED
        BY <2>3, <4>4
    <3>5. IsTime(children[k].bullet)
      BY <2>8 DEF IsUtterance, IsTime
    <3>6. QED
      BY <2>3, <3>1, <3>2, <3>4, <3>5 DEF IsUtterance
  <2> HIDE DEF last
  <2>6. Listing(children)
    BY <2>1, <2>2, FunctionIsListing
  <2>7. QED
    BY <2>2, <2>5, <2>6 DEF Utterances, children
<1>3. QED
  BY <1>1, <1>2

\* What an utterance is split into are utterances.
LEMMA SplitFacts ==
  ASSUME NEW utt, IsUtterance(utt), NEW a, \A k \in Nat \cap DOMAIN a : a[k] \in Nat
  PROVE  Utterances(Split(utt, a))
<1> DEFINE group == GroupOf(utt.items, a)
           content == [g \in Range(group) |-> Picked(utt.items, WithoutLeading(utt.items, group, g))]
<1>1. ItemsHold(utt.items)
  BY DEF IsUtterance
<1>2. group \in [DOMAIN utt.items -> Nat]
  BY <1>1, GroupIsNumber
<1>3. Utterances(<<utt>>)
  BY OneIsListing DEF Utterances
<1>4. IsFiniteSet(DOMAIN utt.items)
  BY <1>1, ListingFacts DEF ItemsHold
<1>5. Split(utt, a) = <<utt>> \/ Split(utt, a) = Children(utt, content, PartitionWor(utt, group))
  BY DEF Split, Grouped
<1> HIDE DEF group
<1>6. IsFiniteSet(Range(group)) /\ Range(group) \subseteq Nat
  BY <1>2, <1>4, RangeIsFinite
<1>7. \A g \in Range(group) : ItemsHold(content[g]) /\ ItemsClocked(content[g])
  <2> TAKE g \in Range(group)
  <2>1. WithoutLeading(utt.items, group, g) \subseteq DOMAIN utt.items
    BY <1>2 DEF WithoutLeading
  <2>2. QED
    BY <1>1, <2>1, PickedItemsHold DEF IsUtterance
<1>8. DOMAIN content = Range(group)
  OBVIOUS
<1> HIDE DEF content
<1>9. Utterances(Children(utt, content, PartitionWor(utt, group)))
  BY <1>6, <1>7, <1>8, PartitionClocked, ChildrenFacts
<1>10. QED
  BY <1>3, <1>5, <1>9

(***************************************************************************)
(* Transcripts.                                                            *)
(***************************************************************************)

\* The utterances of a transcript may be exchanged for others.
LEMMA WithUtterances ==
  ASSUME NEW f, IsTranscript(f), NEW us, Utterances(us)
  PROVE  IsTranscript([f EXCEPT !.utts = us])
BY DEF IsTranscript, Utterances

\* A transcript holds utterances.
LEMMA UtterancesOf ==
  ASSUME NEW f, IsTranscript(f)
  PROVE  /\ Utterances(f.utts)
         /\ Len(f.utts) \in Nat /\ DOMAIN f.utts = 1..Len(f.utts)
         /\ \A u \in DOMAIN f.utts : IsUtterance(f.utts[u]) /\ ItemsHold(f.utts[u].items)
BY ListingFacts DEF IsTranscript, Utterances, IsUtterance, ItemsHold

\* One sequence of utterances for each of some number makes one sequence.
LEMMA FlatUtterances ==
  ASSUME NEW n \in Nat, NEW ss, ss = [u \in 1..n |-> ss[u]], \A u \in 1..n : Utterances(ss[u])
  PROVE  Utterances(FlattenSeq(ss))
<1>1. Listing(ss) /\ DOMAIN ss = 1..n
  BY FunctionIsListing
<1>2. /\ Listing(FlattenSeq(ss))
      /\ \A k \in DOMAIN FlattenSeq(ss) :
           \E i \in DOMAIN ss : \E j \in DOMAIN ss[i] : FlattenSeq(ss)[k] = ss[i][j]
  <2>1. \A i \in DOMAIN ss : Listing(ss[i])
    BY <1>1 DEF Utterances
  <2>2. QED
    BY <1>1, <2>1, FlattenFacts
<1>3. QED
  BY <1>1, <1>2 DEF Utterances

\* An utterance with more tiers, or another speaker and bullet, is an utterance.
LEMMA WithTiers ==
  ASSUME NEW utt, IsUtterance(utt), NEW ts, Listing(ts), \A i \in DOMAIN ts : ts[i].label # "wor"
  PROVE  IsUtterance(With(utt, ts))
<1>1. With(utt, ts) = [speaker |-> utt.speaker, lang |-> utt.lang, items |-> utt.items,
                       linkers |-> utt.linkers, postcodes |-> utt.postcodes, term |-> utt.term,
                       bullet |-> utt.bullet, tiers |-> utt.tiers \o ts]
  <2>1. PICK sp, la, it, li, po, te, bu, ti :
          utt = [speaker |-> sp, lang |-> la, items |-> it, linkers |-> li,
                 postcodes |-> po, term |-> te, bullet |-> bu, tiers |-> ti]
    BY DEF IsUtterance
  <2>2. With(utt, ts) = [utt EXCEPT !.tiers = ti \o ts]
    BY <2>1 DEF With
  <2>3. QED
    BY <2>1, <2>2
<1>2. Listing(utt.tiers \o ts) /\ TiersClocked(utt.tiers \o ts)
  <2>1. TiersClocked(ts)
    BY DEF TiersClocked
  <2>2. QED
    BY <2>1, ConcatIsListing, TiersClockedJoined DEF IsUtterance
<1>3. QED
  BY <1>1, <1>2 DEF IsUtterance

\* An utterance stays one with another speaker,
LEMMA WithSpeaker ==
  ASSUME NEW utt, IsUtterance(utt), NEW s
  PROVE  IsUtterance([utt EXCEPT !.speaker = s])
BY DEF IsUtterance

\* and with another bullet besides.
LEMMA WithBulletAndSpeaker ==
  ASSUME NEW utt, IsUtterance(utt), NEW b, IsTime(b), NEW s
  PROVE  IsUtterance([utt EXCEPT !.bullet = b, !.speaker = s])
<1>1. IsUtterance([utt EXCEPT !.bullet = b])
  BY DEF IsUtterance
<1>2. [utt EXCEPT !.bullet = b, !.speaker = s] = [[utt EXCEPT !.bullet = b] EXCEPT !.speaker = s]
  OBVIOUS
<1>3. QED
  BY <1>1, <1>2, WithSpeaker

(***************************************************************************)
(* What the runners make of a transcript.                                  *)
(***************************************************************************)

\* The answer of a segmenter assigns numbers.
LEMMA AssignmentsAreNumbers ==
  ASSUME NEW row, NEW answer, Decodes("utseg", answer),
         AssignmentsFromSpans(row, answer) # None
  PROVE  \A k \in DOMAIN AssignmentsFromSpans(row, answer) : AssignmentsFromSpans(row, answer)[k] \in Nat
<1> DEFINE ss == [s \in DOMAIN answer |-> [k \in DOMAIN answer[s].words |-> s - 1]]
<1>1. Listing(answer) /\ \A s \in DOMAIN answer : Listing(answer[s].words)
  BY DEF Decodes
<1>2. Len(answer) \in Nat /\ DOMAIN answer = 1..Len(answer)
  BY <1>1, ListingFacts
<1>3. ASSUME NEW s \in DOMAIN answer PROVE Listing(ss[s])
  <2>1. Len(answer[s].words) \in Nat /\ DOMAIN answer[s].words = 1..Len(answer[s].words)
    BY <1>1, ListingFacts
  <2>2. ss[s] = [k \in 1..Len(answer[s].words) |-> ss[s][k]]
    BY <2>1
  <2>3. QED
    BY <2>1, <2>2, FunctionIsListing
<1>4. DOMAIN ss = DOMAIN answer /\ ss = [s \in 1..Len(answer) |-> ss[s]]
  BY <1>2
<1>5. \A s \in DOMAIN ss : \A k \in DOMAIN ss[s] : ss[s][k] \in Nat
  BY <1>2
<1>6. AssignmentsFromSpans(row, answer) \in {<<>>, FlattenSeq(ss)}
  BY DEF AssignmentsFromSpans
<1> HIDE DEF ss
<1>7. Listing(ss)
  BY <1>2, <1>4, FunctionIsListing
<1>8. \A k \in DOMAIN FlattenSeq(ss) : FlattenSeq(ss)[k] \in Nat
  BY <1>3, <1>4, <1>5, <1>7, FlattenFacts
<1>9. QED
  BY <1>6, <1>8, EmptyIsListing

\* Splits make a transcript of a transcript.
LEMMA SplitsTranscript ==
  ASSUME NEW f, IsTranscript(f), NEW map,
         \A u \in DOMAIN map : \A k \in DOMAIN map[u] : map[u][k] \in Nat
  PROVE  IsTranscript(ApplySplits(f, map))
<1> DEFINE n == Len(f.utts)
           ss == [u \in DOMAIN f.utts |->
                    IF u \in DOMAIN map THEN Split(f.utts[u], map[u]) ELSE <<f.utts[u]>>]
<1>1. n \in Nat /\ DOMAIN f.utts = 1..n /\ ss = [u \in 1..n |-> ss[u]]
  BY UtterancesOf
<1>2. ASSUME NEW u \in 1..n PROVE Utterances(ss[u])
  <2>1. IsUtterance(f.utts[u])
    BY <1>1, UtterancesOf
  <2>2. Utterances(<<f.utts[u]>>)
    BY <2>1, OneIsListing DEF Utterances
  <2>3. u \in DOMAIN map => Utterances(Split(f.utts[u], map[u]))
    BY <2>1, SplitFacts
  <2>4. QED
    BY <1>1, <2>2, <2>3
<1>3. ApplySplits(f, map) = [f EXCEPT !.utts = FlattenSeq(ss)]
  BY DEF ApplySplits
<1> HIDE DEF ss, n
<1>4. Utterances(FlattenSeq(ss))
  BY <1>1, <1>2, FlatUtterances
<1>5. QED
  BY <1>3, <1>4, WithUtterances

\* A row of words has times.
LEMMA RowFacts ==
  ASSUME NEW utt, IsUtterance(utt)
  PROVE  Listing(Row(utt)) /\ Clocked(Row(utt))
<1> DEFINE times == IF Has(utt, "wor") THEN TimesOf(WorTierWords(utt)) ELSE <<>>
<1>1. \A k \in DOMAIN times : IsTime(times[k])
  <2>1. CASE Has(utt, "wor")
    <3> DEFINE wor == Content(utt, "wor")
               I == {i \in DOMAIN wor : wor[i].text # None}
    <3>1. Listing(wor) /\ Clocked(wor) /\ I \subseteq DOMAIN wor
      BY <2>1, WorClocked
    <3>2. WorTierWords(utt) = Picked(wor, I)
      BY DEF WorTierWords
    <3> HIDE DEF wor, I
    <3>3. Clocked(WorTierWords(utt))
      BY <3>1, <3>2, PickedClocked
    <3>4. QED
      BY <2>1, <3>3 DEF TimesOf, Clocked
  <2>2. CASE ~Has(utt, "wor")
    BY <2>2, EmptyIsListing
  <2>3. QED
    BY <2>1, <2>2
<1>2. Len(MorWords(utt)) \in Nat /\ DOMAIN MorWords(utt) = 1..Len(MorWords(utt))
  BY MorWordsIsListing, ListingFacts DEF IsUtterance
<1>3. Row(utt) = [k \in 1..Len(MorWords(utt)) |->
                    [text |-> MorWords(utt)[k].text,
                     time |-> IF k \in DOMAIN times /\ times[k] # None THEN times[k] ELSE Untimed]]
  BY <1>2 DEF Row
<1>4. IsTime(Untimed)
  BY DEF IsTime, Untimed
<1> HIDE DEF times
<1>5. Row(utt) = [k \in 1..Len(MorWords(utt)) |-> Row(utt)[k]]
  BY <1>3
<1>6. Clocked(Row(utt))
  BY <1>1, <1>3, <1>4 DEF Clocked
<1>7. QED
  BY <1>2, <1>5, <1>6, FunctionIsListing

\* Words read again are items.
LEMMA ReadAgainHolds ==
  ASSUME NEW row, Listing(row)
  PROVE  ItemsHold(ReadAgain(row)) /\ ItemsClocked(ReadAgain(row)) /\ DOMAIN ReadAgain(row) = DOMAIN row
<1> DEFINE items == ReadAgain(row)
<1>1. Len(row) \in Nat /\ DOMAIN row = 1..Len(row)
  BY ListingFacts
<1>2. items = [k \in 1..Len(row) |-> items[k]] /\ DOMAIN items = DOMAIN row
  BY <1>1 DEF ReadAgain
<1>3. \A k \in DOMAIN items :
        items[k].kind = "word" /\ items[k].words = <<[text |-> row[k].text, time |-> None]>>
  BY DEF ReadAgain
<1> HIDE DEF items
<1>7. \A x : Listing(<<x>>) /\ DOMAIN <<x>> = 1..1 /\ <<x>>[1] = x
  BY OneIsListing, Zenon
<1>8. \A k \in DOMAIN items : Clocked(items[k].words) /\ Listing(items[k].words)
  <2> SUFFICES ASSUME NEW k \in DOMAIN items PROVE Clocked(items[k].words) /\ Listing(items[k].words)
    OBVIOUS
  <2> DEFINE x == [text |-> row[k].text, time |-> None]
  <2>1. x.time = None /\ items[k].words = <<x>>
    BY <1>3
  <2> HIDE DEF x
  <2>2. Listing(items[k].words) /\ DOMAIN items[k].words = 1..1 /\ items[k].words[1] = x
    BY <1>7, <2>1
  <2>3. QED
    BY <2>1, <2>2 DEF Clocked, IsTime
<1>4. ItemsClocked(items)
  BY <1>8 DEF ItemsClocked
<1>9. Listing(items)
  BY <1>1, <1>2, FunctionIsListing
<1>5. ItemsHold(items)
  BY <1>3, <1>8, <1>9 DEF ItemsHold
<1>6. QED
  BY <1>2, <1>4, <1>5 DEF items

\* What a new utterance is made of.
NewHolds(n) ==
  /\ Listing(n.words) /\ Clocked(n.words) /\ IsTime(n.bullet)
  /\ ItemsHold(n.items) /\ ItemsClocked(n.items)

\* The new utterances are made of sequences of words and of items.
LEMMA NewUtterancesHold ==
  ASSUME NEW utt, IsUtterance(utt), NEW answer, Decodes("utseg", answer)
  PROVE  LET new == NewUtterances(utt, answer)
         IN /\ Listing(new)
            /\ \A s \in DOMAIN new : NewHolds(new[s])
<1> DEFINE new == NewUtterances(utt, answer)
           I == {s \in DOMAIN answer : answer[s].items # <<>>}
           spans == Picked(answer, I)
<1>1. /\ Listing(answer)
      /\ \A s \in DOMAIN answer :
           /\ Listing(answer[s].words) /\ Clocked(answer[s].words) /\ IsTime(answer[s].window)
           /\ ItemsHold(answer[s].items) /\ ItemsClocked(answer[s].items)
  BY DEF Decodes
<1>5. IsTime(None)
  BY DEF IsTime
<1>2. CASE answer = <<>>
  <2>1. Listing(Row(utt)) /\ Clocked(Row(utt))
    BY RowFacts
  <2>5. ItemsHold(ReadAgain(Row(utt))) /\ ItemsClocked(ReadAgain(Row(utt)))
    BY <2>1, ReadAgainHolds
  <2> DEFINE x == [items |-> ReadAgain(Row(utt)), words |-> Row(utt), term |-> ".", bullet |-> None]
  <2>2. new = <<>> \/ new = <<x>>
    BY <1>2 DEF NewUtterances
  <2>6. NewHolds(x)
    BY <1>5, <2>1, <2>5 DEF NewHolds
  <2> HIDE DEF new, x
  <2>3. Listing(new) /\ \A s \in DOMAIN new : NewHolds(new[s])
    BY <2>2, <2>6, EmptyIsListing, OneIsListing
  <2>4. QED
    BY <2>3 DEF new
<1>3. CASE answer # <<>>
  <2>1. /\ Listing(spans)
        /\ \A k \in DOMAIN spans : \E i \in I : spans[k] = answer[i]
    <3>1. I \subseteq DOMAIN answer
      OBVIOUS
    <3> HIDE DEF I
    <3>2. QED
      BY <1>1, <3>1, PickedFacts
  <2>2. new = [s \in DOMAIN spans |->
                 [items |-> spans[s].items, words |-> spans[s].words,
                  term |-> IF spans[s].term = None THEN "." ELSE spans[s].term,
                  bullet |-> IF spans[s].window = Untimed THEN None ELSE spans[s].window]]
    BY <1>3 DEF NewUtterances
  <2> HIDE DEF spans, new
  <2>3. \A s \in DOMAIN spans :
          /\ Listing(spans[s].words) /\ Clocked(spans[s].words) /\ IsTime(spans[s].window)
          /\ ItemsHold(spans[s].items) /\ ItemsClocked(spans[s].items)
    BY <1>1, <2>1
  <2>4. DOMAIN new = DOMAIN spans
        /\ \A s \in DOMAIN spans :
             /\ new[s].words = spans[s].words /\ new[s].bullet \in {None, spans[s].window}
             /\ new[s].items = spans[s].items
    BY <2>2
  <2>5. Len(spans) \in Nat /\ DOMAIN spans = 1..Len(spans)
    BY <2>1, ListingFacts
  <2>6. new = [s \in 1..Len(spans) |-> new[s]]
    BY <2>2, <2>5
  <2>7. Listing(new)
    BY <2>5, <2>6, FunctionIsListing
  <2>9. \A s \in DOMAIN new : NewHolds(new[s])
    BY <1>5, <2>3, <2>4 DEF NewHolds
  <2>8. QED
    BY <2>7, <2>9 DEF new
<1>4. QED
  BY <1>2, <1>3

\* Tiers are added to the utterances of a transcript.
LEMMA EachUtterance ==
  ASSUME NEW f, IsTranscript(f), NEW us, us = [u \in DOMAIN f.utts |-> us[u]],
         \A u \in DOMAIN f.utts : IsUtterance(f.utts[u]) => IsUtterance(us[u])
  PROVE  IsTranscript([f EXCEPT !.utts = us])
<1>1. Len(f.utts) \in Nat /\ DOMAIN f.utts = 1..Len(f.utts)
  BY UtterancesOf
<1>2. Listing(us) /\ DOMAIN us = DOMAIN f.utts
  BY <1>1, FunctionIsListing
<1>3. Utterances(us)
  BY <1>2, UtterancesOf DEF Utterances
<1>4. QED
  BY <1>3, WithUtterances

\* So do tags.
LEMMA MorTranscript ==
  ASSUME NEW f, IsTranscript(f), NEW rs, NEW as, DOMAIN as = DOMAIN rs, MorApplied(f, rs, as) # None
  PROVE  IsTranscript(MorApplied(f, rs, as))
<1> DEFINE us == [u \in DOMAIN f.utts |->
                    IF AnswerFor(rs, u) = 0 THEN f.utts[u]
                    ELSE MorOrNone(f.utts[u], as[AnswerFor(rs, u)])]
<1>1. MorApplied(f, rs, as) = [f EXCEPT !.utts = us]
  BY DEF MorApplied
<1>2. \A u \in DOMAIN f.utts : IsUtterance(f.utts[u]) => IsUtterance(us[u])
  <2>1. ASSUME NEW utt, IsUtterance(utt), NEW a, MorTiers(a) # "error"
        PROVE  IsUtterance(MorOrNone(utt, a))
    <3>1. MorTiers(a) = "none" \/ \E x, y : MorTiers(a) = <<Tier("mor", x), Tier("gra", y)>>
      BY <2>1 DEF MorTiers
    <3>2. MorTiers(a) # "none" => Listing(MorTiers(a)) /\ \A i \in DOMAIN MorTiers(a) : MorTiers(a)[i].label # "wor"
      <4>1. ASSUME NEW x, NEW y
            PROVE  LET ts == <<Tier("mor", x), Tier("gra", y)>>
                   IN Listing(ts) /\ \A i \in DOMAIN ts : ts[i].label # "wor"
        BY TwoIsListing DEF Tier
      <4>2. QED
        BY <3>1, <4>1
    <3>3. QED
      BY <2>1, <3>2, WithTiers DEF MorOrNone
  <2>2. \A i \in DOMAIN rs : MorTiers(as[i]) # "error"
    BY DEF MorApplied
  <2>3. ASSUME NEW u, AnswerFor(rs, u) # 0 PROVE AnswerFor(rs, u) \in DOMAIN rs
    BY <2>3 DEF AnswerFor
  <2>4. QED
    BY <2>1, <2>2, <2>3
<1>3. us = [u \in DOMAIN f.utts |-> us[u]]
  OBVIOUS
<1> HIDE DEF us
<1>4. QED
  BY <1>1, <1>2, <1>3, EachUtterance

\* So do translations and coreferences.
LEMMA TextsTranscript ==
  ASSUME NEW f, IsTranscript(f), NEW label, label # "wor", NEW texts, TextsApplied(f, label, texts) # None
  PROVE  IsTranscript(TextsApplied(f, label, texts))
<1> DEFINE us == [u \in DOMAIN f.utts |->
                    IF texts[u] = "" THEN f.utts[u] ELSE With(f.utts[u], <<Tier(label, texts[u])>>)]
<1>1. TextsApplied(f, label, texts) = [f EXCEPT !.utts = us]
  BY DEF TextsApplied
<1>2. \A u \in DOMAIN f.utts : IsUtterance(f.utts[u]) => IsUtterance(us[u])
  <2>1. ASSUME NEW t PROVE Tier(label, t).label # "wor"
    BY DEF Tier
  <2>2. ASSUME NEW t PROVE Listing(<<Tier(label, t)>>) /\ \A i \in DOMAIN <<Tier(label, t)>> : <<Tier(label, t)>>[i].label # "wor"
    BY <2>1, OneIsListing
  <2>3. QED
    BY <2>2, WithTiers
<1>3. us = [u \in DOMAIN f.utts |-> us[u]]
  OBVIOUS
<1> HIDE DEF us
<1>4. QED
  BY <1>1, <1>2, <1>3, EachUtterance

\* So does a stamp.
LEMMA StampedTranscript ==
  ASSUME NEW f, IsTranscript(f), NEW s, NEW engine
  PROVE  IsTranscript(Stamped(f, s, engine))
<1>1. PICK x : Stamped(f, s, engine) = [f EXCEPT !.stamps = x]
  BY DEF Stamped
<1>2. IsTranscript([f EXCEPT !.stamps = x])
  BY DEF IsTranscript
<1>3. QED
  BY <1>1, <1>2

\* So do phones.
LEMMA PhoTranscript ==
  ASSUME NEW f, IsTranscript(f), NEW rs, NEW answer, PhoApplied(f, rs, answer) # None
  PROVE  IsTranscript(PhoApplied(f, rs, answer))
<1> DEFINE at(u) == {i \in DOMAIN rs : rs[i].utt = u}
           ipaOf(i) == [k \in DOMAIN answer[i].ipa |-> Ipa(f, rs[i].units[k], answer[i].ipa[k])]
           us == [u \in DOMAIN f.utts |->
                    IF at(u) = {} THEN f.utts[u] ELSE With(f.utts[u], <<Tier("pho", ipaOf(Min(at(u))))>>)]
<1>1. PhoApplied(f, rs, answer) = [f EXCEPT !.utts = us]
  BY DEF PhoApplied
<1>2. \A u \in DOMAIN f.utts : IsUtterance(f.utts[u]) => IsUtterance(us[u])
  BY OneIsListing, WithTiers DEF Tier
<1>3. us = [u \in DOMAIN f.utts |-> us[u]]
  OBVIOUS
<1> HIDE DEF us
<1>4. QED
  BY <1>1, <1>2, <1>3, EachUtterance

\* A file may declare other participants and languages.
LEMMA WithDeclarations ==
  ASSUME NEW f, IsTranscript(f), NEW us, Utterances(us), NEW ps, Distinct(ps)
  PROVE  IsTranscript([f EXCEPT !.utts = us, !.participants = ps])
<1>1. IsTranscript([f EXCEPT !.utts = us])
  BY WithUtterances
<1>2. \A g : IsTranscript(g) => IsTranscript([g EXCEPT !.participants = ps])
  BY DEF IsTranscript
<1>3. [f EXCEPT !.utts = us, !.participants = ps] = [[f EXCEPT !.utts = us] EXCEPT !.participants = ps]
  OBVIOUS
<1>4. QED
  BY <1>1, <1>2, <1>3

\* An utterance made anew from items and words is one.
LEMMA FreshFacts ==
  ASSUME NEW utt, NEW n, NewHolds(n)
  PROVE  IsUtterance(Fresh(utt, n))
<1>1. Listing(n.words) /\ Clocked(n.words) /\ Len(n.words) \in Nat /\ DOMAIN n.words = 1..Len(n.words)
  BY ListingFacts DEF NewHolds
<1>2. Fresh(utt, n) = [speaker |-> utt.speaker, lang |-> None, linkers |-> <<>>, postcodes |-> <<>>,
        items |-> n.items, term |-> n.term, bullet |-> n.bullet, tiers |-> WordTimings(n.words)]
  BY DEF Fresh
<1>6. Listing(WordTimings(n.words)) /\ TiersClocked(WordTimings(n.words))
  <2> DEFINE wor == [k \in DOMAIN n.words |->
                       [text |-> n.words[k].text,
                        time |-> IF n.words[k].time.end > n.words[k].time.start THEN n.words[k].time ELSE None]]
  <2>1. wor = [k \in 1..Len(n.words) |-> wor[k]]
    BY <1>1
  <2>2. Clocked(wor)
    BY <1>1 DEF Clocked, IsTime
  <2>3. WordTimings(n.words) \in {<<>>, <<Tier("wor", wor)>>}
    BY DEF WordTimings
  <2> HIDE DEF wor
  <2>4. Listing(wor)
    BY <1>1, <2>1, FunctionIsListing
  <2>5. QED
    BY <2>2, <2>3, <2>4, EmptyIsListing, OneIsListing DEF TiersClocked, Tier
<1>7. QED
  BY <1>2, <1>6, EmptyIsListing DEF IsUtterance, NewHolds

\* Each speaker of a new file is declared once.
LEMMA SpeakersDistinct ==
  ASSUME NEW us, Listing(us)
  PROVE  Distinct(SpeakersOf(us))
<1> DEFINE I == {u \in DOMAIN us : \A v \in 1..(u - 1) : us[v].speaker # us[u].speaker}
           firsts == Picked(us, I)
           ss == [k \in DOMAIN firsts |-> firsts[k].speaker]
<1>1. /\ Len(us) \in Nat /\ DOMAIN us = 1..Len(us)
      /\ I \subseteq DOMAIN us /\ I \subseteq Nat /\ IsFiniteSet(I) /\ Cardinality(I) \in Nat
  <2>1. I \subseteq DOMAIN us
    OBVIOUS
  <2> HIDE DEF I
  <2>2. QED
    BY <2>1, ListingFacts, FS_Subset, FS_CardinalityType
<1>2. SpeakersOf(us) = IF firsts = <<>> THEN <<"PAR1">> ELSE ss
  BY DEF SpeakersOf
<1>3. Distinct(<<"PAR1">>)
  BY OneIsListing DEF Distinct
<1>4. ASSUME NEW u \in I, NEW v \in I, v < u PROVE us[v].speaker # us[u].speaker
  <2>1. v \in 1..(u - 1)
    BY <1>1, <1>4
  <2>2. QED
    BY <2>1
<1> HIDE DEF I
<1>5. DOMAIN ss = 1..Cardinality(I) /\ \A k \in 1..Cardinality(I) : ss[k] = us[Nth(I, k)].speaker
  BY <1>1 DEF Picked
<1>6. ss = [k \in 1..Cardinality(I) |-> ss[k]]
  BY <1>5
<1> HIDE DEF ss
<1>7. \A k, l \in 1..Cardinality(I) : k < l => ss[k] # ss[l]
  <2> SUFFICES ASSUME NEW k \in 1..Cardinality(I), NEW l \in 1..Cardinality(I), k < l PROVE ss[k] # ss[l]
    OBVIOUS
  <2>1. Nth(I, k) \in I /\ Nth(I, l) \in I /\ Nth(I, k) < Nth(I, l)
    BY <1>1, NthFacts, NthOrder
  <2>2. QED
    BY <1>4, <1>5, <2>1
<1>8. \A k, l \in 1..Cardinality(I) : ss[k] = ss[l] => k = l
  BY <1>1, <1>7
<1>9. Distinct(ss)
  BY <1>1, <1>5, <1>6, <1>8, FunctionIsListing DEF Distinct
<1>10. QED
  BY <1>2, <1>3, <1>9

\* A rebuilt file is a transcript.
LEMMA RebuiltTranscript ==
  ASSUME NEW f, IsTranscript(f), NEW as, \A u \in DOMAIN f.utts : Decodes("utseg", as[u]),
         NEW bad, Rebuilt(f, as, bad) # None
  PROVE  IsTranscript(Rebuilt(f, as, bad))
<1> DEFINE n == Len(f.utts)
           newOf(u) == NewUtterances(f.utts[u], as[u])
           ss == [u \in DOMAIN f.utts |-> [s \in DOMAIN newOf(u) |-> Fresh(f.utts[u], newOf(u)[s])]]
<1>1. n \in Nat /\ DOMAIN f.utts = 1..n /\ ss = [u \in 1..n |-> ss[u]]
  BY UtterancesOf
<1>2. ASSUME NEW u \in 1..n PROVE Utterances(ss[u])
  <2> DEFINE new == newOf(u)
  <2>1. Listing(new) /\ \A s \in DOMAIN new : NewHolds(new[s])
    BY <1>1, UtterancesOf, NewUtterancesHold
  <2>2. ss[u] = [s \in DOMAIN new |-> Fresh(f.utts[u], new[s])]
    BY <1>1
  <2> HIDE DEF new, ss
  <2>3. \A s \in DOMAIN new : IsUtterance(Fresh(f.utts[u], new[s]))
    BY <2>1, FreshFacts
  <2>4. Len(new) \in Nat /\ DOMAIN new = 1..Len(new)
    BY <2>1, ListingFacts
  <2>5. ss[u] = [s \in 1..Len(new) |-> ss[u][s]]
    BY <2>2, <2>4
  <2>6. Listing(ss[u]) /\ DOMAIN ss[u] = DOMAIN new
    BY <2>4, <2>5, FunctionIsListing
  <2>7. QED
    BY <2>2, <2>3, <2>6 DEF Utterances
<1>3. PICK ls : Rebuilt(f, as, bad) =
                  [langs |-> ls, participants |-> SpeakersOf(FlattenSeq(ss)), ca |-> FALSE,
                   media |-> f.media, stamps |-> <<>>, utts |-> FlattenSeq(ss)]
  BY DEF Rebuilt, AllFresh
<1> HIDE DEF ss, n
<1>4. Utterances(FlattenSeq(ss)) /\ Distinct(SpeakersOf(FlattenSeq(ss)))
  BY <1>1, <1>2, FlatUtterances, SpeakersDistinct DEF Utterances
<1>5. \A us, ps : Utterances(us) /\ Distinct(ps) =>
        IsTranscript([langs |-> ls, participants |-> ps, ca |-> FALSE, media |-> f.media,
                      stamps |-> <<>>, utts |-> us])
  BY DEF IsTranscript, Utterances
<1>6. QED
  BY <1>3, <1>4, <1>5, Zenon

\* Segmentation makes a transcript of a transcript, in place or anew.
LEMMA UtsegTranscript ==
  ASSUME NEW f, IsTranscript(f), NEW as, \A u \in DOMAIN f.utts : Decodes("utseg", as[u]),
         NEW bad, UtsegApplied(f, as, bad) # None
  PROVE  IsTranscript(UtsegApplied(f, as, bad))
<1> DEFINE given(u) == AssignmentsFromSpans(Row(f.utts[u]), as[u])
           map == [u \in {v \in DOMAIN f.utts : given(v) # <<>>} |-> given(u)]
<1>1. CASE \E u \in DOMAIN f.utts : given(u) = None
  <2>1. UtsegApplied(f, as, bad) = Rebuilt(f, as, bad)
    BY <1>1 DEF UtsegApplied
  <2>2. QED
    BY <2>1, RebuiltTranscript
<1>2. CASE \A u \in DOMAIN f.utts : given(u) # None
  <2>1. UtsegApplied(f, as, bad) = ApplySplits(f, map)
    BY <1>2 DEF UtsegApplied
  <2>2. \A u \in DOMAIN map : \A k \in DOMAIN map[u] : map[u][k] \in Nat
    BY <1>2, AssignmentsAreNumbers
  <2> HIDE DEF map
  <2>3. QED
    BY <2>1, <2>2, SplitsTranscript
<1>3. QED
  BY <1>1, <1>2

\* The ends of the words of a sequence have a bound.
LEMMA EndsBounded ==
  ASSUME NEW words, Listing(words), Clocked(words)
  PROVE  \E b \in Nat : \A k \in DOMAIN words : words[k].time # None => words[k].time.end <= b
<1> DEFINE n == Len(words)
           Bounded(m, b) == \A k \in 1..m : words[k].time # None => words[k].time.end <= b
           S == {m \in 0..n : \E b \in Nat : Bounded(m, b)}
<1>1. n \in Nat /\ DOMAIN words = 1..n
  BY ListingFacts
<1>2. 0 \in S
  <2>1. Bounded(0, 0)
    OBVIOUS
  <2>2. QED
    BY <1>1, <2>1
<1>3. ASSUME NEW m \in 0..(n - 1), m \in S PROVE m + 1 \in S
  <2>1. PICK b \in Nat : Bounded(m, b)
    BY <1>3
  <2>2. m + 1 \in 0..n /\ m + 1 \in DOMAIN words
    BY <1>1
  <2>3. PICK c \in Nat : words[m + 1].time # None => words[m + 1].time.end <= c
    BY <2>2 DEF Clocked, IsTime
  <2>4. PICK d \in Nat : b <= d /\ c <= d
    <3>1. b <= b + c /\ c <= b + c /\ b + c \in Nat
      OBVIOUS
    <3>2. QED
      BY <3>1
  <2>5. Bounded(m + 1, d)
    <3> SUFFICES ASSUME NEW k \in 1..(m + 1), words[k].time # None PROVE words[k].time.end <= d
      OBVIOUS
    <3>1. words[k].time.end \in Nat
      BY <1>1 DEF Clocked, IsTime
    <3>2. k \in 1..m \/ k = m + 1
      OBVIOUS
    <3>3. QED
      BY <2>1, <2>3, <2>4, <3>1, <3>2
  <2>6. QED
    BY <2>2, <2>5
<1>4. \A m \in 0..n : m \in S
  <2> HIDE DEF S
  <2>1. QED
    BY <1>1, <1>2, <1>3, ReachesAll
<1>5. n \in S
  <2> HIDE DEF S
  <2>1. QED
    BY <1>1, <1>4
<1>6. QED
  BY <1>1, <1>5

\* The times of some words span from a number to a number.
LEMMA SpanOfTimes ==
  ASSUME NEW words, Listing(words), Clocked(words)
  PROVE  LET T == {t \in Range(TimesOf(words)) : t # None}
         IN T # {} => Min({t.start : t \in T}) \in Nat /\ Max({t.end : t \in T}) \in Nat
<1> DEFINE T == {t \in Range(TimesOf(words)) : t # None}
           A == {t.start : t \in T}
           B == {t.end : t \in T}
<1>1. \A t \in T : \E k \in DOMAIN words : t = words[k].time
  BY DEF Range, TimesOf
<1>2. \A t \in T : t.start \in Nat /\ t.end \in Nat
  BY <1>1 DEF Clocked, IsTime
<1>3. PICK b \in Nat : \A k \in DOMAIN words : words[k].time # None => words[k].time.end <= b
  BY EndsBounded
<1>4. \A t \in T : t.end <= b
  BY <1>1, <1>3
<1> HIDE DEF T
<1>5. A \subseteq Nat /\ B \subseteq Nat /\ \A x \in B : x <= b
  BY <1>2, <1>4
<1>6. T # {} => A # {} /\ B # {}
  OBVIOUS
<1> HIDE DEF A, B
<1>7. T # {} => Min(A) \in Nat /\ Max(B) \in Nat
  BY <1>5, <1>6, LeastElement, GreatestElement
<1>8. QED
  BY <1>7 DEF T, A, B

\* What is said is a sequence of words with times.
LEMMA SaidClocked ==
  ASSUME NEW utt, IsUtterance(utt)
  PROVE  Listing(Said(utt)) /\ Clocked(Said(utt))
<1> DEFINE ss == [i \in DOMAIN utt.items |-> utt.items[i].words]
<1>1. Len(utt.items) \in Nat /\ DOMAIN utt.items = 1..Len(utt.items)
  BY ListingFacts DEF IsUtterance, ItemsHold
<1>2. DOMAIN ss = DOMAIN utt.items /\ \A i \in DOMAIN ss : Listing(ss[i]) /\ Clocked(ss[i])
  BY DEF IsUtterance, ItemsHold, ItemsClocked
<1>3. ss = [i \in 1..Len(utt.items) |-> ss[i]]
  BY <1>1
<1>4. Said(utt) = FlattenSeq(ss)
  BY DEF Said
<1> HIDE DEF ss
<1>5. Listing(ss)
  BY <1>1, <1>3, FunctionIsListing
<1>6. /\ Listing(FlattenSeq(ss))
      /\ \A k \in DOMAIN FlattenSeq(ss) :
           \E i \in DOMAIN ss : \E j \in DOMAIN ss[i] : FlattenSeq(ss)[k] = ss[i][j]
  BY <1>2, <1>5, FlattenFacts
<1>7. QED
  BY <1>2, <1>4, <1>6 DEF Clocked

\* The words of a %wor tier are, too.
LEMMA WorTierWordsClocked ==
  ASSUME NEW utt, IsUtterance(utt), Has(utt, "wor")
  PROVE  Listing(WorTierWords(utt)) /\ Clocked(WorTierWords(utt))
<1> DEFINE wor == Content(utt, "wor")
           I == {i \in DOMAIN wor : wor[i].text # None}
<1>1. Listing(wor) /\ Clocked(wor) /\ I \subseteq DOMAIN wor
  BY WorClocked
<1>2. WorTierWords(utt) = Picked(wor, I)
  BY DEF WorTierWords
<1> HIDE DEF wor, I
<1>3. QED
  BY <1>1, <1>2, PickedClocked

\* An utterance has no time, or one that does not end before it starts.
LEMMA TimingFacts ==
  ASSUME NEW utt, IsUtterance(utt)
  PROVE  Timing(utt) # None =>
           Timing(utt) \in [start : Nat, end : Nat] /\ Timing(utt).end >= Timing(utt).start
<1> DEFINE own == {t \in Range(TimesOf(Said(utt))) : t # None}
           wor == IF Has(utt, "wor") THEN {t \in Range(TimesOf(WorTierWords(utt))) : t # None} ELSE {}
           T == IF own # {} THEN own ELSE wor
           span == [start |-> Min({t.start : t \in T}), end |-> Max({t.end : t \in T})]
<1>1. T # {} => span.start \in Nat /\ span.end \in Nat
  <2>1. own # {} => Min({t.start : t \in own}) \in Nat /\ Max({t.end : t \in own}) \in Nat
    BY SaidClocked, SpanOfTimes
  <2>2. Has(utt, "wor") =>
          LET S == {t \in Range(TimesOf(WorTierWords(utt))) : t # None}
          IN S # {} => Min({t.start : t \in S}) \in Nat /\ Max({t.end : t \in S}) \in Nat
    BY WorTierWordsClocked, SpanOfTimes
  <2>3. QED
    BY <2>1, <2>2
<1>2. IsTime(utt.bullet)
  BY DEF IsUtterance
<1>3. Timing(utt) = IF T # {} /\ span.end >= span.start THEN span
                    ELSE IF utt.bullet # None /\ utt.bullet.end >= utt.bullet.start THEN utt.bullet
                    ELSE None
  BY DEF Timing
<1>4. span = [start |-> span.start, end |-> span.end]
  OBVIOUS
<1> HIDE DEF span, T
<1>5. QED
  BY <1>1, <1>2, <1>3, <1>4 DEF IsTime

\* A diarization splits every utterance by numbers.
LEMMA SplitVoices ==
  ASSUME NEW us, Utterances(us), NEW segs
  PROVE  Utterances(FlattenSeq([u \in DOMAIN us |-> Split(us[u], SpeakerAssignments(us[u], segs))]))
<1> DEFINE n == Len(us)
           ss == [u \in DOMAIN us |-> Split(us[u], SpeakerAssignments(us[u], segs))]
<1>1. n \in Nat /\ DOMAIN us = 1..n /\ ss = [u \in 1..n |-> ss[u]]
  BY ListingFacts DEF Utterances
<1>2. ASSUME NEW utt, NEW k \in Nat \cap DOMAIN SpeakerAssignments(utt, segs)
      PROVE  SpeakerAssignments(utt, segs)[k] \in Nat
  <2> DEFINE times == WordTimes(utt)
             timed == {j \in DOMAIN times : times[j] # None}
             speaker(j) == segs[SegmentAt(segs, Middle(times[Near(timed, j)]))].speaker
             C == {j \in 2..k : speaker(j) # speaker(j - 1)}
  <2>1. C \in SUBSET (2..k) /\ IsFiniteSet(2..k)
    BY FS_Interval
  <2>2. SpeakerAssignments(utt, segs)[k] \in {0, Cardinality(C)}
    BY DEF SpeakerAssignments
  <2> HIDE DEF C
  <2>3. Cardinality(C) \in Nat
    BY <2>1, FS_Subset, FS_CardinalityType
  <2>4. QED
    BY <2>2, <2>3
<1>3. ASSUME NEW u \in 1..n PROVE Utterances(ss[u])
  <2>1. Utterances(Split(us[u], SpeakerAssignments(us[u], segs)))
    BY <1>1, <1>2, SplitFacts DEF Utterances
  <2>2. QED
    BY <1>1, <2>1
<1> HIDE DEF ss, n
<1>4. Utterances(FlattenSeq(ss))
  BY <1>1, <1>3, FlatUtterances
<1>5. QED
  BY <1>4 DEF ss

\* It gives each a speaker.
LEMMA DiarizedUtterances ==
  ASSUME NEW us, Utterances(us), NEW segs, NEW codeOf
  PROVE  Utterances(Diarized(us, segs, codeOf))
<1> DEFINE flat == FlattenSeq([u \in DOMAIN us |-> Split(us[u], SpeakerAssignments(us[u], segs))])
           voiced == RevoicedAll(flat, segs, codeOf)
<1>4. Diarized(us, segs, codeOf) = voiced
  BY DEF Diarized
<1>5. Utterances(flat)
  BY SplitVoices
<1> HIDE DEF flat
<1>6. Len(flat) \in Nat /\ DOMAIN flat = 1..Len(flat)
  BY <1>5, ListingFacts DEF Utterances
<1>7. voiced = [u \in 1..Len(flat) |-> voiced[u]] /\ DOMAIN voiced = DOMAIN flat
  BY <1>6 DEF RevoicedAll
<1>8. \A u \in DOMAIN flat : IsUtterance(voiced[u])
  <2>1. \A utt, time : IsUtterance(utt) /\ IsTime(time) => IsUtterance(Revoiced(utt, time, segs, codeOf))
    BY WithBulletAndSpeaker DEF Revoiced
  <2>2. \A utt : IsUtterance(utt) => IsTime(Timing(utt))
    BY TimingFacts DEF IsTime
  <2>3. QED
    BY <1>5, <2>1, <2>2 DEF RevoicedAll, Utterances
<1> HIDE DEF voiced
<1>9. Listing(voiced)
  BY <1>6, <1>7, FunctionIsListing
<1>10. QED
  BY <1>4, <1>7, <1>8, <1>9 DEF Utterances

\* Fewer elements are picked than there are.
LEMMA PickedFewer ==
  ASSUME NEW s, Listing(s), NEW I, I \subseteq DOMAIN s
  PROVE  Listing(Picked(s, I)) /\ Len(Picked(s, I)) \in 0..Len(s)
<1> DEFINE n == Len(s)
<1>1. n \in Nat /\ DOMAIN s = 1..n /\ IsFiniteSet(1..n) /\ Cardinality(1..n) = n
  BY ListingFacts, FS_Interval
<1>2. Listing(Picked(s, I)) /\ DOMAIN Picked(s, I) = 1..Cardinality(I)
  BY PickedFacts
<1> HIDE DEF n
<1>3. Cardinality(I) \in Nat /\ Cardinality(I) <= n
  BY <1>1, FS_Subset, FS_CardinalityType
<1>4. Picked(s, I) = [k \in 1..Cardinality(I) |-> Picked(s, I)[k]]
  BY DEF Picked
<1>5. Len(Picked(s, I)) = Cardinality(I)
  BY <1>3, <1>4, FunctionIsListing
<1>6. QED
  BY <1>2, <1>3, <1>5 DEF n

\* All that is to be picked is.
LEMMA PickedReaches ==
  ASSUME NEW s, Listing(s), NEW I, I \subseteq DOMAIN s, NEW i \in I
  PROVE  \E k \in DOMAIN Picked(s, I) : Picked(s, I)[k] = s[i]
<1>1. I \subseteq Nat /\ IsFiniteSet(I)
  BY ListingFacts, FS_Subset
<1>2. PICK k \in 1..Cardinality(I) : Nth(I, k) = i
  BY <1>1, NthCovers
<1>3. QED
  BY <1>2 DEF Picked

\* What is picked out of a sequence without repetitions has none.
LEMMA PickedDistinct ==
  ASSUME NEW s, Listing(s), NEW I, I \subseteq DOMAIN s, \A i, j \in I : s[i] = s[j] => i = j
  PROVE  Distinct(Picked(s, I))
<1> DEFINE n == Cardinality(I)
<1>1. I \subseteq Nat /\ IsFiniteSet(I) /\ n \in Nat
  BY ListingFacts, FS_Subset, FS_CardinalityType
<1>2. Listing(Picked(s, I)) /\ DOMAIN Picked(s, I) = 1..n
  BY PickedFacts
<1>3. \A k \in 1..n : Nth(I, k) \in I /\ Picked(s, I)[k] = s[Nth(I, k)]
  BY <1>1, NthFacts DEF Picked
<1>4. \A k, l \in 1..n : k < l => Nth(I, k) < Nth(I, l)
  BY <1>1, NthOrder
<1>5. \A k, l \in 1..n : Nth(I, k) = Nth(I, l) => k = l
  <2>1. \A k \in 1..n : Nth(I, k) \in Nat
    BY <1>1, <1>3
  <2> HIDE DEF n
  <2>2. QED
    BY <1>1, <1>4, <2>1
<1>6. \A k, l \in 1..n : Picked(s, I)[k] = Picked(s, I)[l] => k = l
  BY <1>3, <1>5
<1>7. QED
  BY <1>2, <1>6 DEF Distinct

\* The codes that a diarization declares are new ones, made up from different
\* numbers; with them the first n codes are declared.
LEMMA DeclaredOnce ==
  ASSUME NEW ds, Distinct(ds), NEW n \in 0..Len(Labels)
  PROVE  /\ Distinct(ds \o Undeclared(ds, n))
         /\ \A k \in 1..n : CodeAt(ds, k - 1) \in Range(ds \o Undeclared(ds, n))
<1> DEFINE codes == [k \in 1..n |-> CodeAt(ds, k - 1)]
           I == {k \in 1..n : codes[k] \notin Range(ds)}
           new == Picked(codes, I)
<1>1. Len(Labels) \in Nat /\ n \in Nat
  BY SpeakerAssumption, ListingFacts DEF Distinct
<1>2. Listing(codes) /\ DOMAIN codes = 1..n
  <2>1. codes = [k \in 1..n |-> codes[k]]
    OBVIOUS
  <2> HIDE DEF codes
  <2>2. QED
    BY <1>1, <2>1, FunctionIsListing
<1>3. Undeclared(ds, n) = new
  BY DEF Undeclared
<1>4. \A k \in I : codes[k] = Par[k - 1]
  <2> SUFFICES ASSUME NEW k \in I PROVE codes[k] = Par[k - 1]
    OBVIOUS
  <2>1. (k - 1) + 1 = k
    BY <1>1
  <2>2. codes[k] = IF k \in DOMAIN ds THEN ds[k] ELSE Par[k - 1]
    BY <2>1 DEF CodeAt
  <2>3. QED
    BY <2>2 DEF Range
<1>5. \A i, j \in I : codes[i] = codes[j] => i = j
  <2> SUFFICES ASSUME NEW i \in I, NEW j \in I, codes[i] = codes[j] PROVE i = j
    OBVIOUS
  <2>1. Par[i - 1] = Par[j - 1]
    BY <1>4
  <2>2. i - 1 \in DOMAIN Par /\ j - 1 \in DOMAIN Par
    BY <1>1, SpeakerAssumption
  <2>3. i - 1 = j - 1
    BY <2>1, <2>2, SpeakerAssumption
  <2>4. QED
    BY <1>1, <2>3
<1>6. I \subseteq DOMAIN codes /\ \A i \in I : codes[i] \notin Range(ds)
  OBVIOUS
<1>7. \A k \in 1..n : codes[k] = CodeAt(ds, k - 1) /\ (k \in I \/ codes[k] \in Range(ds))
  OBVIOUS
<1> HIDE DEF codes, I
<1>8. Distinct(new) /\ \A i \in I : codes[i] \in Range(new)
  BY <1>2, <1>5, <1>6, PickedDistinct, PickedReaches DEF Range
<1>9. \A k \in DOMAIN new : new[k] \notin Range(ds)
  BY <1>2, <1>6, PickedFacts
<1> HIDE DEF new
<1>10. /\ Listing(ds \o new) /\ DOMAIN (ds \o new) = 1..(Len(ds) + Len(new))
       /\ \A i \in 1..Len(ds) : (ds \o new)[i] = ds[i]
       /\ \A i \in 1..Len(new) : (ds \o new)[Len(ds) + i] = new[i]
  BY <1>8, ConcatIsListing DEF Distinct
<1>11. Len(ds) \in Nat /\ DOMAIN ds = 1..Len(ds) /\ Len(new) \in Nat /\ DOMAIN new = 1..Len(new)
  BY <1>8, ListingFacts DEF Distinct
<1> DEFINE a == Len(ds)
           b == Len(new)
           s == ds \o new
<1>12. /\ a \in Nat /\ b \in Nat /\ DOMAIN s = 1..(a + b)
       /\ \A i \in 1..a : s[i] = ds[i] /\ ds[i] \in Range(ds)
       /\ \A i \in 1..b : s[a + i] = new[i] /\ new[i] \notin Range(ds)
       /\ DOMAIN ds = 1..a /\ DOMAIN new = 1..b
  BY <1>9, <1>10, <1>11 DEF Range
<1> HIDE DEF a, b, s
<1>13. \A i \in 1..(a + b) : i \in 1..a \/ (i - a \in 1..b /\ i = a + (i - a))
  BY <1>12
<1>14. \A i, j \in DOMAIN s : s[i] = s[j] => i = j
  <2> SUFFICES ASSUME NEW i \in 1..(a + b), NEW j \in 1..(a + b), s[i] = s[j] PROVE i = j
    BY <1>12
  <2>1. CASE i \in 1..a /\ j \in 1..a
    <3>1. ds[i] = ds[j]
      BY <1>12, <2>1
    <3>2. QED
      BY <1>12, <2>1, <3>1 DEF Distinct
  <2>2. CASE i \notin 1..a /\ j \notin 1..a
    <3>1. i - a \in 1..b /\ j - a \in 1..b /\ s[a + (i - a)] = new[i - a] /\ s[a + (j - a)] = new[j - a]
      BY <1>12, <1>13, <2>2
    <3>2. new[i - a] = new[j - a]
      BY <1>13, <2>2, <3>1
    <3>3. i - a = j - a
      BY <1>8, <1>12, <3>1, <3>2 DEF Distinct
    <3>4. QED
      BY <1>12, <3>3
  <2>3. ASSUME NEW k \in 1..a, NEW l \in 1..(a + b), l \notin 1..a PROVE s[k] # s[l]
    <3>1. s[k] \in Range(ds)
      BY <1>12
    <3>2. l - a \in 1..b /\ l = a + (l - a)
      BY <1>13, <2>3
    <3>3. s[l] \notin Range(ds)
      BY <1>12, <3>2
    <3>4. QED
      BY <3>1, <3>3
  <2>4. QED
    BY <2>1, <2>2, <2>3
<1>15. \A i \in 1..a : ds[i] \in Range(s)
  <2>1. \A i \in 1..a : i \in DOMAIN s
    BY <1>12
  <2>2. QED
    BY <1>12, <2>1 DEF Range
<1>16. \A i \in 1..b : new[i] \in Range(s)
  <2>1. \A i \in 1..b : a + i \in DOMAIN s
    BY <1>12
  <2>2. QED
    BY <1>12, <2>1 DEF Range
<1>17. \A k \in 1..n : CodeAt(ds, k - 1) \in Range(s)
  <2>1. \A x \in Range(ds) : x \in Range(s)
    BY <1>12, <1>15 DEF Range
  <2>2. \A x \in Range(new) : x \in Range(s)
    BY <1>12, <1>16 DEF Range
  <2>3. QED
    BY <1>7, <1>8, <2>1, <2>2
<1>18. Distinct(s)
  BY <1>10, <1>14 DEF Distinct, s
<1>19. QED
  BY <1>3, <1>17, <1>18 DEF s

\* The codes of the labels that a diarization has are no more than the labels,
\* and those spoken with no more than the codes.
LEMMA CodesFew ==
  ASSUME NEW S, NEW declared, NEW us
  PROVE  LET labels == Picked(Labels, {i \in DOMAIN Labels : Labels[i] \in S})
             codes == [k \in DOMAIN labels |-> CodeAt(declared, k - 1)]
         IN /\ Distinct(labels) /\ Listing(codes) /\ DOMAIN codes = DOMAIN labels
            /\ Len(codes) \in 0..Len(Labels)
            /\ Listing(Spoken(us, codes)) /\ Len(Spoken(us, codes)) \in 0..Len(Labels)
<1> DEFINE I == {i \in DOMAIN Labels : Labels[i] \in S}
           labels == Picked(Labels, I)
           codes == [k \in DOMAIN labels |-> CodeAt(declared, k - 1)]
<1>1. Listing(Labels) /\ I \subseteq DOMAIN Labels /\ \A i, j \in I : Labels[i] = Labels[j] => i = j
  BY SpeakerAssumption DEF Distinct
<1>2. Len(Labels) \in Nat
  BY <1>1, ListingFacts
<1> HIDE DEF I
<1>3. Distinct(labels) /\ Listing(labels) /\ Len(labels) \in 0..Len(Labels)
  BY <1>1, PickedDistinct, PickedFewer
<1> HIDE DEF labels
<1>4. Len(labels) \in Nat /\ DOMAIN labels = 1..Len(labels)
  BY <1>3, ListingFacts
<1>5. codes = [k \in 1..Len(labels) |-> codes[k]] /\ DOMAIN codes = DOMAIN labels
  BY <1>4
<1> HIDE DEF codes
<1>6. Listing(codes) /\ Len(codes) = Len(labels)
  BY <1>4, <1>5, FunctionIsListing
<1>7. Listing(Spoken(us, codes)) /\ Len(Spoken(us, codes)) \in 0..Len(codes)
  BY <1>6, PickedFewer DEF Spoken
<1>8. Len(Spoken(us, codes)) \in 0..Len(Labels)
  BY <1>2, <1>3, <1>6, <1>7
<1>9. QED
  BY <1>3, <1>5, <1>6, <1>7, <1>8 DEF codes, labels, I

\* So does a diarization.
LEMMA RelabelledTranscript ==
  ASSUME NEW f, IsTranscript(f), NEW segs, Relabelled(f, segs) # None
  PROVE  IsTranscript(Relabelled(f, segs))
<1>1. ASSUME NEW us, Utterances(us), NEW codes, MovedDown(f, us, codes) # None,
             Len(Spoken(us, codes)) \in 0..Len(Labels)
      PROVE  IsTranscript(MovedDown(f, us, codes))
  <2> DEFINE spoken == Spoken(us, codes)
             projected(c) == IF c \in Range(spoken)
                             THEN CodeAt(f.participants, Min({k \in DOMAIN spoken : spoken[k] = c}) - 1)
                             ELSE c
             moved == [u \in DOMAIN us |-> [us[u] EXCEPT !.speaker = projected(@)]]
             ps == f.participants \o Undeclared(f.participants, Len(spoken))
  <2>1. MovedDown(f, us, codes) = [f EXCEPT !.utts = moved, !.participants = ps]
    BY <1>1 DEF MovedDown
  <2>9. Distinct(ps)
    BY <1>1, DeclaredOnce DEF IsTranscript
  <2> HIDE DEF ps
  <2>2. Len(us) \in Nat /\ DOMAIN us = 1..Len(us)
    BY <1>1, ListingFacts DEF Utterances
  <2>3. moved = [u \in 1..Len(us) |-> moved[u]] /\ DOMAIN moved = DOMAIN us
    BY <2>2
  <2>4. \A u \in DOMAIN us : IsUtterance(moved[u])
    BY <1>1, WithSpeaker DEF Utterances
  <2> HIDE DEF moved
  <2>5. Listing(moved)
    BY <2>2, <2>3, FunctionIsListing
  <2>6. Utterances(moved)
    BY <2>3, <2>4, <2>5 DEF Utterances
  <2>7. IsTranscript([f EXCEPT !.utts = moved, !.participants = ps])
    BY <2>6, <2>9, WithDeclarations, Zenon
  <2>8. QED
    BY <2>1, <2>7, Zenon
<1>2. CASE segs = <<>>
  BY <1>2 DEF Relabelled
<1>3. CASE segs # <<>>
  <2> DEFINE S == {segs[s].speaker : s \in DOMAIN segs}
             labels == Picked(Labels, {i \in DOMAIN Labels : Labels[i] \in S})
             codes == [k \in DOMAIN labels |-> CodeAt(f.participants, k - 1)]
  <2>0. {i \in DOMAIN Labels : \E s \in DOMAIN segs : segs[s].speaker = Labels[i]}
          = {i \in DOMAIN Labels : Labels[i] \in S}
    OBVIOUS
  <2>1. PICK codeOf : Relabelled(f, segs) = MovedDown(f, Diarized(f.utts, segs, codeOf), codes)
    BY <1>3, <2>0 DEF Relabelled
  <2> DEFINE us == Diarized(f.utts, segs, codeOf)
  <2>2. Utterances(us)
    BY UtterancesOf, DiarizedUtterances
  <2> HIDE DEF S, us
  <2>4. Len(Spoken(us, codes)) \in 0..Len(Labels)
    BY CodesFew
  <2> HIDE DEF codes
  <2>3. QED
    BY <1>1, <2>1, <2>2, <2>4 DEF us
<1>4. QED
  BY <1>2, <1>3

\* A block put in the place of an utterance.
LEMMA SplicedUtterances ==
  ASSUME NEW us, Utterances(us), NEW block, Utterances(block), NEW u \in 1..Len(us)
  PROVE  /\ Utterances(Spliced(us, u, block)) /\ Len(Spliced(us, u, block)) >= u - 1
         /\ Range(Spliced(us, u, block)) \subseteq Range(us) \cup Range(block)
<1> DEFINE S == Range(us) \cup Range(block)
           n == Len(us)
           a == SubSeq(us, 1, u - 1)
           c == SubSeq(us, u + 1, n)
<1>1. n \in Nat /\ DOMAIN us = 1..n /\ u \in 1..n
  BY ListingFacts DEF Utterances
<1>2. \A i \in 1..n : us[i] \in S
  BY <1>1 DEF Range
<1>3. \A x \in S : IsUtterance(x)
  BY DEF Utterances, Range
<1>4. block \in Seq(S) /\ Len(block) \in Nat
  <2>1. block \in Seq(Range(block))
    BY DEF Utterances, Listing
  <2> HIDE DEF S
  <2>2. Range(block) \subseteq S
    BY DEF S
  <2>3. QED
    BY <2>1, <2>2, SeqMonotonic, LenProperties
<1> HIDE DEF S, n
<1>5. a \in Seq(S) /\ Len(a) = u - 1
  <2>1. \A i \in 1..(u - 1) : us[i] \in S
    BY <1>1, <1>2
  <2>2. u - 1 \in Int /\ Len(a) = IF 1 <= u - 1 THEN (u - 1) - 1 + 1 ELSE 0
    BY <1>1, <2>1, SubSeqProperties
  <2>3. QED
    BY <1>1, <2>1, <2>2, SubSeqProperties
<1>6. c \in Seq(S) /\ Len(c) \in Nat
  <2>1. \A i \in (u + 1)..n : us[i] \in S
    BY <1>1, <1>2
  <2>2. c \in Seq(S)
    BY <1>1, <2>1, SubSeqProperties
  <2>3. QED
    BY <2>2, LenProperties
<1>7. Spliced(us, u, block) = (a \o block) \o c
  BY DEF Spliced, n
<1> HIDE DEF a, c
<1>8. a \o block \in Seq(S) /\ Len(a \o block) = (u - 1) + Len(block)
  BY <1>4, <1>5, ConcatProperties
<1>9. (a \o block) \o c \in Seq(S) /\ Len((a \o block) \o c) = ((u - 1) + Len(block)) + Len(c)
  BY <1>6, <1>8, ConcatProperties
<1> DEFINE s == (a \o block) \o c
<1>10. Utterances(s) /\ Range(s) \subseteq S
  <2> HIDE DEF s
  <2>1. s \in Seq(S)
    BY <1>9 DEF s
  <2>2. s \in Seq(Range(s)) /\ \A i \in DOMAIN s : s[i] \in S
    BY <2>1, SeqOfRange, LenProperties, ElementOfSeq
  <2>3. Utterances(s)
    BY <1>3, <2>2 DEF Utterances, Listing
  <2>4. Range(s) \subseteq S
    BY <2>2 DEF Range
  <2>5. QED
    BY <2>3, <2>4
<1>11. Utterances(Spliced(us, u, block)) /\ Len(Spliced(us, u, block)) >= u - 1
  BY <1>1, <1>4, <1>6, <1>7, <1>9, <1>10
<1>12. QED
  BY <1>7, <1>10, <1>11 DEF S

\* The utterances an answer offers; utterances that are old, or offered.
Offered(answer) == UNION {Range(answer[i].block) : i \in {j \in DOMAIN answer : answer[j].block # None}}
Known(us, f, answer) == Range(us) \subseteq Range(f.utts) \cup Offered(answer)

\* One revision leaves a transcript, no shorter than what stands before it.
LEMMA RevisedTranscript ==
  ASSUME NEW f, IsTranscript(f), NEW answer, Decodes("ai", answer),
         NEW u \in 1..Len(f.utts), \E i \in DOMAIN answer : answer[i].utt = u
  PROVE  /\ IsTranscript(Revised(f, answer, u)) /\ Len(Revised(f, answer, u).utts) >= u - 1
         /\ Known(Revised(f, answer, u).utts, f, answer)
<1>1. PICK i \in DOMAIN answer : i = CHOOSE j \in DOMAIN answer : answer[j].utt = u
  OBVIOUS
<1> DEFINE block == answer[i].block
           us == Spliced(f.utts, u, block)
           new == [f EXCEPT !.utts = us]
<1>2. Revised(f, answer, u) = IF block # None /\ Parses(new) THEN new ELSE f
  BY <1>1 DEF Revised
<1>0. Known(f.utts, f, answer)
  BY DEF Known
<1>3. CASE block = None
  BY <1>0, <1>2, <1>3, UtterancesOf
<1>4. CASE block # None
  <2>1. Utterances(block)
    BY <1>4 DEF Decodes, Utterances
  <2>2. Utterances(us) /\ Len(us) >= u - 1 /\ Range(us) \subseteq Range(f.utts) \cup Range(block)
    BY <2>1, UtterancesOf, SplicedUtterances
  <2>0. Range(block) \subseteq Offered(answer)
    BY <1>4 DEF Offered
  <2>6. Known(us, f, answer)
    BY <2>0, <2>2 DEF Known
  <2> HIDE DEF us, block
  <2>3. IsTranscript(new)
    BY <2>2, WithUtterances
  <2>4. new.utts = us
    BY DEF IsTranscript
  <2> HIDE DEF new
  <2>5. QED
    BY <1>0, <1>2, <2>2, <2>3, <2>4, <2>6, UtterancesOf
<1>5. QED
  BY <1>3, <1>4

\* The revisions, from the last one on: none is out of the range of what the ones
\* before it have left.
LEMMA AiTranscript ==
  ASSUME NEW f, IsTranscript(f), NEW answer, Decodes("ai", answer), AiApplied(f, answer) # None
  PROVE  IsTranscript(AiApplied(f, answer)) /\ Known(AiApplied(f, answer).utts, f, answer)
<1> DEFINE revised == {answer[i].utt : i \in DOMAIN answer}
           n == Cardinality(revised)
           after(m, g) == g = [k \in 0..m |->
                                 IF k = 0 THEN f ELSE Revised(g[k - 1], answer, Nth(revised, n + 1 - k))]
<1>1. revised \subseteq 1..Len(f.utts)
  <2>1. revised \subseteq DOMAIN f.utts
    BY DEF AiApplied
  <2>2. QED
    BY <2>1, UtterancesOf
<1>2. IsFiniteSet(revised) /\ n \in Nat /\ revised \subseteq Nat /\ Len(f.utts) \in Nat
  <2>1. Len(f.utts) \in Nat
    BY UtterancesOf
  <2>2. IsFiniteSet(1..Len(f.utts))
    BY <2>1, FS_Interval
  <2> HIDE DEF revised
  <2>3. IsFiniteSet(revised)
    BY <1>1, <2>2, FS_Subset
  <2>4. QED
    BY <1>1, <2>1, <2>3, FS_CardinalityType
<1>3. \A u \in revised : \E i \in DOMAIN answer : answer[i].utt = u
  OBVIOUS
<1>4. AiApplied(f, answer) = (CHOOSE g : after(n, g))[n]
  BY DEF AiApplied
<1> HIDE DEF revised, n
<1>5. \E g : after(n, g)
  <2> DEFINE Reached == {m \in 0..n : \E g : after(m, g)}
  <2>1. 0 \in Reached
    <3> DEFINE g == [k \in 0..0 |-> f]
    <3>1. g = [k \in 0..0 |-> IF k = 0 THEN f ELSE Revised(g[k - 1], answer, Nth(revised, n + 1 - k))]
      OBVIOUS
    <3> HIDE DEF g
    <3>2. after(0, g)
      BY <3>1
    <3> HIDE DEF after
    <3>3. QED
      BY <1>2, <3>2
  <2>2. ASSUME NEW m \in 0..(n - 1), m \in Reached PROVE m + 1 \in Reached
    <3>1. PICK g : after(m, g)
      BY <2>2
    <3> DEFINE h == [k \in 0..(m + 1) |->
                       IF k = m + 1 THEN Revised(g[m], answer, Nth(revised, n + 1 - k)) ELSE g[k]]
    <3>2. ASSUME NEW k \in 0..(m + 1)
          PROVE  h[k] = IF k = 0 THEN f ELSE Revised(h[k - 1], answer, Nth(revised, n + 1 - k))
      <4>1. CASE k = m + 1
        BY <1>2, <4>1
      <4>2. CASE k # m + 1
        <5>1. k \in 0..m /\ h[k] = g[k] /\ (k # 0 => k - 1 \in 0..m /\ h[k - 1] = g[k - 1])
          BY <4>2
        <5>2. g[k] = IF k = 0 THEN f ELSE Revised(g[k - 1], answer, Nth(revised, n + 1 - k))
          BY <3>1, <5>1
        <5> HIDE DEF h
        <5>3. QED
          BY <5>1, <5>2
      <4>3. QED
        BY <4>1, <4>2
    <3>3. h = [k \in 0..(m + 1) |-> h[k]]
      OBVIOUS
    <3> HIDE DEF h
    <3>4. after(m + 1, h)
      BY <3>2, <3>3
    <3> HIDE DEF after
    <3>5. QED
      BY <1>2, <3>4
  <2>3. \A m \in 0..n : m \in Reached
    <3> HIDE DEF Reached
    <3>1. QED
      BY <1>2, <2>1, <2>2, ReachesAll
  <2> HIDE DEF Reached, after
  <2>4. n \in Reached
    BY <1>2, <2>3
  <2>5. QED
    BY <2>4 DEF Reached
<1> DEFINE a == CHOOSE g : after(n, g)
<1>6. after(n, a)
  BY <1>5, Zenon
<1> HIDE DEF a
<1> DEFINE floor(k) == IF k = 0 THEN Len(f.utts) ELSE Nth(revised, n + 1 - k) - 1
           Fine == {k \in 0..n : IsTranscript(a[k]) /\ Len(a[k].utts) >= floor(k) /\ Known(a[k].utts, f, answer)}
<1>7. 0 \in Fine
  <2>1. a[0] = f
    BY <1>2, <1>6
  <2>2. Known(f.utts, f, answer)
    BY DEF Known
  <2>3. QED
    BY <1>2, <2>1, <2>2
<1>8. ASSUME NEW k \in 0..(n - 1), k \in Fine PROVE k + 1 \in Fine
  <2> DEFINE u == Nth(revised, n + 1 - (k + 1))
  <2>1. a[k + 1] = Revised(a[k], answer, u)
    <3>1. k + 1 \in 0..n /\ k + 1 # 0 /\ (k + 1) - 1 = k
      BY <1>2
    <3>2. a[k + 1] = Revised(a[(k + 1) - 1], answer, Nth(revised, n + 1 - (k + 1)))
      BY <1>6, <3>1
    <3>3. QED
      BY <3>1, <3>2
  <2>2. n - k \in 1..n /\ n + 1 - (k + 1) = n - k
    BY <1>2
  <2>3. u \in revised
    BY <1>2, <2>2, NthFacts DEF n
  <2>4. u \in 1..Len(f.utts) /\ u \in Nat
    BY <1>1, <1>2, <2>3
  <2>5. u <= floor(k)
    <3>1. CASE k = 0
      BY <2>4, <3>1
    <3>2. CASE k # 0
      <4>1. (n - k) + 1 \in 1..n /\ (n - k) + 1 = n + 1 - k
        BY <1>2, <3>2
      <4>2. Nth(revised, n - k) < Nth(revised, (n - k) + 1)
        <5>1. n - k < (n - k) + 1
          BY <1>2
        <5>2. QED
          BY <1>2, <2>2, <4>1, <5>1, NthOrder DEF n
      <4>3. Nth(revised, n + 1 - k) \in Nat
        <5>1. Nth(revised, (n - k) + 1) \in revised
          BY <1>2, <4>1, NthFacts DEF n
        <5>2. QED
          BY <1>2, <4>1, <5>1
      <4>4. u = Nth(revised, n - k)
        BY <2>2
      <4> HIDE DEF u
      <4>5. QED
        BY <2>4, <3>2, <4>1, <4>2, <4>3, <4>4
    <3>3. QED
      BY <3>1, <3>2
  <2>6. floor(k + 1) = u - 1
    BY <1>2
  <2>7. IsTranscript(a[k]) /\ Len(a[k].utts) >= floor(k) /\ Len(a[k].utts) \in Nat
    BY <1>8, UtterancesOf
  <2>8. floor(k) \in Int
    <3>1. CASE k = 0
      BY <1>2, <3>1
    <3>2. CASE k # 0
      <4>1. n + 1 - k \in 1..n
        BY <1>2, <3>2
      <4>2. Nth(revised, n + 1 - k) \in revised
        BY <1>2, <4>1, NthFacts DEF n
      <4>3. Nth(revised, n + 1 - k) \in Nat
        BY <1>2, <4>2
      <4>4. floor(k) = Nth(revised, n + 1 - k) - 1
        BY <3>2
      <4> HIDE DEF floor
      <4>5. QED
        BY <4>3, <4>4
    <3>3. QED
      BY <3>1, <3>2
  <2> HIDE DEF floor, u
  <2>9. u \in 1..Len(a[k].utts)
    BY <2>4, <2>5, <2>7, <2>8
  <2>10. IsTranscript(a[k + 1]) /\ Len(a[k + 1].utts) >= u - 1 /\ Known(a[k + 1].utts, a[k], answer)
    BY <1>3, <2>1, <2>3, <2>7, <2>9, RevisedTranscript
  <2>11. Known(a[k].utts, f, answer)
    BY <1>8
  <2>12. Known(a[k + 1].utts, f, answer)
    BY <2>10, <2>11 DEF Known
  <2>13. QED
    BY <1>2, <2>6, <2>10, <2>12
<1>9. n \in Fine
  <2> HIDE DEF Fine
  <2>1. \A k \in 0..n : k \in Fine
    BY <1>2, <1>7, <1>8, ReachesAll
  <2>2. QED
    BY <1>2, <2>1
<1>10. QED
  BY <1>4, <1>9 DEF a

(***************************************************************************)
(* The stages.                                                             *)
(***************************************************************************)

\* What a stage asks is a sequence, for a segmenter one request an utterance.
LEMMA RequestsAreListed ==
  ASSUME NEW f, IsTranscript(f), NEW t \in Tasks
  PROVE  /\ Listing(RequestsOf(t, f))
         /\ t = "utseg" => DOMAIN RequestsOf(t, f) = DOMAIN f.utts
         /\ t \notin {"utseg", "morphosyntax"} =>
              RequestsOf(t, f) = <<>> \/ DOMAIN RequestsOf(t, f) = 1..1
<1>1. Len(f.utts) \in Nat /\ DOMAIN f.utts = 1..Len(f.utts)
  BY UtterancesOf
<1>2. Listing(UtsegRequests(f)) /\ DOMAIN UtsegRequests(f) = DOMAIN f.utts
  <2>1. UtsegRequests(f) = [u \in 1..Len(f.utts) |-> UtsegRequests(f)[u]]
    BY <1>1 DEF UtsegRequests
  <2>2. QED
    BY <1>1, <2>1, FunctionIsListing
<1>3. Listing(MorRequests(f))
  <2> DEFINE U == {u \in DOMAIN f.utts : ~Has(f.utts[u], "mor")}
  <2>1. IsFiniteSet(1..Len(f.utts)) /\ U \in SUBSET (1..Len(f.utts))
    BY <1>1, FS_Interval
  <2>2. MorRequests(f) = [i \in 1..Cardinality(U) |-> MorRequests(f)[i]]
    BY DEF MorRequests
  <2> HIDE DEF U
  <2>3. Cardinality(U) \in Nat
    BY <2>1, FS_Subset, FS_CardinalityType
  <2>4. QED
    BY <2>2, <2>3, FunctionIsListing
<1>4. Listing(<<>>) /\ \A x : Listing(One(x)) /\ DOMAIN One(x) = 1..1
  BY EmptyIsListing, OneIsListing DEF One
<1>5. t \in {"utseg", "morphosyntax", "phonetic", "translate", "coref", "speaker", "ai"}
  BY RunnersAssumption
<1>6. CASE t = "utseg"
  BY <1>2, <1>6 DEF RequestsOf
<1>7. CASE t = "morphosyntax"
  BY <1>3, <1>4, <1>7 DEF RequestsOf
<1>8. CASE t \notin {"utseg", "morphosyntax"}
  <2>1. \/ RequestsOf(t, f) = <<>>
        \/ \E x : RequestsOf(t, f) = One(x)
    BY <1>5, <1>8 DEF RequestsOf
  <2>2. QED
    BY <1>4, <1>8, <2>1
<1>9. QED
  BY <1>6, <1>7, <1>8

\* What a stage makes of a transcript is a transcript.
LEMMA AppliedTranscript ==
  ASSUME NEW f, IsTranscript(f), NEW t \in Tasks, NEW as, DOMAIN as = DOMAIN RequestsOf(t, f),
         \A i \in DOMAIN as : Decodes(t, as[i]), Applied(t, f, RequestsOf(t, f), as) # None
  PROVE  IsTranscript(Applied(t, f, RequestsOf(t, f), as))
<1> DEFINE rs == RequestsOf(t, f)
           new == Applied(t, f, rs, as)
<1>1. t \in {"utseg", "morphosyntax", "phonetic", "translate", "coref", "speaker", "ai"}
  BY RunnersAssumption
<1>2. CASE rs = <<>>
  BY <1>2 DEF Applied
<1>3. CASE rs # <<>>
  <2>1. /\ t = "utseg" => DOMAIN as = DOMAIN f.utts
        /\ t \notin {"utseg", "morphosyntax"} => 1 \in DOMAIN as
    BY <1>3, RequestsAreListed
  <2> HIDE DEF rs
  <2>2. CASE t = "utseg"
    <3>1. new = UtsegApplied(f, as, Unwritable)
      BY <1>3, <2>2 DEF Applied
    <3>2. \A u \in DOMAIN f.utts : Decodes("utseg", as[u])
      BY <2>1, <2>2
    <3>3. QED
      BY <3>1, <3>2, UtsegTranscript DEF rs
  <2>3. CASE t = "morphosyntax"
    <3>1. new = MorApplied(f, rs, as)
      BY <1>3, <2>3 DEF Applied
    <3>2. DOMAIN as = DOMAIN rs
      BY DEF rs
    <3>3. QED
      BY <3>1, <3>2, MorTranscript DEF rs
  <2>4. CASE t = "phonetic"
    <3>1. new = PhoApplied(f, rs[1], as[1])
      BY <1>3, <2>4 DEF Applied
    <3>2. QED
      BY <3>1, PhoTranscript DEF rs
  <2>5. CASE t = "translate"
    <3> DEFINE texts == TextsApplied(f, "xtra", as[1].texts)
    <3>1. new = IF texts = None \/ as[1].provider = None THEN texts
                ELSE Stamped(texts, "translate", as[1].provider)
      BY <1>3, <2>5 DEF Applied, TranslateApplied
    <3> HIDE DEF texts
    <3>2. texts # None => IsTranscript(texts)
      BY TextsTranscript DEF texts
    <3>3. QED
      BY <3>1, <3>2, StampedTranscript DEF rs
  <2>6. CASE t = "coref"
    <3>1. new = TextsApplied(f, "xcor", as[1].texts)
      BY <1>3, <2>6 DEF Applied, CorefApplied
    <3>2. QED
      BY <3>1, TextsTranscript DEF rs
  <2>7. CASE t = "speaker"
    <3>1. new = Relabelled(f, as[1])
      BY <1>3, <2>7 DEF Applied
    <3>2. QED
      BY <3>1, RelabelledTranscript DEF rs
  <2>8. CASE t = "ai"
    <3>1. new = AiApplied(f, as[1]) /\ Decodes("ai", as[1])
      BY <1>3, <2>1, <2>8 DEF Applied
    <3>2. QED
      BY <3>1, AiTranscript DEF rs
  <2>9. QED
    BY <1>1, <2>2, <2>3, <2>4, <2>5, <2>6, <2>7, <2>8
<1>4. QED
  BY <1>2, <1>3

\* The invariant holds at the beginning, and each action keeps it.
LEMMA InitUnderWay == Init => StageUnderWay
BY RunnersAssumption DEF Init, StageUnderWay

\* A product grows with its factor.
LEMMA Steps ==
  ASSUME NEW k \in Nat
  PROVE  k * Scale \in Nat /\ (k + 1) * Scale = k * Scale + Scale
BY RunnersAssumption

\* A stage begins.
LEMMA BeginKeeps ==
  ASSUME StageUnderWay, NEW t \in Tasks, Begin(t)
  PROVE  StageUnderWay'
<1>1. Listing(RequestsOf(t, file))
  BY RequestsAreListed DEF StageUnderWay
<1>2. /\ file' = file /\ stage' = t /\ requests' = RequestsOf(t, file)
      /\ sent' = 0 /\ answers' = <<>> /\ bar' = 0
  BY DEF Begin
<1>3. Len(RequestsOf(t, file)) \in Nat /\ DOMAIN <<>> = {} /\ 0 * Scale = 0
  BY <1>1, ListingFacts, EmptyIsListing, RunnersAssumption
<1>4. RequestsOf(stage', file') = RequestsOf(t, file)
  BY <1>2
<1>5. IsTranscript(file')
  BY <1>2 DEF StageUnderWay
<1>6. sent' \in 0..Len(requests') /\ DOMAIN answers' = {} /\ bar' \in 0..(sent' * Scale)
  BY <1>2, <1>3
<1>7. QED
  BY <1>1, <1>2, <1>4, <1>5, <1>6 DEF StageUnderWay

\* A request is sent.
LEMMA SendKeeps ==
  ASSUME StageUnderWay, Send
  PROVE  StageUnderWay'
<1>1. /\ phase = "asking" /\ sent < Len(requests) /\ sent' = sent + 1
      /\ bar' = (IF Scaled(stage) THEN sent * Scale ELSE bar)
      /\ UNCHANGED <<file, stage, phase, requests, answers>>
  BY DEF Send
<1>2. Len(requests) \in Nat /\ sent \in Nat
  BY <1>1, ListingFacts DEF StageUnderWay
<1>3. sent' \in 0..Len(requests') /\ DOMAIN answers' \subseteq 1..sent'
  BY <1>1, <1>2 DEF StageUnderWay
<1>4. bar' \in 0..(sent' * Scale)
  <2>1. sent * Scale \in Nat /\ (sent + 1) * Scale = sent * Scale + Scale
    BY <1>2, Steps, Zenon
  <2>2. PICK p \in Nat : p = sent * Scale
    BY <2>1, Zenon
  <2>3. bar \in 0..p
    BY <1>1, <2>2, Zenon DEF StageUnderWay
  <2>4. bar' \in 0..p
    BY <1>1, <2>2, <2>3
  <2>5. sent' * Scale = p + Scale
    BY <1>1, <2>1, <2>2, Zenon
  <2>6. bar' \in 0..(p + Scale)
    BY <2>4, RunnersAssumption
  <2>7. QED
    BY <2>5, <2>6, Zenon
<1>5. QED
  BY <1>1, <1>3, <1>4 DEF StageUnderWay

\* A dispatch reports.
LEMMA TickKeeps ==
  ASSUME StageUnderWay, NEW i \in DOMAIN requests, Tick(i)
  PROVE  StageUnderWay'
<1>1. /\ phase = "asking" /\ i \in 1..sent
      /\ UNCHANGED <<file, stage, phase, requests, sent, answers>>
  BY DEF Tick
<1>2. PICK inner \in {Scale \div 2, Scale} : bar' = Shown(sent, inner)
  BY DEF Tick
<1>3. sent \in Nat \ {0}
  BY <1>1, ListingFacts DEF StageUnderWay
<1>4. inner \in 0..Scale
  BY RunnersAssumption
<1>5. bar' \in 0..(sent * Scale)
  <2> DEFINE k == sent - 1
  <2>1. k \in Nat /\ k + 1 = sent
    BY <1>3
  <2>2. k * Scale \in Nat /\ sent * Scale = k * Scale + Scale
    BY <2>1, Steps
  <2>3. bar' = k * Scale + inner
    BY <1>2 DEF Shown
  <2> HIDE DEF k
  <2>4. QED
    BY <1>4, <2>2, <2>3, RunnersAssumption
<1>6. QED
  BY <1>1, <1>5 DEF StageUnderWay

\* An answer comes, in any order.
LEMMA AnswerKeeps ==
  ASSUME StageUnderWay, NEW i \in DOMAIN requests, Answer(i)
  PROVE  StageUnderWay'
<1>1. /\ phase = "asking" /\ i \in 1..sent
      /\ UNCHANGED <<file, stage, phase, requests, sent, bar>>
  BY DEF Answer
<1>2. PICK a : /\ Decodes(stage, a)
               /\ answers' = [j \in DOMAIN answers \cup {i} |-> IF j = i THEN a ELSE answers[j]]
  BY DEF Answer
<1>3. DOMAIN answers' \subseteq 1..sent /\ \A j \in DOMAIN answers' : Decodes(stage, answers'[j])
  BY <1>1, <1>2 DEF StageUnderWay
<1>4. QED
  BY <1>1, <1>3 DEF StageUnderWay

\* The answers are put in.
LEMMA InjectKeeps ==
  ASSUME StageUnderWay, Inject
  PROVE  StageUnderWay'
<1> DEFINE new == Applied(stage, file, requests, answers)
<1>1. phase = "asking" /\ DOMAIN answers = DOMAIN requests
  BY DEF Inject
<1>2. phase' # "asking" /\ (file' = file \/ (new # None /\ file' = new))
  <2>1. Gate(new)
    BY DEF Inject
  <2> HIDE DEF new
  <2>2. QED
    BY <2>1 DEF Gate
<1>3. new # None => IsTranscript(new)
  BY <1>1, AppliedTranscript DEF StageUnderWay
<1>4. QED
  BY <1>2, <1>3 DEF StageUnderWay

\* All of them together.
LEMMA NextKeeps == StageUnderWay /\ [Next]_vars => StageUnderWay'
<1> SUFFICES ASSUME StageUnderWay, [Next]_vars PROVE StageUnderWay'
  OBVIOUS
<1>1. CASE \E t \in Tasks : Begin(t)
  BY <1>1, BeginKeeps
<1>2. CASE Send
  BY <1>2, SendKeeps
<1>3. CASE \E i \in DOMAIN requests : Tick(i)
  BY <1>3, TickKeeps
<1>4. CASE \E i \in DOMAIN requests : Answer(i)
  BY <1>4, AnswerKeeps
<1>5. CASE \E i \in DOMAIN requests : BackendFails(i)
  BY <1>5 DEF BackendFails, StageUnderWay
<1>6. CASE Inject
  BY <1>6, InjectKeeps
<1>7. CASE UNCHANGED vars
  BY <1>7 DEF vars, StageUnderWay
<1>8. QED
  BY <1>1, <1>2, <1>3, <1>4, <1>5, <1>6, <1>7 DEF Next

\* Whatever the back ends answer, the file stays a transcript, and a stage that
\* is under way asks and was answered about the file it began on: no answer makes
\* a runner split, rebuild, revise or relabel it into anything else (taskrunners/).
THEOREM StagesKeepTheTranscript == Spec => []StageUnderWay
<1>1. QED
  BY InitUnderWay, NextKeeps, PTL DEF Spec

\* The progress of a stage stays within its total, for any number of requests in
\* any order of sending, reporting and answering (base.rs, ScaledProgress).
THEOREM BarStaysWithinTotal == Spec => []BarWithinTotal
<1>1. StageUnderWay => BarWithinTotal
  <2> SUFFICES ASSUME StageUnderWay, phase = "asking" PROVE bar <= Len(requests) * Scale
    BY DEF BarWithinTotal, Total
  <2>1. Len(requests) \in Nat /\ sent \in 0..Len(requests) /\ bar \in 0..(sent * Scale)
    BY ListingFacts DEF StageUnderWay
  <2>2. sent * Scale <= Len(requests) * Scale /\ sent * Scale \in Nat /\ Len(requests) * Scale \in Nat
    BY <2>1, RunnersAssumption
  <2>3. QED
    BY <2>1, <2>2
<1>2. QED
  BY <1>1, StagesKeepTheTranscript, PTL
==============================================================================
