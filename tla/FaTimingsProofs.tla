--------------------------- MODULE FaTimingsProofs ---------------------------
(***************************************************************************)
(* The alignment stage leaves the bullets of a file in order, for files of *)
(* every length, all times, and every answer of the backend; a file the    *)
(* stage wrote settles after one refresh, and word times that were trusted *)
(* are written back unchanged.                                             *)
(***************************************************************************)
EXTENDS FaTimings, TLAPS, FiniteSetTheorems, WellFoundedInduction

(***************************************************************************)
(* Least and greatest elements.                                            *)
(***************************************************************************)

\* Min is the least element of a set of natural numbers.
LEMMA MinFacts ==
  ASSUME NEW S, S \subseteq Nat, S # {}
  PROVE  Min(S) \in S /\ \A y \in S : Min(S) <= y
<1>1. \E x \in S : \A y \in S : ~ (<<y, x>> \in OpToRel(<, Nat))
  BY NatLessThanWellFounded, WFMin
<1>2. PICK x \in S : \A y \in S : ~ (<<y, x>> \in OpToRel(<, Nat))
  BY <1>1
<1>3. \A y \in S : <<y, x>> \notin {ss \in Nat \X Nat : ss[1] < ss[2]}
  BY <1>2, Zenon DEF OpToRel
<1>5. \A y \in S : x <= y
  <2> TAKE y \in S
  <2>1. <<y, x>> \in Nat \X Nat /\ <<y, x>>[1] = y /\ <<y, x>>[2] = x
    OBVIOUS
  <2>2. ~ (y < x)
    BY <1>3, <2>1
  <2>3. QED
    BY <2>2
<1>4. QED
  BY <1>5 DEF Min

\* The values of a function on finitely many indices have an upper bound.
LEMMA Bounded ==
  ASSUME NEW n \in Nat, NEW f, \A i \in 1..n : f[i] \in Nat
  PROVE  \E b \in Nat : \A i \in 1..n : f[i] <= b
<1> DEFINE Bad == {m \in 0..n : \A b \in Nat : \E i \in 1..m : f[i] > b}
<1>1. ASSUME Bad # {} PROVE FALSE
  <2> DEFINE m == Min(Bad)
  <2>1. m \in Bad /\ \A y \in Bad : m <= y
    <3>1. Bad \subseteq Nat
      OBVIOUS
    <3> HIDE DEF Bad
    <3>2. QED
      BY <1>1, <3>1, MinFacts
  <2> HIDE DEF m
  <2>2. m \in 0..n /\ \A b \in Nat : \E i \in 1..m : f[i] > b
    BY <2>1
  <2>3. m # 0
    BY <2>2
  <2>4. m - 1 \in 0..n /\ m - 1 \notin Bad
    <3>1. m - 1 \in 0..n /\ ~ (m <= m - 1)
      BY <2>2, <2>3
    <3> HIDE DEF Bad
    <3>2. QED
      BY <2>1, <3>1
  <2>5. PICK b \in Nat : \A i \in 1..(m - 1) : ~ (f[i] > b)
    BY <2>4
  <2>6. f[m] \in Nat
    BY <2>2, <2>3
  <2>7. PICK c \in Nat : c >= b /\ c >= f[m]
    BY <2>6
  <2>8. \A i \in 1..m : ~ (f[i] > c)
    <3> TAKE i \in 1..m
    <3>1. f[i] \in Nat
      BY <2>2
    <3>2. CASE i = m
      BY <3>1, <3>2, <2>7
    <3>3. CASE i \in 1..(m - 1)
      BY <3>1, <3>3, <2>5, <2>7
    <3>4. QED
      BY <3>2, <3>3, <2>2
  <2>9. QED
    BY <2>2, <2>8
<1>2. n \notin Bad
  BY <1>1
<1>3. QED
  BY <1>2

\* Max is the greatest element of a bounded set of natural numbers.
LEMMA MaxFacts ==
  ASSUME NEW S, S \subseteq Nat, S # {}, NEW b \in Nat, \A x \in S : x <= b
  PROVE  Max(S) \in S /\ \A y \in S : y <= Max(S)
<1> DEFINE D == {b - x : x \in S}
<1>1. D \subseteq Nat /\ D # {}
  <2>1. \A x \in S : x \in Nat /\ b - x \in Nat
    <3> TAKE x \in S
    <3>1. x \in Nat /\ x <= b
      OBVIOUS
    <3>2. QED
      BY <3>1
  <2>2. QED
    BY <2>1
<1>2. Min(D) \in D /\ \A y \in D : Min(D) <= y
  <2> HIDE DEF D
  <2>1. QED
    BY <1>1, MinFacts
<1>3. PICK x \in S : Min(D) = b - x
  BY <1>2
<1>4. \A y \in S : x >= y
  <2> TAKE y \in S
  <2>1. b - y \in D
    OBVIOUS
  <2>2. b - x <= b - y
    BY <1>2, <1>3, <2>1
  <2>3. QED
    BY <2>2
<1>5. QED
  BY <1>4 DEF Max

(***************************************************************************)
(* The span around the usable tokens.                                      *)
(***************************************************************************)

\* Cover is a usable span around every usable token, None without one.
LEMMA CoverFacts ==
  ASSUME NEW s \in Segment
  PROVE  /\ Cover(s) \in Span \cup {None}
         /\ Cover(s) # None =>
              /\ Usable(Cover(s))
              /\ \E i \in DOMAIN s : Usable(s[i]) /\ Cover(s).start = s[i].start
              /\ \E i \in DOMAIN s : Usable(s[i]) /\ Cover(s).end = s[i].end
         /\ \A i \in DOMAIN s :
              Usable(s[i]) => /\ Cover(s) # None
                              /\ Cover(s).start <= s[i].start
                              /\ s[i].end <= Cover(s).end
<1> DEFINE usable == {i \in DOMAIN s : Usable(s[i])}
           starts == {s[i].start : i \in usable}
           ends == {s[i].end : i \in usable}
<1>1. \A i \in DOMAIN s : s[i] \in Span /\ s[i].start \in Nat /\ s[i].end \in Nat
  <2> TAKE i \in DOMAIN s
  <2>1. s \in Seq(Span)
    BY DEF Segment
  <2>2. s[i] \in Span
    BY <2>1
  <2>3. QED
    BY <2>2 DEF Span
<1>2. CASE usable = {}
  <2>1. Cover(s) = None
    BY <1>2 DEF Cover
  <2>2. QED
    BY <1>2, <2>1
<1>3. CASE usable # {}
  <2>1. Cover(s) = [start |-> Min(starts), end |-> Max(ends)]
    BY <1>3 DEF Cover
  <2>2. starts \subseteq Nat /\ starts # {} /\ ends \subseteq Nat /\ ends # {}
    BY <1>1, <1>3
  <2>3. Min(starts) \in starts /\ \A y \in starts : Min(starts) <= y
    <3> HIDE DEF starts
    <3> QED BY <2>2, MinFacts
  <2>4. PICK b \in Nat : \A y \in ends : y <= b
    <3> DEFINE f == [i \in DOMAIN s |-> s[i].end]
    <3>1. Len(s) \in Nat /\ DOMAIN s = 1..Len(s)
      BY DEF Segment
    <3>2. \A i \in 1..Len(s) : f[i] \in Nat /\ f[i] = s[i].end
      BY <1>1, <3>1
    <3> HIDE DEF f
    <3>3. \E b \in Nat : \A i \in 1..Len(s) : f[i] <= b
      BY <3>1, <3>2, Bounded
    <3>4. QED
      BY <3>1, <3>2, <3>3
  <2>5. Max(ends) \in ends /\ \A y \in ends : y <= Max(ends)
    <3> HIDE DEF ends
    <3> QED BY <2>2, <2>4, MaxFacts
  <2>6. PICK i \in usable : Min(starts) = s[i].start
    BY <2>3
  <2>7. PICK j \in usable : Max(ends) = s[j].end
    BY <2>5
  <2>8. \A k \in usable : Min(starts) <= s[k].start /\ s[k].end <= Max(ends)
    BY <2>3, <2>5
  <2> DEFINE lo == Min(starts)  hi == Max(ends)
  <2>9. lo \in Nat /\ hi \in Nat
    BY <2>2, <2>3, <2>5
  <2> HIDE DEF lo, hi, starts, ends
  <2>10. lo < hi
    <3>1. lo = s[i].start /\ s[i].end <= hi /\ s[i].start < s[i].end
      BY <2>6, <2>8 DEF lo, hi, Usable
    <3>2. QED
      BY <3>1, <2>9, <1>1
  <2>11. Cover(s) \in Span /\ Cover(s).start = lo /\ Cover(s).end = hi
    BY <2>1, <2>9 DEF Span, lo, hi
  <2>12. Cover(s) # None
    BY <2>11, NoneAssumption
  <2>13. QED
    BY <2>6, <2>7, <2>8, <2>10, <2>11, <2>12 DEF Usable, lo, hi
<1>4. QED
  BY <1>2, <1>3

\* The span around some consecutive tokens lies in the span around all.
LEMMA CoverOfPart ==
  ASSUME NEW s \in Segment, NEW a \in Nat, NEW n \in Nat, a + n <= Len(s)
  PROVE  /\ SubSeq(s, a + 1, a + n) \in Segment
         /\ Within(Cover(SubSeq(s, a + 1, a + n)), Cover(s))
<1> DEFINE t == SubSeq(s, a + 1, a + n)
<1>1. t \in Segment /\ Len(t) = n /\ \A i \in 1..n : t[i] = s[a + i]
  BY DEF Segment
<1>2. DOMAIN t = 1..n /\ \A i \in 1..n : a + i \in DOMAIN s
  BY <1>1 DEF Segment
<1> HIDE DEF t
<1>3. ASSUME Cover(t) # None PROVE Within(Cover(t), Cover(s))
  <2>1. PICK i \in DOMAIN t : Usable(t[i]) /\ Cover(t).start = t[i].start
    BY <1>1, <1>3, CoverFacts
  <2>2. PICK j \in DOMAIN t : Usable(t[j]) /\ Cover(t).end = t[j].end
    BY <1>1, <1>3, CoverFacts
  <2>3. Usable(Cover(t))
    BY <1>1, <1>3, CoverFacts
  <2>4. t[i] = s[a + i] /\ t[j] = s[a + j] /\ a + i \in DOMAIN s /\ a + j \in DOMAIN s
    BY <1>1, <1>2
  <2>5. Cover(s) # None /\ Cover(s).start <= s[a + i].start /\ s[a + j].end <= Cover(s).end
    BY <2>1, <2>2, <2>4, CoverFacts
  <2>6. QED
    BY <2>1, <2>2, <2>3, <2>4, <2>5 DEF Within
<1>4. QED
  BY <1>1, <1>3 DEF Within, t

(***************************************************************************)
(* Rebalancing.                                                            *)
(***************************************************************************)

AllWithin(ws, cover) == \A i \in DOMAIN ws : Within(ws[i].span, cover)

\* Moving the boundary of two adjacent words keeps both usable and within the
\* same span.
LEMMA FollowingFacts ==
  ASSUME NEW ws \in Seq(WorWord), NEW i \in Nat \ {0}, i < Len(ws),
         NEW cover \in Span \cup {None}, AllWithin(ws, cover)
  PROVE  /\ FromFollowing(ws, i) \in Seq(WorWord)
         /\ AllWithin(FromFollowing(ws, i), cover)
<1> DEFINE a == ws[i].span
           b == ws[i + 1].span
           boundary == a.start + MinWord
           moved == [ws EXCEPT ![i] = Retimed(ws[i], a.start, boundary),
                               ![i + 1] = Retimed(ws[i + 1], boundary, b.end)]
           guard == /\ a # None /\ b # None
                    /\ TooShort(a) /\ b.start <= a.end /\ boundary < b.end
<1>1. FromFollowing(ws, i) = IF guard THEN moved ELSE ws
  BY DEF FromFollowing
<1>2. CASE guard
  <2>1. Len(ws) \in Nat /\ DOMAIN ws = 1..Len(ws) /\ i \in 1..Len(ws) /\ i + 1 \in 1..Len(ws)
    OBVIOUS
  <2>2. ws[i] \in WorWord /\ ws[i + 1] \in WorWord
    BY <2>1
  <2>3. a \in Span /\ b \in Span
    BY <1>2, <2>2 DEF WorWord
  <2>4. /\ a.start \in Nat /\ a.end \in Nat /\ b.start \in Nat /\ b.end \in Nat
        /\ boundary \in Nat
    BY <2>3, DataAssumption DEF Span
  <2>5. /\ cover \in Span /\ cover.start \in Nat /\ cover.end \in Nat
        /\ a.start < a.end /\ cover.start <= a.start /\ a.end <= cover.end
        /\ b.start < b.end /\ cover.start <= b.start /\ b.end <= cover.end
    BY <1>2, <2>1 DEF AllWithin, Within, Usable, Span
  <2> DEFINE a2 == [start |-> a.start, end |-> boundary]
             b2 == [start |-> boundary, end |-> b.end]
             wa == Retimed(ws[i], a.start, boundary)
             wb == Retimed(ws[i + 1], boundary, b.end)
  <2>6. a2 \in Span /\ b2 \in Span /\ Within(a2, cover) /\ Within(b2, cover)
    <3>1. a2 \in Span /\ b2 \in Span
      BY <2>4 DEF Span
    <3>2. a.start < boundary /\ boundary < b.end
      BY <1>2, <2>4, DataAssumption
    <3>3. QED
      BY <2>4, <2>5, <3>1, <3>2, NoneAssumption DEF Within, Usable
  <2>8. wa \in WorWord /\ wb \in WorWord /\ wa.span = a2 /\ wb.span = b2
    BY <2>2, <2>6 DEF WorWord, Retimed
  <2>9. moved = [ws EXCEPT ![i] = wa, ![i + 1] = wb]
    OBVIOUS
  <2> HIDE DEF wa, wb, a2, b2
  <2> HIDE DEF moved, a, b, boundary
  <2>10. /\ moved \in Seq(WorWord) /\ DOMAIN moved = DOMAIN ws
         /\ \A k \in DOMAIN ws :
              moved[k] = IF k = i + 1 THEN wb ELSE IF k = i THEN wa ELSE ws[k]
    BY <2>1, <2>8, <2>9
  <2>11. AllWithin(moved, cover)
    BY <2>6, <2>8, <2>10 DEF AllWithin
  <2>12. QED
    BY <1>1, <1>2, <2>10, <2>11
<1>3. CASE ~ guard
  BY <1>1, <1>3
<1>4. QED
  BY <1>2, <1>3

LEMMA PrecedingFacts ==
  ASSUME NEW ws \in Seq(WorWord), NEW i \in Nat, i >= 2, i <= Len(ws),
         NEW cover \in Span \cup {None}, AllWithin(ws, cover)
  PROVE  /\ FromPreceding(ws, i) \in Seq(WorWord)
         /\ AllWithin(FromPreceding(ws, i), cover)
<1> DEFINE a == ws[i - 1].span
           b == ws[i].span
           boundary == b.end - MinWord
           moved == [ws EXCEPT ![i - 1] = Retimed(ws[i - 1], a.start, boundary),
                               ![i] = Retimed(ws[i], boundary, b.end)]
           guard == /\ a # None /\ b # None
                    /\ TooShort(b) /\ b.end >= MinWord
                    /\ b.start <= a.end /\ boundary > a.start
<1>1. FromPreceding(ws, i) = IF guard THEN moved ELSE ws
  BY DEF FromPreceding
<1>2. CASE guard
  <2>1. Len(ws) \in Nat /\ DOMAIN ws = 1..Len(ws) /\ i \in 1..Len(ws) /\ i - 1 \in 1..Len(ws)
    OBVIOUS
  <2>2. ws[i] \in WorWord /\ ws[i - 1] \in WorWord
    BY <2>1
  <2>3. a \in Span /\ b \in Span
    BY <1>2, <2>2 DEF WorWord
  <2>4. /\ a.start \in Nat /\ a.end \in Nat /\ b.start \in Nat /\ b.end \in Nat
        /\ boundary \in Nat
    BY <1>2, <2>3, DataAssumption DEF Span
  <2>5. /\ cover \in Span /\ cover.start \in Nat /\ cover.end \in Nat
        /\ a.start < a.end /\ cover.start <= a.start /\ a.end <= cover.end
        /\ b.start < b.end /\ cover.start <= b.start /\ b.end <= cover.end
    BY <1>2, <2>1 DEF AllWithin, Within, Usable, Span
  <2> DEFINE a2 == [start |-> a.start, end |-> boundary]
             b2 == [start |-> boundary, end |-> b.end]
             wa == Retimed(ws[i - 1], a.start, boundary)
             wb == Retimed(ws[i], boundary, b.end)
  <2>6. a2 \in Span /\ b2 \in Span /\ Within(a2, cover) /\ Within(b2, cover)
    <3>1. a2 \in Span /\ b2 \in Span
      BY <2>4 DEF Span
    <3>2. a.start < boundary /\ boundary < b.end
      BY <1>2, <2>4, DataAssumption
    <3>3. QED
      BY <2>4, <2>5, <3>1, <3>2, NoneAssumption DEF Within, Usable
  <2>8. wa \in WorWord /\ wb \in WorWord /\ wa.span = a2 /\ wb.span = b2
    BY <2>2, <2>6 DEF WorWord, Retimed
  <2>9. moved = [ws EXCEPT ![i - 1] = wa, ![i] = wb]
    OBVIOUS
  <2> HIDE DEF wa, wb, a2, b2
  <2> HIDE DEF moved, a, b, boundary
  <2>10. /\ moved \in Seq(WorWord) /\ DOMAIN moved = DOMAIN ws
         /\ \A k \in DOMAIN ws :
              moved[k] = IF k = i THEN wb ELSE IF k = i - 1 THEN wa ELSE ws[k]
    BY <2>1, <2>8, <2>9
  <2>11. AllWithin(moved, cover)
    BY <2>6, <2>8, <2>10 DEF AllWithin
  <2>12. QED
    BY <1>1, <1>2, <2>10, <2>11
<1>3. CASE ~ guard
  BY <1>1, <1>3
<1>4. QED
  BY <1>2, <1>3

(***************************************************************************)
(* The bullet of a written utterance.                                      *)
(***************************************************************************)

\* BulletFor gives a bullet, which starts no later than the tokens do.
LEMMA BulletFacts ==
  ASSUME NEW u \in Utterance, NEW ws \in Seq(WorWord), NEW tokens \in Segment
  PROVE  /\ BulletFor(u, ws, tokens) \in Bullet \cup {None}
         /\ Cover(tokens) # None =>
              /\ BulletFor(u, ws, tokens) # None
              /\ BulletFor(u, ws, tokens).start <= Cover(tokens).start
<1> DEFINE span == Cover(tokens)
<1>1. u.bullet \in Bullet \cup {None}
  BY DEF Utterance
<1>2. CASE span # None
  <2>1. span \in Span /\ span.start \in Nat /\ span.end \in Nat
    BY <1>2, CoverFacts DEF Span
  <2> DEFINE s == BulletStart(u, ws, span.start)
             e == BulletEnd(u, span.end)
  <2>2. u.bullet # None => u.bullet.start \in Nat /\ u.bullet.end \in Nat
    BY <1>1 DEF Bullet
  <2> HIDE DEF span
  <2>3. s \in Nat /\ s <= span.start
    BY <2>1, <2>2 DEF BulletStart
  <2>4. e \in Nat
    BY <2>1, <2>2 DEF BulletEnd
  <2>5. BulletFor(u, ws, tokens) = NewBullet(s, e)
    BY <1>2 DEF BulletFor, span
  <2> HIDE DEF s, e
  <2>6. NewBullet(s, e) \in Bullet /\ NewBullet(s, e).start = s
    BY <2>3, <2>4 DEF NewBullet, Bullet
  <2>7. QED
    BY <2>3, <2>5, <2>6, NoneAssumption DEF span
<1>3. CASE span = None
  BY <1>1, <1>3 DEF BulletFor
<1>4. QED
  BY <1>2, <1>3

(***************************************************************************)
(* Files.                                                                  *)
(***************************************************************************)

\* The words of a clean %wor tier are timed and none starts before the first.
LEMMA CleanFacts ==
  ASSUME NEW u \in Utterance, CleanWor(u)
  PROVE  /\ u.wor \in Seq(WorWord) /\ 1 \in DOMAIN u.wor
         /\ First(u) \in Nat /\ Last(u) \in Nat /\ First(u) < Last(u)
         /\ \A j \in DOMAIN u.wor :
              /\ u.wor[j].span \in Span
              /\ Usable(u.wor[j].span)
              /\ First(u) <= u.wor[j].span.start
<1>1. u.wor \in Seq(WorWord) /\ u.words \in Seq(Word) /\ u.words # <<>>
  BY DEF CleanWor, Utterance
<1> DEFINE n == Len(u.wor)
           span(j) == u.wor[j].span
<1>2. n \in Nat /\ DOMAIN u.wor = 1..n
  BY <1>1
<1>3. n # 0
  <2>1. [i \in DOMAIN u.wor |-> u.wor[i].word] = u.words
    BY DEF CleanWor
  <2>2. DOMAIN u.words = 1..n
    BY <1>2, <2>1
  <2>3. Len(u.words) = n
    BY <1>1, <1>2, <2>2
  <2>4. Len(u.words) # 0
    BY <1>1
  <2>5. QED
    BY <2>3, <2>4
<1>4. \A j \in 1..n : span(j) \in Span /\ span(j).start \in Nat /\ span(j).end \in Nat
  <2> TAKE j \in 1..n
  <2>1. u.wor[j] \in WorWord /\ span(j) # None
    BY <1>1, <1>2 DEF CleanWor
  <2>2. span(j) \in Span
    BY <2>1 DEF WorWord
  <2>3. QED
    BY <2>2 DEF Span
<1>5. \A j \in 1..n : Usable(span(j))
  <2> TAKE j \in 1..n
  <2>1. Duration(span(j)) >= MinWord
    BY <1>2 DEF CleanWor
  <2>2. QED
    BY <2>1, <1>4, DataAssumption DEF Duration, Usable
<1>6. \A j \in 1..n : First(u) <= span(j).start
  <2> DEFINE Bad == {j \in 1..n : ~ (span(1).start <= span(j).start)}
  <2>1. ASSUME Bad # {} PROVE FALSE
    <3>1. Bad \subseteq Nat
      OBVIOUS
    <3>2. Min(Bad) \in Bad /\ \A y \in Bad : Min(Bad) <= y
      <4> HIDE DEF Bad
      <4> QED BY <2>1, <3>1, MinFacts
    <3> DEFINE m == Min(Bad)
    <3> HIDE DEF m
    <3>3. m \in 1..n /\ ~ (span(1).start <= span(m).start) /\ \A y \in Bad : m <= y
      BY <3>2 DEF m
    <3>4. m > 1
      BY <3>3, <1>4
    <3>5. m - 1 \in 1..n /\ m - 1 \notin Bad
      BY <3>3, <3>4
    <3>6. span(1).start <= span(m - 1).start
      BY <3>5
    <3>7. span(m).start >= span(m - 1).end
      BY <3>3, <3>4, <1>2 DEF CleanWor
    <3>8. span(m - 1).start < span(m - 1).end
      BY <1>5, <3>5 DEF Usable
    <3>9. QED
      BY <3>3, <3>5, <3>6, <3>7, <3>8, <1>4, <1>3
  <2>2. QED
    BY <2>1, <1>2 DEF First
<1>7. First(u) \in Nat /\ Last(u) \in Nat /\ First(u) < Last(u)
  <2>1. n \in 1..n /\ 1 \in 1..n
    BY <1>2, <1>3
  <2>2. First(u) <= span(n).start /\ span(n).start < span(n).end
    BY <1>5, <1>6, <2>1 DEF Usable
  <2>3. QED
    BY <1>4, <2>1, <2>2 DEF First, Last
<1>8. QED
  BY <1>1, <1>2, <1>3, <1>4, <1>5, <1>6, <1>7

\* NextStart is the start of the nearest bullet behind an utterance.
LEMMA NextStartFacts ==
  ASSUME NEW file \in Seq(Utterance), NEW i \in Nat
  PROVE  /\ NextStart(file, i) = None =>
              \A j \in DOMAIN file : j > i => ~ Bulleted(file, j)
         /\ NextStart(file, i) # None =>
              /\ NextStart(file, i) \in Nat
              /\ \E j \in DOMAIN file :
                   /\ j > i /\ Bulleted(file, j)
                   /\ NextStart(file, i) = file[j].bullet.start
                   /\ \A k \in DOMAIN file : k > i /\ Bulleted(file, k) => j <= k
<1> DEFINE later == {j \in (i + 1)..Len(file) : Bulleted(file, j)}
<1>1. Len(file) \in Nat /\ DOMAIN file = 1..Len(file)
  OBVIOUS
<1>2. CASE later = {}
  <2>1. NextStart(file, i) = None
    BY <1>2 DEF NextStart
  <2>2. \A j \in DOMAIN file : j > i => ~ Bulleted(file, j)
    BY <1>1, <1>2
  <2>3. QED
    BY <2>1, <2>2
<1>3. CASE later # {}
  <2>1. Min(later) \in later /\ \A y \in later : Min(later) <= y
    <3>1. later \subseteq Nat
      BY <1>1
    <3> HIDE DEF later
    <3>2. QED
      BY <1>3, <3>1, MinFacts
  <2> DEFINE j == Min(later)
  <2>2. NextStart(file, i) = file[j].bullet.start
    BY <1>3 DEF NextStart
  <2> HIDE DEF j
  <2>3. j \in DOMAIN file /\ j > i /\ Bulleted(file, j)
    BY <1>1, <2>1 DEF j
  <2>4. \A k \in DOMAIN file : k > i /\ Bulleted(file, k) => j <= k
    <3> TAKE k \in DOMAIN file
    <3> HAVE k > i /\ Bulleted(file, k)
    <3>1. k \in later
      BY <1>1
    <3>2. QED
      BY <2>1, <3>1 DEF j
  <2>5. file[j].bullet \in Bullet
    <3>1. file[j] \in Utterance
      BY <2>3
    <3>2. QED
      BY <2>3, <3>1 DEF Bulleted, Utterance
  <2>6. file[j].bullet.start \in Nat
    BY <2>5 DEF Bullet
  <2>7. QED
    BY <2>2, <2>3, <2>4, <2>6, NoneAssumption
<1>4. QED
  BY <1>2, <1>3

\* What is done to the utterances of a file keeps them utterances.
LEMMA FileTypes ==
  ASSUME NEW file \in Seq(Utterance)
  PROVE  /\ WithoutReview(file) \in Seq(Utterance)
         /\ Reloaded(file) \in Seq(Utterance)
         /\ \A i \in DOMAIN file :
              Stripped(file, i) \in Seq(Utterance) /\ Len(Stripped(file, i)) = Len(file)
         /\ CompleteReuse(file) => Refreshed(WithoutReview(file)) \in Seq(Utterance)
         /\ Len(WithoutReview(file)) = Len(file)
<1>1. Len(file) \in Nat /\ DOMAIN file = 1..Len(file)
      /\ \A i \in DOMAIN file : file[i] \in Utterance
  OBVIOUS
<1>2. WithoutReview(file) \in Seq(Utterance) /\ Len(WithoutReview(file)) = Len(file)
  <2>1. \A i \in DOMAIN file : [file[i] EXCEPT !.review = FALSE] \in Utterance
    BY <1>1 DEF Utterance
  <2>2. QED
    BY <1>1, <2>1 DEF WithoutReview
<1>3. Reloaded(file) \in Seq(Utterance)
  <2>1. ASSUME NEW i \in DOMAIN file, file[i].bullet # None
        PROVE  [file[i] EXCEPT !.bullet.source = "Authoritative"] \in Utterance
    <3>1. file[i].bullet \in Bullet
      BY <1>1, <2>1 DEF Utterance
    <3>2. [file[i].bullet EXCEPT !.source = "Authoritative"] \in Bullet
      BY <3>1 DEF Bullet
    <3>3. QED
      BY <1>1, <3>2 DEF Utterance
  <2>2. QED
    BY <1>1, <2>1 DEF Reloaded
<1>4. ASSUME NEW i \in DOMAIN file 
      PROVE  Stripped(file, i) \in Seq(Utterance) /\ Len(Stripped(file, i)) = Len(file)
  <2>1. [file[i] EXCEPT !.bullet = None, !.wor = None] \in Utterance
    BY <1>1 DEF Utterance
  <2>2. QED
    BY <1>1, <2>1 DEF Stripped
<1>5. ASSUME CompleteReuse(file) PROVE Refreshed(WithoutReview(file)) \in Seq(Utterance)
  <2> DEFINE clean == WithoutReview(file)
  <2>1. ASSUME NEW i \in DOMAIN file, file[i].words # <<>>
        PROVE  [clean[i] EXCEPT !.bullet = NewBullet(First(clean[i]), Last(clean[i]))] \in Utterance
    <3>1. CleanWor(file[i])
      BY <1>5, <2>1 DEF CompleteReuse, Trusted
    <3>2. First(file[i]) \in Nat /\ Last(file[i]) \in Nat
      BY <1>1, <3>1, CleanFacts
    <3>3. clean[i] = [file[i] EXCEPT !.review = FALSE] /\ clean[i] \in Utterance
      BY <1>1, <1>2 DEF WithoutReview
    <3>4. First(clean[i]) = First(file[i]) /\ Last(clean[i]) = Last(file[i])
      BY <1>1, <3>3 DEF First, Last, Utterance
    <3>5. NewBullet(First(clean[i]), Last(clean[i])) \in Bullet
      BY <3>2, <3>4 DEF NewBullet, Bullet
    <3> HIDE DEF clean
    <3>6. QED
      BY <3>3, <3>5 DEF Utterance
  <2>2. \A i \in DOMAIN file : clean[i].words = file[i].words /\ clean[i] \in Utterance
    BY <1>1, <1>2 DEF WithoutReview, Utterance
  <2>3. DOMAIN clean = 1..Len(file)
    BY <1>1 DEF WithoutReview
  <2> HIDE DEF clean
  <2>4. Refreshed(clean) \in Seq(Utterance)
    BY <1>1, <2>1, <2>2, <2>3 DEF Refreshed
  <2>5. QED
    BY <2>4 DEF clean
<1>6. QED
  BY <1>2, <1>3, <1>4, <1>5

\* Segments are merged one for every utterance.
LEMMA MergedTypes ==
  ASSUME NEW segments \in Seq(Segment \cup {None}), NEW fresh \in Seq(Segment),
         Len(fresh) = Cardinality(Asked(segments))
  PROVE  /\ Merged(segments, fresh) \in Seq(Segment)
         /\ Len(Merged(segments, fresh)) = Len(segments)
<1> DEFINE n == Len(segments)
<1>1. n \in Nat /\ DOMAIN segments = 1..n
  OBVIOUS
<1>2. IsFiniteSet(Asked(segments))
  <2>1. IsFiniteSet(1..n)
    BY <1>1, FS_Interval
  <2>2. Asked(segments) \subseteq 1..n
    BY <1>1 DEF Asked
  <2>3. QED
    BY <2>1, <2>2, FS_Subset
<1>3. ASSUME NEW i \in 1..n, segments[i] = None
      PROVE  fresh[Cardinality({j \in Asked(segments) : j <= i})] \in Segment
  <2> DEFINE upTo == {j \in Asked(segments) : j <= i}
  <2>1. upTo \subseteq Asked(segments) /\ i \in upTo
    BY <1>1, <1>3 DEF Asked
  <2>2. IsFiniteSet(upTo) /\ Cardinality(upTo) <= Cardinality(Asked(segments))
    BY <1>2, <2>1, FS_Subset
  <2>3. Cardinality(upTo) \in Nat /\ Cardinality(upTo) # 0
    BY <2>1, <2>2, FS_CardinalityType, FS_EmptySet
  <2>4. Cardinality(upTo) \in 1..Len(fresh)
    <3>1. Len(fresh) \in Nat
      OBVIOUS
    <3> HIDE DEF upTo
    <3>2. QED
      BY <2>2, <2>3, <3>1
  <2>5. QED
    BY <2>4
<1>4. \A i \in 1..n : Merged(segments, fresh)[i] \in Segment
  <2> TAKE i \in 1..n
  <2>1. CASE segments[i] = None
    BY <1>1, <1>3, <2>1 DEF Merged
  <2>2. CASE segments[i] # None
    BY <1>1, <2>2 DEF Merged
  <2>3. QED
    BY <2>1, <2>2
<1>5. QED
  BY <1>1, <1>4 DEF Merged

\* The segments taken from a file, one for every utterance.
LEMMA ReusedTypes ==
  ASSUME NEW file \in Seq(Utterance)
  PROVE  /\ ReusedSegments(file) \in Seq(Segment \cup {None})
         /\ Len(ReusedSegments(file)) = Len(file)
<1>1. ASSUME NEW i \in DOMAIN file, Trusted(file, i)
      PROVE  [j \in DOMAIN file[i].wor |-> file[i].wor[j].span] \in Segment
  <2>1. file[i] \in Utterance /\ CleanWor(file[i])
    BY <1>1 DEF Trusted
  <2>2. file[i].wor \in Seq(WorWord) /\ \A j \in DOMAIN file[i].wor : file[i].wor[j].span \in Span
    BY <2>1, CleanFacts
  <2>3. QED
    BY <2>2 DEF Segment
<1>2. QED
  BY <1>1 DEF ReusedSegments

(***************************************************************************)
(* The invariant.                                                          *)
(***************************************************************************)

LEMMA InitIInv == Init => IInv
<1> SUFFICES ASSUME Init PROVE IInv
  OBVIOUS
<1>1. lines \in Seq(Utterance)
  BY DataAssumption DEF Init
<1>2. TypeOK
  <2>1. /\ kept \in Seq(Segment \cup {None}) /\ aligned \in Seq(Segment)
        /\ words \in Seq(WorWord)
    BY DEF Init
  <2>2. /\ at \in Nat \ {0} /\ next \in Nat \ {0} /\ cursor \in Nat
        /\ lastStart \in Nat /\ runs \in Nat
    BY DEF Init
  <2>3. own \in BOOLEAN /\ loaded \in Seq(Utterance)
    BY <1>1 DEF Init
  <2>4. QED
    BY <1>1, <2>1, <2>2, <2>3 DEF Init, TypeOK
<1>3. Shape /\ Covered /\ Written /\ OwnWords /\ Ordered
  BY DEF Init, Shape, Covered, Written, OwnWords, Ordered
<1>4. QED
  BY <1>2, <1>3 DEF IInv

\* Every action of a run keeps the types and the shape.
LEMMA TypeStep ==
  ASSUME IInv, [Next]_vars
  PROVE  TypeOK' /\ Shape'
<1> USE DEF IInv
<1>1. CASE PassThrough
  BY <1>1 DEF PassThrough, TypeOK, Shape
<1>2. CASE Refresh
  <2>1. lines' \in Seq(Utterance)
    BY <1>2, FileTypes DEF Refresh, TypeOK
  <2>2. QED
    BY <1>2, <2>1 DEF Refresh, TypeOK, Shape
<1>3. CASE NoAudio
  <2>1. lines' \in Seq(Utterance)
    BY <1>3, FileTypes DEF NoAudio, TypeOK
  <2>2. QED
    BY <1>3, <2>1 DEF NoAudio, TypeOK, Shape
<1>4. CASE Dispatch
  <2>1. lines' \in Seq(Utterance) /\ Len(lines') = Len(lines)
    BY <1>4, FileTypes DEF Dispatch, TypeOK
  <2>2. kept' \in Seq(Segment \cup {None}) /\ Len(kept') = Len(lines)
    BY <1>4, ReusedTypes DEF Dispatch, TypeOK
  <2>3. QED
    BY <1>4, <2>1, <2>2 DEF Dispatch, TypeOK, Shape
<1>5. CASE BackendFails
  BY <1>5 DEF BackendFails, TypeOK, Shape
<1>6. CASE AnswerMiscounts
  BY <1>6 DEF AnswerMiscounts, TypeOK, Shape
<1>7. CASE AnswerMerges
  <2>1. aligned' \in Seq(Segment) /\ Len(aligned') = Len(lines)
    <3>1. PICK fresh \in Answers : /\ Len(fresh) = Cardinality(Asked(kept))
                                   /\ aligned' = Merged(kept, fresh)
      BY <1>7 DEF AnswerMerges
    <3>2. fresh \in Seq(Segment) /\ kept \in Seq(Segment \cup {None}) /\ Len(kept) = Len(lines)
      BY <1>7, DataAssumption DEF AnswerMerges, TypeOK, Shape
    <3>3. QED
      BY <3>1, <3>2, MergedTypes
  <2>2. QED
    BY <1>7, <2>1 DEF AnswerMerges, TypeOK, Shape
<1>8. CASE SkipUtterance
  BY <1>8 DEF SkipUtterance, TypeOK, Shape
<1>9. CASE Collapse
  BY <1>9 DEF Collapse, TypeOK, Shape
<1>10. CASE CollapseWord
  <2> DEFINE word == lines[at].words[next]
  <2>1. word \in Word /\ Parts[word] \in Nat /\ aligned[at] \in Segment
    <3>1. at \in DOMAIN lines /\ at \in DOMAIN aligned
      BY <1>10 DEF CollapseWord, TypeOK, Shape
    <3>2. lines[at] \in Utterance /\ aligned[at] \in Segment
      BY <3>1 DEF TypeOK
    <3>3. word \in Word
      <4>1. lines[at].words \in Seq(Word)
        BY <3>2 DEF Utterance
      <4>2. next \in 1..Len(lines[at].words)
        BY <1>10, <4>1 DEF CollapseWord, TypeOK
      <4>3. QED
        BY <4>1, <4>2
    <3>4. QED
      BY <3>2, <3>3, DataAssumption
  <2>2. Collapsed(word, aligned[at], cursor) \in WorWord
    <3>1. SubSeq(aligned[at], cursor + 1, cursor + Parts[word]) \in Segment
      BY <1>10, <2>1, CoverOfPart DEF CollapseWord, TypeOK
    <3>2. Cover(SubSeq(aligned[at], cursor + 1, cursor + Parts[word])) \in Span \cup {None}
      BY <3>1, CoverFacts
    <3>3. QED
      BY <2>1, <3>2 DEF Collapsed, WorWord
  <2>3. words' \in Seq(WorWord) /\ cursor' \in Nat
    <3>1. /\ words' = Append(words, Collapsed(word, aligned[at], cursor))
          /\ cursor' = cursor + Parts[word]
      BY <1>10 DEF CollapseWord
    <3> HIDE DEF word
    <3>2. QED
      BY <2>1, <2>2, <3>1 DEF TypeOK
  <2>4. QED
    BY <1>10, <2>3 DEF CollapseWord, TypeOK, Shape
<1>11. CASE CollapseEnds
  BY <1>11 DEF CollapseEnds, TypeOK, Shape
<1>12. CASE TokensMiscount
  BY <1>12 DEF TokensMiscount, TypeOK, Shape
<1>13. CASE RebalanceFromFollowing
  <2>1. words' \in Seq(WorWord)
    <3>1. CASE next < Len(words)
      <4>1. aligned[at] \in Segment /\ Cover(aligned[at]) \in Span \cup {None}
        BY <1>13, CoverFacts DEF RebalanceFromFollowing, TypeOK, Shape
      <4>2. AllWithin(words, Cover(aligned[at]))
        BY <1>13 DEF RebalanceFromFollowing, Covered, AllWithin
      <4>3. QED
        BY <1>13, <3>1, <4>1, <4>2, FollowingFacts DEF RebalanceFromFollowing, TypeOK
    <3>2. CASE ~ (next < Len(words))
      BY <1>13, <3>2 DEF RebalanceFromFollowing, TypeOK
    <3>3. QED
      BY <3>1, <3>2
  <2>2. QED
    BY <1>13, <2>1 DEF RebalanceFromFollowing, TypeOK, Shape
<1>14. CASE RebalanceFromPreceding
  <2>1. words' \in Seq(WorWord)
    <3>1. aligned[at] \in Segment /\ Cover(aligned[at]) \in Span \cup {None}
      BY <1>14, CoverFacts DEF RebalanceFromPreceding, TypeOK, Shape
    <3>2. AllWithin(words, Cover(aligned[at]))
      BY <1>14 DEF RebalanceFromPreceding, Covered, AllWithin
    <3>3. QED
      BY <1>14, <3>1, <3>2, PrecedingFacts DEF RebalanceFromPreceding, TypeOK, Shape
  <2>2. QED
    BY <1>14, <2>1 DEF RebalanceFromPreceding, TypeOK, Shape
<1>15. CASE Attach
  <2>1. lines[at] \in Utterance /\ at \in DOMAIN lines /\ aligned[at] \in Segment
    BY <1>15 DEF Attach, TypeOK, Shape
  <2> DEFINE new == [lines[at] EXCEPT !.wor = words,
                                     !.bullet = BulletFor(lines[at], words, aligned[at])]
  <2>2. new \in Utterance
    <3>1. BulletFor(lines[at], words, aligned[at]) \in Bullet \cup {None}
      BY <2>1, BulletFacts DEF TypeOK
    <3>2. QED
      BY <2>1, <3>1 DEF Utterance, TypeOK
  <2>3. lines' = [lines EXCEPT ![at] = new]
    BY <1>15 DEF Attach
  <2> HIDE DEF new
  <2>4. lines' \in Seq(Utterance) /\ Len(lines') = Len(lines)
    BY <2>1, <2>2, <2>3 DEF TypeOK
  <2>5. QED
    BY <1>15, <2>4 DEF Attach, TypeOK, Shape
<1>16. CASE InjectionEnds
  BY <1>16 DEF InjectionEnds, TypeOK, Shape
<1>17. CASE Order
  <2>1. at \in DOMAIN lines /\ lines[at] \in Utterance
    BY <1>17 DEF Order, TypeOK
  <2>2. lines' \in Seq(Utterance) /\ Len(lines') = Len(lines) /\ lastStart' \in Nat
    <3>1. CASE ~ Bulleted(lines, at)
      BY <1>17, <3>1 DEF Order, TypeOK
    <3>2. CASE Bulleted(lines, at) /\ lines[at].bullet.start < lastStart
      <4>1. lines' = Stripped(lines, at) /\ lastStart' = lastStart
        BY <1>17, <3>2 DEF Order
      <4>2. QED
        BY <2>1, <4>1, FileTypes DEF TypeOK
    <3>3. CASE Bulleted(lines, at) /\ ~ (lines[at].bullet.start < lastStart)
      <4>1. lines' = lines /\ lastStart' = lines[at].bullet.start
        BY <1>17, <3>3 DEF Order
      <4>2. lines[at].bullet \in Bullet
        BY <2>1, <3>3 DEF Bulleted, Utterance
      <4>3. QED
        BY <4>1, <4>2 DEF Bullet, TypeOK
    <3>4. QED
      BY <3>1, <3>2, <3>3
  <2>3. QED
    BY <1>17, <2>2 DEF Order, TypeOK, Shape
<1>18. CASE OrderEnds
  BY <1>18 DEF OrderEnds, TypeOK, Shape
<1>19. CASE Clamp
  <2> DEFINE limit == NextStart(lines, at)
  <2>1. at \in DOMAIN lines /\ lines[at] \in Utterance
    BY <1>19 DEF Clamp, TypeOK
  <2>2. lines' \in Seq(Utterance) /\ Len(lines') = Len(lines)
    <3>1. CASE ~Bulleted(lines, at) \/ limit = None \/ lines[at].bullet.end <= limit
      BY <1>19, <3>1 DEF Clamp, TypeOK
    <3>2. CASE /\ ~ (~Bulleted(lines, at) \/ limit = None \/ lines[at].bullet.end <= limit)
               /\ limit <= lines[at].bullet.start
      <4>1. lines' = Stripped(lines, at)
        BY <1>19, <3>2 DEF Clamp
      <4>2. QED
        BY <2>1, <4>1, FileTypes DEF TypeOK
    <3>3. CASE /\ ~ (~Bulleted(lines, at) \/ limit = None \/ lines[at].bullet.end <= limit)
               /\ ~ (limit <= lines[at].bullet.start)
      <4>1. lines' = Clamped(lines, at, limit)
        BY <1>19, <3>3 DEF Clamp
      <4>2. limit \in Nat
        BY <3>3, NextStartFacts DEF TypeOK
      <4>3. [lines[at] EXCEPT !.bullet.end = limit] \in Utterance
        <5>1. lines[at].bullet \in Bullet
          BY <2>1, <3>3 DEF Bulleted, Utterance
        <5>2. [lines[at].bullet EXCEPT !.end = limit] \in Bullet
          BY <4>2, <5>1 DEF Bullet
        <5> HIDE DEF limit
        <5>3. QED
          BY <2>1, <5>2 DEF Utterance
      <4>4. QED
        BY <2>1, <4>1, <4>3 DEF Clamped, TypeOK
    <3>4. QED
      BY <3>1, <3>2, <3>3
  <2>3. QED
    BY <1>19, <2>2 DEF Clamp, TypeOK, Shape
<1>20. CASE Finish
  BY <1>20 DEF Finish, TypeOK, Shape
<1>21. CASE Rerun
  <2>1. lines' \in Seq(Utterance)
    BY <1>21, FileTypes DEF Rerun, TypeOK
  <2>2. own' \in BOOLEAN
    BY <1>21 DEF Rerun, TypeOK
  <2>3. QED
    BY <1>21, <2>1, <2>2 DEF Rerun, TypeOK, Shape
<1>22. CASE UNCHANGED vars
  BY <1>22 DEF vars, TypeOK, Shape
<1>23. QED
  BY <1>1, <1>2, <1>3, <1>4, <1>5, <1>6, <1>7, <1>8, <1>9, <1>10, <1>11, <1>12,
     <1>13, <1>14, <1>15, <1>16, <1>17, <1>18, <1>19, <1>20, <1>21, <1>22 DEF Next

\* The words being built stay within the times of their tokens.
LEMMA CoveredStep ==
  ASSUME IInv, [Next]_vars
  PROVE  Covered'
<1> USE DEF IInv
<1>1. CASE PassThrough \/ Refresh \/ NoAudio \/ Dispatch \/ BackendFails \/ AnswerMiscounts
  BY <1>1 DEF PassThrough, Refresh, NoAudio, Dispatch, BackendFails, AnswerMiscounts, Covered
<1>2. CASE AnswerMerges \/ SkipUtterance \/ TokensMiscount \/ Attach \/ InjectionEnds
  BY <1>2 DEF AnswerMerges, SkipUtterance, TokensMiscount, Attach, InjectionEnds, Covered
<1>3. CASE Order \/ OrderEnds \/ Clamp \/ Finish \/ Rerun
  BY <1>3 DEF Order, OrderEnds, Clamp, Finish, Rerun, Covered
<1>4. CASE Collapse
  BY <1>4 DEF Collapse, Covered
<1>5. CASE CollapseWord
  <2> DEFINE word == lines[at].words[next]
             new == Collapsed(word, aligned[at], cursor)
  <2>1. aligned[at] \in Segment /\ lines[at] \in Utterance /\ words \in Seq(WorWord)
    BY <1>5 DEF CollapseWord, TypeOK, Shape
  <2>2. word \in Word
    <3>1. lines[at].words \in Seq(Word)
      BY <2>1 DEF Utterance
    <3>2. next \in 1..Len(lines[at].words)
      BY <1>5, <3>1 DEF CollapseWord, TypeOK
    <3>3. QED
      BY <3>1, <3>2
  <2>3. /\ cursor \in Nat /\ Parts[word] \in Nat
        /\ cursor + Parts[word] <= Len(aligned[at])
        /\ words' = Append(words, new) /\ aligned' = aligned /\ at' = at
    BY <1>5, <2>2, DataAssumption DEF CollapseWord, TypeOK
  <2>4. Within(new.span, Cover(aligned[at]))
    BY <2>1, <2>3, CoverOfPart DEF Collapsed
  <2> HIDE DEF new
  <2>5. \A i \in DOMAIN words : Within(words[i].span, Cover(aligned[at]))
    BY <1>5 DEF CollapseWord, Covered
  <2>6. \A i \in DOMAIN words' : Within(words'[i].span, Cover(aligned[at]))
    <3> TAKE i \in DOMAIN words'
    <3>1. CASE i = Len(words) + 1
      BY <2>1, <2>3, <2>4, <3>1
    <3>2. CASE i \in DOMAIN words
      BY <2>1, <2>3, <2>5, <3>2
    <3>3. QED
      BY <2>1, <2>3, <3>1, <3>2
  <2>7. QED
    BY <2>3, <2>6 DEF Covered
<1>6. CASE CollapseEnds
  BY <1>6 DEF CollapseEnds, Covered
<1>7. CASE RebalanceFromFollowing
  <2>1. /\ aligned[at] \in Segment /\ Cover(aligned[at]) \in Span \cup {None}
        /\ words \in Seq(WorWord)
    BY <1>7, CoverFacts DEF RebalanceFromFollowing, TypeOK, Shape
  <2>2. AllWithin(words, Cover(aligned[at]))
    BY <1>7 DEF RebalanceFromFollowing, Covered, AllWithin
  <2>3. aligned' = aligned /\ at' = at
    BY <1>7 DEF RebalanceFromFollowing
  <2>4. AllWithin(words', Cover(aligned[at]))
    <3>1. CASE next < Len(words)
      <4>1. words' = FromFollowing(words, next) /\ next \in Nat \ {0}
        BY <1>7, <3>1 DEF RebalanceFromFollowing, TypeOK
      <4>2. QED
        BY <2>1, <2>2, <3>1, <4>1, FollowingFacts
    <3>2. CASE ~ (next < Len(words))
      BY <1>7, <2>2, <3>2 DEF RebalanceFromFollowing
    <3>3. QED
      BY <3>1, <3>2
  <2>5. QED
    BY <2>3, <2>4 DEF Covered, AllWithin
<1>8. CASE RebalanceFromPreceding
  <2>1. /\ aligned[at] \in Segment /\ Cover(aligned[at]) \in Span \cup {None}
        /\ words \in Seq(WorWord) /\ next \in Nat /\ next >= 2 /\ next <= Len(words)
    BY <1>8, CoverFacts DEF RebalanceFromPreceding, TypeOK, Shape
  <2>2. AllWithin(words, Cover(aligned[at]))
    BY <1>8 DEF RebalanceFromPreceding, Covered, AllWithin
  <2>3. aligned' = aligned /\ at' = at /\ words' = FromPreceding(words, next)
    BY <1>8 DEF RebalanceFromPreceding
  <2>4. AllWithin(words', Cover(aligned[at]))
    BY <2>1, <2>2, <2>3, PrecedingFacts
  <2>5. QED
    BY <2>3, <2>4 DEF Covered, AllWithin
<1>9. CASE UNCHANGED vars
  BY <1>9 DEF vars, Covered
<1>10. QED
  BY <1>1, <1>2, <1>3, <1>4, <1>5, <1>6, <1>7, <1>8, <1>9 DEF Next

\* What is done to one utterance keeps its timed words under its bullet.
LEMMA UnderFacts ==
  ASSUME NEW u \in Utterance, WordsUnder(u)
  PROVE  /\ WordsUnder([u EXCEPT !.review = FALSE])
         /\ u.bullet # None => WordsUnder([u EXCEPT !.bullet.source = "Authoritative"])
         /\ \A e \in Nat : u.bullet # None => WordsUnder([u EXCEPT !.bullet.end = e])
<1>1. WordsUnder([u EXCEPT !.review = FALSE])
  BY DEF WordsUnder, Utterance
<1>2. ASSUME u.bullet # None PROVE WordsUnder([u EXCEPT !.bullet.source = "Authoritative"])
  <2> DEFINE b == [u.bullet EXCEPT !.source = "Authoritative"]
             v == [u EXCEPT !.bullet = b]
  <2>1. u.bullet \in Bullet
    BY <1>2 DEF Utterance
  <2>2. b \in Bullet /\ b.start = u.bullet.start
    BY <2>1 DEF Bullet
  <2>3. b # None
    BY <2>2, NoneAssumption
  <2> HIDE DEF b
  <2>4. v.wor = u.wor /\ v.bullet = b
    BY DEF Utterance
  <2> HIDE DEF v
  <2>5. WordsUnder(v)
    BY <2>2, <2>3, <2>4 DEF WordsUnder
  <2>6. QED
    BY <2>5 DEF v, b
<1>3. ASSUME NEW e \in Nat, u.bullet # None PROVE WordsUnder([u EXCEPT !.bullet.end = e])
  <2> DEFINE b == [u.bullet EXCEPT !.end = e]
             v == [u EXCEPT !.bullet = b]
  <2>1. u.bullet \in Bullet
    BY <1>3 DEF Utterance
  <2>2. b \in Bullet /\ b.start = u.bullet.start
    BY <2>1 DEF Bullet
  <2>3. b # None
    BY <2>2, NoneAssumption
  <2> HIDE DEF b
  <2>4. v.wor = u.wor /\ v.bullet = b
    BY DEF Utterance
  <2> HIDE DEF v
  <2>5. WordsUnder(v)
    BY <2>2, <2>3, <2>4 DEF WordsUnder
  <2>6. QED
    BY <2>5 DEF v, b
<1>4. QED
  BY <1>1, <1>2, <1>3

\* An utterance whose bullet and %wor tier were removed has no words left.
LEMMA StrippedFacts ==
  ASSUME NEW file \in Seq(Utterance), NEW i \in DOMAIN file
  PROVE  /\ DOMAIN Stripped(file, i) = DOMAIN file
         /\ \A j \in DOMAIN file : j # i => Stripped(file, i)[j] = file[j]
         /\ Stripped(file, i)[i].wor = None /\ Stripped(file, i)[i].bullet = None
         /\ Stripped(file, i)[i].words = file[i].words
<1>1. file[i] \in Utterance
  OBVIOUS
<1>2. QED
  BY <1>1 DEF Stripped, Utterance

\* Cutting an end back changes nothing else.
LEMMA ClampedFacts ==
  ASSUME NEW file \in Seq(Utterance), NEW i \in DOMAIN file, Bulleted(file, i),
         NEW e \in Nat
  PROVE  /\ DOMAIN Clamped(file, i, e) = DOMAIN file
         /\ \A j \in DOMAIN file : j # i => Clamped(file, i, e)[j] = file[j]
         /\ WordsUnder(file[i]) => WordsUnder(Clamped(file, i, e)[i])
         /\ Clamped(file, i, e)[i].words = file[i].words
         /\ Bulleted(Clamped(file, i, e), i)
         /\ Clamped(file, i, e)[i].bullet.start = file[i].bullet.start
         /\ Clamped(file, i, e)[i].bullet.end = e
<1>1. file[i] \in Utterance /\ file[i].bullet # None
  BY DEF Bulleted
<1>2. file[i].bullet \in Bullet
  BY <1>1 DEF Utterance
<1> DEFINE b == [file[i].bullet EXCEPT !.end = e]
           v == [file[i] EXCEPT !.bullet = b]
<1>3. b \in Bullet /\ b.start = file[i].bullet.start /\ b.end = e
  BY <1>2 DEF Bullet
<1>4. b # None
  BY <1>3, NoneAssumption
<1>5. Clamped(file, i, e) = [file EXCEPT ![i] = v]
  BY DEF Clamped
<1> HIDE DEF b
<1>6. v.bullet = b /\ v.words = file[i].words
  BY <1>1 DEF Utterance
<1>7. v = [file[i] EXCEPT !.bullet.end = e]
  BY DEF b
<1> HIDE DEF v
<1>8. WordsUnder(file[i]) => WordsUnder(v)
  BY <1>1, <1>7, UnderFacts
<1>9. QED
  BY <1>3, <1>4, <1>5, <1>6, <1>8 DEF Bulleted

\* The three outcomes of a step of the second repair loop.
LEMMA ClampCases ==
  ASSUME IInv, Clamp
  PROVE  /\ at \in DOMAIN lines
         /\ \/ /\ lines' = lines
               /\ \/ ~ Bulleted(lines, at)
                  \/ NextStart(lines, at) = None
                  \/ lines[at].bullet.end <= NextStart(lines, at)
            \/ lines' = Stripped(lines, at)
            \/ /\ lines' = Clamped(lines, at, NextStart(lines, at))
               /\ Bulleted(lines, at) /\ NextStart(lines, at) \in Nat
<1>1. at \in DOMAIN lines /\ lines \in Seq(Utterance) /\ at \in Nat
  BY DEF Clamp, IInv, TypeOK
<1>2. NextStart(lines, at) # None => NextStart(lines, at) \in Nat
  BY <1>1, NextStartFacts
<1>3. QED
  BY <1>1, <1>2 DEF Clamp

\* The repairs, the removal of review tiers and saving keep the timed words of
\* every utterance under its bullet.
LEMMA UnderKept ==
  ASSUME IInv, Order \/ Clamp \/ NoAudio \/ Dispatch \/ Rerun
  PROVE  /\ DOMAIN lines' = DOMAIN lines
         /\ \A i \in DOMAIN lines :
              /\ lines'[i].words = lines[i].words
              /\ WordsUnder(lines[i]) => WordsUnder(lines'[i])
<1>1. lines \in Seq(Utterance) /\ \A i \in DOMAIN lines : lines[i] \in Utterance
  BY DEF IInv, TypeOK
<1>2. ASSUME NEW file, file \in {lines, Stripped(lines, at)}, at \in DOMAIN lines
      PROVE  /\ DOMAIN file = DOMAIN lines
             /\ \A i \in DOMAIN lines :
                  /\ file[i].words = lines[i].words
                  /\ WordsUnder(lines[i]) => WordsUnder(file[i])
  <2>1. CASE file = lines
    BY <2>1
  <2>2. CASE file = Stripped(lines, at)
    <3>1. /\ DOMAIN file = DOMAIN lines
          /\ \A j \in DOMAIN lines : j # at => file[j] = lines[j]
          /\ file[at].wor = None /\ file[at].words = lines[at].words
      BY <1>1, <1>2, <2>2, StrippedFacts
    <3>2. WordsUnder(file[at])
      BY <3>1 DEF WordsUnder
    <3>3. QED
      BY <3>1, <3>2
  <2>3. QED
    BY <1>2, <2>1, <2>2
<1>3. CASE Order
  <2>1. at \in DOMAIN lines
    BY <1>1, <1>3 DEF Order, IInv, TypeOK
  <2>2. lines' \in {lines, Stripped(lines, at)}
    BY <1>3 DEF Order
  <2>3. QED
    BY <1>2, <2>1, <2>2
<1>4. CASE Clamp
  <2>1. CASE lines' \in {lines, Stripped(lines, at)}
    BY <1>2, <1>4, <2>1, ClampCases
  <2>2. CASE /\ lines' = Clamped(lines, at, NextStart(lines, at))
             /\ Bulleted(lines, at) /\ NextStart(lines, at) \in Nat
    <3> DEFINE e == NextStart(lines, at)
    <3>1. at \in DOMAIN lines
      BY <1>4, ClampCases
    <3> HIDE DEF e
    <3>2. lines' = Clamped(lines, at, e) /\ e \in Nat /\ Bulleted(lines, at)
      BY <2>2 DEF e
    <3> DEFINE c == Clamped(lines, at, e)
    <3>3. /\ DOMAIN c = DOMAIN lines
          /\ \A j \in DOMAIN lines : j # at => c[j] = lines[j]
          /\ WordsUnder(lines[at]) => WordsUnder(c[at])
          /\ c[at].words = lines[at].words
      BY <1>1, <3>1, <3>2, ClampedFacts
    <3> HIDE DEF c
    <3>4. lines' = c
      BY <3>2 DEF c
    <3>5. QED
      BY <3>1, <3>3, <3>4
  <2>3. QED
    BY <1>4, <2>1, <2>2, ClampCases
<1>5. CASE NoAudio \/ Dispatch
  <2>1. lines' = WithoutReview(lines)
    BY <1>5 DEF NoAudio, Dispatch
  <2>2. /\ DOMAIN lines' = DOMAIN lines
        /\ \A i \in DOMAIN lines : lines'[i] = [lines[i] EXCEPT !.review = FALSE]
    BY <2>1 DEF WithoutReview
  <2>3. \A i \in DOMAIN lines : lines'[i].words = lines[i].words
    BY <1>1, <2>2 DEF Utterance
  <2>4. \A i \in DOMAIN lines : WordsUnder(lines[i]) => WordsUnder(lines'[i])
    BY <1>1, <2>2, UnderFacts
  <2>5. QED
    BY <2>2, <2>3, <2>4
<1>6. CASE Rerun
  <2>1. lines' = Reloaded(lines)
    BY <1>6 DEF Rerun
  <2>2. /\ DOMAIN lines' = DOMAIN lines
        /\ \A i \in DOMAIN lines :
             lines'[i] = IF lines[i].bullet = None THEN lines[i]
                         ELSE [lines[i] EXCEPT !.bullet.source = "Authoritative"]
    BY <2>1 DEF Reloaded
  <2>3. ASSUME NEW i \in DOMAIN lines
        PROVE  /\ lines'[i].words = lines[i].words
               /\ WordsUnder(lines[i]) => WordsUnder(lines'[i])
    <3>1. CASE lines[i].bullet = None
      BY <2>2, <3>1
    <3>2. CASE lines[i].bullet # None
      <4>1. lines'[i] = [lines[i] EXCEPT !.bullet.source = "Authoritative"]
        BY <2>2, <3>2
      <4>2. lines'[i].words = lines[i].words
        BY <1>1, <4>1 DEF Utterance
      <4>3. WordsUnder(lines[i]) => WordsUnder(lines'[i])
        BY <1>1, <3>2, <4>1, UnderFacts
      <4>4. QED
        BY <4>2, <4>3
    <3>3. QED
      BY <3>1, <3>2
  <2>4. QED
    BY <2>2, <2>3
<1>7. QED
  BY <1>3, <1>4, <1>5, <1>6

\* Writing an utterance puts its timed words under its bullet and leaves the
\* others alone.
LEMMA AttachFacts ==
  ASSUME IInv, Attach
  PROVE  /\ at \in DOMAIN lines /\ DOMAIN lines' = DOMAIN lines
         /\ \A i \in DOMAIN lines : i # at => lines'[i] = lines[i]
         /\ lines'[at].words = lines[at].words
         /\ WordsUnder(lines'[at])
<1> DEFINE bullet == BulletFor(lines[at], words, aligned[at])
           cover == Cover(aligned[at])
           new == [lines[at] EXCEPT !.wor = words, !.bullet = bullet]
<1>1. /\ at \in DOMAIN lines /\ lines[at] \in Utterance /\ words \in Seq(WorWord)
      /\ aligned[at] \in Segment
  BY DEF Attach, IInv, TypeOK, Shape
<1>2. /\ bullet \in Bullet \cup {None}
      /\ cover # None => bullet # None /\ bullet.start <= cover.start
  BY <1>1, BulletFacts
<1>3. \A i \in DOMAIN words : Within(words[i].span, cover)
  BY DEF Attach, IInv, Covered
<1>4. lines' = [lines EXCEPT ![at] = new]
  BY DEF Attach
<1>5. cover \in Span \cup {None}
  BY <1>1, CoverFacts
<1> HIDE DEF bullet, cover
<1>6. new.wor = words /\ new.bullet = bullet /\ new.words = lines[at].words
  BY <1>1 DEF Utterance
<1> HIDE DEF new
<1>7. WordsUnder(new)
  <2> SUFFICES ASSUME NEW j \in DOMAIN words, words[j].span # None
               PROVE  /\ Usable(words[j].span)
                      /\ bullet # None
                      /\ bullet.start <= words[j].span.start
    BY <1>6 DEF WordsUnder
  <2>1. /\ Usable(words[j].span) /\ cover # None
        /\ cover.start <= words[j].span.start
    BY <1>3 DEF Within
  <2>2. bullet \in Bullet /\ bullet.start <= cover.start /\ bullet # None
    BY <1>2, <2>1, NoneAssumption
  <2>3. words[j].span \in Span
    <3>1. words[j] \in WorWord
      BY <1>1
    <3>2. QED
      BY <3>1 DEF WorWord
  <2>4. QED
    BY <1>5, <2>1, <2>2, <2>3 DEF Bullet, Span
<1>8. QED
  BY <1>1, <1>4, <1>6, <1>7

LEMMA WrittenStep ==
  ASSUME IInv, [Next]_vars
  PROVE  Written'
<1>1. CASE PassThrough \/ Refresh \/ NoAudio \/ Dispatch \/ BackendFails \/ AnswerMiscounts
  BY <1>1 DEF PassThrough, Refresh, NoAudio, Dispatch, BackendFails, AnswerMiscounts, Written
<1>2. CASE AnswerMerges
  <2>1. at' = 1 /\ phase' = "inject" /\ lines' = lines
    BY <1>2 DEF AnswerMerges
  <2>2. \A i \in DOMAIN lines : ~ (i < 1)
    BY DEF IInv, TypeOK
  <2>3. QED
    BY <2>1, <2>2 DEF Written
<1>3. CASE SkipUtterance
  BY <1>3 DEF SkipUtterance, Written, IInv, TypeOK
<1>4. CASE Collapse \/ CollapseWord \/ CollapseEnds \/ TokensMiscount
  BY <1>4 DEF Collapse, CollapseWord, CollapseEnds, TokensMiscount, Written, IInv
<1>5. CASE RebalanceFromFollowing \/ RebalanceFromPreceding
  BY <1>5 DEF RebalanceFromFollowing, RebalanceFromPreceding, Written, IInv
<1>6. CASE Attach
  <2>1. /\ phase' = "inject" /\ at' = at + 1 /\ aligned' = aligned /\ phase = "preceding"
        /\ at \in Nat
    BY <1>6 DEF Attach, IInv, TypeOK
  <2>2. ASSUME NEW i \in DOMAIN lines', i < at + 1, aligned[i] # <<>>
        PROVE  WordsUnder(lines'[i])
    <3>1. i \in DOMAIN lines /\ i \in Nat
      BY <1>6, AttachFacts DEF IInv, TypeOK
    <3>2. CASE i = at
      BY <1>6, <3>2, AttachFacts
    <3>3. CASE i < at
      <4>1. WordsUnder(lines[i])
        BY <2>1, <2>2, <3>1, <3>3 DEF IInv, Written
      <4>2. lines'[i] = lines[i]
        BY <1>6, <2>1, <3>1, <3>3, AttachFacts
      <4>3. QED
        BY <4>1, <4>2
    <3>4. QED
      BY <2>1, <2>2, <3>1, <3>2, <3>3
  <2>3. QED
    BY <2>1, <2>2 DEF Written
<1>7. CASE InjectionEnds
  BY <1>7 DEF InjectionEnds, Written, IInv, TypeOK
<1>8. CASE Order \/ Clamp
  <2>1. phase \in {"order", "clamp"} /\ phase' = phase /\ aligned' = aligned
    BY <1>8 DEF Order, Clamp
  <2>2. \A i \in DOMAIN lines : aligned[i] # <<>> => WordsUnder(lines[i])
    BY <2>1 DEF IInv, Written
  <2>3. \A i \in DOMAIN lines' : aligned[i] # <<>> => WordsUnder(lines'[i])
    BY <1>8, <2>2, UnderKept
  <2>4. QED
    BY <2>1, <2>3 DEF Written
<1>9. CASE OrderEnds \/ Finish
  BY <1>9 DEF OrderEnds, Finish, Written, IInv
<1>10. CASE Rerun
  BY <1>10 DEF Rerun, Written
<1>11. CASE UNCHANGED vars
  BY <1>11 DEF vars, Written, IInv
<1>12. QED
  BY <1>1, <1>2, <1>3, <1>4, <1>5, <1>6, <1>7, <1>8, <1>9, <1>10, <1>11 DEF Next

\* The fast path gives every utterance with words the span of its %wor tier.
LEMMA RefreshFacts ==
  ASSUME NEW file \in Seq(Utterance), CompleteReuse(file)
  PROVE  /\ DOMAIN Refreshed(WithoutReview(file)) = DOMAIN file
         /\ \A i \in DOMAIN file :
              LET new == Refreshed(WithoutReview(file))[i]
              IN /\ new.words = file[i].words
                 /\ file[i].words = <<>> => new.bullet = file[i].bullet
                 /\ file[i].words # <<>> =>
                      /\ new.bullet = NewBullet(First(file[i]), Last(file[i]))
                      /\ CleanWor(file[i])
                      /\ WordsUnder(new)
<1> DEFINE clean == WithoutReview(file)
<1>1. DOMAIN clean = DOMAIN file /\ \A i \in DOMAIN file : clean[i] = [file[i] EXCEPT !.review = FALSE]
  BY DEF WithoutReview
<1>2. \A i \in DOMAIN file : file[i] \in Utterance
  OBVIOUS
<1>3. \A i \in DOMAIN file : /\ clean[i] \in Utterance
                             /\ clean[i].words = file[i].words
                             /\ clean[i].wor = file[i].wor
                             /\ clean[i].bullet = file[i].bullet
  BY <1>1, <1>2 DEF Utterance
<1>4. \A i \in DOMAIN file : First(clean[i]) = First(file[i]) /\ Last(clean[i]) = Last(file[i])
  BY <1>3 DEF First, Last
<1> HIDE DEF clean
<1> DEFINE r == Refreshed(clean)
<1>5. /\ DOMAIN r = DOMAIN file
      /\ \A i \in DOMAIN file :
           r[i] = IF file[i].words = <<>> THEN clean[i]
                  ELSE [clean[i] EXCEPT !.bullet = NewBullet(First(file[i]), Last(file[i]))]
  BY <1>1, <1>3, <1>4 DEF Refreshed
<1> HIDE DEF r
<1>6. ASSUME NEW i \in DOMAIN file, file[i].words = <<>>
      PROVE  r[i].words = file[i].words /\ r[i].bullet = file[i].bullet
  BY <1>3, <1>5, <1>6
<1>7. ASSUME NEW i \in DOMAIN file, file[i].words # <<>>
      PROVE  /\ r[i].words = file[i].words
             /\ r[i].bullet = NewBullet(First(file[i]), Last(file[i]))
             /\ CleanWor(file[i])
             /\ WordsUnder(r[i])
  <2>1. CleanWor(file[i])
    BY <1>7 DEF CompleteReuse, Trusted
  <2>2. /\ First(file[i]) \in Nat /\ Last(file[i]) \in Nat
        /\ \A j \in DOMAIN file[i].wor :
             /\ Usable(file[i].wor[j].span)
             /\ First(file[i]) <= file[i].wor[j].span.start
    BY <1>2, <2>1, CleanFacts
  <2> DEFINE b == NewBullet(First(file[i]), Last(file[i]))
  <2>3. b \in Bullet /\ b.start = First(file[i])
    BY <2>2 DEF NewBullet, Bullet
  <2>4. b # None
    BY <2>3, NoneAssumption
  <2> HIDE DEF b
  <2>5. r[i] = [clean[i] EXCEPT !.bullet = b]
    BY <1>5, <1>7 DEF b
  <2>6. r[i].words = file[i].words /\ r[i].wor = file[i].wor /\ r[i].bullet = b
    BY <1>3, <2>5 DEF Utterance
  <2>7. WordsUnder(r[i])
    BY <2>2, <2>3, <2>4, <2>6 DEF WordsUnder
  <2>8. QED
    BY <2>1, <2>6, <2>7 DEF b
<1>8. QED
  BY <1>5, <1>6, <1>7 DEF r, clean

LEMMA OwnWordsStep ==
  ASSUME IInv, [Next]_vars
  PROVE  OwnWords'
<1>1. CASE PassThrough \/ BackendFails \/ AnswerMiscounts \/ AnswerMerges \/ SkipUtterance
  BY <1>1 DEF PassThrough, BackendFails, AnswerMiscounts, AnswerMerges, SkipUtterance,
              OwnWords, IInv
<1>2. CASE Collapse \/ CollapseWord \/ CollapseEnds \/ TokensMiscount
  BY <1>2 DEF Collapse, CollapseWord, CollapseEnds, TokensMiscount, OwnWords, IInv
<1>3. CASE RebalanceFromFollowing \/ RebalanceFromPreceding \/ InjectionEnds
  BY <1>3 DEF RebalanceFromFollowing, RebalanceFromPreceding, InjectionEnds, OwnWords, IInv
<1>4. CASE OrderEnds \/ Finish
  BY <1>4 DEF OrderEnds, Finish, OwnWords, IInv
<1>5. CASE Order \/ Clamp \/ NoAudio \/ Dispatch
  <2>1. own' = own
    BY <1>5 DEF Order, Clamp, NoAudio, Dispatch
  <2>2. QED
    BY <1>5, <2>1, UnderKept DEF OwnWords, IInv
<1>6. CASE Refresh
  <2>1. own' = own /\ lines' = Refreshed(WithoutReview(lines)) /\ CompleteReuse(lines)
        /\ lines \in Seq(Utterance)
    BY <1>6 DEF Refresh, IInv, TypeOK
  <2> DEFINE r == Refreshed(WithoutReview(lines))
  <2>2. /\ DOMAIN r = DOMAIN lines
        /\ \A i \in DOMAIN lines :
             /\ r[i].words = lines[i].words
             /\ lines[i].words # <<>> => WordsUnder(r[i])
    BY <2>1, RefreshFacts
  <2> HIDE DEF r
  <2>3. lines' = r
    BY <2>1 DEF r
  <2>4. QED
    BY <2>2, <2>3 DEF OwnWords
<1>7. CASE Attach
  <2>1. own' = own
    BY <1>7 DEF Attach
  <2>2. ASSUME own, NEW i \in DOMAIN lines', lines'[i].words # <<>>
        PROVE  WordsUnder(lines'[i])
    <3>1. i \in DOMAIN lines
      BY <1>7, <2>2, AttachFacts
    <3>2. CASE i = at
      BY <1>7, <3>2, AttachFacts
    <3>3. CASE i # at
      <4>1. lines'[i] = lines[i]
        BY <1>7, <3>1, <3>3, AttachFacts
      <4>2. QED
        BY <2>2, <3>1, <4>1 DEF OwnWords, IInv
    <3>4. QED
      BY <3>2, <3>3
  <2>3. QED
    BY <2>1, <2>2 DEF OwnWords
<1>8. CASE Rerun
  <2>1. \A i \in DOMAIN lines : own' /\ lines[i].words # <<>> => WordsUnder(lines[i])
    <3>1. CASE own
      BY <3>1 DEF OwnWords, IInv
    <3>2. CASE ~ own
      <4>1. own' => phase = "done" /\ route = "injected" /\ WroteAll
        BY <1>8, <3>2 DEF Rerun
      <4>2. QED
        BY <4>1 DEF WroteAll, Written, IInv
    <3>3. QED
      BY <3>1, <3>2
  <2>2. QED
    BY <1>8, <2>1, UnderKept DEF OwnWords
<1>9. CASE UNCHANGED vars
  BY <1>9 DEF vars, OwnWords, IInv
<1>10. QED
  BY <1>1, <1>2, <1>3, <1>4, <1>5, <1>6, <1>7, <1>8, <1>9 DEF Next

\* An order of the bullets survives saving.
LEMMA ReloadedInOrder ==
  ASSUME NEW file \in Seq(Utterance), InOrder(file)
  PROVE  InOrder(Reloaded(file))
<1> DEFINE r == Reloaded(file)
<1>1. DOMAIN r = DOMAIN file
  BY DEF Reloaded
<1>2. ASSUME NEW i \in DOMAIN file
      PROVE  /\ Bulleted(r, i) => Bulleted(file, i)
             /\ Bulleted(r, i) => /\ r[i].bullet.start = file[i].bullet.start
                                  /\ r[i].bullet.end = file[i].bullet.end
  <2>1. CASE file[i].bullet = None
    <3>1. r[i] = file[i]
      BY <2>1 DEF Reloaded
    <3>2. QED
      BY <2>1, <3>1 DEF Bulleted
  <2>2. CASE file[i].bullet # None
    <3> DEFINE b == [file[i].bullet EXCEPT !.source = "Authoritative"]
    <3>1. file[i] \in Utterance /\ file[i].bullet \in Bullet
      <4>1. file[i] \in Utterance
        OBVIOUS
      <4>2. QED
        BY <2>2, <4>1 DEF Utterance
    <3>2. b.start = file[i].bullet.start /\ b.end = file[i].bullet.end
      BY <3>1 DEF Bullet
    <3>3. r[i] = [file[i] EXCEPT !.bullet = b]
      BY <2>2 DEF Reloaded
    <3> HIDE DEF b, r
    <3>4. r[i].bullet = b
      BY <3>1, <3>3 DEF Utterance
    <3>5. QED
      BY <2>2, <3>2, <3>4 DEF Bulleted
  <2>3. QED
    BY <2>1, <2>2
<1> HIDE DEF r
<1>3. InOrder(r)
  BY <1>1, <1>2 DEF InOrder
<1>4. QED
  BY <1>3 DEF r

\* On a file in order whose timed words are under their bullets, the fast path
\* keeps the order.
LEMMA RefreshedInOrder ==
  ASSUME NEW file \in Seq(Utterance), CompleteReuse(file), InOrder(file),
         \A i \in DOMAIN file : file[i].words # <<>> => WordsUnder(file[i])
  PROVE  InOrder(Refreshed(WithoutReview(file)))
<1> DEFINE r == Refreshed(WithoutReview(file))
<1>1. /\ DOMAIN r = DOMAIN file
      /\ \A i \in DOMAIN file :
           /\ r[i].words = file[i].words
           /\ file[i].words = <<>> => r[i].bullet = file[i].bullet
           /\ file[i].words # <<>> =>
                /\ r[i].bullet = NewBullet(First(file[i]), Last(file[i]))
                /\ CleanWor(file[i])
  BY RefreshFacts
<1> HIDE DEF r
<1>2. \A i \in DOMAIN file : file[i] \in Utterance /\ i \in Nat
  OBVIOUS
<1>3. ASSUME NEW i \in DOMAIN file, Bulleted(file, i)
      PROVE  file[i].bullet.start \in Nat /\ file[i].bullet.end \in Nat
  <2>1. file[i].bullet \in Bullet
    BY <1>2, <1>3 DEF Bulleted, Utterance
  <2>2. QED
    BY <2>1 DEF Bullet
<1>4. ASSUME NEW i \in DOMAIN file, file[i].words # <<>>
      PROVE  /\ Bulleted(file, i)
             /\ First(file[i]) \in Nat /\ Last(file[i]) \in Nat
             /\ First(file[i]) <= Last(file[i])
             /\ file[i].bullet.start <= First(file[i])
             /\ r[i].bullet.start = First(file[i]) /\ r[i].bullet.end = Last(file[i])
  <2>1. /\ 1 \in DOMAIN file[i].wor /\ file[i].wor[1].span \in Span
        /\ file[i].wor \in Seq(WorWord)
        /\ First(file[i]) \in Nat /\ Last(file[i]) \in Nat /\ First(file[i]) < Last(file[i])
    BY <1>1, <1>2, <1>4, CleanFacts
  <2>2. file[i].wor[1].span # None /\ file[i].wor # None
    BY <2>1, NoneAssumption
  <2>3. Bulleted(file, i) /\ file[i].bullet.start <= First(file[i])
    BY <1>4, <2>1, <2>2 DEF WordsUnder, Bulleted, First
  <2>4. r[i].bullet = NewBullet(First(file[i]), Last(file[i]))
    BY <1>1, <1>4
  <2>5. QED
    BY <2>1, <2>3, <2>4 DEF NewBullet
<1>5. ASSUME NEW i \in DOMAIN file, NEW j \in DOMAIN file, i < j,
             file[i].words # <<>>, Bulleted(file, j)
      PROVE  Last(file[i]) <= file[j].bullet.start
  <2> DEFINE limit == NextStart(file, i)
  <2>1. limit # None => Last(file[i]) <= limit
    BY <1>5 DEF CompleteReuse, Trusted
  <2>2. limit # None
    BY <1>2, <1>5, NextStartFacts
  <2>3. PICK k \in DOMAIN file : /\ k > i /\ Bulleted(file, k)
                                 /\ limit = file[k].bullet.start
                                 /\ \A m \in DOMAIN file : m > i /\ Bulleted(file, m) => k <= m
    BY <1>2, <2>2, NextStartFacts
  <2>4. k <= j
    BY <1>2, <1>5, <2>3
  <2>5. file[k].bullet.start <= file[j].bullet.start
    <3>1. CASE k = j
      BY <1>3, <1>5, <3>1
    <3>2. CASE k < j
      BY <1>5, <2>3, <3>2 DEF InOrder
    <3>3. QED
      BY <1>2, <2>4, <3>1, <3>2
  <2> HIDE DEF limit
  <2>6. QED
    BY <1>3, <1>4, <1>5, <2>1, <2>2, <2>3, <2>5
<1>6. ASSUME NEW i \in DOMAIN file, NEW j \in DOMAIN file, i < j,
             Bulleted(r, i), Bulleted(r, j)
      PROVE  /\ r[i].bullet.start <= r[j].bullet.start
             /\ r[i].bullet.end <= r[j].bullet.start
  <2>1. Bulleted(file, i) /\ Bulleted(file, j)
    BY <1>1, <1>4, <1>6 DEF Bulleted
  <2>2. file[j].bullet.start \in Nat /\ file[i].bullet.start \in Nat /\ file[i].bullet.end \in Nat
    BY <1>3, <2>1
  <2>3. r[j].bullet.start \in Nat /\ file[j].bullet.start <= r[j].bullet.start
    <3>1. CASE file[j].words = <<>>
      BY <1>1, <2>2, <3>1
    <3>2. CASE file[j].words # <<>>
      BY <1>4, <3>2
    <3>3. QED
      BY <3>1, <3>2
  <2>4. CASE file[i].words = <<>>
    <3>1. /\ file[i].bullet.start <= file[j].bullet.start
          /\ file[i].bullet.end <= file[j].bullet.start
      BY <1>6, <2>1 DEF InOrder
    <3>2. r[i].bullet = file[i].bullet
      BY <1>1, <2>4
    <3>3. QED
      BY <2>2, <2>3, <3>1, <3>2
  <2>5. CASE file[i].words # <<>>
    <3>1. Last(file[i]) <= file[j].bullet.start
      BY <1>5, <1>6, <2>1, <2>5
    <3>2. QED
      BY <1>4, <2>2, <2>3, <2>5, <3>1
  <2>6. QED
    BY <2>4, <2>5
<1>7. InOrder(r)
  BY <1>1, <1>6 DEF InOrder
<1>8. QED
  BY <1>7 DEF r

\* A step of the first repair loop extends the order by one utterance.
LEMMA OrderStepOrdered ==
  ASSUME IInv, Order
  PROVE  Ordered'
<1>1. /\ lines \in Seq(Utterance) /\ at \in DOMAIN lines /\ at \in Nat
      /\ \A i \in DOMAIN lines : i \in Nat
      /\ at' = at + 1 /\ phase = "order" /\ phase' = "order" /\ lastStart \in Nat
  BY DEF Order, IInv, TypeOK
<1>2. \A i \in DOMAIN lines : Bulleted(lines, i) => lines[i].bullet.start \in Nat
  <2> TAKE i \in DOMAIN lines
  <2>1. lines[i] \in Utterance
    BY <1>1
  <2>2. Bulleted(lines, i) => lines[i].bullet \in Bullet
    BY <2>1 DEF Utterance, Bulleted
  <2>3. QED
    BY <2>2 DEF Bullet
<1>3. /\ StartsInOrder(lines, at)
      /\ \A i \in DOMAIN lines :
           i < at /\ Bulleted(lines, i) => lines[i].bullet.start <= lastStart
  BY <1>1 DEF IInv, Ordered
<1>4. /\ StartsInOrder(lines', at + 1)
      /\ \A i \in DOMAIN lines' :
           i < at + 1 /\ Bulleted(lines', i) => lines'[i].bullet.start <= lastStart'
  <2>1. CASE ~ Bulleted(lines, at)
    <3>1. lines' = lines /\ lastStart' = lastStart
      BY <2>1 DEF Order
    <3>2. QED
      BY <1>1, <1>3, <2>1, <3>1 DEF StartsInOrder
  <2>2. CASE Bulleted(lines, at) /\ lines[at].bullet.start < lastStart
    <3> DEFINE s == Stripped(lines, at)
    <3>1. lines' = s /\ lastStart' = lastStart
      BY <2>2 DEF Order
    <3>2. /\ DOMAIN s = DOMAIN lines /\ s[at].bullet = None
          /\ \A j \in DOMAIN lines : j # at => s[j] = lines[j]
      BY <1>1, StrippedFacts
    <3> HIDE DEF s
    <3>3. \A i \in DOMAIN lines : Bulleted(s, i) =>
            i # at /\ Bulleted(lines, i) /\ s[i] = lines[i]
      BY <3>2 DEF Bulleted
    <3>4. StartsInOrder(s, at + 1)
      BY <1>1, <1>3, <3>2, <3>3 DEF StartsInOrder
    <3>5. \A i \in DOMAIN s :
            i < at + 1 /\ Bulleted(s, i) => s[i].bullet.start <= lastStart
      BY <1>1, <1>3, <3>2, <3>3
    <3>6. QED
      BY <3>1, <3>4, <3>5
  <2>3. CASE Bulleted(lines, at) /\ ~ (lines[at].bullet.start < lastStart)
    <3>1. lines' = lines /\ lastStart' = lines[at].bullet.start
      BY <2>3 DEF Order
    <3>2. \A i \in DOMAIN lines :
            i < at /\ Bulleted(lines, i) => lines[i].bullet.start <= lines[at].bullet.start
      BY <1>1, <1>2, <1>3, <2>3
    <3>3. StartsInOrder(lines, at + 1)
      BY <1>1, <1>3, <3>2 DEF StartsInOrder
    <3>4. \A i \in DOMAIN lines :
            i < at + 1 /\ Bulleted(lines, i) => lines[i].bullet.start <= lines[at].bullet.start
      BY <1>1, <1>2, <3>2, <2>3
    <3>5. QED
      BY <3>1, <3>3, <3>4
  <2>4. QED
    BY <2>1, <2>2, <2>3
<1>5. QED
  BY <1>1, <1>4 DEF Ordered

\* A step of the second repair loop ends one utterance before the later ones.
LEMMA ClampStepOrdered ==
  ASSUME IInv, Clamp
  PROVE  Ordered'
<1> DEFINE limit == NextStart(lines, at)
<1>1. /\ lines \in Seq(Utterance) /\ at \in DOMAIN lines /\ at \in Nat
      /\ \A i \in DOMAIN lines : i \in Nat /\ i < Len(lines) + 1
      /\ at' = at + 1 /\ phase = "clamp" /\ phase' = "clamp"
  BY DEF Clamp, IInv, TypeOK
<1>2. ASSUME NEW i \in DOMAIN lines, Bulleted(lines, i)
      PROVE  lines[i].bullet.start \in Nat /\ lines[i].bullet.end \in Nat
  <2>1. lines[i] \in Utterance
    BY <1>1
  <2>2. lines[i].bullet \in Bullet
    BY <1>2, <2>1 DEF Utterance, Bulleted
  <2>3. QED
    BY <2>2 DEF Bullet
<1>3. \A i, j \in DOMAIN lines :
        i < j /\ Bulleted(lines, i) /\ Bulleted(lines, j)
          => lines[i].bullet.start <= lines[j].bullet.start
  BY <1>1 DEF IInv, Ordered, StartsInOrder
<1>4. \A i, j \in DOMAIN lines :
        i < at /\ i < j /\ Bulleted(lines, i) /\ Bulleted(lines, j)
          => lines[i].bullet.end <= lines[j].bullet.start
  BY <1>1 DEF IInv, Ordered
<1>5. ASSUME NEW j \in DOMAIN lines, at < j, Bulleted(lines, j)
      PROVE  limit \in Nat /\ limit <= lines[j].bullet.start
  <2>1. limit # None
    BY <1>1, <1>5, NextStartFacts
  <2>2. PICK k \in DOMAIN lines : /\ k > at /\ Bulleted(lines, k)
                                  /\ limit = lines[k].bullet.start
                                  /\ \A m \in DOMAIN lines : m > at /\ Bulleted(lines, m) => k <= m
    BY <1>1, <2>1, NextStartFacts
  <2>3. k <= j
    BY <1>1, <1>5, <2>2
  <2>4. lines[k].bullet.start <= lines[j].bullet.start
    BY <1>1, <1>2, <1>3, <1>5, <2>2, <2>3
  <2> HIDE DEF limit
  <2>5. QED
    BY <1>2, <2>2, <2>4
<1> DEFINE Sorted(file) ==
             /\ \A i, j \in DOMAIN file :
                  i < j /\ Bulleted(file, i) /\ Bulleted(file, j)
                    => file[i].bullet.start <= file[j].bullet.start
             /\ \A i, j \in DOMAIN file :
                  i < at + 1 /\ i < j /\ Bulleted(file, i) /\ Bulleted(file, j)
                    => file[i].bullet.end <= file[j].bullet.start
<1> HIDE DEF limit
<1>6. Sorted(lines')
  <2>1. CASE /\ lines' = lines
             /\ ~ Bulleted(lines, at) \/ limit = None \/ lines[at].bullet.end <= limit
    <3>1. ASSUME NEW j \in DOMAIN lines, at < j, Bulleted(lines, at), Bulleted(lines, j)
          PROVE  lines[at].bullet.end <= lines[j].bullet.start
      <4>1. limit \in Nat /\ limit <= lines[j].bullet.start
        BY <1>5, <3>1
      <4>2. lines[at].bullet.end <= limit
        BY <2>1, <3>1, <4>1, NoneAssumption
      <4>3. QED
        BY <1>1, <1>2, <3>1, <4>1, <4>2
    <3>2. QED
      BY <1>1, <1>3, <1>4, <2>1, <3>1
  <2>2. CASE lines' = Stripped(lines, at)
    <3> DEFINE s == Stripped(lines, at)
    <3>1. /\ DOMAIN s = DOMAIN lines /\ s[at].bullet = None
          /\ \A j \in DOMAIN lines : j # at => s[j] = lines[j]
      BY <1>1, StrippedFacts
    <3> HIDE DEF s
    <3>2. \A i \in DOMAIN lines : Bulleted(s, i) =>
            i # at /\ Bulleted(lines, i) /\ s[i] = lines[i]
      BY <3>1 DEF Bulleted
    <3>3. Sorted(s)
      BY <1>1, <1>3, <1>4, <3>1, <3>2
    <3>4. QED
      BY <2>2, <3>3 DEF s
  <2>3. CASE lines' = Clamped(lines, at, limit) /\ Bulleted(lines, at) /\ limit \in Nat
    <3> DEFINE c == Clamped(lines, at, limit)
    <3>1. /\ DOMAIN c = DOMAIN lines
          /\ \A j \in DOMAIN lines : j # at => c[j] = lines[j]
          /\ c[at].bullet.start = lines[at].bullet.start /\ c[at].bullet.end = limit
      BY <1>1, <2>3, ClampedFacts
    <3> HIDE DEF c
    <3>2. \A i \in DOMAIN lines :
            /\ Bulleted(c, i) => Bulleted(lines, i)
            /\ c[i].bullet.start = lines[i].bullet.start
      BY <2>3, <3>1 DEF Bulleted
    <3>3. Sorted(c)
      <4>1. \A i, j \in DOMAIN c :
              i < j /\ Bulleted(c, i) /\ Bulleted(c, j)
                => c[i].bullet.start <= c[j].bullet.start
        BY <1>3, <3>1, <3>2
      <4>2. ASSUME NEW i \in DOMAIN c, NEW j \in DOMAIN c,
                   i < at + 1, i < j, Bulleted(c, i), Bulleted(c, j)
            PROVE  c[i].bullet.end <= c[j].bullet.start
        <5>1. CASE i = at
          BY <1>5, <3>1, <3>2, <4>2, <5>1
        <5>2. CASE i < at
          BY <1>1, <1>4, <3>1, <3>2, <4>2, <5>2
        <5>3. QED
          BY <1>1, <3>1, <4>2, <5>1, <5>2
      <4>3. QED
        BY <4>1, <4>2
    <3>4. QED
      BY <2>3, <3>3 DEF c
  <2>4. QED
    BY <2>1, <2>2, <2>3, ClampCases DEF limit
<1>7. QED
  BY <1>1, <1>6 DEF Ordered, StartsInOrder

LEMMA OrderedStep ==
  ASSUME IInv, [Next]_vars
  PROVE  Ordered'
<1>1. CASE PassThrough
  BY <1>1 DEF PassThrough, Ordered, IInv
<1>2. CASE Refresh
  <2>1. /\ phase = "start" /\ phase' = "done" /\ route' = "refreshed" /\ own' = own
        /\ lines' = Refreshed(WithoutReview(lines)) /\ CompleteReuse(lines)
        /\ lines \in Seq(Utterance)
    BY <1>2 DEF Refresh, IInv, TypeOK
  <2>2. ASSUME own PROVE InOrder(lines')
    <3>1. /\ InOrder(lines)
          /\ \A i \in DOMAIN lines : lines[i].words # <<>> => WordsUnder(lines[i])
      BY <2>1, <2>2 DEF IInv, Ordered, OwnWords
    <3>2. QED
      BY <2>1, <3>1, RefreshedInOrder
  <2>3. QED
    BY <2>1, <2>2 DEF Ordered
<1>3. CASE NoAudio \/ Dispatch \/ BackendFails \/ AnswerMiscounts \/ AnswerMerges
  BY <1>3 DEF NoAudio, Dispatch, BackendFails, AnswerMiscounts, AnswerMerges, Ordered
<1>4. CASE SkipUtterance \/ Collapse \/ CollapseWord \/ CollapseEnds \/ TokensMiscount
  BY <1>4 DEF SkipUtterance, Collapse, CollapseWord, CollapseEnds, TokensMiscount, Ordered
<1>5. CASE RebalanceFromFollowing \/ RebalanceFromPreceding \/ Attach
  BY <1>5 DEF RebalanceFromFollowing, RebalanceFromPreceding, Attach, Ordered
<1>6. CASE InjectionEnds
  <2>1. phase' = "order" /\ at' = 1 /\ lines' = lines
    BY <1>6 DEF InjectionEnds
  <2>2. \A i \in DOMAIN lines : i \in Nat /\ ~ (i < 1)
    BY DEF IInv, TypeOK
  <2>3. QED
    BY <2>1, <2>2 DEF Ordered, StartsInOrder
<1>7. CASE Order
  BY <1>7, OrderStepOrdered
<1>8. CASE OrderEnds
  <2>1. /\ phase = "order" /\ phase' = "clamp" /\ at' = 1 /\ lines' = lines
        /\ at > Len(lines) /\ at \in Nat
    BY <1>8 DEF OrderEnds, IInv, TypeOK
  <2>2. \A i \in DOMAIN lines : i \in Nat /\ ~ (i < 1) /\ i < at
    BY <2>1 DEF IInv, TypeOK
  <2>3. StartsInOrder(lines, at)
    BY <2>1 DEF IInv, Ordered
  <2>4. StartsInOrder(lines, Len(lines) + 1)
    BY <2>2, <2>3 DEF StartsInOrder
  <2>5. QED
    BY <2>1, <2>2, <2>4 DEF Ordered
<1>9. CASE Clamp
  BY <1>9, ClampStepOrdered
<1>10. CASE Finish
  <2>1. /\ phase = "clamp" /\ phase' = "done" /\ lines' = lines
        /\ at > Len(lines) /\ at \in Nat
    BY <1>10 DEF Finish, IInv, TypeOK
  <2>2. \A i \in DOMAIN lines : i \in Nat /\ i < at /\ i < Len(lines) + 1
    BY <2>1 DEF IInv, TypeOK
  <2>3. InOrder(lines)
    BY <2>1, <2>2 DEF IInv, Ordered, StartsInOrder, InOrder
  <2>4. QED
    BY <2>1, <2>3 DEF Ordered
<1>11. CASE Rerun
  <2>1. /\ phase = "done" /\ phase' = "start" /\ lines' = Reloaded(lines)
        /\ own' => own \/ route = "injected"
        /\ lines \in Seq(Utterance)
    BY <1>11 DEF Rerun, IInv, TypeOK
  <2>2. own' => InOrder(lines)
    BY <2>1 DEF IInv, Ordered
  <2>3. own' => InOrder(lines')
    BY <2>1, <2>2, ReloadedInOrder
  <2>4. QED
    BY <2>1, <2>3 DEF Ordered
<1>12. CASE UNCHANGED vars
  BY <1>12 DEF vars, Ordered, IInv
<1>13. QED
  BY <1>1, <1>2, <1>3, <1>4, <1>5, <1>6, <1>7, <1>8, <1>9, <1>10, <1>11, <1>12 DEF Next

LEMMA Invariance == Spec => []IInv
<1>1. IInv /\ [Next]_vars => IInv'
  BY TypeStep, CoveredStep, WrittenStep, OwnWordsStep, OrderedStep DEF IInv
<1>2. QED
  BY InitIInv, <1>1, PTL DEF Spec

(***************************************************************************)
(* The theorems.                                                           *)
(***************************************************************************)

\* Variables keep their types: in particular no time becomes negative when a
\* word gives part of its time to a neighbour.
THEOREM TypesHold == Spec => []TypeOK
<1>1. IInv => TypeOK
  BY DEF IInv
<1>2. QED
  BY Invariance, <1>1, PTL

\* The bullets of an aligned file are in order, whatever the backend answered,
\* and stay so when a later run reuses what the stage wrote.
THEOREM OrderHolds == Spec => []BulletsInOrder
<1>1. IInv => BulletsInOrder
  BY DEF IInv, Ordered, BulletsInOrder
<1>2. QED
  BY Invariance, <1>1, PTL

\* Every timed word the stage wrote is usable and starts under its bullet.
THEOREM WordsHold == Spec => []WordsUnderBullets
<1>1. IInv => WordsUnderBullets
  BY DEF IInv, Written, WordsUnder, WordsUnderBullets
<1>2. QED
  BY Invariance, <1>1, PTL

(***************************************************************************)
(* Reuse settles.                                                          *)
(***************************************************************************)

\* The conditions on the %wor tier read the words and the tier only.
LEMMA SameTier ==
  ASSUME NEW u, NEW v, u.words = v.words, u.wor = v.wor
  PROVE  (CleanWor(u) <=> CleanWor(v)) /\ First(u) = First(v) /\ Last(u) = Last(v)
BY DEF CleanWor, Dominated, First, Last

\* A clean file in order, with the spans of its tiers as bullets, is reused as
\* a whole.
LEMMA CleanIsComplete ==
  ASSUME NEW file \in Seq(Utterance), InOrder(file),
         \E i \in DOMAIN file : file[i].words # <<>>,
         \A i \in DOMAIN file : file[i].words # <<>> =>
           CleanWor(file[i]) /\ file[i].bullet = NewBullet(First(file[i]), Last(file[i]))
  PROVE  CompleteReuse(file)
<1>1. ASSUME NEW i \in DOMAIN file, file[i].words # <<>>, NextStart(file, i) # None
      PROVE  Last(file[i]) <= NextStart(file, i)
  <2>1. i \in Nat /\ file[i] \in Utterance
    OBVIOUS
  <2>2. PICK j \in DOMAIN file : /\ j > i /\ Bulleted(file, j)
                                 /\ NextStart(file, i) = file[j].bullet.start
    BY <1>1, <2>1, NextStartFacts
  <2>3. First(file[i]) \in Nat /\ Last(file[i]) \in Nat
    BY <1>1, <2>1, CleanFacts
  <2>4. /\ NewBullet(First(file[i]), Last(file[i])) \in Bullet
        /\ NewBullet(First(file[i]), Last(file[i])).end = Last(file[i])
    BY <2>3 DEF NewBullet, Bullet
  <2>5. Bulleted(file, i) /\ file[i].bullet.end = Last(file[i])
    BY <1>1, <2>4, NoneAssumption DEF Bulleted
  <2>6. file[i].bullet.end <= file[j].bullet.start
    BY <2>1, <2>2, <2>5 DEF InOrder
  <2>7. QED
    BY <2>2, <2>5, <2>6
<1>2. QED
  BY <1>1 DEF CompleteReuse, Trusted

\* What the fast path leaves of each utterance.
LEMMA RefreshedUtterance ==
  ASSUME NEW file \in Seq(Utterance)
  PROVE  LET r == Refreshed(WithoutReview(file))
         IN /\ DOMAIN r = DOMAIN file
            /\ \A i \in DOMAIN file :
                 /\ r[i].words = file[i].words /\ r[i].wor = file[i].wor
                 /\ r[i].review = FALSE
                 /\ file[i].words # <<>> =>
                      r[i].bullet = NewBullet(First(file[i]), Last(file[i]))
                 /\ file[i].review = FALSE /\ file[i].words = <<>> => r[i] = file[i]
                 /\ /\ file[i].review = FALSE /\ file[i].words # <<>>
                    /\ file[i].bullet = NewBullet(First(file[i]), Last(file[i]))
                    => r[i] = file[i]
<1> DEFINE clean == WithoutReview(file)
<1>1. \A i \in DOMAIN file : file[i] \in Utterance
  OBVIOUS
<1>2. DOMAIN clean = DOMAIN file /\ \A i \in DOMAIN file : clean[i] = [file[i] EXCEPT !.review = FALSE]
  BY DEF WithoutReview
<1>3. \A i \in DOMAIN file : /\ clean[i] \in Utterance /\ clean[i].review = FALSE
                             /\ clean[i].words = file[i].words
                             /\ clean[i].wor = file[i].wor
                             /\ file[i].review = FALSE => clean[i] = file[i]
  <2> TAKE i \in DOMAIN file
  <2>1. file[i] \in Utterance /\ clean[i] = [file[i] EXCEPT !.review = FALSE]
    BY <1>1, <1>2
  <2> HIDE DEF clean
  <2>2. /\ clean[i] \in Utterance /\ clean[i].review = FALSE
        /\ clean[i].words = file[i].words
        /\ clean[i].wor = file[i].wor
    BY <2>1 DEF Utterance
  <2>3. file[i].review = FALSE => clean[i] = file[i]
    BY <2>1 DEF Utterance
  <2>4. QED
    BY <2>2, <2>3
<1>4. \A i \in DOMAIN file : First(clean[i]) = First(file[i]) /\ Last(clean[i]) = Last(file[i])
  BY <1>3, SameTier
<1> HIDE DEF clean
<1> DEFINE r == Refreshed(clean)
           b(i) == NewBullet(First(file[i]), Last(file[i]))
<1>5. /\ DOMAIN r = DOMAIN file
      /\ \A i \in DOMAIN file :
           r[i] = IF file[i].words = <<>> THEN clean[i] ELSE [clean[i] EXCEPT !.bullet = b(i)]
  BY <1>2, <1>3, <1>4 DEF Refreshed
<1> HIDE DEF r, b
<1>6. ASSUME NEW i \in DOMAIN file, file[i].words # <<>>
      PROVE  /\ r[i].words = file[i].words /\ r[i].wor = file[i].wor
             /\ r[i].review = FALSE /\ r[i].bullet = b(i)
             /\ file[i].review = FALSE /\ file[i].bullet = b(i) => r[i] = file[i]
  <2>1. r[i] = [clean[i] EXCEPT !.bullet = b(i)]
    BY <1>5, <1>6
  <2>2. /\ clean[i] \in Utterance /\ clean[i].review = FALSE
        /\ clean[i].words = file[i].words /\ clean[i].wor = file[i].wor
        /\ file[i].review = FALSE => clean[i] = file[i]
    BY <1>3
  <2>3. QED
    BY <2>1, <2>2 DEF Utterance
<1>7. QED
  BY <1>3, <1>5, <1>6 DEF r, clean, b

\* What saving and reading leaves of each utterance.
LEMMA ReloadedUtterance ==
  ASSUME NEW file \in Seq(Utterance)
  PROVE  /\ DOMAIN Reloaded(file) = DOMAIN file
         /\ \A i \in DOMAIN file :
              /\ Reloaded(file)[i].words = file[i].words
              /\ Reloaded(file)[i].wor = file[i].wor
              /\ Reloaded(file)[i].review = file[i].review
              /\ \A s, e \in Nat : file[i].bullet = NewBullet(s, e)
                   => Reloaded(file)[i].bullet = NewBullet(s, e)
<1>1. DOMAIN Reloaded(file) = DOMAIN file
  BY DEF Reloaded
<1>2. ASSUME NEW i \in DOMAIN file, file[i].bullet # None
      PROVE  /\ Reloaded(file)[i].words = file[i].words
             /\ Reloaded(file)[i].wor = file[i].wor
             /\ Reloaded(file)[i].review = file[i].review
             /\ \A s, e \in Nat : file[i].bullet = NewBullet(s, e)
                  => Reloaded(file)[i].bullet = NewBullet(s, e)
  <2> DEFINE b == [file[i].bullet EXCEPT !.source = "Authoritative"]
  <2>1. file[i] \in Utterance
    OBVIOUS
  <2>2. Reloaded(file)[i] = [file[i] EXCEPT !.bullet = b]
    BY <1>2 DEF Reloaded
  <2>3. \A s, e \in Nat : file[i].bullet = NewBullet(s, e) => b = NewBullet(s, e)
    BY DEF NewBullet
  <2> HIDE DEF b
  <2>4. QED
    BY <2>1, <2>2, <2>3 DEF Utterance
<1>3. ASSUME NEW i \in DOMAIN file, file[i].bullet = None
      PROVE  Reloaded(file)[i] = file[i]
  BY <1>3 DEF Reloaded
<1>4. QED
  BY <1>1, <1>2, <1>3

LEMMA SettledStep ==
  ASSUME IInv, IInv', Settled, [Next]_vars
  PROVE  Settled'
<1>1. CASE PassThrough \/ NoAudio \/ Dispatch \/ BackendFails \/ AnswerMiscounts \/ AnswerMerges
  BY <1>1 DEF PassThrough, NoAudio, Dispatch, BackendFails, AnswerMiscounts, AnswerMerges,
              Settled
<1>2. CASE \/ SkipUtterance \/ Collapse \/ CollapseWord \/ CollapseEnds \/ TokensMiscount
           \/ RebalanceFromFollowing \/ RebalanceFromPreceding \/ Attach \/ InjectionEnds
           \/ Order \/ OrderEnds \/ Clamp
  BY <1>2 DEF SkipUtterance, Collapse, CollapseWord, CollapseEnds, TokensMiscount,
              RebalanceFromFollowing, RebalanceFromPreceding, Attach, InjectionEnds,
              Order, OrderEnds, Clamp, Settled
<1>3. CASE Finish
  <2>1. route' = "injected"
    BY <1>3 DEF Finish, IInv, Shape
  <2>2. QED
    BY <2>1 DEF Settled
<1>4. CASE Refresh
  <2>1. /\ lines \in Seq(Utterance) /\ CompleteReuse(lines)
        /\ lines' = Refreshed(WithoutReview(lines))
    BY <1>4 DEF Refresh, IInv, TypeOK
  <2> DEFINE r == Refreshed(WithoutReview(lines))
  <2>2. /\ DOMAIN r = DOMAIN lines
        /\ \A i \in DOMAIN lines :
             /\ r[i].words = lines[i].words /\ r[i].wor = lines[i].wor
             /\ r[i].review = FALSE
             /\ lines[i].words # <<>> =>
                  r[i].bullet = NewBullet(First(lines[i]), Last(lines[i]))
    BY <2>1, RefreshedUtterance
  <2> HIDE DEF r
  <2>3. \A i \in DOMAIN lines : /\ CleanWor(r[i]) <=> CleanWor(lines[i])
                                /\ First(r[i]) = First(lines[i]) /\ Last(r[i]) = Last(lines[i])
    BY <2>2, SameTier
  <2>4. /\ \E i \in DOMAIN lines : lines[i].words # <<>>
        /\ \A i \in DOMAIN lines : lines[i].words # <<>> => CleanWor(lines[i])
    BY <2>1 DEF CompleteReuse, Trusted
  <2>5. /\ \E i \in DOMAIN r : r[i].words # <<>>
        /\ \A i \in DOMAIN r :
             /\ r[i].review = FALSE
             /\ r[i].words # <<>> =>
                  CleanWor(r[i]) /\ r[i].bullet = NewBullet(First(r[i]), Last(r[i]))
    BY <2>2, <2>3, <2>4
  <2>6. lines' = r
    BY <2>1 DEF r
  <2>7. QED
    BY <2>5, <2>6 DEF Settled
<1>5. CASE Rerun
  <2>1. /\ lines \in Seq(Utterance) /\ lines' = Reloaded(lines) /\ phase = "done"
        /\ route' = route /\ (own' /\ route = "refreshed" => own)
    BY <1>5 DEF Rerun, IInv, TypeOK
  <2> SUFFICES ASSUME own, route = "refreshed"
               PROVE  Settled'
    BY <2>1 DEF Settled
  <2> DEFINE r == Reloaded(lines)
  <2>2. /\ DOMAIN r = DOMAIN lines
        /\ \A i \in DOMAIN lines :
             /\ r[i].words = lines[i].words /\ r[i].wor = lines[i].wor
             /\ r[i].review = lines[i].review
             /\ \A s, e \in Nat : lines[i].bullet = NewBullet(s, e) => r[i].bullet = NewBullet(s, e)
    BY <2>1, ReloadedUtterance
  <2> HIDE DEF r
  <2>3. \A i \in DOMAIN lines : /\ CleanWor(r[i]) <=> CleanWor(lines[i])
                                /\ First(r[i]) = First(lines[i]) /\ Last(r[i]) = Last(lines[i])
    BY <2>2, SameTier
  <2>4. /\ \E i \in DOMAIN lines : lines[i].words # <<>>
        /\ \A i \in DOMAIN lines :
             /\ lines[i].review = FALSE
             /\ lines[i].words # <<>> =>
                  /\ CleanWor(lines[i])
                  /\ lines[i].bullet = NewBullet(First(lines[i]), Last(lines[i]))
    BY <2>1 DEF Settled
  <2>5. \A i \in DOMAIN lines : lines[i].words # <<>> =>
          First(lines[i]) \in Nat /\ Last(lines[i]) \in Nat
    BY <2>1, <2>4, CleanFacts
  <2>6. /\ \E i \in DOMAIN r : r[i].words # <<>>
        /\ \A i \in DOMAIN r :
             /\ r[i].review = FALSE
             /\ r[i].words # <<>> =>
                  CleanWor(r[i]) /\ r[i].bullet = NewBullet(First(r[i]), Last(r[i]))
    BY <2>2, <2>3, <2>4, <2>5
  <2>7. lines' = r
    BY <2>1 DEF r
  <2>8. QED
    BY <2>6, <2>7 DEF Settled
<1>6. CASE UNCHANGED vars
  BY <1>6 DEF vars, Settled
<1>7. QED
  BY <1>1, <1>2, <1>3, <1>4, <1>5, <1>6 DEF Next

LEMMA SettledHolds == Spec => []Settled
<1>1. Init => Settled
  BY DEF Init, Settled
<1>2. IInv /\ IInv' /\ Settled /\ [Next]_vars => Settled'
  BY SettledStep
<1>3. QED
  BY Invariance, <1>1, <1>2, PTL DEF Spec

\* In a settled file a run changes nothing.
LEMMA RefreshChangesNothing ==
  ASSUME IInv, Settled, phase = "start", own, route = "refreshed", [Next]_vars, phase' # "start"
  PROVE  phase' = "done" /\ lines' = lines
<1>1. /\ lines \in Seq(Utterance) /\ InOrder(lines)
  BY DEF IInv, TypeOK, Ordered
<1>2. /\ \E i \in DOMAIN lines : lines[i].words # <<>>
      /\ \A i \in DOMAIN lines :
           /\ lines[i].review = FALSE
           /\ lines[i].words # <<>> =>
                /\ CleanWor(lines[i])
                /\ lines[i].bullet = NewBullet(First(lines[i]), Last(lines[i]))
  BY DEF Settled
<1>3. CompleteReuse(lines)
  BY <1>1, <1>2, CleanIsComplete
<1>4. PassThrough \/ Refresh
  BY <1>3 DEF Next, vars, NoAudio, Dispatch, BackendFails, AnswerMiscounts, AnswerMerges,
              SkipUtterance, Collapse, CollapseWord, CollapseEnds, TokensMiscount,
              RebalanceFromFollowing, RebalanceFromPreceding, Attach, InjectionEnds,
              Order, OrderEnds, Clamp, Finish, Rerun
<1>5. CASE PassThrough
  BY <1>5 DEF PassThrough
<1>6. CASE Refresh
  <2> DEFINE r == Refreshed(WithoutReview(lines))
  <2>1. DOMAIN r = DOMAIN lines /\ \A i \in DOMAIN lines : r[i] = lines[i]
    BY <1>1, <1>2, RefreshedUtterance
  <2>2. r \in Seq(Utterance)
    BY <1>1, <1>3, FileTypes
  <2>3. phase' = "done" /\ lines' = r
    BY <1>6 DEF Refresh
  <2> HIDE DEF r
  <2>4. r = lines
    BY <1>1, <2>1, <2>2
  <2>5. QED
    BY <2>3, <2>4
<1>7. QED
  BY <1>4, <1>5, <1>6

\* Once a run refreshed a file the stage had written, the next run takes the
\* fast path again and leaves every utterance as it is.
THEOREM RefreshHasSettled == Spec => RefreshSettles
<1>1. IInv /\ Settled /\ [Next]_vars
        => [phase = "start" /\ own /\ route = "refreshed" /\ phase' # "start"
              => phase' = "done" /\ lines' = lines]_vars
  BY RefreshChangesNothing
<1>2. QED
  BY Invariance, SettledHolds, <1>1, PTL DEF Spec, RefreshSettles

(***************************************************************************)
(* Trusted times are written back.                                         *)
(***************************************************************************)

\* A clean tier has one word for every word of the utterance, none too short.
LEMMA CleanTimes ==
  ASSUME NEW u \in Utterance, CleanWor(u)
  PROVE  /\ u.wor \in Seq(WorWord) /\ u.words \in Seq(Word)
         /\ Len(u.wor) = Len(u.words)
         /\ \A j \in DOMAIN u.wor :
              /\ u.wor[j].word = u.words[j]
              /\ u.wor[j].span \in Span /\ Usable(u.wor[j].span)
              /\ ~ TooShort(u.wor[j].span)
              /\ u.wor[j] = [word |-> u.words[j], span |-> u.wor[j].span]
<1>1. u.wor \in Seq(WorWord) /\ u.words \in Seq(Word)
  BY CleanFacts DEF Utterance
<1>2. [i \in DOMAIN u.wor |-> u.wor[i].word] = u.words
  BY DEF CleanWor
<1>3. DOMAIN u.wor = DOMAIN u.words
  BY <1>2
<1>4. Len(u.wor) = Len(u.words)
  BY <1>1, <1>3
<1>5. ASSUME NEW j \in DOMAIN u.wor
      PROVE  /\ u.wor[j].word = u.words[j]
             /\ u.wor[j].span \in Span /\ Usable(u.wor[j].span)
             /\ ~ TooShort(u.wor[j].span)
             /\ u.wor[j] = [word |-> u.words[j], span |-> u.wor[j].span]
  <2>1. u.wor[j].word = u.words[j]
    BY <1>2
  <2>2. u.wor[j].span \in Span /\ Usable(u.wor[j].span)
    BY CleanFacts
  <2>3. Duration(u.wor[j].span) >= MinWord
    BY DEF CleanWor
  <2>4. ~ TooShort(u.wor[j].span)
    BY <2>2, <2>3, DataAssumption DEF TooShort, Duration, Span
  <2>5. u.wor[j] \in WorWord
    BY <1>1
  <2>6. u.wor[j] = [word |-> u.words[j], span |-> u.wor[j].span]
    BY <2>1, <2>5 DEF WorWord
  <2>7. QED
    BY <2>1, <2>2, <2>4, <2>6
<1>6. QED
  BY <1>1, <1>4, <1>5

\* A single usable token is its own cover.
LEMMA CoverOfOne ==
  ASSUME NEW s \in Segment, NEW k \in DOMAIN s, Usable(s[k])
  PROVE  Cover(SubSeq(s, k, k)) = s[k]
<1> DEFINE t == SubSeq(s, k, k)
<1>1. k \in 1..Len(s) /\ s[k] \in Span
  BY DEF Segment
<1>2. t \in Segment /\ DOMAIN t = {1} /\ t[1] = s[k]
  <2>1. s \in Seq(Span)
    BY DEF Segment
  <2>2. t \in Seq(Span) /\ Len(t) = 1 /\ t[1] = s[k]
    BY <1>1, <2>1
  <2>3. DOMAIN t = 1..1
    BY <2>2
  <2>4. QED
    BY <2>2, <2>3 DEF Segment
<1> HIDE DEF t
<1>3. /\ Cover(t) \in Span \cup {None} /\ Cover(t) # None
      /\ Cover(t).start = s[k].start /\ Cover(t).end = s[k].end
  BY <1>2, CoverFacts
<1>4. Cover(t) = s[k]
  BY <1>1, <1>3 DEF Span
<1>5. QED
  BY <1>4 DEF t

\* What the repairs leave of the words and the tier of each utterance.
LEMMA RepairKeepsTier ==
  ASSUME IInv, Order \/ Clamp
  PROVE  /\ Len(lines') = Len(lines) /\ DOMAIN lines' = DOMAIN lines
         /\ \A i \in DOMAIN lines :
              lines'[i].words = lines[i].words /\ lines'[i].wor \in {lines[i].wor, None}
<1>1. lines \in Seq(Utterance) /\ \A i \in DOMAIN lines : lines[i] \in Utterance
  BY DEF IInv, TypeOK
<1>2. at \in DOMAIN lines
  BY <1>1 DEF Order, Clamp, IInv, TypeOK
<1>3. \/ lines' = lines
      \/ lines' = Stripped(lines, at)
      \/ \E e \in Nat : lines' = Clamped(lines, at, e) /\ Bulleted(lines, at)
  <2>1. CASE Order
    BY <2>1 DEF Order
  <2>2. CASE Clamp
    BY <2>2, ClampCases
  <2>3. QED
    BY <2>1, <2>2
<1>4. CASE lines' = lines
  BY <1>4
<1>5. CASE lines' = Stripped(lines, at)
  <2> DEFINE v == [lines[at] EXCEPT !.bullet = None, !.wor = None]
  <2>1. v.words = lines[at].words /\ v.wor = None
    BY <1>1, <1>2 DEF Utterance
  <2>2. lines' = [lines EXCEPT ![at] = v] /\ v \in Utterance
    BY <1>1, <1>2, <1>5 DEF Stripped, Utterance
  <2> HIDE DEF v
  <2>3. QED
    BY <1>1, <1>2, <2>1, <2>2
<1>6. CASE \E e \in Nat : lines' = Clamped(lines, at, e) /\ Bulleted(lines, at)
  <2>1. PICK e \in Nat : lines' = Clamped(lines, at, e)
    BY <1>6
  <2> DEFINE b == [lines[at].bullet EXCEPT !.end = e]
             v == [lines[at] EXCEPT !.bullet = b]
  <2>2. lines' = [lines EXCEPT ![at] = v]
    BY <2>1 DEF Clamped
  <2> HIDE DEF b
  <2>3. v.words = lines[at].words /\ v.wor = lines[at].wor
    BY <1>1, <1>2 DEF Utterance
  <2> HIDE DEF v
  <2>4. Len(lines') = Len(lines) /\ DOMAIN lines' = DOMAIN lines
    BY <1>1, <2>2
  <2>5. \A i \in DOMAIN lines : i # at => lines'[i] = lines[i]
    BY <2>2
  <2>6. QED
    BY <1>2, <2>2, <2>3, <2>4, <2>5
<1>7. QED
  BY <1>3, <1>4, <1>5, <1>6

LEMMA ReusedStep ==
  ASSUME IInv, IInv', ReusedFromLoaded, Rebuilt, [Next]_vars
  PROVE  ReusedFromLoaded'
<1>1. CASE PassThrough \/ Refresh \/ NoAudio \/ BackendFails \/ AnswerMiscounts \/ TokensMiscount
  BY <1>1 DEF PassThrough, Refresh, NoAudio, BackendFails, AnswerMiscounts, TokensMiscount,
              ReusedFromLoaded
<1>2. CASE Dispatch
  <2>1. /\ lines \in Seq(Utterance) /\ loaded = lines /\ loaded' = loaded
        /\ lines' = WithoutReview(lines) /\ kept' = ReusedSegments(lines)
        /\ phase' = "dispatched"
    BY <1>2 DEF Dispatch, ReusedFromLoaded, IInv, TypeOK
  <2>2. Len(kept') = Len(lines) /\ Len(lines') = Len(lines) /\ DOMAIN lines' = DOMAIN lines
    BY <2>1, ReusedTypes, FileTypes DEF WithoutReview
  <2>3. ASSUME NEW i \in DOMAIN lines, kept'[i] # None
        PROVE  /\ CleanWor(lines[i])
               /\ kept'[i] = TimesOf(lines[i].wor)
               /\ lines'[i].words = lines[i].words
               /\ lines'[i].wor = lines[i].wor
    <3>1. kept'[i] = IF Trusted(lines, i) THEN TimesOf(lines[i].wor) ELSE None
      BY <2>1 DEF ReusedSegments, TimesOf
    <3>2. Trusted(lines, i)
      BY <2>3, <3>1
    <3>3. lines[i] \in Utterance /\ lines'[i] = [lines[i] EXCEPT !.review = FALSE]
      BY <2>1 DEF WithoutReview
    <3>4. lines'[i].words = lines[i].words /\ lines'[i].wor = lines[i].wor
      BY <3>3 DEF Utterance
    <3>5. QED
      BY <3>1, <3>2, <3>4 DEF Trusted
  <2>4. QED
    BY <2>1, <2>2, <2>3 DEF ReusedFromLoaded
<1>3. CASE AnswerMerges
  <2>1. PICK fresh \in Answers : /\ Len(fresh) = Cardinality(Asked(kept))
                                 /\ aligned' = Merged(kept, fresh)
    BY <1>3 DEF AnswerMerges
  <2>2. /\ phase = "dispatched" /\ route = "injected" /\ phase' = "inject" /\ route' = route
        /\ lines' = lines /\ kept' = kept /\ loaded' = loaded
    BY <1>3 DEF AnswerMerges, IInv, Shape
  <2>3. kept \in Seq(Segment \cup {None}) /\ lines \in Seq(Utterance)
    BY DEF IInv, TypeOK
  <2>4. Len(kept) = Len(lines)
    BY <2>2 DEF ReusedFromLoaded
  <2>5. DOMAIN kept = DOMAIN lines
    BY <2>3, <2>4
  <2>6. \A i \in DOMAIN lines : kept[i] # None => aligned'[i] = kept[i]
    BY <2>1, <2>5 DEF Merged
  <2>7. QED
    BY <2>2, <2>6 DEF ReusedFromLoaded
<1>4. CASE \/ SkipUtterance \/ Collapse \/ CollapseWord \/ CollapseEnds
           \/ RebalanceFromFollowing \/ RebalanceFromPreceding \/ InjectionEnds
           \/ OrderEnds \/ Finish
  <2>1. /\ lines' = lines /\ kept' = kept /\ aligned' = aligned /\ loaded' = loaded
        /\ route' = route
        /\ phase \notin {"start", "dispatched", "failed"}
        /\ phase' \notin {"start", "dispatched", "failed"}
    BY <1>4 DEF SkipUtterance, Collapse, CollapseWord, CollapseEnds, RebalanceFromFollowing,
                RebalanceFromPreceding, InjectionEnds, OrderEnds, Finish
  <2>2. QED
    BY <2>1 DEF ReusedFromLoaded
<1>5. CASE Attach
  <2>1. /\ phase = "preceding" /\ phase' = "inject" /\ kept' = kept /\ aligned' = aligned
        /\ loaded' = loaded /\ route' = route /\ route = "injected"
        /\ lines \in Seq(Utterance)
    BY <1>5 DEF Attach, IInv, Shape, TypeOK
  <2>2. /\ at \in DOMAIN lines /\ DOMAIN lines' = DOMAIN lines
        /\ \A i \in DOMAIN lines : i # at => lines'[i] = lines[i]
        /\ lines'[at].words = lines[at].words
    BY <1>5, AttachFacts
  <2>3. lines'[at].wor = words
    <3> DEFINE bullet == BulletFor(lines[at], words, aligned[at])
               v == [lines[at] EXCEPT !.wor = words, !.bullet = bullet]
    <3>1. lines' = [lines EXCEPT ![at] = v]
      BY <1>5 DEF Attach
    <3>2. lines[at] \in Utterance
      BY <2>1, <2>2
    <3> HIDE DEF bullet
    <3>3. v.wor = words
      BY <3>2 DEF Utterance
    <3> HIDE DEF v
    <3>4. QED
      BY <2>2, <3>1, <3>3
  <2>4. kept[at] # None => lines'[at].wor = loaded[at].wor
    BY <2>1, <2>3 DEF Rebuilt
  <2>5. Len(lines') = Len(lines)
    <3>1. lines' \in Seq(Utterance)
      BY DEF IInv, TypeOK
    <3>2. QED
      BY <2>1, <2>2, <3>1
  <2>6. \A i \in DOMAIN lines : kept[i] # None =>
          /\ CleanWor(loaded[i])
          /\ kept[i] = TimesOf(loaded[i].wor)
          /\ lines[i].words = loaded[i].words
          /\ lines[i].wor \in {loaded[i].wor, None}
          /\ aligned[i] = kept[i]
    BY <2>1 DEF ReusedFromLoaded
  <2>7. \A i \in DOMAIN lines' : kept[i] # None =>
          /\ CleanWor(loaded[i])
          /\ kept[i] = TimesOf(loaded[i].wor)
          /\ lines'[i].words = loaded[i].words
          /\ lines'[i].wor \in {loaded[i].wor, None}
          /\ aligned[i] = kept[i]
    BY <2>2, <2>4, <2>6
  <2>8. Len(kept) = Len(lines) /\ Len(loaded) = Len(lines)
    BY <2>1 DEF ReusedFromLoaded
  <2>9. QED
    BY <2>1, <2>5, <2>7, <2>8 DEF ReusedFromLoaded
<1>6. CASE Order \/ Clamp
  <2>1. /\ phase \in {"order", "clamp"} /\ phase' = phase /\ kept' = kept
        /\ aligned' = aligned /\ loaded' = loaded /\ route' = route /\ route = "injected"
    BY <1>6 DEF Order, Clamp, IInv, Shape
  <2>2. /\ Len(lines') = Len(lines) /\ DOMAIN lines' = DOMAIN lines
        /\ \A i \in DOMAIN lines :
             lines'[i].words = lines[i].words /\ lines'[i].wor \in {lines[i].wor, None}
    BY <1>6, RepairKeepsTier
  <2>3. /\ Len(kept) = Len(lines) /\ Len(loaded) = Len(lines)
        /\ \A i \in DOMAIN lines : kept[i] # None =>
             /\ CleanWor(loaded[i])
             /\ kept[i] = TimesOf(loaded[i].wor)
             /\ lines[i].words = loaded[i].words
             /\ lines[i].wor \in {loaded[i].wor, None}
             /\ aligned[i] = kept[i]
    BY <2>1 DEF ReusedFromLoaded
  <2>4. QED
    BY <2>1, <2>2, <2>3 DEF ReusedFromLoaded
<1>7. CASE Rerun
  BY <1>7 DEF Rerun, ReusedFromLoaded
<1>8. CASE UNCHANGED vars
  BY <1>8 DEF vars, ReusedFromLoaded
<1>9. QED
  BY <1>1, <1>2, <1>3, <1>4, <1>5, <1>6, <1>7, <1>8 DEF Next

\* The tier of a reused utterance while it is collapsed and rebalanced.
LEMMA AtReused ==
  ASSUME IInv, ReusedFromLoaded, phase \in {"collapse", "following", "preceding"},
         kept[at] # None
  PROVE  /\ at \in DOMAIN lines /\ loaded[at] \in Utterance /\ CleanWor(loaded[at])
         /\ lines[at].words = loaded[at].words
         /\ aligned[at] = TimesOf(loaded[at].wor)
         /\ loaded[at].wor \in Seq(WorWord)
         /\ Len(loaded[at].wor) = Len(lines[at].words)
         /\ Len(aligned[at]) = Len(lines[at].words)
<1>1. /\ at \in Nat \ {0} /\ at <= Len(lines) /\ route = "injected"
      /\ lines \in Seq(Utterance) /\ loaded \in Seq(Utterance)
  BY DEF IInv, TypeOK, Shape
<1>2. at \in DOMAIN lines
  BY <1>1
<1>3. /\ Len(loaded) = Len(lines) /\ CleanWor(loaded[at])
      /\ kept[at] = TimesOf(loaded[at].wor)
      /\ lines[at].words = loaded[at].words /\ aligned[at] = kept[at]
  BY <1>1, <1>2 DEF ReusedFromLoaded
<1>4. loaded[at] \in Utterance
  BY <1>1, <1>2, <1>3
<1>5. loaded[at].wor \in Seq(WorWord) /\ Len(loaded[at].wor) = Len(lines[at].words)
  BY <1>3, <1>4, CleanTimes
<1>6. Len(TimesOf(loaded[at].wor)) = Len(loaded[at].wor)
  <2>1. DOMAIN TimesOf(loaded[at].wor) = 1..Len(loaded[at].wor) /\ Len(loaded[at].wor) \in Nat
    BY <1>5 DEF TimesOf
  <2>2. QED
    BY <2>1
<1>7. QED
  BY <1>2, <1>3, <1>4, <1>5, <1>6

LEMMA RebuiltStep ==
  ASSUME EveryWordAsked, IInv, IInv', ReusedFromLoaded, Rebuilt, [Next]_vars
  PROVE  Rebuilt'
<1>1. CASE \/ PassThrough \/ Refresh \/ NoAudio \/ Dispatch \/ BackendFails \/ AnswerMiscounts
           \/ AnswerMerges \/ SkipUtterance \/ TokensMiscount \/ Attach \/ InjectionEnds
           \/ Order \/ OrderEnds \/ Clamp \/ Finish \/ Rerun
  <2>1. phase' \notin {"collapse", "following", "preceding"}
    BY <1>1 DEF PassThrough, Refresh, NoAudio, Dispatch, BackendFails, AnswerMiscounts,
                AnswerMerges, SkipUtterance, TokensMiscount, Attach, InjectionEnds,
                Order, OrderEnds, Clamp, Finish, Rerun
  <2>2. QED
    BY <2>1 DEF Rebuilt
<1>2. CASE Collapse
  <2>1. /\ phase' = "collapse" /\ words' = <<>> /\ next' = 1 /\ cursor' = 0
        /\ lines' = lines /\ at' = at
    BY <1>2 DEF Collapse
  <2>2. /\ lines \in Seq(Utterance) /\ at \in Nat \ {0} /\ at <= Len(lines)
    BY <1>2 DEF Collapse, IInv, TypeOK
  <2>3. lines[at] \in Utterance
    BY <2>2
  <2>4. Len(lines[at].words) \in Nat
    BY <2>3 DEF Utterance
  <2>5. Len(words') = 0 /\ DOMAIN words' = {}
    BY <2>1
  <2>6. QED
    BY <2>1, <2>4, <2>5 DEF Rebuilt
<1>3. CASE CollapseWord
  <2> DEFINE wor == loaded[at].wor
             word == lines[at].words[next]
             new == Collapsed(word, aligned[at], cursor)
  <2>1. /\ phase = "collapse" /\ phase' = "collapse" /\ at' = at /\ kept' = kept
        /\ lines' = lines /\ loaded' = loaded /\ next' = next + 1
        /\ next <= Len(lines[at].words)
        /\ words' = Append(words, new) /\ cursor' = cursor + Parts[word]
    BY <1>3 DEF CollapseWord
  <2> SUFFICES ASSUME kept[at] # None
               PROVE  /\ next' <= Len(lines[at].words) + 1
                      /\ Len(words') = next' - 1 /\ cursor' >= next' - 1
                      /\ cursor' = next' - 1 => \A j \in DOMAIN words' : words'[j] = wor[j]
    BY <2>1 DEF Rebuilt
  <2>2. next \in Nat \ {0} /\ cursor \in Nat /\ words \in Seq(WorWord)
    BY DEF IInv, TypeOK
  <2>3. /\ loaded[at] \in Utterance /\ CleanWor(loaded[at])
        /\ lines[at].words = loaded[at].words
        /\ aligned[at] = TimesOf(wor) /\ wor \in Seq(WorWord)
        /\ Len(wor) = Len(lines[at].words) /\ Len(aligned[at]) = Len(wor)
    BY <2>1, AtReused
  <2>4. next \in DOMAIN wor
    BY <2>1, <2>2, <2>3
  <2>5. /\ wor[next].span \in Span /\ Usable(wor[next].span)
        /\ wor[next] = [word |-> word, span |-> wor[next].span]
    BY <2>3, <2>4, CleanTimes
  <2>6. word \in Word
    <3>1. lines[at].words \in Seq(Word)
      BY <2>3, CleanTimes
    <3>2. next \in DOMAIN lines[at].words
      BY <2>1, <2>2, <3>1
    <3>3. QED
      BY <3>1, <3>2
  <2>7. Parts[word] \in Nat /\ Parts[word] >= 1
    BY <2>6, DataAssumption DEF EveryWordAsked
  <2>8. /\ Len(words) = next - 1 /\ cursor >= next - 1
        /\ cursor = next - 1 => \A j \in DOMAIN words : words[j] = wor[j]
    BY <2>1 DEF Rebuilt
  <2>9. aligned[at] \in Segment /\ next \in DOMAIN aligned[at]
        /\ aligned[at][next] = wor[next].span
    <3>1. aligned[at] \in Seq(Span)
      <4>1. \A j \in DOMAIN wor : wor[j].span \in Span
        BY <2>3, CleanTimes
      <4>2. QED
        BY <2>3, <4>1 DEF TimesOf
    <3>2. QED
      BY <2>3, <2>4, <3>1 DEF TimesOf, Segment
  <2>10. ASSUME cursor' = next' - 1
         PROVE  /\ new = wor[next]
                /\ \A j \in DOMAIN words : words[j] = wor[j]
    <3> DEFINE asked == Parts[word]
    <3>1. cursor = next - 1 /\ asked = 1
      <4>1. asked \in Nat /\ asked >= 1 /\ cursor + asked = (next + 1) - 1
        BY <2>1, <2>7, <2>10
      <4> HIDE DEF asked
      <4>2. QED
        BY <2>2, <2>8, <4>1
    <3>2. cursor + 1 = next /\ cursor + Parts[word] = next
      BY <2>2, <3>1
    <3>3. new = [word |-> word, span |-> Cover(SubSeq(aligned[at], next, next))]
      BY <3>2 DEF Collapsed
    <3>4. Cover(SubSeq(aligned[at], next, next)) = wor[next].span
      BY <2>5, <2>9, CoverOfOne
    <3>5. QED
      BY <2>5, <2>8, <3>1, <3>3, <3>4
  <2> HIDE DEF new, wor, word
  <2>11. new \in WorWord
    <3>1. words' \in Seq(WorWord) /\ words' = Append(words, new)
      BY <2>1 DEF IInv, TypeOK
    <3>2. Len(words) \in Nat /\ words'[Len(words) + 1] = new /\ Len(words') = Len(words) + 1
      BY <2>2, <3>1
    <3>3. Len(words) + 1 \in 1..Len(words')
      BY <3>2
    <3>4. QED
      BY <3>1, <3>2, <3>3
  <2>12. /\ Len(words') = next
         /\ \A j \in DOMAIN words' : j \in DOMAIN words \/ j = next
         /\ \A j \in DOMAIN words : words'[j] = words[j]
         /\ words'[next] = new
    BY <2>1, <2>2, <2>8, <2>11
  <2>13. QED
    BY <2>1, <2>2, <2>3, <2>7, <2>8, <2>10, <2>12
<1>4. CASE CollapseEnds
  <2> DEFINE wor == loaded[at].wor
  <2>1. /\ phase = "collapse" /\ phase' = "following" /\ at' = at /\ kept' = kept
        /\ loaded' = loaded /\ words' = words
        /\ next > Len(lines[at].words) /\ cursor = Len(aligned[at])
    BY <1>4 DEF CollapseEnds
  <2> SUFFICES ASSUME kept[at] # None PROVE words = wor
    BY <2>1 DEF Rebuilt
  <2>2. /\ wor \in Seq(WorWord) /\ Len(wor) = Len(lines[at].words)
        /\ Len(aligned[at]) = Len(wor)
    BY <2>1, AtReused
  <2>3. next \in Nat /\ words \in Seq(WorWord)
    BY DEF IInv, TypeOK
  <2>4. /\ next <= Len(lines[at].words) + 1 /\ Len(words) = next - 1
        /\ cursor = next - 1 => \A j \in DOMAIN words : words[j] = wor[j]
    BY <2>1 DEF Rebuilt
  <2> HIDE DEF wor
  <2>5. cursor = next - 1 /\ Len(words) = Len(wor)
    BY <2>1, <2>2, <2>3, <2>4
  <2>6. QED
    BY <2>2, <2>3, <2>4, <2>5
<1>5. CASE RebalanceFromFollowing \/ RebalanceFromPreceding
  <2>1. /\ phase \in {"following", "preceding"} /\ phase' \in {"following", "preceding"}
        /\ at' = at /\ kept' = kept /\ loaded' = loaded
    BY <1>5 DEF RebalanceFromFollowing, RebalanceFromPreceding
  <2> SUFFICES ASSUME kept[at] # None PROVE words' = words
    BY <2>1 DEF Rebuilt
  <2>2. words = loaded[at].wor /\ loaded[at] \in Utterance /\ CleanWor(loaded[at])
    BY <2>1, AtReused DEF Rebuilt
  <2>3. \A j \in DOMAIN words : ~ TooShort(words[j].span)
    BY <2>2, CleanTimes
  <2>4. words \in Seq(WorWord) /\ next \in Nat \ {0}
    BY DEF IInv, TypeOK
  <2>5. CASE RebalanceFromFollowing
    <3>1. next < Len(words) => next \in DOMAIN words
      BY <2>4
    <3>2. next < Len(words) => FromFollowing(words, next) = words
      BY <2>3, <3>1 DEF FromFollowing
    <3>3. QED
      BY <2>5, <3>2 DEF RebalanceFromFollowing
  <2>6. CASE RebalanceFromPreceding
    <3>1. next <= Len(words)
      BY <2>6 DEF RebalanceFromPreceding
    <3>2. next \in DOMAIN words
      BY <2>4, <3>1
    <3>3. FromPreceding(words, next) = words
      BY <2>3, <3>2 DEF FromPreceding
    <3>4. QED
      BY <2>6, <3>3 DEF RebalanceFromPreceding
  <2>7. QED
    BY <1>5, <2>5, <2>6
<1>6. CASE UNCHANGED vars
  BY <1>6 DEF vars, Rebuilt
<1>7. QED
  BY <1>1, <1>2, <1>3, <1>4, <1>5, <1>6 DEF Next

\* A run that reuses part of a file never alters the word times it trusted: each
\* reused %wor tier is the one that was read, or was removed by the repairs.  It
\* needs that the backend is asked for at least one token a word: a word asked
\* for with none could hide a compound filler that was asked for with two.
THEOREM ReusedTimesHold ==
  ASSUME EveryWordAsked
  PROVE  Spec => []ReusedTimesKept
<1>1. Init => ReusedFromLoaded /\ Rebuilt
  BY DEF Init, ReusedFromLoaded, Rebuilt
<1>2. IInv /\ IInv' /\ ReusedFromLoaded /\ Rebuilt /\ [Next]_vars
        => ReusedFromLoaded' /\ Rebuilt'
  BY ReusedStep, RebuiltStep
<1>3. IInv /\ ReusedFromLoaded => ReusedTimesKept
  BY DEF IInv, ReusedFromLoaded, ReusedTimesKept
<1>4. QED
  BY Invariance, <1>1, <1>2, <1>3, PTL DEF Spec
===============================================================================
