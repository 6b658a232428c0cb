-------------------------------- MODULE Numbers --------------------------------
(***************************************************************************)
(* Numbers as words                                                        *)
(* (src/crates/batchalign/batchalign-core/src/asr/num2chinese.rs and       *)
(* asr/num2text/).                                                         *)
(*                                                                         *)
(* A numeral is a sequence of signs.  In Chinese a sign is a digit, a unit *)
(* inside a group of four digits (as a power of ten) or the unit of a      *)
(* group (its place); elsewhere it is the entry of a table it reads as.    *)
(***************************************************************************)
EXTENDS Integers, SequencesExt, FiniteSetsExt

Digit(d) == [sign |-> "digit", of |-> d]
Unit(p) == [sign |-> "unit", of |-> p]          \* c_unit1
GroupUnit(g) == [sign |-> "group", of |-> g]    \* c_unit2
Zero == Digit(0)
-------------------------------------------------------------------------------
\* The digits in groups of four from the right, so the first may be shorter.
GroupsOf(digits) ==
  LET head == Len(digits) % 4
      tail == Len(digits) \div 4
  IN (IF head > 0 THEN <<SubSeq(digits, 1, head)>> ELSE <<>>)
       \o [k \in 1..tail |-> SubSeq(digits, head + 4 * k - 3, head + 4 * k)]

\* convert_group: a run of zeros is one zero, before a digit and after another.
ConvertGroup(digits, preceded) ==
  LET step(acc, i) ==
        LET place == Len(digits) - i
            d == digits[i]
            started == acc.signs # <<>> \/ preceded
            sign == IF place = 0 THEN <<Digit(d)>>
                    ELSE IF place = 1 /\ d = 1 /\ ~started THEN <<Unit(1)>>
                    ELSE <<Digit(d), Unit(place)>>
        IN IF d = 0 THEN [acc EXCEPT !.zeros = @ \/ started]
           ELSE [zeros |-> FALSE,
                 signs |-> acc.signs \o (IF acc.zeros THEN <<Zero>> ELSE <<>>) \o sign]
  IN FoldLeft(step, [zeros |-> FALSE, signs |-> <<>>], [i \in DOMAIN digits |-> i]).signs

\* A mutant of PlaceOf: the unit of a group taken from the left.
PlaceFromLeft(groups, g) == g - 1

\* The unit of a group: none for the last.
PlaceOf(groups, g) == Len(groups) - g

\* num2chinese.
Num2Chinese(digits) ==
  LET groups == GroupsOf(digits)
      empty(g) == \A i \in DOMAIN groups[g] : groups[g][i] = 0
      step(acc, g) ==
        IF empty(g) THEN [acc EXCEPT !.zero = @ \/ acc.signs # <<>>]
        ELSE LET before == acc.signs \o (IF acc.zero THEN <<Zero>> ELSE <<>>)
             IN [zero |-> FALSE,
                 signs |-> before \o ConvertGroup(groups[g], before # <<>>)
                   \o (IF PlaceOf(groups, g) > 0 THEN <<GroupUnit(PlaceOf(groups, g))>> ELSE <<>>)]
  IN IF digits = <<0>> THEN <<Zero>>
     ELSE FoldLeft(step, [zero |-> FALSE, signs |-> <<>>], [g \in DOMAIN groups |-> g]).signs
-------------------------------------------------------------------------------

\* What decompose_with_table has left of n after an entry.
Spent(n, key) == IF key >= 100 THEN n % key ELSE n - key

\* decompose_with_table, greedily from the largest entry: a sequence of
\* [times, key], times a decomposition of its own for a multiple of a large
\* entry, or Unsayable when the entries do not make up n.
Unsayable == <<[times |-> <<>>, key |-> -1]>>

Decomposed(n, table) ==
  LET big == table \ {0}
      keys == [k \in 1..Cardinality(big) |->
                 CHOOSE x \in big : Cardinality({y \in big : y > x}) = k - 1]
      D[m \in 0..n] ==
        LET step(acc, key) ==
              LET times == acc.left \div key
                  mult == IF key >= 100 /\ times > 1 THEN D[times] ELSE <<>>
              IN IF key > acc.left \/ acc.left = 0 \/ acc.parts = Unsayable THEN acc
                 ELSE IF mult = Unsayable THEN [acc EXCEPT !.parts = Unsayable]
                 ELSE [left |-> Spent(acc.left, key),
                       parts |-> Append(acc.parts, [times |-> mult, key |-> key])]
            end == FoldLeft(step, [left |-> m, parts |-> <<>>], keys)
        IN IF end.left > 0 \/ end.parts = <<>> THEN Unsayable ELSE end.parts
  IN IF n = 0 /\ 0 \in table THEN <<[times |-> <<>>, key |-> 0]>> ELSE D[n]

\* expand_ordinal_eng below ten thousand, as the cardinals of its head and the
\* ordinal it ends in; a larger number keeps its digits.
OrdinalEng(n) ==
  LET O[m \in 0..n] ==
        IF m < 20 \/ (m % 10 = 0 /\ m < 100) THEN <<m>>
        ELSE IF m < 100 THEN <<m - (m % 10), m % 10>>
        ELSE LET unit == IF m < 1000 THEN 100 ELSE 1000
             IN <<m - (m % unit)>> \o (IF m % unit = 0 THEN <<>> ELSE O[m % unit])
  IN IF n >= 10000 THEN <<n>> ELSE O[n]

\* expand_year_eng: by centuries, but two thousand and its first years whole.
YearEng(n) ==
  LET low == n % 100
  IN IF n < 1100 \/ n > 2999 THEN <<n>>
     ELSE IF n \div 100 = 20 /\ low < 10 THEN (IF low = 0 THEN <<2000>> ELSE <<2000, low>>)
     ELSE IF low = 0 THEN <<(n \div 100) * 100>>
     ELSE <<(n \div 100) * 100, low>>

\* The ordinals of Dutch join a hundred to the ordinal of the rest, those of
\* Portuguese name each digit; both refuse what is not in 1..1000.
OrdinalNld(n) ==
  IF n \notin 1..1000 THEN <<>>
  ELSE IF n \in 100..999 /\ n % 100 # 0 THEN <<n - (n % 100), n % 100>> ELSE <<n>>

OrdinalPor(n) ==
  IF n \notin 1..1000 THEN <<>>
  ELSE IF n = 1000 THEN <<1000>>
  ELSE SelectSeq(<<n - (n % 100), (n % 100) - (n % 10), n % 10>>, LAMBDA p : p > 0)
-------------------------------------------------------------------------------
\* civil_from_unix_days: a year here begins in March, so that its leap day is last.
CivilFromUnixDays(days) ==
  LET z == days + 719468
      era == z \div 146097
      doe == z % 146097
      yoe == (doe - doe \div 1460 + doe \div 36524 - doe \div 146096) \div 365
      doy == doe - (365 * yoe + yoe \div 4 - yoe \div 100)
      mp == (5 * doy + 2) \div 153
      month == IF mp < 10 THEN mp + 3 ELSE mp - 9
      year == yoe + era * 400
  IN <<IF month <= 2 THEN year + 1 ELSE year, month, doy - (153 * mp + 2) \div 5 + 1>>
===============================================================================
