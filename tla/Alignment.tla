------------------------------- MODULE Alignment -------------------------------
(***************************************************************************)
(* The word aligner the tasks share                                        *)
(* (src/crates/batchalign/batchalign-core/src/alignment/mod.rs).           *)
(*                                                                         *)
(* An item of an alignment pairs payload position p with reference         *)
(* position r; a 0 stands for a word of one side without a partner.        *)
(***************************************************************************)
EXTENDS Integers, SequencesExt, FiniteSetsExt

CONSTANTS
  Alike,        \* matches: the pairs of words the match mode takes as equal
  SmallCutoff   \* SMALL_CUTOFF: cells up to which the whole table is built

Matches(p, r) == <<p, r>> \in Alike

CostGap == 1
CostSub == 2
SubCost(p, r) == IF Matches(p, r) THEN 0 ELSE CostSub

Pair(p, r) == [p |-> p, r |-> r]
-------------------------------------------------------------------------------
\* row_costs: the cost of the whole reference against each prefix of payload;
\* row_costs_rev is the same of both sides reversed.
RowCosts(reference, payload) ==
  LET D[i \in 0..Len(reference), k \in 0..Len(payload)] ==
        IF i = 0 \/ k = 0 THEN (i + k) * CostGap
        ELSE Min({D[i - 1, k - 1] + SubCost(payload[k], reference[i]),
                  D[i - 1, k] + CostGap, D[i, k - 1] + CostGap})
  IN [k \in 0..Len(payload) |-> D[Len(reference), k]]

\* align_small: the diagonal on a tie, then a reference word left alone; a
\* substitution leaves the two words alone, the reference word first.
AlignSmall(payload, reference) ==
  LET D[i \in 0..Len(reference), j \in 0..Len(payload)] ==
        IF i = 0 \/ j = 0 THEN (i + j) * CostGap
        ELSE Min({D[i - 1, j - 1] + SubCost(payload[j], reference[i]),
                  D[i - 1, j] + CostGap, D[i, j - 1] + CostGap})
      T[i \in 0..Len(reference), j \in 0..Len(payload)] ==
        IF i = 0 /\ j = 0 THEN <<>>
        ELSE IF /\ i > 0 /\ j > 0
                /\ D[i, j] = D[i - 1, j - 1] + SubCost(payload[j], reference[i])
        THEN T[i - 1, j - 1] \o (IF Matches(payload[j], reference[i]) THEN <<Pair(j, i)>>
                                 ELSE <<Pair(0, i), Pair(j, 0)>>)
        ELSE IF i > 0 /\ (j = 0 \/ D[i, j] = D[i - 1, j] + CostGap)
        THEN Append(T[i - 1, j], Pair(0, i))
        ELSE Append(T[i, j - 1], Pair(j, 0))
  IN T[Len(reference), Len(payload)]

Shifted(items, po, ro) ==
  [k \in DOMAIN items |-> Pair(IF items[k].p = 0 THEN 0 ELSE items[k].p + po,
                               IF items[k].r = 0 THEN 0 ELSE items[k].r + ro)]

\* A mutant of SplitPoint: the last half of the payload scored unreversed.
SplitUnreversed(payload, reference, mid) ==
  LET left == RowCosts(SubSeq(reference, 1, mid), payload)
      right == RowCosts(SubSeq(reference, mid + 1, Len(reference)), payload)
      cost(k) == left[k] + right[Len(payload) - k]
  IN CHOOSE k \in 0..Len(payload) : \A l \in 0..Len(payload) :
       cost(k) < cost(l) \/ (cost(k) = cost(l) /\ k <= l)

\* Where hirschberg cuts the payload: the first of the cheapest places.
SplitPoint(payload, reference, mid) ==
  LET left == RowCosts(SubSeq(reference, 1, mid), payload)
      right == RowCosts(Reverse(SubSeq(reference, mid + 1, Len(reference))), Reverse(payload))
      cost(k) == left[k] + right[Len(payload) - k]
  IN CHOOSE k \in 0..Len(payload) : \A l \in 0..Len(payload) :
       cost(k) < cost(l) \/ (cost(k) = cost(l) /\ k <= l)

\* hirschberg on the slices payload[pa+1..pb] and reference[ra+1..rb].
Hirschberg(payload, reference) ==
  LET H[pa \in 0..Len(payload), pb \in 0..Len(payload),
        ra \in 0..Len(reference), rb \in 0..Len(reference)] ==
        LET pay == SubSeq(payload, pa + 1, pb)
            ref == SubSeq(reference, ra + 1, rb)
            mid == Len(ref) \div 2
            cut == SplitPoint(pay, ref, mid)
        IN IF \/ Len(ref) <= 1 \/ Len(pay) <= 1
              \/ Len(ref) * Len(pay) <= SmallCutoff
           THEN Shifted(AlignSmall(pay, ref), pa, ra)
           ELSE H[pa, pa + cut, ra, ra + mid] \o H[pa + cut, pb, ra + mid, rb]
  IN H[0, Len(payload), 0, Len(reference)]

\* The words both sides begin with, counted.
CommonPrefix(payload, reference) ==
  Max({n \in 0..Min({Len(payload), Len(reference)}) :
         \A i \in 1..n : Matches(payload[i], reference[i])})

\* align_generic: what both begin and end with is matched, the rest aligned.
Align(payload, reference) ==
  LET pre == CommonPrefix(payload, reference)
      pay == SubSeq(payload, pre + 1, Len(payload))
      ref == SubSeq(reference, pre + 1, Len(reference))
      suf == CommonPrefix(Reverse(pay), Reverse(ref))
      middle == Hirschberg(SubSeq(pay, 1, Len(pay) - suf), SubSeq(ref, 1, Len(ref) - suf))
  IN [i \in 1..pre |-> Pair(i, i)]
       \o Shifted(middle, pre, pre)
       \o [i \in 1..suf |-> Pair(Len(payload) - suf + i, Len(reference) - suf + i)]
===============================================================================
