----------------------------- MODULE Segmentation -----------------------------
(***************************************************************************)
(* The split of an utterance                                               *)
(* (src/crates/batchalign/batchalign-core/src/segmentation/mod.rs): every  *)
(* word that %mor counts is assigned a group, and the utterance becomes    *)
(* one utterance for each group that gets some content.                    *)
(***************************************************************************)
EXTENDS Transcript

\* build_word_to_content_map.
WordToContent(items) ==
  FlattenSeq([i \in DOMAIN items |-> [k \in DOMAIN MorOf(items[i]) |-> i]])

\* The group of an item by its own words: that of the first of them.
OwnGroup(items, assignments, i) ==
  LET ks == {k \in DOMAIN WordToContent(items) \cap DOMAIN assignments :
               WordToContent(items)[k] = i}
  IN IF ks = {} THEN None ELSE assignments[Min(ks)]

\* A mutant of Settled: a retrace is filled in like any other item.
SettledByWords(items, assignments, i) == OwnGroup(items, assignments, i)

\* A retrace belongs with the words that correct it, the next ones.
Settled(items, assignments, i) ==
  LET own(j) == OwnGroup(items, assignments, j)
      next == {j \in DOMAIN items : j > i /\ own(j) # None}
  IN IF own(i) = None /\ items[i].kind = "retrace" /\ next # {}
     THEN own(Min(next)) ELSE own(i)

\* Of a set of places the last up to here, or else the first.
Near(S, i) == IF \E j \in S : j <= i THEN Max({j \in S : j <= i}) ELSE Min(S)

\* The other items join the settled item before them, or else after them.
Joined(settled) ==
  LET S == {j \in DOMAIN settled : settled[j] # None}
  IN [i \in DOMAIN settled |-> IF S = {} THEN 0 ELSE settled[Near(S, i)]]
GroupOf(items, assignments) == Joined([i \in DOMAIN items |-> Settled(items, assignments, i)])

\* partition_wor_tier with wor_eligible_word_groups: the part of a %wor tier
\* each group gets, None when the tier no longer matches the main line.  A
\* separator goes with the word before it.
PartitionWor(utt, group) ==
  LET wor == Content(utt, "wor")
      groups == FlattenSeq([i \in DOMAIN utt.items |->
                              [k \in DOMAIN WorOf(utt.items[i]) |-> group[i]]])
      wordsTo(i) == Cardinality({j \in 1..i : wor[j].text # None})
      at(i) == IF wordsTo(i) = 0 THEN 0 ELSE groups[wordsTo(i)]
      Part(g) == Picked(wor, {i \in DOMAIN wor : at(i) = g})
  IN IF ~Has(utt, "wor") \/ Len(WorTierWords(utt)) # Len(groups) THEN None
     ELSE [g \in Range(group) |-> Part(g)]

\* policy_for_tier: the tiers that follow words do not survive a split, but
\* %wor, which is partitioned; any other goes to the first child.
WordTiers == {"wor", "mor", "gra", "pho", "mod", "sin", "modsyl", "phosyl", "phoaln"}

\* A mutant of AttachedFirst: of the other tiers only the comments are known.
AttachedComments(utt) == Picked(utt.tiers, {i \in DOMAIN utt.tiers : utt.tiers[i].label = "com"})

AttachedFirst(utt) == Picked(utt.tiers, {i \in DOMAIN utt.tiers : utt.tiers[i].label \notin WordTiers})

\* Where the items of a group are, from the first that is no separator on.
WithoutLeading(items, group, g) ==
  {i \in DOMAIN group : group[i] = g /\ \E j \in 1..i : group[j] = g /\ items[j].kind # "separator"}

\* The children: one for each group with content, wor the parts of the %wor
\* tier.  Speaker and language go to every child, linkers and the other tiers to
\* the first, terminator, postcodes and bullet to the last.
Children(utt, content, wor) ==
  LET G == {g \in DOMAIN content : content[g] # <<>>}
      last == Cardinality(G)
      worOf(g) == IF wor = None THEN <<>>
                  ELSE IF wor[g] = <<>> THEN <<>> ELSE <<Tier("wor", wor[g])>>
      Child(k) ==
        [speaker |-> utt.speaker, lang |-> utt.lang, items |-> content[Nth(G, k)],
         linkers |-> IF k = 1 THEN utt.linkers ELSE <<>>,
         postcodes |-> IF k = last THEN utt.postcodes ELSE <<>>,
         term |-> IF k = last /\ utt.term # None THEN utt.term ELSE ".",
         bullet |-> IF k = last THEN utt.bullet ELSE None,
         tiers |-> worOf(Nth(G, k)) \o (IF k = 1 THEN AttachedFirst(utt) ELSE <<>>)]
  IN IF G = {} THEN <<utt>> ELSE [k \in 1..last |-> Child(k)]

Grouped(utt, group) ==
  Children(utt, [g \in Range(group) |-> Picked(utt.items, WithoutLeading(utt.items, group, g))],
           PartitionWor(utt, group))

\* split_utterance.
Split(utt, assignments) ==
  IF assignments = <<>> \/ WordToContent(utt.items) = <<>> \/ Cardinality(Range(assignments)) = 1
  THEN <<utt>>
  ELSE Grouped(utt, GroupOf(utt.items, assignments))

\* apply_utseg_results: map gives some utterances the groups of their words.
ApplySplits(file, map) ==
  [file EXCEPT !.utts = FlattenSeq([u \in DOMAIN @ |->
     IF u \in DOMAIN map THEN Split(@[u], map[u]) ELSE <<@[u]>>])]
-------------------------------------------------------------------------------
(***************************************************************************)
(* What may be sent to a segmenter, and what its answer is worth.          *)
(***************************************************************************)

\* collect_utseg_payloads: an utterance of no or one word is not applicable.
Payloads(file) ==
  {u \in DOMAIN file.utts : Len(MorWords(file.utts[u])) > 1}

NotApplicable(file) ==
  [u \in DOMAIN file.utts \ Payloads(file) |->
     IF MorWords(file.utts[u]) = <<>> THEN "empty" ELSE "single_word"]

\* validate_utseg_response.
Validated(utt, assignments) ==
  IF Len(assignments) # Len(MorWords(utt)) THEN "misalignment_bug" ELSE "aligned"

\* to_decision_record: a person reviews a misalignment, nothing else.
DecisionOf(outcome) ==
  IF outcome = "aligned" THEN None
  ELSE [reason |-> outcome, needsReview |-> outcome = "misalignment_bug"]
===============================================================================
