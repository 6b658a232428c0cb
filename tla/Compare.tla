-------------------------------- MODULE Compare --------------------------------
(***************************************************************************)
(* The comparison of a transcript with a gold transcript                   *)
(* (src/crates/batchalign/batchalign-core/src/backends/compare.rs and      *)
(* taskrunners/compare.rs), as operators on transcripts.                   *)
(*                                                                         *)
(* A transcript is a sequence of utterances, an utterance a record of its  *)
(* words, its terminator and its dependent tiers.  A word is a text with   *)
(* the part of speech its %mor tier gives it, "?" when it gives none.      *)
(***************************************************************************)
EXTENDS Integers, SequencesExt, FiniteSetsExt

CONSTANTS
  Conform,      \* Conform[w]: the tokens text w stands for, <<>> for a filler
  SameToken     \* match_fn: the pairs of tokens that count as equal

Same(s, t) == <<s, t>> \in SameToken

Texts(toks) == [i \in DOMAIN toks |-> toks[i].text]
-------------------------------------------------------------------------------
(***************************************************************************)
(* Tokens.                                                                 *)
(***************************************************************************)

\* The conformed tokens of one word share its utterance and part of speech.
TokensOf(word, u) ==
  [k \in DOMAIN Conform[word.text] |->
     [text |-> Conform[word.text][k], utt |-> u, pos |-> word.pos]]

\* extract_words and conform_with_mapping.
Tokens(utts) ==
  FlattenSeq([u \in DOMAIN utts |->
    FlattenSeq([k \in DOMAIN utts[u].words |-> TokensOf(utts[u].words[k], u)])])

InUtt(toks, u) == SelectSeq(toks, LAMBDA t : t.utt = u)
-------------------------------------------------------------------------------
(***************************************************************************)
(* levenshtein_align: a substitution costs as much as a deletion and an    *)
(* insertion, and is written as the two.                                   *)
(***************************************************************************)

\* A mutant of SubstitutionCost: a substitution as cheap as one of its halves.
CheapSubstitution(s, t) == IF Same(s, t) THEN 0 ELSE 1

SubstitutionCost(s, t) == IF Same(s, t) THEN 0 ELSE 2

\* The cheapest way from the first i tokens of main to the first j of gold.
Cost(main, gold) ==
  LET D[i \in 0..Len(main), j \in 0..Len(gold)] ==
        IF i = 0 \/ j = 0 THEN i + j
        ELSE Min({D[i - 1, j - 1] + SubstitutionCost(main[i], gold[j]),
                  D[i, j - 1] + 1, D[i - 1, j] + 1})
  IN [p \in (0..Len(main)) \X (0..Len(gold)) |-> D[p[1], p[2]]]

MatchItem(i, j) == [op |-> "match", i |-> i, j |-> j]
InsertItem(i) == [op |-> "insert", i |-> i, j |-> 0]
DeleteItem(j) == [op |-> "delete", i |-> 0, j |-> j]

\* The traceback prefers the diagonal, then a deletion.
TraceBack(main, gold, D) ==
  LET T[i \in 0..Len(main), j \in 0..Len(gold)] ==
        IF i = 0 /\ j = 0 THEN <<>>
        ELSE IF /\ i > 0 /\ j > 0
                /\ D[i, j] = D[i - 1, j - 1] + SubstitutionCost(main[i], gold[j])
        THEN T[i - 1, j - 1] \o (IF Same(main[i], gold[j]) THEN <<MatchItem(i, j)>>
                                 ELSE <<DeleteItem(j), InsertItem(i)>>)
        ELSE IF j > 0 /\ (i = 0 \/ D[i, j] = D[i, j - 1] + 1)
        THEN Append(T[i, j - 1], DeleteItem(j))
        ELSE Append(T[i - 1, j], InsertItem(i))
  IN T[Len(main), Len(gold)]
Align(main, gold) == TraceBack(main, gold, Cost(main, gold))

Matches(items) == Len(SelectSeq(items, LAMBDA it : it.op = "match"))
-------------------------------------------------------------------------------
(***************************************************************************)
(* Phase 1: which main utterance a gold utterance belongs to.  A window    *)
(* <<s, e>> of the main tokens holds those at s + 1..e.                    *)
(***************************************************************************)

Size(w) == w[2] - w[1]
Window(toks, w) == SubSeq(toks, w[1] + 1, w[2])

Count(s, x) == Cardinality({i \in DOMAIN s : s[i] = x})

\* majority_value: the most frequent value, the first of them on a tie.
MajorityValue(s) ==
  s[CHOOSE i \in DOMAIN s : \A j \in DOMAIN s :
      \/ Count(s, s[i]) > Count(s, s[j])
      \/ Count(s, s[i]) = Count(s, s[j]) /\ i <= j]

UttsOf(toks) == [i \in DOMAIN toks |-> toks[i].utt]
MajorityUtt(toks, w) == MajorityValue(UttsOf(Window(toks, w)))

\* The window without the tokens of other utterances at its two ends.
Projected(toks, w) ==
  LET P == {i \in (w[1] + 1)..w[2] : toks[i].utt = MajorityUtt(toks, w)}
  IN <<Min(P) - 1, Max(P)>>

\* The windows find_best_segment tries, from the cursor on.
Windows(toks, cursor, n) ==
  {Projected(toks, w) :
     w \in {v \in (cursor..Len(toks)) \X (cursor..Len(toks)) :
              Size(v) \in Max({n - 2, 1})..(n + 2)}}

\* Tokens a window and the gold utterance have in common, as bags.
Overlap(main, gold) ==
  LET both(x) == Min({Count(main, x), Count(gold, x)})
  IN MapThenSumSet(both, Range(main))

\* More common tokens; else more of them in order; else later; else shorter.
Key(main, gold, w) == <<Overlap(main, gold), Matches(Align(main, gold)), w[2], w[1]>>
Above(a, b) == \E k \in 1..4 : a[k] > b[k] /\ \A l \in 1..(k - 1) : a[l] = b[l]

\* A window that shares no token with the gold is not taken.
Taken(toks, cursor, gold, w) ==
  IF Overlap(Texts(Window(toks, w)), gold) = 0 THEN <<cursor, cursor>> ELSE w

\* The window whose key is above the others, of a function from windows to keys.
Highest(keys) == CHOOSE w \in DOMAIN keys : \A v \in DOMAIN keys : ~Above(keys[v], keys[w])

\* find_best_segment: <<0, 0>> of the slice, so the cursor, when nothing fits.
BestOf(W, toks, cursor, gold) ==
  IF W = {} THEN <<cursor, cursor>>
  ELSE Taken(toks, cursor, gold, Highest([w \in W |-> Key(Texts(Window(toks, w)), gold, w)]))
FindBestSegment(toks, cursor, gold) ==
  BestOf(Windows(toks, cursor, Len(gold)), toks, cursor, gold)

\* snap_window_to_majority_utt: leftwards over tokens of the same utterance, at
\* most as many as the gold tokens that come first without a partner.
Snapped(toks, cursor, w, items) ==
  LET refs == Max({k \in 0..Len(items) : \A l \in 1..k : items[l].op = "delete"})
      first == Min({s \in cursor..w[1] :
                 /\ w[1] - s <= refs
                 /\ \A i \in (s + 1)..w[1] : toks[i].utt = MajorityUtt(toks, w)})
  IN IF Size(w) = 0 THEN w ELSE <<first, w[2]>>
SnapWindow(toks, cursor, gold, w) == Snapped(toks, cursor, w, Align(Texts(Window(toks, w)), gold))

\* A mutant of AfterGold: the next gold utterance searches from the start.
SearchFromStart(w) == 0

\* Where the search for the next gold utterance begins.
AfterGold(w) == w[2]

\* The mapping: for each gold utterance its main utterance, 0 for none.
MappedTo(acc, toks, w) ==
  [cursor |-> AfterGold(w), to |-> Append(acc.to, IF Size(w) > 0 THEN MajorityUtt(toks, w) ELSE 0)]
MapGold(acc, toks, text) ==
  IF text = <<>> THEN [acc EXCEPT !.to = Append(@, 0)]
  ELSE MappedTo(acc, toks, SnapWindow(toks, acc.cursor, text, FindBestSegment(toks, acc.cursor, text)))
GoldsMapped(toks, texts) ==
  FoldLeft(LAMBDA acc, text : MapGold(acc, toks, text), [cursor |-> 0, to |-> <<>>], texts).to

GoldToMain(main, gold) ==
  GoldsMapped(Tokens(main), [g \in DOMAIN gold |-> Texts(InUtt(Tokens(gold), g))])
-------------------------------------------------------------------------------
(***************************************************************************)
(* Phase 2: the alignment of each main utterance with the gold utterances  *)
(* mapped to it, as a sequence of tokens with a status.                    *)
(***************************************************************************)

GoldsOf(to, m) == SelectSeq([g \in DOMAIN to |-> g], LAMBDA g : to[g] = m)

\* build_utt_cmp: a match and a gold token show the gold form.
UttTokens(items, mtoks, gtoks) ==
  [k \in DOMAIN items |->
     LET it == items[k] IN
     CASE it.op = "match"  -> [text |-> gtoks[it.j].text, status |-> "match", pos |-> gtoks[it.j].pos]
       [] it.op = "insert" -> [text |-> mtoks[it.i].text, status |-> "extra_main", pos |-> mtoks[it.i].pos]
       [] it.op = "delete" -> [text |-> gtoks[it.j].text, status |-> "extra_gold", pos |-> gtoks[it.j].pos]]

\* What a main utterance and the golds gs mapped to it compare to; the
\* terminator is that of the last of them.
UttCmp(main, gold, m, gs) ==
  LET mtoks == InUtt(Tokens(main), m)
      gtoks == FlattenSeq([k \in DOMAIN gs |-> InUtt(Tokens(gold), gs[k])])
      term == gold[gs[Len(gs)]].term
  IN UttTokens(Align(Texts(mtoks), Texts(gtoks)), mtoks, gtoks)
       \o (IF term = "none" THEN <<>> ELSE <<[text |-> term, status |-> "match", pos |-> "PUNCT"]>>)

\* m -> its comparison, for the main utterances some gold is mapped to.
Compares(main, gold, to) == [m \in Range(to) \ {0} |-> UttCmp(main, gold, m, GoldsOf(to, m))]
PerUtt(main, gold) == Compares(main, gold, GoldToMain(main, gold))

WithStatus(cmp, st) == SelectSeq(cmp, LAMBDA t : t.status = st /\ t.pos # "PUNCT")

\* cwer_edit_distance: a surplus token cancels the first missing one it matches,
\* whose place the last missing one takes.
SwapRemove(s, i) == IF i = Len(s) THEN Front(s) ELSE Front([s EXCEPT ![i] = Last(s)])

CwerEditDistance(cmp) ==
  LET step(acc, t) ==
        LET hits == {i \in DOMAIN acc.gold : Same(t, acc.gold[i])}
        IN IF hits = {} THEN [acc EXCEPT !.main = @ + 1]
           ELSE [acc EXCEPT !.gold = SwapRemove(@, Min(hits))]
      end == FoldLeft(step, [gold |-> Texts(WithStatus(cmp, "extra_gold")), main |-> 0],
                      Texts(WithStatus(cmp, "extra_main")))
  IN end.main + Len(end.gold)

SumOver(S, f(_)) == MapThenSumSet(f, S)

\* summarize: wer is edits over gold, cwer cedits over gold.
Summarize(per) ==
  LET total(st) == SumOver(DOMAIN per, LAMBDA m : Len(WithStatus(per[m], st)))
  IN [matches |-> total("match"), insertions |-> total("extra_main"),
      deletions |-> total("extra_gold"),
      cedits |-> SumOver(DOMAIN per, LAMBDA m : CwerEditDistance(per[m]))]

\* build_compare_metrics: per part of speech, of the tokens that have one.
PerPos(per) ==
  LET tagged(m, p, st) == Len(SelectSeq(per[m], LAMBDA t : t.pos = p /\ t.status = st))
      tags == {t.pos : t \in UNION {Range(per[m]) : m \in DOMAIN per}} \ {"?", "PUNCT"}
  IN [p \in tags |-> [st \in {"match", "extra_main", "extra_gold"} |->
                        SumOver(DOMAIN per, LAMBDA m : tagged(m, p, st))]]
-------------------------------------------------------------------------------
(***************************************************************************)
(* Writing the comparison into the transcript.  A file is its utterances   *)
(* and its summary comments; a tier is a label with what it holds.         *)
(***************************************************************************)

CompareLabels == {"xsrep", "xsmor", "xcmp"}

\* serialize_xsmor: the terminator stands for itself at the end of the line.
Serialized(cmp, label) ==
  CASE label = "xsrep" -> [k \in DOMAIN cmp |-> <<cmp[k].status, cmp[k].text>>]
    [] label = "xsmor" -> [k \in DOMAIN cmp |->
                             <<cmp[k].status,
                               IF k = Len(cmp) /\ cmp[k].pos = "PUNCT" THEN cmp[k].text ELSE cmp[k].pos>>]
    [] label = "xcmp"  -> <<Len(WithStatus(cmp, "match")), Len(WithStatus(cmp, "extra_main")),
                            Len(WithStatus(cmp, "extra_gold")), CwerEditDistance(cmp)>>

TierOf(cmp, label) == [label |-> label, content |-> Serialized(cmp, label)]

\* inject_per_utt_tiers and inject_summary_header.
Inject(file, per) ==
  [utts |-> [m \in DOMAIN file.utts |->
     IF m \in DOMAIN per /\ per[m] # <<>>
     THEN [file.utts[m] EXCEPT !.tiers =
             @ \o <<TierOf(per[m], "xsrep"), TierOf(per[m], "xsmor"), TierOf(per[m], "xcmp")>>]
     ELSE file.utts[m]],
   summaries |-> Append(file.summaries, Summarize(per))]

\* A mutant of Stripped: the tiers of an earlier comparison stay.
StrippedOfGrammar(file) ==
  [file EXCEPT !.utts =
     [m \in DOMAIN @ |-> [@[m] EXCEPT !.tiers = SelectSeq(@, LAMBDA t : t.label # "gra")]]]

\* strip_gra_tiers and strip_compare_tiers.
Stripped(file) ==
  [utts |-> [m \in DOMAIN file.utts |->
     [file.utts[m] EXCEPT !.tiers =
        SelectSeq(@, LAMBDA t : t.label \notin CompareLabels \cup {"gra"})]],
   summaries |-> <<>>]

\* A file with two tiers of one label in an utterance does not parse (E401).
Parses(file) ==
  \A m \in DOMAIN file.utts : LET ts == file.utts[m].tiers IN
    \A i, j \in DOMAIN ts : ts[i].label = ts[j].label => i = j

\* The runner: strip, compare, inject.
Compared(main, gold) == Inject(Stripped(main), PerUtt(main.utts, gold.utts))
===============================================================================
