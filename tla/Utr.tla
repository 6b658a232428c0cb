---------------------------------- MODULE Utr ----------------------------------
(***************************************************************************)
(* Utterance timing recovery: times for the utterances of an untimed       *)
(* transcript, from the words a recogniser heard                           *)
(* (src/crates/batchalign/batchalign-core/src/taskrunners/utr/).           *)
(*                                                                         *)
(* An utterance is [words, bullet, lazy, bottoms, tops, speaker]: its      *)
(* words, its bullet as a set of at most one <<start, end>>, whether a     *)
(* +< linker opens it, the indices of the bottom overlap regions it        *)
(* begins, and its top regions as <<index, onset>>, the onset in           *)
(* Fractions of the utterance.  A token is [text, start, end].             *)
(***************************************************************************)
EXTENDS Alignment

CONSTANTS
  Fractions,    \* the onset of an overlap is a multiple of 1 / Fractions
  Tolerance,    \* ZERO_DURATION_TOLERANCE_MS
  Buffers,      \* tight_buffer_ms and the floors of the two wider buffers
  Density,      \* max_exclusion_density as <<n, of>>
  CaMarkers     \* config.ca_markers

Untimed == {}
Starts(b) == (CHOOSE t \in b : TRUE)[1]
Ends(b) == (CHOOSE t \in b : TRUE)[2]

BottomOverlap(utt) == utt.bottoms # {}
Overlaps(utt) == utt.lazy \/ BottomOverlap(utt)
-------------------------------------------------------------------------------
\* any_utterance_already_timed: a bullet that lasts.
AlreadyTimed(utts) ==
  \E u \in DOMAIN utts : utts[u].bullet # Untimed /\ Starts(utts[u].bullet) < Ends(utts[u].bullet)

\* asr_output_to_utr_tokens.
UtrTokens(words) ==
  SelectSeq(words, LAMBDA w : w.end > w.start /\ w.end - w.start >= Tolerance)

TextsOf(tokens) == [i \in DOMAIN tokens |-> tokens[i].text]
-------------------------------------------------------------------------------
(***************************************************************************)
(* plan_utr_alignment: for each utterance the first and last token         *)
(* matched to one of its words, as a set of at most one pair.              *)
(***************************************************************************)

NoMatch == <<0>>   \* no position

\* The first place of each payload word after that of the word before it.
GreedyForward(payload, reference) ==
  LET next(acc, w) ==
        IF acc = NoMatch THEN NoMatch
        ELSE LET after == IF acc = <<>> THEN 0 ELSE Last(acc)
                 hits == {i \in (after + 1)..Len(reference) : Matches(w, reference[i])}
             IN IF hits = {} THEN NoMatch ELSE Append(acc, Min(hits))
  IN FoldLeft(next, <<>>, payload)

GreedyReverse(payload, reference) ==
  LET back == GreedyForward(Reverse(payload), Reverse(reference))
  IN IF back = NoMatch THEN NoMatch
     ELSE Reverse([k \in DOMAIN back |-> Len(reference) + 1 - back[k]])

\* update_utt_range over the pairs <<payload position, token>>.
RangesOf(matched, wordToUtt, count) ==
  [u \in 1..count |->
     LET hit == {m[2] : m \in {n \in matched : wordToUtt[n[1]] = u}}
     IN IF hit = {} THEN {} ELSE {<<Min(hit), Max(hit)>>}]

\* The pairs of an alignment.
Paired(items) ==
  {<<items[k].p, items[k].r>> : k \in {l \in DOMAIN items : items[l].p * items[l].r > 0}}

DpRanges(words, texts, wordToUtt, count) ==
  RangesOf(Paired(Align(words, texts)), wordToUtt, count)

\* try_unique_exact_subsequence_ranges: the words embed in one way only.
Certain(forward, reverse) == forward # NoMatch /\ forward = reverse

Planned(forward, reverse, words, texts, wordToUtt, count) ==
  IF Certain(forward, reverse)
  THEN RangesOf({<<p, forward[p]>> : p \in DOMAIN forward}, wordToUtt, count)
  ELSE DpRanges(words, texts, wordToUtt, count)

PlanRanges(words, texts, wordToUtt, count) ==
  Planned(GreedyForward(words, texts), GreedyReverse(words, texts), words, texts, wordToUtt, count)
-------------------------------------------------------------------------------
(***************************************************************************)
(* run_global_utr.                                                         *)
(***************************************************************************)

\* A mutant of RaisedFloor: a bullet the transcript had leaves the floor alone.
FloorOfNew(floor, utt, new) ==
  IF Overlaps(utt) \/ utt.bullet # Untimed THEN floor ELSE IF new = {} THEN floor ELSE Ends(new)

\* The monotone pass: where the next utterance may begin.
RaisedFloor(floor, utt, new) ==
  IF Overlaps(utt) THEN floor
  ELSE IF utt.bullet # Untimed THEN Max({floor, Ends(utt.bullet)})
  ELSE IF new = {} THEN floor ELSE Ends(new)

\* ... and a new bullet that begins before that is moved up to it.
Floored(floor, utt, new) ==
  IF Overlaps(utt) \/ new = {} THEN new
  ELSE LET s == Max({Starts(new), floor})
       IN {<<s, IF Ends(new) > s THEN Ends(new) ELSE s + 1>>}

\* The bullets of the untimed utterances from their token ranges.
Proposed(utts, tokens, ranges) ==
  [u \in DOMAIN utts |->
     LET r == ranges[u]
         t == {<<tokens[m[1]].start, tokens[m[2]].end>> : m \in r}
     IN IF utts[u].bullet # Untimed THEN {} ELSE {b \in t : b[1] < b[2]}]

InOrder(utts, proposed) ==
  LET step(acc, u) ==
        LET b == Floored(acc.floor, utts[u], proposed[u])
        IN [floor |-> RaisedFloor(acc.floor, utts[u], b), bullets |-> Append(acc.bullets, b)]
  IN FoldLeft(step, [floor |-> 0, bullets |-> <<>>], [u \in DOMAIN utts |-> u]).bullets

\* The words of the utterances, and the utterance of each.
Flat(utts, skip) ==
  FlattenSeq([u \in DOMAIN utts |->
    IF skip /\ Overlaps(utts[u]) THEN <<>>
    ELSE [k \in DOMAIN utts[u].words |-> <<utts[u].words[k], u>>]])

CountOf(utts, P(_)) == Cardinality({u \in DOMAIN utts : P(u)})

\* The file and the counts; decided holds the utterances with a decision record.
Counted(utts, tokens, proposed, bullets) ==
  LET had(u) == utts[u].bullet # Untimed
      new(u) == tokens # <<>> /\ proposed[u] # {}
  IN [utts |-> [u \in DOMAIN utts |->
                  IF new(u) THEN [utts[u] EXCEPT !.bullet = bullets[u]] ELSE utts[u]],
      injected |-> CountOf(utts, new), skipped |-> CountOf(utts, had),
      unmatched |-> CountOf(utts, LAMBDA u : ~had(u) /\ ~new(u)),
      decided |-> IF tokens = <<>> THEN {} ELSE {u \in DOMAIN utts : ~had(u) /\ ~new(u)}]
Injected(utts, tokens, proposed) == Counted(utts, tokens, proposed, InOrder(utts, proposed))

RunGlobal(utts, tokens, skip) ==
  LET ranges(flat) == PlanRanges([i \in DOMAIN flat |-> flat[i][1]], TextsOf(tokens),
                                 [i \in DOMAIN flat |-> flat[i][2]], Len(utts))
  IN Injected(utts, tokens, Proposed(utts, tokens, ranges(Flat(utts, skip))))
-------------------------------------------------------------------------------
(***************************************************************************)
(* The two-pass strategy, which an embedder may choose: overlapping        *)
(* utterances are left out of the first pass and looked for near the       *)
(* bullet before them.                                                     *)
(***************************************************************************)

\* find_predecessor_bullet: the bullet of the nearest timed utterance before.
Before(utts, u) ==
  LET timed == {v \in 1..(u - 1) : utts[v].bullet # Untimed}
  IN IF timed = {} THEN Untimed ELSE utts[Max(timed)].bullet

\* The utterances before u, from the nearest, up to and with the first timed one;
\* one of u's own speaker does not stop the first search.
Reach(utts, u, own) ==
  {v \in 1..(u - 1) : \A w \in (v + 1)..(u - 1) :
     utts[w].bullet = Untimed \/ (own /\ utts[w].speaker = utts[u].speaker)}

\* find_predecessor_onset_fraction, as a set of at most one onset.
Onset(utts, u) ==
  LET wanted(v) == SelectSeq(utts[v].tops,
                     LAMBDA t : utts[u].bottoms = {} \/ t[1] \in utts[u].bottoms)
      others == {v \in Reach(utts, u, TRUE) :
                   utts[v].speaker # utts[u].speaker /\ wanted(v) # <<>>}
      any == {v \in Reach(utts, u, FALSE) : utts[v].tops # <<>>}
  IN IF others # {} THEN {wanted(Max(others))[1][2]}
     ELSE IF utts[u].bottoms = {} /\ any # {} THEN {utts[Max(any)].tops[1][2]}
     ELSE {}

\* recover_overlap_timing: the span of the matched tokens that touch the window.
SpanOf(hit) ==
  IF hit = {} THEN {} ELSE {<<Min({t.start : t \in hit}), Max({t.end : t \in hit})>>}
RecoverIn(words, near) == SpanOf({near[m[2]] : m \in Paired(Align(words, TextsOf(near)))})
RecoverOverlap(words, tokens, from, to) ==
  RecoverIn(words, SelectSeq(tokens, LAMBDA t : t.start < to /\ t.end > from))

\* recover_with_adaptive_window: three windows, each wider than the last, around
\* the bullet b of the utterance before, or the onset in it.
Widened(words, tokens, b, on) ==
  LET long == Ends(b) - Starts(b)
      anchor == Starts(b) + (IF on = {} THEN 0 ELSE ((CHOOSE f \in on : TRUE) * long) \div Fractions)
      wider(found, buffer) ==
        IF found # {} THEN found
        ELSE RecoverOverlap(words, tokens, Max({anchor - buffer, 0}), Ends(b) + buffer)
  IN FoldLeft(wider, {}, <<Buffers[1], Max({long, Buffers[2]}), Max({2 * long, Buffers[3]})>>)

Recover(utts, u, tokens) ==
  IF Before(utts, u) = Untimed THEN {}
  ELSE Widened(utts[u].words, tokens, Before(utts, u), IF CaMarkers THEN Onset(utts, u) ELSE {})

\* A mutant of Considered: an overlapping utterance with a bullet is moved too.
ConsideredAgain(utt) ==
  (utt.lazy \/ (CaMarkers /\ BottomOverlap(utt))) /\ utt.words # <<>>

\* What the second pass looks at.
Considered(utt) ==
  /\ utt.lazy \/ (CaMarkers /\ BottomOverlap(utt))
  /\ utt.bullet = Untimed
  /\ utt.words # <<>>

\* run_two_pass_inner: the bullets of the second pass are added to the first.
Added(first, again) ==
  LET extra == Cardinality({u \in DOMAIN again : again[u] # {}})
  IN [first EXCEPT
        !.utts = [u \in DOMAIN @ |-> IF again[u] = {} THEN @[u] ELSE [@[u] EXCEPT !.bullet = again[u]]],
        !.injected = @ + extra,
        !.unmatched = Max({@ - extra, 0})]
SecondPass(first, tokens) ==
  IF tokens = <<>> THEN first
  ELSE Added(first, [u \in DOMAIN first.utts |->
                       IF Considered(first.utts[u]) THEN Recover(first.utts, u, tokens) ELSE {}])

RunTwoPass(utts, tokens) ==
  LET overlapping == CountOf(utts, LAMBDA u : utts[u].lazy \/ (CaMarkers /\ BottomOverlap(utts[u])))
  IN SecondPass(RunGlobal(utts, tokens, overlapping * Density[2] <= Len(utts) * Density[1]), tokens)

\* TwoPassOverlapUtr::inject: the strategy that times more utterances.
MoreTimed(two, one) ==
  LET timed(r) == CountOf(r.utts, LAMBDA u : r.utts[u].bullet # Untimed)
  IN IF timed(two) >= timed(one) THEN two ELSE one
TwoPass(utts, tokens) == MoreTimed(RunTwoPass(utts, tokens), RunGlobal(utts, tokens, FALSE))

\* UtrTaskRunner::apply, with the strategy select_strategy returns: a timed
\* file is left alone; otherwise the header's unlinked mark goes.
UtrApplied(file, words) ==
  IF AlreadyTimed(file.utts) THEN file
  ELSE [utts |-> RunGlobal(file.utts, UtrTokens(words), FALSE).utts, unlinked |-> FALSE]
===============================================================================
