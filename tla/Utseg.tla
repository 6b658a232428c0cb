--------------------------------- MODULE Utseg ---------------------------------
(***************************************************************************)
(* The runner of utterance segmentation                                    *)
(* (src/crates/batchalign/batchalign-core/src/taskrunners/utseg.rs).  Each *)
(* utterance is sent on its own; the answer for it is a sequence of spans. *)
(* A span says what it holds twice over: its words, with times, and its    *)
(* text, here the items and the terminator, or None, that the text reads   *)
(* as (no items for an empty text); and it has a window.  Linkers,         *)
(* postcodes and a language that a text may write are left out.            *)
(***************************************************************************)
EXTENDS Segmentation

Untimed == [start |-> 0, end |-> 0]

\* collect_utterance_rows: the time of a word is that of the %wor word in its
\* place, although %wor also counts fillers.
Row(utt) ==
  LET times == IF Has(utt, "wor") THEN TimesOf(WorTierWords(utt)) ELSE <<>>
      ws == MorWords(utt)
  IN [k \in DOMAIN ws |->
        [text |-> ws[k].text,
         time |-> IF k \in DOMAIN times /\ times[k] # None THEN times[k] ELSE Untimed]]

UtsegRequests(file) == [u \in DOMAIN file.utts |-> Row(file.utts[u])]

SpanWords(answer) == FlattenSeq([s \in DOMAIN answer |-> answer[s].words])

\* assignments_from_spans: None when the answer has other words.
AssignmentsFromSpans(row, answer) ==
  IF answer = <<>> THEN <<>>
  ELSE IF TextsOf(row) # TextsOf(SpanWords(answer)) THEN None
  ELSE FlattenSeq([s \in DOMAIN answer |-> [k \in DOMAIN answer[s].words |-> s - 1]])

\* What the words of a row, written one after the other, read as.
ReadAgain(row) ==
  [k \in DOMAIN row |-> [kind |-> "word", words |-> <<[text |-> row[k].text, time |-> None]>>]]

\* collect_split: a span without a text is passed over, whatever its words.
NewUtterances(utt, answer) ==
  LET spans == Picked(answer, {s \in DOMAIN answer : answer[s].items # <<>>})
  IN IF answer = <<>>
     THEN IF MorWords(utt) = <<>> THEN <<>>
          ELSE <<[items |-> ReadAgain(Row(utt)), words |-> Row(utt), term |-> ".", bullet |-> None]>>
     ELSE [s \in DOMAIN spans |->
             [items |-> spans[s].items, words |-> spans[s].words,
              term |-> IF spans[s].term = None THEN "." ELSE spans[s].term,
              bullet |-> IF spans[s].window = Untimed THEN None ELSE spans[s].window]]

\* inject_word_timings.
WordTimings(words) ==
  LET timed(w) == w.time.end > w.time.start
  IN IF \E k \in DOMAIN words : timed(words[k])
     THEN <<Tier("wor", [k \in DOMAIN words |->
                           [text |-> words[k].text,
                            time |-> IF timed(words[k]) THEN words[k].time ELSE None]])>>
     ELSE <<>>

\* An utterance of the new file: its main line is the text read again, its %wor
\* tier the words, and of the old utterance there is nothing but the speaker.
Fresh(utt, n) ==
  [speaker |-> utt.speaker, lang |-> None, linkers |-> <<>>, postcodes |-> <<>>,
   items |-> n.items, term |-> n.term, bullet |-> n.bullet, tiers |-> WordTimings(n.words)]

AllFresh(file, answers) ==
  FlattenSeq([u \in DOMAIN file.utts |->
    LET new == NewUtterances(file.utts[u], answers[u])
    IN [s \in DOMAIN new |-> Fresh(file.utts[u], new[s])]])

\* The speakers of a new file, each where it first speaks.
SpeakersOf(utts) ==
  LET firsts == Picked(utts, {u \in DOMAIN utts : \A v \in 1..(u - 1) : utts[v].speaker # utts[u].speaker})
  IN IF firsts = <<>> THEN <<"PAR1">> ELSE [k \in DOMAIN firsts |-> firsts[k].speaker]

\* build_chat_from_utterances: a file of the new utterances, their speakers, and
\* the languages and the media of the old one, without its options and comments.
\* It fails on a text that does not read, one with a word that CHAT cannot hold.
Rebuilt(file, answers, Unwritable) ==
  LET utts == AllFresh(file, answers)
  IN IF \E u \in DOMAIN utts : \E w \in Range(Said(utts[u])) : w.text \in Unwritable THEN None
     ELSE [langs |-> IF file.langs = <<>> THEN <<"eng">> ELSE file.langs,
           participants |-> SpeakersOf(utts), ca |-> FALSE, media |-> file.media,
           stamps |-> <<>>, utts |-> utts]

\* UtSegTaskRunner::apply: one answer with other words rebuilds the whole file.
UtsegApplied(file, answers, Unwritable) ==
  LET given(u) == AssignmentsFromSpans(Row(file.utts[u]), answers[u])
  IN IF \E u \in DOMAIN file.utts : given(u) = None THEN Rebuilt(file, answers, Unwritable)
     ELSE ApplySplits(file, [u \in {v \in DOMAIN file.utts : given(v) # <<>>} |-> given(u)])
===============================================================================
