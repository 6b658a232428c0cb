------------------------------- MODULE Transcribe -------------------------------
(***************************************************************************)
(* A transcript from the answer of a recogniser: the speakers, the         *)
(* utterances and their words and times                                    *)
(* (src/crates/batchalign/batchalign-core/src/taskrunners/asr.rs and       *)
(* asr/chat/).                                                             *)
(*                                                                         *)
(* The answer is a sequence of segments [speaker, text, start, end, words];*)
(* a line is [speaker, items, bullet, term, wor]; an item is a word, a     *)
(* separator or a retrace of several words.                                *)
(***************************************************************************)
EXTENDS AsrText

CONSTANTS
  NoSpeaker,   \* a segment the recogniser gave no speaker
  Unlabelled   \* the label such a segment counts as, PAR1

LabelOf(seg) == IF seg.speaker = NoSpeaker THEN Unlabelled ELSE seg.speaker

\* A mutant of SpeakerNumber: a label counted as often as it occurs.
SegmentNumber(segs, label) ==
  Max({k \in DOMAIN segs : LabelOf(segs[k]) = label}) - 1

\* speaker_codes: labels are numbered from 0 as they first occur.
SpeakerNumber(segs, label) ==
  LET first == Min({k \in DOMAIN segs : LabelOf(segs[k]) = label})
  IN Cardinality({LabelOf(segs[k]) : k \in 1..(first - 1)})

SpeakerCount(segs) == Max({1, Cardinality({LabelOf(segs[k]) : k \in DOMAIN segs})})

\* str::trim, and the plain marks a text ends in taken off.
Trimmed(t) ==
  LET solid == {i \in DOMAIN t : ~Is(t[i], {"space"})}
  IN IF solid = {} THEN <<>> ELSE SubSeq(t, Min(solid), Max(solid))
Unended(t) ==
  LET rest == {i \in DOMAIN t : ~Is(t[i], {"end"}) \/ t[i] \in DOMAIN Ascii}
  IN IF rest = {} THEN <<>> ELSE SubSeq(t, 1, Max(rest))

\* sanitize_segment_text: tabs and sigils go, and the marks at its end; < and >
\* stay, for ExtractTimed to judge.
SegmentText(t) ==
  Trimmed(Unended(Trimmed(SelectSeq(t, LAMBDA a : ~Is(a, {"illegal", "percent"})))))

\* asr_output_for_postprocess.
Monologues(segs) ==
  FlatMap(segs, LAMBDA s :
    LET text == SegmentText(s.text)
        elements == IF s.words # <<>> THEN s.words
                    ELSE IF text = <<>> THEN <<>>
                    ELSE <<[text |-> text, start |-> s.start, end |-> s.end]>>
    IN IF elements = <<>> THEN <<>>
       ELSE <<[speaker |-> SpeakerNumber(segs, LabelOf(s)), elements |-> elements]>>)
-------------------------------------------------------------------------------
(***************************************************************************)
(* build_word_utterance.                                                   *)
(***************************************************************************)

Item(kind, words) == [kind |-> kind, words |-> words]

\* push_retrace_content: equal words are retraced one by one, others together.
RetraceItems(run) ==
  IF \A k \in DOMAIN run : Alike(run[k].text, run[1].text)
  THEN [k \in DOMAIN run |-> Item("retrace", <<run[k]>>)]
  ELSE <<Item("retrace", run)>>

\* The items of the words: marks that end are left out, retraces stay together.
Items(words) ==
  LET step(acc, w) ==
        IF w.kind = "retrace" THEN [acc EXCEPT !.run = Append(@, w)]
        ELSE [run |-> <<>>,
              done |-> acc.done \o RetraceItems(acc.run)
                \o (IF IsEnd(w.text) THEN <<>>
                    ELSE <<Item(IF IsComma(w.text) THEN "separator" ELSE "word", <<w>>)>>)]
      end == FoldLeft(step, [done |-> <<>>, run |-> <<>>], words)
  IN end.done \o RetraceItems(end.run)

\* The words of the line that carry a time.
TimedWords(items) ==
  FlatMap(items, LAMBDA it :
    IF it.kind = "separator" THEN <<>>
    ELSE SelectSeq(it.words, LAMBDA w : w.start # NoTime /\ w.end # NoTime))

\* A mutant of LineBullet: from the last timed word on.
LineBulletLast(timed) ==
  IF timed = <<>> THEN <<>> ELSE <<Last(timed).start, Last(timed).end>>

\* From the start of the first timed word to the end of the last one.
LineBullet(timed) ==
  IF timed = <<>> THEN <<>> ELSE <<timed[1].start, Last(timed).end>>

\* No line for an utterance of marks only; a full stop ends one without a mark.
Line(utt) ==
  LET items == Items(utt.words)
      timed == TimedWords(items)
  IN IF items = <<>> THEN <<>>
     ELSE <<[speaker |-> utt.speaker, items |-> items, bullet |-> LineBullet(timed),
             term |-> IF IsEnd(Last(utt.words).text) THEN Last(utt.words).text ELSE Stop,
             wor |-> timed # <<>>]>>

\* build_asr_participants, or every label heard when nothing is left to say.
Participants(segs, utts) ==
  IF utts = <<>> THEN 0..(SpeakerCount(segs) - 1) ELSE {utts[u].speaker : u \in DOMAIN utts}

\* build_utterance_lines.
UtteranceLines(utts) == FlatMap(utts, Line)

\* build_chat_from_asr; the file is still validated as a whole afterwards.
Transcript(segs, lang) ==
  LET utts == ProcessRawAsr(Monologues(segs), lang)
  IN [participants |-> Participants(segs, utts), lines |-> UtteranceLines(utts)]
-------------------------------------------------------------------------------
(***************************************************************************)
(* lang_detect.rs, on the languages found in the utterances, "none" for    *)
(* too little text or too little confidence.                               *)
(***************************************************************************)

Found(langs) == SelectSeq(langs, LAMBDA l : l # "none")

\* The languages as they first occur, those of more utterances first.
ByFrequency(langs) ==
  LET found == Found(langs)
      times(l) == Len(SelectSeq(found, LAMBDA k : k = l))
      first(l) == Min({i \in DOMAIN found : found[i] = l})
  IN SetToSortSeq(Range(found), LAMBDA k, l :
       times(k) > times(l) \/ (times(k) = times(l) /\ first(k) < first(l)))

PrimaryLanguage(langs) == IF Found(langs) = <<>> THEN "none" ELSE ByFrequency(langs)[1]

\* collect_detected_languages: the primary one and those said often enough.
DetectedLanguages(langs, primary, enough) ==
  <<primary>> \o SelectSeq(ByFrequency(langs),
    LAMBDA l : l # primary /\ Len(SelectSeq(langs, LAMBDA k : k = l)) >= enough)
===============================================================================
