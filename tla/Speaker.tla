-------------------------------- MODULE Speaker --------------------------------
(***************************************************************************)
(* The runner of speaker diarization                                       *)
(* (src/crates/batchalign/batchalign-core/src/taskrunners/speaker.rs).  An *)
(* answer is a sequence of segments, a segment its start, end and label;   *)
(* Labels puts the labels in their order and Par[i] is the code PAR<i>.    *)
(***************************************************************************)
EXTENDS Segmentation

CONSTANTS
  Labels,       \* the labels of a diarization in lexical order
  Par           \* Par[i]: the code made up for the label at index i from 0

ASSUME SpeakerAssumption ==
  /\ Distinct(Labels)
  /\ 0..(Len(Labels) - 1) \subseteq DOMAIN Par
  /\ \A i, j \in DOMAIN Par : Par[i] = Par[j] => i = j

Middle(time) == time.start + (time.end - time.start) \div 2
Distance(t, seg) == Min({IF t > seg.start THEN t - seg.start ELSE seg.start - t,
                         IF t > seg.end THEN t - seg.end ELSE seg.end - t})

\* segment_index_at: the first that holds the time, else the nearest.
SegmentAt(segs, t) ==
  LET holding == {i \in DOMAIN segs : segs[i].start <= t /\ t <= segs[i].end}
      nearest == {i \in DOMAIN segs : \A j \in DOMAIN segs : Distance(t, segs[i]) <= Distance(t, segs[j])}
  IN IF holding # {} THEN Min(holding) ELSE Min(nearest)

\* The times of the words: their own, or those of the %wor tier.
WordTimes(utt) ==
  LET own == TimesOf(MorWords(utt))
  IN IF (\A k \in DOMAIN own : own[k] = None) /\ Has(utt, "wor")
     THEN TimesOf(WorTierWords(utt)) ELSE own

\* speaker_assignments: a word without a time goes with the one before it, or
\* the one after; a group ends where the speaker changes.
SpeakerAssignments(utt, segs) ==
  LET times == WordTimes(utt)
      timed == {k \in DOMAIN times : times[k] # None}
      speaker(k) == segs[SegmentAt(segs, Middle(times[Near(timed, k)]))].speaker
  IN IF timed = {} THEN [k \in DOMAIN times |-> 0]
     ELSE [k \in DOMAIN times |-> Cardinality({j \in 2..k : speaker(j) # speaker(j - 1)})]

\* utterance_timing_ms: from the first start to the last end of its words, of
\* its %wor tier, or its bullet.
Timing(utt) ==
  LET own == {t \in Range(TimesOf(Said(utt))) : t # None}
      wor == IF Has(utt, "wor") THEN {t \in Range(TimesOf(WorTierWords(utt))) : t # None} ELSE {}
      T == IF own # {} THEN own ELSE wor
      span == [start |-> Min({t.start : t \in T}), end |-> Max({t.end : t \in T})]
  IN IF T # {} /\ span.end >= span.start THEN span
     ELSE IF utt.bullet # None /\ utt.bullet.end >= utt.bullet.start THEN utt.bullet
     ELSE None

\* A mutant of CodeAt: a label is counted from one.
CodeFromOne(declared, i) == IF i + 1 \in DOMAIN declared THEN declared[i + 1] ELSE Par[i - 1]

\* The code of the label at index i from 0.
CodeAt(declared, i) == IF i + 1 \in DOMAIN declared THEN declared[i + 1] ELSE Par[i]

\* An utterance that has a time is of the speaker of its middle.
Revoiced(utt, time, segs, codeOf) ==
  IF time = None THEN utt
  ELSE [utt EXCEPT !.bullet = time, !.speaker = codeOf[segs[SegmentAt(segs, Middle(time))].speaker]]
RevoicedAll(utts, segs, codeOf) ==
  [u \in DOMAIN utts |-> Revoiced(utts[u], Timing(utts[u]), segs, codeOf)]

\* The utterances, each split where its speaker changes.
Diarized(utts, segs, codeOf) ==
  RevoicedAll(FlattenSeq([u \in DOMAIN utts |-> Split(utts[u], SpeakerAssignments(utts[u], segs))]),
              segs, codeOf)

\* The codes that are spoken with, and what the file does not declare of the
\* first n codes.
Spoken(utts, codes) == Picked(codes, {k \in DOMAIN codes : \E u \in DOMAIN utts : utts[u].speaker = codes[k]})
Undeclared(declared, n) ==
  LET codes == [k \in 1..n |-> CodeAt(declared, k - 1)]
  IN Picked(codes, {k \in 1..n : codes[k] \notin Range(declared)})

\* The codes in use are moved down to the first ones, and those that the file
\* does not declare are declared.  None when there is no participant to take the
\* corpus from.
MovedDown(file, utts, codes) ==
  LET spoken == Spoken(utts, codes)
      projected(c) == IF c \in Range(spoken)
                      THEN CodeAt(file.participants, Min({k \in DOMAIN spoken : spoken[k] = c}) - 1)
                      ELSE c
      added == Undeclared(file.participants, Len(spoken))
  IN IF added # <<>> /\ file.participants = <<>> THEN None
     ELSE [file EXCEPT !.utts = [u \in DOMAIN utts |-> [utts[u] EXCEPT !.speaker = projected(@)]],
                       !.participants = @ \o added]

\* relabel_utterances_by_diarization.
Relabelled(file, segs) ==
  LET labels == Picked(Labels, {i \in DOMAIN Labels : \E s \in DOMAIN segs : segs[s].speaker = Labels[i]})
      codes == [k \in DOMAIN labels |-> CodeAt(file.participants, k - 1)]
      codeOf == [l \in Range(labels) |-> codes[CHOOSE k \in DOMAIN labels : labels[k] = l]]
  IN IF segs = <<>> THEN file
     ELSE MovedDown(file, Diarized(file.utts, segs, codeOf), codes)
===============================================================================
