------------------------------- MODULE Document -------------------------------
(***************************************************************************)
(* The transcript object that Python programs edit (pychat/): a document   *)
(* is a list of entries, each a header line or a reference to an utterance *)
(* object of the heap, which other lists may share.  The lines that name languages and *)
(* participants are not kept: writing the document derives them from its   *)
(* utterances.                                                             *)
(*                                                                         *)
(* An object is [speaker, pre, lang, words, timing, tiers]: its            *)
(* participant, the language code written before its words, if any, the    *)
(* language it was resolved to, the number of its words, its bullet, and   *)
(* its dependent tiers, each with its number of items.  An operation that  *)
(* raises an error leaves everything as it was.                            *)
(***************************************************************************)
EXTENDS Integers, SequencesExt, FiniteSetsExt

CONSTANTS None,     \* no language code, no bullet
          Failed    \* the error a stringify raises

Distinct(s) == FoldLeft(LAMBDA seen, x : IF x \in Range(seen) THEN seen ELSE Append(seen, x), <<>>, s)

Header(h) == [kind |-> "header", of |-> h]
Reference(u) == [kind |-> "utterance", of |-> u]
IsUtterance(entry) == entry.kind = "utterance"
IsMedia(entry) == entry \in {Header("linked"), Header("unlinked")}

Objects(doc) ==
  LET kept == SelectSeq(doc.entries, IsUtterance) IN [k \in DOMAIN kept |-> doc.heap[kept[k].of]]
Positions(doc) == SelectSeq([k \in DOMAIN doc.entries |-> k], LAMBDA k : IsUtterance(doc.entries[k]))

Speakers(doc) == Distinct([k \in DOMAIN Objects(doc) |-> Objects(doc)[k].speaker])
Conflicting(doc) == \E p, q \in Range(Speakers(doc)) : p # q /\ p.code = q.code

UtteranceLanguage(utt) == IF utt.pre # None THEN utt.pre ELSE utt.lang
HeaderLanguages(speakers, additional) ==
  Distinct(FlattenSeq([k \in DOMAIN speakers |-> speakers[k].langs]) \o additional)
Languages(doc) ==
  HeaderLanguages(Speakers(doc), [k \in DOMAIN Objects(doc) |-> UtteranceLanguage(Objects(doc)[k])])

\* The parser gives an utterance the language before its words, else the first
\* one of its file; what it checks of tiers and of the media header.
Resolved(pre, languages) == IF pre # None THEN pre ELSE languages[1]
Counts(utt, label) == {utt.tiers[i].count : i \in {j \in DOMAIN utt.tiers : utt.tiers[j].label = label}}
TiersFit(utt) ==
  /\ Counts(utt, "mor") \cup Counts(utt, "pho") \subseteq {utt.words}
  /\ Counts(utt, "gra") \subseteq Counts(utt, "mor")
MediaFits(entries, timed) ==
  /\ timed => \E e \in Range(entries) : IsMedia(e)
  /\ Header("linked") \in Range(entries) => timed
-------------------------------------------------------------------------------
(***************************************************************************)
(* An utterance object.                                                    *)
(***************************************************************************)

\* An edited utterance is validated in a file of its own, which has its
\* speaker's languages first.
FromAst(speaker, utt) ==
  IF ~TiersFit(utt) THEN Failed
  ELSE [utt EXCEPT !.speaker = speaker,
                   !.lang = Resolved(utt.pre, HeaderLanguages(<<speaker>>, <<UtteranceLanguage(utt)>>))]

Retimed(utt, timing) ==
  IF timing # None /\ timing[2] <= timing[1] THEN Failed
  ELSE FromAst(utt.speaker, [utt EXCEPT !.timing = timing])

NewUtterance(speaker, pre, words, timing) ==
  Retimed([speaker |-> speaker, pre |-> pre, lang |-> Resolved(pre, speaker.langs), words |-> words,
           timing |-> None, tiers |-> <<>>], timing)

Retexted(utt, pre, words) ==
  LET replacement == NewUtterance(utt.speaker, pre, words, utt.timing)
  IN IF replacement = Failed THEN Failed
     ELSE FromAst(utt.speaker, [utt EXCEPT !.pre = replacement.pre, !.words = replacement.words,
                                           !.timing = replacement.timing])

Tiered(utt, label, count) ==
  LET at == SelectInSeq(utt.tiers, LAMBDA t : t.label = label)
      tier == [label |-> label, count |-> count]
  IN FromAst(utt.speaker,
             IF at > 0 THEN [utt EXCEPT !.tiers[at] = tier] ELSE [utt EXCEPT !.tiers = Append(@, tier)])

Untiered(utt, label) ==
  LET at == SelectInSeq(utt.tiers, LAMBDA t : t.label = label)
  IN IF at = 0 THEN Failed ELSE FromAst(utt.speaker, [utt EXCEPT !.tiers = RemoveAt(@, at)])

Edited(doc, u, utt) == IF utt = Failed THEN doc ELSE [doc EXCEPT !.heap[u] = utt]

SetSpeaker(doc, u, speaker) == Edited(doc, u, FromAst(speaker, doc.heap[u]))
SetTiming(doc, u, timing) == Edited(doc, u, Retimed(doc.heap[u], timing))
SetText(doc, u, pre, words) == Edited(doc, u, Retexted(doc.heap[u], pre, words))
SetTier(doc, u, label, count) == Edited(doc, u, Tiered(doc.heap[u], label, count))
DeleteTier(doc, u, label) == Edited(doc, u, Untiered(doc.heap[u], label))
-------------------------------------------------------------------------------
(***************************************************************************)
(* The list of utterances.  Indices are those of Python: from 0, and from  *)
(* the end when negative.                                                  *)
(***************************************************************************)

\* A change that brings two speakers of one code together is undone.
UnlessConflicting(doc, changed) == IF Conflicting(changed) THEN doc ELSE changed

AppendUtterance(doc, u) == UnlessConflicting(doc, [doc EXCEPT !.entries = Append(@, Reference(u))])

InsertUtterance(doc, index, u) ==
  LET n == Len(Positions(doc))
      at == IF index < 0 THEN Max({n + index, 0}) ELSE Min({index, n})
      position == IF at < n THEN Positions(doc)[at + 1] ELSE Len(doc.entries) + 1
  IN UnlessConflicting(doc, [doc EXCEPT !.entries = InsertAt(@, position, Reference(u))])

SequenceIndex(index, n) ==
  LET at == IF index < 0 THEN n + index ELSE index IN IF at \in 0..(n - 1) THEN at + 1 ELSE 0

ReplaceUtterance(doc, index, u) ==
  LET at == SequenceIndex(index, Len(Positions(doc)))
  IN IF at = 0 THEN doc
     ELSE UnlessConflicting(doc, [doc EXCEPT !.entries[Positions(doc)[at]] = Reference(u)])

DeleteUtterance(doc, index) ==
  LET at == SequenceIndex(index, Len(Positions(doc)))
  IN IF at = 0 THEN doc ELSE [doc EXCEPT !.entries = RemoveAt(@, Positions(doc)[at])]

ClearUtterances(doc) == [doc EXCEPT !.entries = SelectSeq(@, LAMBDA e : ~IsUtterance(e))]

\* media is {} or the one header to have.
SetMedia(doc, media) ==
  LET at == SelectInSeq(doc.entries, IsMedia)
      new == SetToSeq({Header(m) : m \in media})
  IN [doc EXCEPT !.entries =
       IF at = 0 THEN new \o @ ELSE SubSeq(@, 1, at - 1) \o new \o SubSeq(@, at + 1, Len(@))]
-------------------------------------------------------------------------------
(***************************************************************************)
(* Writing and reading.  A text is the languages, the participants, and    *)
(* the remaining lines, of which an utterance has its speaker's code.      *)
(***************************************************************************)

\* A mutant of LineOf: a language is written only where it was written before.
LineAsParsed(utt, languages) ==
  [kind |-> "utterance", code |-> utt.speaker.code, pre |-> utt.pre,
   words |-> utt.words, timing |-> utt.timing, tiers |-> utt.tiers]

\* An utterance whose language is not the first of the file says so.
LineOf(utt, languages) ==
  [kind |-> "utterance", code |-> utt.speaker.code, pre |-> IF utt.lang # languages[1] THEN utt.lang ELSE utt.pre,
   words |-> utt.words, timing |-> utt.timing, tiers |-> utt.tiers]

Stringify(doc) ==
  IF Conflicting(doc) THEN Failed
  ELSE IF ~MediaFits(doc.entries, \E k \in DOMAIN Objects(doc) : Objects(doc)[k].timing # None)
       THEN Failed
  ELSE [languages |-> Languages(doc), participants |-> Speakers(doc),
        lines |-> [k \in DOMAIN doc.entries |->
                     IF IsUtterance(doc.entries[k])
                     THEN LineOf(doc.heap[doc.entries[k].of], Languages(doc)) ELSE doc.entries[k]]]

ParticipantOf(text, code) == SelectSeq(text.participants, LAMBDA p : p.code = code)[1]
ObjectOf(line, text) ==
  [speaker |-> ParticipantOf(text, line.code), pre |-> line.pre,
   lang |-> Resolved(line.pre, text.languages), words |-> line.words, timing |-> line.timing,
   tiers |-> line.tiers]

\* Each utterance line becomes a new object; the other lines stay where they are.
Parse(text) ==
  LET at == SelectSeq([k \in DOMAIN text.lines |-> k], LAMBDA k : IsUtterance(text.lines[k]))
      number(k) == CHOOSE n \in DOMAIN at : at[n] = k
  IN [heap |-> [n \in DOMAIN at |-> ObjectOf(text.lines[at[n]], text)],
      entries |-> [k \in DOMAIN text.lines |->
                     IF IsUtterance(text.lines[k]) THEN Reference(number(k)) ELSE text.lines[k]]]
===============================================================================
