------------------------------ MODULE Transcript ------------------------------
(***************************************************************************)
(* Transcripts, as far as the task runners look at them.  The object model *)
(* itself is that of the talkbank crates, which the runners use: a file is *)
(* its languages, participants and utterances; an utterance its speaker,   *)
(* its content items, what else stands on its main line, and its           *)
(* dependent tiers in order.                                               *)
(*                                                                         *)
(* A content item is a word, a group of words, a filler or a retrace, with *)
(* the words it holds; or a separator or a pause, which hold none.         *)
(***************************************************************************)
EXTENDS Integers, SequencesExt, FiniteSetsExt

CONSTANT None      \* no bullet, no timing, no language, no text

\* The k-th of a finite set of numbers, and the elements of a sequence that stand
\* at such a set of places, in order.
Nth(S, k) == CHOOSE x \in S : Cardinality({y \in S : y < x}) = k - 1
Picked(s, I) == [k \in 1..Cardinality(I) |-> s[Nth(I, k)]]

\* The words of an item that %mor, and that %wor, is aligned with.
MorOf(item) == IF item.kind = "word" THEN item.words ELSE <<>>
WorOf(item) == IF item.kind \in {"word", "filler", "retrace"} THEN item.words ELSE <<>>

Said(utt) == FlattenSeq([i \in DOMAIN utt.items |-> utt.items[i].words])
MorWords(utt) == FlattenSeq([i \in DOMAIN utt.items |-> MorOf(utt.items[i])])
WorWords(utt) == FlattenSeq([i \in DOMAIN utt.items |-> WorOf(utt.items[i])])

TextsOf(words) == [i \in DOMAIN words |-> words[i].text]
TimesOf(words) == [i \in DOMAIN words |-> words[i].time]

Tier(label, content) == [label |-> label, content |-> content]

Has(utt, label) == \E i \in DOMAIN utt.tiers : utt.tiers[i].label = label
Content(utt, label) == utt.tiers[Min({i \in DOMAIN utt.tiers : utt.tiers[i].label = label})].content
With(utt, ts) == [utt EXCEPT !.tiers = @ \o ts]
Without(utt, labels) == [utt EXCEPT !.tiers = SelectSeq(@, LAMBDA t : t.label \notin labels)]

\* The words of a %wor tier, whose items are words and separators; these have no text.
WorTierWords(utt) ==
  LET wor == Content(utt, "wor") IN Picked(wor, {i \in DOMAIN wor : wor[i].text # None})

\* What is a sequence, an utterance and a transcript.
Listing(s) == s \in Seq(Range(s))

\* A time is a span of numbers, where there is one.
IsTime(t) == t # None => t \in [start : Nat, end : Nat]
Clocked(words) == \A k \in DOMAIN words : IsTime(words[k].time)

\* The times of the words of some items, and of what a %wor tier holds.
ItemsClocked(items) == \A i \in DOMAIN items : Clocked(items[i].words)
TiersClocked(ts) == \A i \in DOMAIN ts : ts[i].label = "wor" => Listing(ts[i].content) /\ Clocked(ts[i].content)

\* Items, each with its words; a separator and a pause have none.
ItemsHold(items) ==
  /\ Listing(items)
  /\ \A i \in DOMAIN items :
       /\ Listing(items[i].words)
       /\ items[i].kind \in {"separator", "pause"} => items[i].words = <<>>

IsUtterance(u) ==
  /\ u = [speaker |-> u.speaker, lang |-> u.lang, items |-> u.items, linkers |-> u.linkers,
          postcodes |-> u.postcodes, term |-> u.term, bullet |-> u.bullet, tiers |-> u.tiers]
  /\ ItemsHold(u.items) /\ Listing(u.linkers) /\ Listing(u.postcodes) /\ Listing(u.tiers)
  /\ IsTime(u.bullet) /\ ItemsClocked(u.items) /\ TiersClocked(u.tiers)

\* The keys of a map: no element comes twice.
Distinct(s) == Listing(s) /\ \A i, j \in DOMAIN s : s[i] = s[j] => i = j

IsTranscript(f) ==
  /\ f = [langs |-> f.langs, participants |-> f.participants, ca |-> f.ca, media |-> f.media,
          stamps |-> f.stamps, utts |-> f.utts]
  /\ Distinct(f.participants)
  /\ Listing(f.utts) /\ \A u \in DOMAIN f.utts : IsUtterance(f.utts[u])

\* A transcript with two tiers of one label in an utterance does not parse (E401).
Parses(file) ==
  \A u \in DOMAIN file.utts : LET ts == file.utts[u].tiers IN
    \A i, j \in DOMAIN ts : ts[i].label = ts[j].label => i = j
===============================================================================
