------------------------------ MODULE Annotators ------------------------------
(***************************************************************************)
(* The runners that add tiers to the utterances of a transcript, or revise *)
(* them (src/crates/batchalign/batchalign-core/src/taskrunners/:           *)
(* morphosyntax.rs, translate.rs, coref.rs, phonetic.rs, ai.rs).  Each is  *)
(* what it asks of its back end, and the file with the answer put in, None *)
(* when the runner fails.                                                  *)
(***************************************************************************)
EXTENDS Transcript

CONSTANT Supported    \* the languages morphotag has a model for

PrimaryLanguage(file) == IF file.langs = <<>> THEN None ELSE file.langs[1]
-------------------------------------------------------------------------------
(***************************************************************************)
(* Morphosyntax.  An answer is the words it tagged, each with the numbers  *)
(* of its %gra relations, one for the word and one for each clitic, and    *)
(* the number of the terminator, None without one.                         *)
(***************************************************************************)

\* A file under the CA option passes as it is; one in a language without a
\* model is refused.
MorBypassed(file) == file.ca
MorRefused(file) == ~file.ca /\ PrimaryLanguage(file) \notin Supported \cup {None}

\* resolve_utterance_language, extract_input.
MorRequest(file, u) ==
  LET utt == file.utts[u] IN
  [utt |-> u, lang |-> IF utt.lang # None THEN utt.lang ELSE PrimaryLanguage(file),
   tokens |-> TextsOf(MorWords(utt))]

\* A mutant of MorRequests: an utterance that has its %mor is asked for again.
AllMorRequests(file) == [u \in DOMAIN file.utts |-> MorRequest(file, u)]

\* MorphotagBatch::new: the utterances that have no %mor yet, in order.
MorRequests(file) ==
  LET U == {u \in DOMAIN file.utts : ~Has(file.utts[u], "mor")}
  IN [i \in 1..Cardinality(U) |-> MorRequest(file, Nth(U, i))]

\* build_tiers with try_align_mor_gra: "none" without a tagged word or a
\* terminator, "error" when the relations are not numbered one after the other.
MorTiers(answer) ==
  LET words == Picked(answer.words, {k \in DOMAIN answer.words : answer.words[k].units # <<>>})
      numbers == Append(FlattenSeq([k \in DOMAIN words |-> words[k].units]), answer.term)
  IN IF answer.term = None \/ words = <<>> THEN "none"
     ELSE IF numbers # [n \in 1..Len(numbers) |-> n] THEN "error"
     ELSE <<Tier("mor", words), Tier("gra", numbers)>>

\* align_main_to_mor: one item for each word, and a terminator on both.
MorFits(utt, tiers) == Len(tiers[1].content) = Len(MorWords(utt)) /\ utt.term # None

MorOrNone(utt, answer) ==
  LET tiers == MorTiers(answer)
  IN IF tiers = "none" THEN utt
     ELSE IF MorFits(utt, tiers) THEN With(utt, tiers) ELSE utt

\* A mutant of AnswerFor: the answers are taken in the order of the utterances.
AnswerAt(requests, u) == IF u \in DOMAIN requests THEN u ELSE 0

\* The answer for an utterance is found by its number; 0 when it was not asked.
AnswerFor(requests, u) ==
  IF \E i \in DOMAIN requests : requests[i].utt = u
  THEN CHOOSE i \in DOMAIN requests : requests[i].utt = u ELSE 0

\* inject_mor_gra_tiers_selective.
MorApplied(file, requests, answers) ==
  IF \E i \in DOMAIN answers : MorTiers(answers[i]) = "error" THEN None
  ELSE [file EXCEPT !.utts = [u \in DOMAIN @ |->
          IF AnswerFor(requests, u) = 0 THEN @[u]
          ELSE MorOrNone(@[u], answers[AnswerFor(requests, u)])]]
-------------------------------------------------------------------------------
(***************************************************************************)
(* Translation and coreference: one request for the whole file, a text for *)
(* each utterance in the answer, "" for none.                              *)
(***************************************************************************)

\* utterance_texts, collect_inputs.
TextRequest(file) ==
  [u \in DOMAIN file.utts |->
     [speaker |-> file.utts[u].speaker,
      texts |-> FlattenSeq([i \in DOMAIN file.utts[u].items |-> TextsOf(file.utts[u].items[i].words)])]]

\* inject_translation_tiers, inject_coref_tiers.
TextsApplied(file, label, texts) ==
  IF Len(texts) # Len(file.utts) THEN None
  ELSE [file EXCEPT !.utts = [u \in DOMAIN @ |->
          IF texts[u] = "" THEN @[u] ELSE With(@[u], <<Tier(label, texts[u])>>)]]

\* stamp_provenance: a stage has one comment, of its last run.
Stamped(file, stage, engine) ==
  LET at == {i \in DOMAIN file.stamps : file.stamps[i].stage = stage}
      stamp == [stage |-> stage, engine |-> engine]
  IN [file EXCEPT !.stamps = IF at = {} THEN Append(@, stamp) ELSE [@ EXCEPT ![Min(at)] = stamp]]

TranslateApplied(file, answer) ==
  LET new == TextsApplied(file, "xtra", answer.texts)
  IN IF new = None \/ answer.provider = None THEN new ELSE Stamped(new, "translate", answer.provider)

CorefApplied(file, answer) == TextsApplied(file, "xcor", answer.texts)
-------------------------------------------------------------------------------
(***************************************************************************)
(* Phonetic transcription: one request, of the utterances with a window    *)
(* and no %pho yet.  A unit is a word or a pause; an answer the utterances *)
(* with their IPA, a unit of which is a stress mark and an onset.          *)
(***************************************************************************)

Units(utt) ==
  FlattenSeq([i \in DOMAIN utt.items |->
    LET item == utt.items[i] IN
    IF item.kind = "pause" THEN <<[pause |-> TRUE, text |-> "pause"]>>
    ELSE [k \in DOMAIN MorOf(item) |-> [pause |-> FALSE, text |-> MorOf(item)[k].text]]])

\* extract_utterances.
PhoRequests(file) ==
  LET asked(utt) == /\ ~Has(utt, "pho") /\ Units(utt) # <<>>
                    /\ utt.bullet # None /\ utt.bullet.end > utt.bullet.start
      U == {u \in DOMAIN file.utts : asked(file.utts[u])}
  IN [i \in 1..Cardinality(U) |-> [utt |-> Nth(U, i), units |-> Units(file.utts[Nth(U, i)])]]

\* normalize_english_initial_stop: the plain stop of an aspirated one, the
\* voiced stop of a plain one; an affricate stays.
InitialStop(onset) ==
  CASE onset = "ph" -> "p" [] onset = "th" -> "t" [] onset = "kh" -> "k"
    [] onset = "p" -> "b" [] onset = "t" -> "d" [] onset = "k" -> "g"
    [] OTHER -> onset

Ipa(file, unit, ipa) ==
  IF PrimaryLanguage(file) = "eng" /\ ~unit.pause THEN InitialStop(ipa) ELSE ipa

\* Every result is for its utterance, unit by unit; a pause stays a pause.
PhoOwned(requests, answer) ==
  /\ Len(answer) = Len(requests)
  /\ \A i \in DOMAIN requests :
       /\ answer[i].utt = requests[i].utt
       /\ Len(answer[i].ipa) = Len(requests[i].units)
       /\ \A k \in DOMAIN answer[i].ipa :
            /\ answer[i].ipa[k] \notin {"", "blank"}
            /\ requests[i].units[k].pause => answer[i].ipa[k] = "pause"

\* inject_tiers: on a copy, which replaces the file when it parses.
PhoApplied(file, requests, answer) ==
  LET at(u) == {i \in DOMAIN requests : requests[i].utt = u}
      ipaOf(i) == [k \in DOMAIN answer[i].ipa |-> Ipa(file, requests[i].units[k], answer[i].ipa[k])]
      revised == [file EXCEPT !.utts = [u \in DOMAIN @ |->
                    IF at(u) = {} THEN @[u] ELSE With(@[u], <<Tier("pho", ipaOf(Min(at(u))))>>)]]
  IN IF PhoOwned(requests, answer) /\ Parses(revised) THEN revised ELSE None
-------------------------------------------------------------------------------
(***************************************************************************)
(* Revision by a language model: one request, of every utterance with its  *)
(* neighbours; an answer is a sequence of revisions, each the number of an *)
(* utterance and the utterances to put in its place.                       *)
(***************************************************************************)

\* context_for.
AiRequest(file) ==
  LET N == Len(file.utts) IN
  [u \in 1..N |-> [utt |-> u, context |-> SelectSeq(<<u - 1, u + 1>>, LAMBDA v : v \in 1..N)]]

Spliced(utts, u, block) == SubSeq(utts, 1, u - 1) \o block \o SubSeq(utts, u + 1, Len(utts))

\* The file with the revision of utterance u; one that does not parse is left out.
Revised(file, answer, u) ==
  LET block == answer[CHOOSE i \in DOMAIN answer : answer[i].utt = u].block
      new == [file EXCEPT !.utts = Spliced(@, u, block)]
  IN IF block # None /\ Parses(new) THEN new ELSE file

\* apply_revisions: from the last utterance on, so that the numbers before it
\* stay good; a number out of range, or twice, fails the runner.
AiApplied(file, answer) ==
  LET revised == {answer[i].utt : i \in DOMAIN answer}
      n == Cardinality(revised)
      after[k \in 0..n] ==
        IF k = 0 THEN file ELSE Revised(after[k - 1], answer, Nth(revised, n + 1 - k))
  IN IF \/ ~Parses(file)
        \/ \E i \in DOMAIN answer : answer[i].utt \notin DOMAIN file.utts
        \/ \E i, j \in DOMAIN answer : i # j /\ answer[i].utt = answer[j].utt
     THEN None
     ELSE after[n]
===============================================================================
