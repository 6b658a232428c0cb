------------------------------ MODULE TaskRunners ------------------------------
(***************************************************************************)
(* A transcript on its way through stages of a pipeline                    *)
(* (src/crates/batchalign/batchalign-core/src/taskrunners/ and base.rs).   *)
(* A stage begins on the file, asks its back end, which may answer the     *)
(* requests of one stage in any order, reports progress, puts the answers  *)
(* into the file, and passes the gate that every stage ends with.          *)
(***************************************************************************)
EXTENDS Utseg, Speaker, Annotators

CONSTANTS
  Tasks,             \* the stages that may come, in any order
  Files,             \* the transcripts to begin with
  Replies(_, _),     \* what a back end of a task may answer to a request
  Unwritable,        \* words that CHAT cannot hold
  Window,            \* MORPHOTAG_DISPATCH_WINDOW
  Scale,             \* PROGRESS_SCALE
  MaxStages          \* bound: how many stages

ASSUME RunnersAssumption ==
  /\ Tasks \subseteq {"utseg", "morphosyntax", "phonetic", "translate", "coref", "speaker", "ai"}
  /\ \A f \in Files : IsTranscript(f)
  /\ Window \in Nat \ {0} /\ Scale \in Nat \ {0} /\ MaxStages \in Nat

VARIABLES
  file,       \* the transcript, as the last finished stage left it
  stage,      \* the task of the stage that runs, or ran last
  phase,      \* "idle", "asking", "refused" by a gate, or "failed"
  requests,   \* what the stage asks
  sent,       \* how many of the requests are sent
  answers,    \* the answers so far, a function on some of the requests
  bar,        \* the progress shown last
  ticked,     \* how far the back end said each request was
  log         \* the stages that ended well

vars == <<file, stage, phase, requests, sent, answers, bar, ticked, log>>

One(request) == <<request>>

\* What each runner asks for; nothing when there is nothing to do.
RequestsOf(t, f) ==
  CASE t = "utseg" -> UtsegRequests(f)
    [] t = "morphosyntax" -> IF MorBypassed(f) THEN <<>> ELSE MorRequests(f)
    [] t = "phonetic" -> IF PhoRequests(f) = <<>> THEN <<>> ELSE One(PhoRequests(f))
    [] t \in {"translate", "coref"} -> IF f.utts = <<>> THEN <<>> ELSE One(TextRequest(f))
    [] t = "speaker" -> One("audio")
    [] t = "ai" -> One(AiRequest(f))

\* A runner that refuses the file before it asks anything.
Refuses(t, f) ==
  \/ t = "morphosyntax" /\ MorRefused(f)
  \/ t = "speaker" /\ ~f.media
  \/ t = "phonetic" /\ PhoRequests(f) # <<>> /\ ~f.media

Applied(t, f, rs, as) ==
  IF rs = <<>> THEN f
  ELSE CASE t = "utseg" -> UtsegApplied(f, as, Unwritable)
         [] t = "morphosyntax" -> MorApplied(f, rs, as)
         [] t = "phonetic" -> PhoApplied(f, rs[1], as[1])
         [] t = "translate" -> TranslateApplied(f, as[1])
         [] t = "coref" -> CorefApplied(f, as[1])
         [] t = "speaker" -> Relabelled(f, as[1])
         [] t = "ai" -> AiApplied(f, as[1])

\* The runners that send through a ScaledProgress.
Scaled(t) == t \in {"morphosyntax", "phonetic"}

Total == Len(requests) * Scale

Init ==
  /\ file \in Files
  /\ phase = "idle" /\ stage = None /\ log = <<>>
  /\ requests = <<>> /\ sent = 0 /\ answers = <<>> /\ bar = 0 /\ ticked = <<>>

\* TaskRunner::apply up to the dispatch.
Begin(t) ==
  /\ phase = "idle" /\ Len(log) < MaxStages
  /\ stage' = t
  /\ phase' = IF Refuses(t, file) THEN "failed" ELSE "asking"
  /\ requests' = RequestsOf(t, file)
  /\ sent' = 0 /\ answers' = <<>> /\ bar' = 0
  /\ ticked' = [i \in DOMAIN RequestsOf(t, file) |-> 0]
  /\ UNCHANGED <<file, log>>

\* The answers that were handed on: in order, up to the first that is missing.
Delivered == Max({k \in 0..Len(requests) : \A i \in 1..k : i \in DOMAIN answers})

\* A request is sent; morphosyntax keeps a window and steps its progress.
Send ==
  /\ phase = "asking" /\ sent < Len(requests)
  /\ stage = "morphosyntax" => sent - Delivered < Window
  /\ sent' = sent + 1
  /\ bar' = IF Scaled(stage) THEN sent * Scale ELSE bar
  /\ UNCHANGED <<file, stage, phase, requests, answers, ticked, log>>

\* A mutant of Shown: the step is taken to be finished.
ShownCeiling(step, inner) == step * Scale + inner

\* The progress of a step: its floor, and how far the back end is in it.
Shown(step, inner) == (step - 1) * Scale + inner

\* ScaledProgress::tick: counted into the step started last, whichever request
\* it is about.
Tick(i) ==
  /\ phase = "asking" /\ Scaled(stage) /\ i \in 1..sent \ DOMAIN answers
  /\ \E inner \in {Scale \div 2, Scale} :
       /\ inner > ticked[i]
       /\ ticked' = [ticked EXCEPT ![i] = inner]
       /\ bar' = Shown(sent, inner)
  /\ UNCHANGED <<file, stage, phase, requests, sent, answers, log>>

\* Each word of some items has a text.
ItemsTexted(items) ==
  \A i \in DOMAIN items : \A k \in DOMAIN items[i].words : items[i].words[k].text # None

\* An answer is of the type its task has; what does not decode is a failure.
Decodes(t, a) ==
  /\ t = "utseg" =>
       /\ Listing(a)
       /\ \A s \in DOMAIN a :
            /\ Listing(a[s].words) /\ Clocked(a[s].words) /\ IsTime(a[s].window)
            /\ \A k \in DOMAIN a[s].words : a[s].words[k].text # None
            /\ ItemsHold(a[s].items) /\ ItemsClocked(a[s].items) /\ ItemsTexted(a[s].items)
  /\ t = "morphosyntax" => Listing(a.words)
  /\ t = "phonetic" => Listing(a) /\ \A i \in DOMAIN a : Listing(a[i].ipa)
  /\ t = "speaker" => Listing(a) /\ Range(a) \subseteq [start : Nat, end : Nat, speaker : Range(Labels)]
  /\ t = "ai" =>
       /\ Listing(a)
       /\ \A i \in DOMAIN a : a[i].block # None =>
            Listing(a[i].block) /\ \A u \in DOMAIN a[i].block : IsUtterance(a[i].block[u])

\* A back end answers.
Answer(i) ==
  /\ phase = "asking" /\ i \in 1..sent \ DOMAIN answers
  /\ \E a \in Replies(stage, requests[i]) :
       /\ Decodes(stage, a)
       /\ answers' = [j \in DOMAIN answers \cup {i} |-> IF j = i THEN a ELSE answers[j]]
  /\ UNCHANGED <<file, stage, phase, requests, sent, bar, ticked, log>>

\* A back end fails; the first failure fails the stage.
BackendFails(i) ==
  /\ phase = "asking" /\ i \in 1..sent \ DOMAIN answers
  /\ phase' = "failed"
  /\ UNCHANGED <<file, stage, requests, sent, answers, bar, ticked, log>>

\* What a stage ends with; validate_stage_output refuses a file that does not parse.
Gate(new) ==
  \/ /\ new = None
     /\ phase' = "failed"
     /\ UNCHANGED <<file, log>>
  \/ /\ new # None /\ ~Parses(new)
     /\ phase' = "refused"
     /\ UNCHANGED <<file, log>>
  \/ /\ new # None /\ Parses(new)
     /\ file' = new /\ log' = Append(log, stage)
     /\ phase' = "idle"

\* The answers are put in.
Inject ==
  /\ phase = "asking" /\ DOMAIN answers = DOMAIN requests
  /\ Gate(Applied(stage, file, requests, answers))
  /\ bar' = IF stage = "morphosyntax" THEN Total ELSE bar
  /\ UNCHANGED <<stage, requests, sent, answers, ticked>>

Next ==
  \/ \E t \in Tasks : Begin(t)
  \/ Send
  \/ \E i \in DOMAIN requests : Tick(i) \/ Answer(i) \/ BackendFails(i)
  \/ Inject

Spec == Init /\ [][Next]_vars
-------------------------------------------------------------------------------
\* Items that end in something said, and not in a retrace, which belongs with its
\* correction.
EndsWell(items) ==
  \E i \in DOMAIN items :
    /\ items[i].kind \notin {"separator", "retrace"}
    /\ \A j \in DOMAIN items : j > i => items[j].kind = "separator"

\* Every tier describes the main line it hangs from, word by word.
Described(utt) ==
  /\ Has(utt, "mor") => TextsOf(Content(utt, "mor")) = TextsOf(MorWords(utt)) /\ Has(utt, "gra")
  /\ Has(utt, "wor") => TextsOf(WorTierWords(utt)) = TextsOf(WorWords(utt))
  /\ Has(utt, "pho") => Len(Content(utt, "pho")) = Len(Units(utt))
  /\ EndsWell(utt.items)

\* An utterance whose tiers describe it, no two of a label, %gra only with its
\* %mor, and whose words have texts.
Sound(utt) ==
  /\ Described(utt)
  /\ Has(utt, "gra") => Has(utt, "mor")
  /\ \A i, j \in DOMAIN utt.tiers : utt.tiers[i].label = utt.tiers[j].label => i = j
  /\ \A i \in DOMAIN utt.tiers : utt.tiers[i].label = "wor" => Listing(utt.tiers[i].content)
  /\ ItemsTexted(utt.items)

\* One that no translation and no coreference has come to.
Unmarked(utt) == Sound(utt) /\ ~Has(utt, "xtra") /\ ~Has(utt, "xcor")

\* The text of a span that makes an utterance reads as its words: they follow one
\* another in both, where %wor is to be written from the words.
ReadsAsWords(items, words) ==
  /\ EndsWell(items)
  /\ WordTimings(words) # <<>> =>
       TextsOf(words) = TextsOf(FlattenSeq([i \in DOMAIN items |-> WorOf(items[i])]))

\* A segmenter whose texts read as its words; a tagger that tags the words it was
\* asked for, each in its place; a language model that writes sound utterances.
Fair(t, request, a) ==
  /\ t = "utseg" => \A s \in DOMAIN a : a[s].items # <<>> => ReadsAsWords(a[s].items, a[s].words)
  /\ t = "morphosyntax" =>
       \A k \in DOMAIN a.words : k \in DOMAIN request.tokens /\ a.words[k].text = request.tokens[k]
  /\ t = "ai" =>
       \A i \in DOMAIN a : a[i].block # None => \A u \in DOMAIN a[i].block : Unmarked(a[i].block[u])

AllSound(f) == \A u \in DOMAIN f.utts : Sound(f.utts[u])

\* Out of a sound file a stage whose answers are fair leaves a sound one: %mor and
\* %gra, %wor and %pho describe their main lines, whatever was split, rebuilt from
\* texts and words, spoken by another voice or revised after a tier was written
\* (taskrunners/, segmentation/mod.rs).  Nothing checks an answer that is not
\* fair: utseg.rs writes the main line of a span from its text and the %wor tier
\* from its words, and morphosyntax.rs only counts the words that were tagged.
SoundStaysSound ==
  [][phase = "asking" /\ phase' = "idle" /\ AllSound(file)
     /\ (\A i \in DOMAIN answers : Fair(stage, requests[i], answers[i])) => AllSound(file')]_vars

\* What is said, how each utterance begins and ends, and the comments: %com and
\* %xtra.  (%xcor is left out: segmentation/mod.rs:387-393 and 409-411 say that a
\* split drops coreference, and 441 hands it to the first child.)
Comments(utt) ==
  FlattenSeq([i \in DOMAIN utt.tiers |->
    IF utt.tiers[i].label \in {"com", "xtra"} THEN <<utt.tiers[i]>> ELSE <<>>])
Substance(f) ==
  <<FlattenSeq([u \in DOMAIN f.utts |-> Said(f.utts[u])]),
    FlattenSeq([u \in DOMAIN f.utts |-> f.utts[u].linkers]),
    FlattenSeq([u \in DOMAIN f.utts |-> f.utts[u].postcodes]),
    FlattenSeq([u \in DOMAIN f.utts |-> Comments(f.utts[u])])>>

NewWords ==
  stage = "utseg" /\ \E u \in DOMAIN file.utts : AssignmentsFromSpans(Row(file.utts[u]), answers[u]) = None

\* A stage that is not asked for new words changes none: what the main lines
\* hold, all their words in order, survives every split, relabelling and
\* annotation, and so do the comments and the translations, but for the stage
\* that writes these.
SubstanceKept ==
  [][phase = "asking" /\ phase' = "idle" /\ stage # "ai" /\ ~NewWords =>
       LET old == Substance(file)
           new == Substance(file') IN
       /\ new[1] = old[1] /\ new[2] = old[2] /\ new[3] = old[3]
       /\ stage # "translate" => new[4] = old[4]]_vars

\* The gate after a stage (base.rs, validate_stage_output) refuses only a second
\* translation or a second coreference of the same file: every other runner may
\* run again on what it, or any other one, wrote.
RefusedOnlyForRepeats ==
  phase = "refused" => stage \in {"translate", "coref"} /\ stage \in Range(log)

\* A segmentation that the runner accepts is aligned in the eyes of the library
\* too and needs no review, and an utterance the library would not send is never
\* split (utseg.rs, assignments_from_spans; segmentation/mod.rs,
\* validate_utseg_response and collect_utseg_payloads).
SplitsAgreed ==
  phase = "asking" /\ stage = "utseg" =>
    \A u \in DOMAIN answers :
      LET utt == file.utts[u]
          given == AssignmentsFromSpans(Row(utt), answers[u])
      IN IF u \in Payloads(file) THEN given \notin {None, <<>>} => DecisionOf(Validated(utt, given)) = None
         ELSE /\ ~DecisionOf(NotApplicable(file)[u]).needsReview
              /\ given # None => Split(utt, given) = <<utt>>

\* Stages agree on what they hand one another, whatever is answered: no runner
\* writes what the gate then refuses, but for a repeat, and the runner of
\* segmentation and the library judge an answer alike.
StagesAgree == RefusedOnlyForRepeats /\ SplitsAgreed

\* No code made up for a voice is declared for another one.
CodesApart(f) ==
  \A i \in DOMAIN f.participants : \A k \in DOMAIN Par : f.participants[i] = Par[k] => i = k + 1

\* After a diarization every speaker is declared, and two timed utterances have
\* one speaker exactly when the same label is heard in the middle of both, unless
\* a made-up code was taken (speaker.rs, relabel_utterances_by_diarization).
VoicesToldApart ==
  [][phase = "asking" /\ phase' = "idle" /\ stage = "speaker" /\ answers[1] # <<>> =>
       LET timed == {u \in DOMAIN file'.utts : Timing(file'.utts[u]) # None}
           label(u) == answers[1][SegmentAt(answers[1], Middle(Timing(file'.utts[u])))].speaker
       IN /\ CodesApart(file) =>
               \A u, v \in timed : file'.utts[u].speaker = file'.utts[v].speaker <=> label(u) = label(v)
          /\ \A u \in timed : file'.utts[u].speaker \in Range(file'.participants)]_vars

\* The progress of a stage stays within its total, in whatever order the
\* concurrent requests of a stage report (base.rs, ScaledProgress).
BarWithinTotal == phase = "asking" => bar <= Total

\* Why it does: what a stage asks and has been answered belongs to the file it
\* began on, which no answer makes anything else than a transcript, and the bar
\* counts no step that was not sent (base.rs, ScaledProgress::emit_scaled).
StageUnderWay ==
  /\ IsTranscript(file)
  /\ phase = "asking" =>
       /\ stage \in Tasks /\ requests = RequestsOf(stage, file) /\ Listing(requests)
       /\ sent \in 0..Len(requests) /\ DOMAIN answers \subseteq 1..sent
       /\ \A i \in DOMAIN answers : Decodes(stage, answers[i])
       /\ bar \in 0..(sent * Scale)
===============================================================================
