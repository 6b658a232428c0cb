------------------------------ MODULE FaTimings ------------------------------
(***************************************************************************)
(* The forced-alignment stage (taskrunners/fa.rs): for one CHAT file it    *)
(* either reuses the word times of an earlier run (its %wor tiers) or asks *)
(* the backend for the utterances whose times it cannot trust, writes the  *)
(* answer into the %wor tiers and the utterance bullets, and repairs what  *)
(* is out of order.  A file may be run again: the stage then reads what it *)
(* wrote.                                                                  *)
(*                                                                         *)
(* A word is a model value, an utterance keeps the words of its main tier, *)
(* its bullet and its %wor tier.  Every loop of the code that changes the  *)
(* file is a phase here, one step per iteration.                           *)
(***************************************************************************)
EXTENDS Integers, Sequences, FiniteSets, FiniteSetsExt

CONSTANTS
  Word,        \* the words of the main tiers, by their cleaned text
  Parts,       \* how many tokens the backend is asked for one word
  Filler,      \* the words that are fillers (&-um, &-you_know)
  Documents,   \* the files the stage may be given
  Answers,     \* what the backend may answer
  MinWord,     \* MIN_WORD_DURATION_MS: 40 ms
  MaxLead,     \* MAX_AUTHORITATIVE_START_LEAD_MS: 2000 ms
  MaxRuns,     \* bound: how often the file is run
  None

VARIABLES
  lines,       \* the utterances of the file
  noAlign,     \* the file has @Options: NoAlign
  unlinked,    \* its @Media header says "unlinked"
  phase,       \* where the stage is
  kept,        \* the segments reused, None where the backend is asked
  aligned,     \* the segments to write, reused or fresh
  at,          \* the utterance the current loop is at
  words,       \* the %wor words being built for that utterance
  next,        \* the word the loops over that utterance are at
  cursor,      \* the tokens of the utterance already used
  lastStart,   \* the latest start met by the ordering loop
  route,       \* history: how the last run went
  own,         \* history: earlier runs wrote every utterance with words
  loaded,      \* history: the utterances as this run found them
  runs         \* history: the runs finished

vars == <<lines, noAlign, unlinked, phase, kept, aligned, at, words, next,
          cursor, lastStart, route, own, loaded, runs>>

-------------------------------------------------------------------------------
(* The file and the answers. *)

Span == [start: Nat, end: Nat]
Bullet == [start: Nat, end: Nat, source: {"Utr", "Authoritative", "Other"}]
WorWord == [word: Word, span: Span \cup {None}]
Utterance == [words: Seq(Word), bullet: Bullet \cup {None},
              wor: Seq(WorWord) \cup {None}, review: BOOLEAN]
Segment == Seq(Span)

ASSUME DataAssumption ==
  /\ Parts \in [Word -> Nat]
  /\ Filler \subseteq Word
  /\ Documents \subseteq Seq(Utterance)
  /\ Answers \subseteq Seq(Segment)
  /\ MinWord \in Nat \ {0}
  /\ MaxLead \in Nat
  /\ MaxRuns \in Nat

ASSUME NoneAssumption ==
  /\ None \notin Nat
  /\ None \notin Span
  /\ None \notin Bullet
  /\ None \notin Seq(WorWord)
  /\ None \notin Segment

Duration(span) == IF span.end > span.start THEN span.end - span.start ELSE 0

\* A token without a usable time comes back as start = end.
Usable(span) == span.start < span.end

\* The smallest span around the usable ones of a sequence of spans.
Cover(spans) ==
  LET usable == {i \in DOMAIN spans : Usable(spans[i])}
  IN IF usable = {} THEN None
     ELSE [start |-> Min({spans[i].start : i \in usable}),
           end   |-> Max({spans[i].end : i \in usable})]

Bulleted(file, i) == file[i].bullet # None

\* The start of the first bullet after utterance i, None when there is none.
NextStart(file, i) ==
  LET later == {j \in (i + 1)..Len(file) : Bulleted(file, j)}
  IN IF later = {} THEN None ELSE file[Min(later)].bullet.start

-------------------------------------------------------------------------------
(* Which word times of an earlier run are trusted. *)

DominanceWords == 3   \* MIN_WORDS_FOR_DOMINANCE_CHECK

First(u) == u.wor[1].span.start
Last(u) == u.wor[Len(u.wor)].span.end

\* One word takes more than 0.4 of the utterance.
Dominated(u) ==
  /\ Len(u.wor) >= DominanceWords
  /\ Last(u) > First(u)
  /\ \E i \in DOMAIN u.wor : 5 * Duration(u.wor[i].span) > 2 * (Last(u) - First(u))

CleanWor(u) ==
  /\ u.words # <<>>
  /\ u.wor # None
  /\ [i \in DOMAIN u.wor |-> u.wor[i].word] = u.words
  /\ \A i \in DOMAIN u.wor :
       /\ u.wor[i].span # None
       /\ Duration(u.wor[i].span) >= MinWord
       /\ i > 1 => u.wor[i].span.start >= u.wor[i - 1].span.end
  /\ ~Dominated(u)

Trusted(file, i) ==
  /\ CleanWor(file[i])
  /\ NextStart(file, i) # None => Last(file[i]) <= NextStart(file, i)

\* Every utterance with words can be refreshed from its own %wor tier.
CompleteReuse(file) ==
  /\ \E i \in DOMAIN file : file[i].words # <<>>
  /\ \A i \in DOMAIN file : file[i].words # <<>> => Trusted(file, i)

\* Bullet::new
NewBullet(s, e) == [start |-> s, end |-> e, source |-> "Authoritative"]

\* A mutant of Refreshed: the bullet is padded in front of the first word.
RefreshedPadded(file) ==
  [i \in DOMAIN file |->
     IF file[i].words = <<>> THEN file[i]
     ELSE [file[i] EXCEPT !.bullet =
             NewBullet(IF First(file[i]) > MinWord THEN First(file[i]) - MinWord ELSE 0,
                       Last(file[i]))]]

Refreshed(file) ==
  [i \in DOMAIN file |->
     IF file[i].words = <<>> THEN file[i]
     ELSE [file[i] EXCEPT !.bullet = NewBullet(First(file[i]), Last(file[i]))]]

WithoutReview(file) == [i \in DOMAIN file |-> [file[i] EXCEPT !.review = FALSE]]

\* A reused segment has one token per %wor word.
ReusedSegments(file) ==
  [i \in DOMAIN file |->
     IF Trusted(file, i) THEN [j \in DOMAIN file[i].wor |-> file[i].wor[j].span]
     ELSE None]

Asked(segments) == {i \in DOMAIN segments : segments[i] = None}

\* Reused and fresh segments in transcript order.
Merged(segments, fresh) ==
  [i \in DOMAIN segments |->
     IF segments[i] # None THEN segments[i]
     ELSE fresh[Cardinality({j \in Asked(segments) : j <= i})]]

-------------------------------------------------------------------------------
(* Writing one utterance. *)

\* A word with the times of its tokens, those behind the first n.
Collapsed(word, tokens, n) ==
  [word |-> word, span |-> Cover(SubSeq(tokens, n + 1, n + Parts[word]))]

Retimed(word, s, e) == [word EXCEPT !.span = [start |-> s, end |-> e]]

TooShort(span) == Duration(span) > 0 /\ Duration(span) < MinWord

\* A mutant of FromFollowing: a word that is not too short is moved as well.
FromFollowingAny(ws, i) ==
  LET a == ws[i].span
      b == ws[i + 1].span
      boundary == a.start + MinWord
  IN IF a # None /\ b # None /\ b.start <= a.end /\ boundary < b.end
     THEN [ws EXCEPT ![i] = Retimed(ws[i], a.start, boundary),
                     ![i + 1] = Retimed(ws[i + 1], boundary, b.end)]
     ELSE ws

\* Word i takes what it lacks from word i + 1.
FromFollowing(ws, i) ==
  LET a == ws[i].span
      b == ws[i + 1].span
      boundary == a.start + MinWord
  IN IF /\ a # None /\ b # None
        /\ TooShort(a) /\ b.start <= a.end /\ boundary < b.end
     THEN [ws EXCEPT ![i] = Retimed(ws[i], a.start, boundary),
                     ![i + 1] = Retimed(ws[i + 1], boundary, b.end)]
     ELSE ws

\* A mutant of FromPreceding: the subtraction is not checked.
FromPrecedingUnchecked(ws, i) ==
  LET a == ws[i - 1].span
      b == ws[i].span
      boundary == b.end - MinWord
  IN IF /\ a # None /\ b # None
        /\ TooShort(b) /\ b.start <= a.end
     THEN [ws EXCEPT ![i - 1] = Retimed(ws[i - 1], a.start, boundary),
                     ![i] = Retimed(ws[i], boundary, b.end)]
     ELSE ws

\* Word i takes what it lacks from word i - 1.
FromPreceding(ws, i) ==
  LET a == ws[i - 1].span
      b == ws[i].span
      boundary == b.end - MinWord
  IN IF /\ a # None /\ b # None
        /\ TooShort(b) /\ b.end >= MinWord
        /\ b.start <= a.end /\ boundary > a.start
     THEN [ws EXCEPT ![i - 1] = Retimed(ws[i - 1], a.start, boundary),
                     ![i] = Retimed(ws[i], boundary, b.end)]
     ELSE ws

\* has_untimed_leading_filler_coverage
UntimedLeadingFiller(ws) ==
  \E i \in DOMAIN ws :
    /\ ws[i].word \in Filler
    /\ \A j \in 1..i : ws[j].span = None

\* The start of the bullet of utterance u whose timed words start at s.
BulletStart(u, ws, s) ==
  IF u.bullet = None \/ u.bullet.source # "Authoritative" THEN s
  ELSE IF u.wor # None /\ ~UntimedLeadingFiller(ws) /\ s > u.bullet.start + MaxLead
       THEN s
       ELSE IF u.bullet.start < s THEN u.bullet.start ELSE s

BulletEnd(u, e) ==
  IF u.bullet = None \/ u.bullet.source # "Authoritative" THEN e
  ELSE IF u.bullet.end > e THEN u.bullet.end ELSE e

Degenerate(bullet) == bullet.source = "Authoritative" /\ bullet.end <= bullet.start

\* A mutant of BulletFor: the bullet spans the first to the last timed word as
\* they come, not the earliest to the latest.
BulletForListed(u, ws, tokens) ==
  LET timed == SelectSeq(tokens, Usable)
  IN IF timed = <<>> THEN u.bullet
     ELSE NewBullet(timed[1].start, timed[Len(timed)].end)

BulletFor(u, ws, tokens) ==
  LET span == Cover(tokens)
  IN IF span # None
     THEN NewBullet(BulletStart(u, ws, span.start), BulletEnd(u, span.end))
     ELSE IF u.bullet # None /\ Degenerate(u.bullet) THEN None
     ELSE u.bullet

-------------------------------------------------------------------------------
(* One run of the stage. *)

Init ==
  /\ lines \in Documents
  /\ noAlign \in BOOLEAN
  /\ unlinked \in BOOLEAN
  /\ phase = "start"
  /\ kept = <<>> /\ aligned = <<>>
  /\ at = 1 /\ words = <<>> /\ next = 1 /\ cursor = 0 /\ lastStart = 0
  /\ route = "none" /\ own = FALSE /\ loaded = lines /\ runs = 0

\* @Options: NoAlign passes the file through before anything else.
PassThrough ==
  /\ phase = "start" /\ noAlign
  /\ phase' = "done" /\ route' = "passed"
  /\ UNCHANGED <<lines, noAlign, unlinked, kept, aligned, at, words, next,
                 cursor, lastStart, own, loaded, runs>>

\* The fast path: bullets from complete %wor tiers, no audio, no backend.
Refresh ==
  /\ phase = "start" /\ ~noAlign
  /\ CompleteReuse(lines)
  /\ lines' = Refreshed(WithoutReview(lines))
  /\ unlinked' = FALSE
  /\ phase' = "done" /\ route' = "refreshed"
  /\ UNCHANGED <<noAlign, kept, aligned, at, words, next, cursor, lastStart,
                 own, loaded, runs>>

\* No media, or media that cannot be decoded.
NoAudio ==
  /\ phase = "start" /\ ~noAlign
  /\ ~CompleteReuse(lines)
  /\ lines' = WithoutReview(lines)
  /\ phase' = "failed" /\ route' = "audio"
  /\ UNCHANGED <<noAlign, unlinked, kept, aligned, at, words, next, cursor,
                 lastStart, own, loaded, runs>>

\* Decide per utterance what is reused and ask the backend for the rest.
Dispatch ==
  /\ phase = "start" /\ ~noAlign
  /\ ~CompleteReuse(lines)
  /\ lines' = WithoutReview(lines)
  /\ kept' = ReusedSegments(lines)
  /\ phase' = "dispatched" /\ route' = "injected"
  /\ UNCHANGED <<noAlign, unlinked, aligned, at, words, next, cursor,
                 lastStart, own, loaded, runs>>

BackendFails ==
  /\ phase = "dispatched"
  /\ phase' = "failed" /\ route' = "backend"
  /\ UNCHANGED <<lines, noAlign, unlinked, kept, aligned, at, words, next,
                 cursor, lastStart, own, loaded, runs>>

\* The answer has a segment too few or too many.
AnswerMiscounts ==
  /\ phase = "dispatched"
  /\ \E fresh \in Answers : Len(fresh) # Cardinality(Asked(kept))
  /\ phase' = "failed" /\ route' = "miscount"
  /\ UNCHANGED <<lines, noAlign, unlinked, kept, aligned, at, words, next,
                 cursor, lastStart, own, loaded, runs>>

AnswerMerges ==
  /\ phase = "dispatched"
  /\ \E fresh \in Answers :
       /\ Len(fresh) = Cardinality(Asked(kept))
       /\ aligned' = Merged(kept, fresh)
  /\ phase' = "inject" /\ at' = 1
  /\ UNCHANGED <<lines, noAlign, unlinked, kept, words, next, cursor,
                 lastStart, route, own, loaded, runs>>

\* An utterance without tokens keeps its %wor tier and its bullet.
SkipUtterance ==
  /\ phase = "inject" /\ at <= Len(lines)
  /\ aligned[at] = <<>>
  /\ at' = at + 1
  /\ UNCHANGED <<lines, noAlign, unlinked, phase, kept, aligned, words, next,
                 cursor, lastStart, route, own, loaded, runs>>

Collapse ==
  /\ phase = "inject" /\ at <= Len(lines)
  /\ aligned[at] # <<>>
  /\ phase' = "collapse" /\ words' = <<>> /\ next' = 1 /\ cursor' = 0
  /\ UNCHANGED <<lines, noAlign, unlinked, kept, aligned, at, lastStart,
                 route, own, loaded, runs>>

\* The next word takes as many tokens as were asked for it.
CollapseWord ==
  /\ phase = "collapse" /\ next <= Len(lines[at].words)
  /\ LET word == lines[at].words[next]
     IN /\ cursor + Parts[word] <= Len(aligned[at])
        /\ words' = Append(words, Collapsed(word, aligned[at], cursor))
        /\ cursor' = cursor + Parts[word]
  /\ next' = next + 1
  /\ UNCHANGED <<lines, noAlign, unlinked, phase, kept, aligned, at,
                 lastStart, route, own, loaded, runs>>

CollapseEnds ==
  /\ phase = "collapse" /\ next > Len(lines[at].words)
  /\ cursor = Len(aligned[at])
  /\ phase' = "following" /\ next' = 1
  /\ UNCHANGED <<lines, noAlign, unlinked, kept, aligned, at, words, cursor,
                 lastStart, route, own, loaded, runs>>

\* The tokens do not add up to the words of the utterance.
TokensMiscount ==
  /\ phase = "collapse"
  /\ IF next <= Len(lines[at].words)
     THEN cursor + Parts[lines[at].words[next]] > Len(aligned[at])
     ELSE cursor # Len(aligned[at])
  /\ phase' = "failed" /\ route' = "tokens"
  /\ UNCHANGED <<lines, noAlign, unlinked, kept, aligned, at, words, next,
                 cursor, lastStart, own, loaded, runs>>

RebalanceFromFollowing ==
  /\ phase = "following"
  /\ IF next < Len(words)
     THEN /\ words' = FromFollowing(words, next)
          /\ next' = next + 1 /\ phase' = phase
     ELSE /\ words' = words
          /\ next' = 2 /\ phase' = "preceding"
  /\ UNCHANGED <<lines, noAlign, unlinked, kept, aligned, at, cursor,
                 lastStart, route, own, loaded, runs>>

RebalanceFromPreceding ==
  /\ phase = "preceding" /\ next <= Len(words)
  /\ words' = FromPreceding(words, next)
  /\ next' = next + 1
  /\ UNCHANGED <<lines, noAlign, unlinked, phase, kept, aligned, at, cursor,
                 lastStart, route, own, loaded, runs>>

\* Replace the %wor tier, refine the bullet and go to the next utterance.
Attach ==
  /\ phase = "preceding" /\ next > Len(words)
  /\ lines' = [lines EXCEPT ![at] =
                 [lines[at] EXCEPT !.wor = words,
                                   !.bullet = BulletFor(lines[at], words, aligned[at])]]
  /\ phase' = "inject" /\ at' = at + 1
  /\ UNCHANGED <<noAlign, unlinked, kept, aligned, words, next, cursor,
                 lastStart, route, own, loaded, runs>>

InjectionEnds ==
  /\ phase = "inject" /\ at > Len(lines)
  /\ phase' = "order" /\ at' = 1 /\ lastStart' = 0
  /\ UNCHANGED <<lines, noAlign, unlinked, kept, aligned, words, next,
                 cursor, route, own, loaded, runs>>

Stripped(file, i) ==
  [file EXCEPT ![i] = [file[i] EXCEPT !.bullet = None, !.wor = None]]

\* First loop of enforce_fa_monotonicity: a bullet that starts before an
\* earlier one goes, with its %wor tier.
Order ==
  /\ phase = "order" /\ at <= Len(lines)
  /\ IF ~Bulleted(lines, at)
     THEN UNCHANGED <<lines, lastStart>>
     ELSE IF lines[at].bullet.start < lastStart
     THEN lines' = Stripped(lines, at) /\ UNCHANGED lastStart
     ELSE lastStart' = lines[at].bullet.start /\ UNCHANGED lines
  /\ at' = at + 1
  /\ UNCHANGED <<noAlign, unlinked, phase, kept, aligned, words, next,
                 cursor, route, own, loaded, runs>>

OrderEnds ==
  /\ phase = "order" /\ at > Len(lines)
  /\ phase' = "clamp" /\ at' = 1
  /\ UNCHANGED <<lines, noAlign, unlinked, kept, aligned, words, next,
                 cursor, lastStart, route, own, loaded, runs>>

Clamped(file, i, limit) ==
  [file EXCEPT ![i] = [file[i] EXCEPT !.bullet.end = limit]]

\* A mutant of Clamp: ends are compared with the bullet of the next utterance,
\* which may have none.
ClampAdjacent ==
  /\ phase = "clamp" /\ at <= Len(lines)
  /\ IF /\ Bulleted(lines, at) /\ at < Len(lines) /\ Bulleted(lines, at + 1)
        /\ lines[at].bullet.end > lines[at + 1].bullet.start
     THEN lines' = Clamped(lines, at, lines[at + 1].bullet.start)
     ELSE UNCHANGED lines
  /\ at' = at + 1
  /\ UNCHANGED <<noAlign, unlinked, phase, kept, aligned, words, next,
                 cursor, lastStart, route, own, loaded, runs>>

\* Second loop: an end beyond the next start is cut back to it.  The pairs
\* are taken before the loop; as it strips only the earlier one of a pair, the
\* later one still is the next bullet of the file.
Clamp ==
  /\ phase = "clamp" /\ at <= Len(lines)
  /\ LET limit == NextStart(lines, at)
     IN IF ~Bulleted(lines, at) \/ limit = None \/ lines[at].bullet.end <= limit
        THEN UNCHANGED lines
        ELSE IF limit <= lines[at].bullet.start
        THEN lines' = Stripped(lines, at)
        ELSE lines' = Clamped(lines, at, limit)
  /\ at' = at + 1
  /\ UNCHANGED <<noAlign, unlinked, phase, kept, aligned, words, next,
                 cursor, lastStart, route, own, loaded, runs>>

Finish ==
  /\ phase = "clamp" /\ at > Len(lines)
  /\ unlinked' = FALSE
  /\ phase' = "done"
  /\ UNCHANGED <<lines, noAlign, kept, aligned, at, words, next, cursor,
                 lastStart, route, own, loaded, runs>>

\* A bullet read back from a file is authoritative.
Reloaded(file) ==
  [i \in DOMAIN file |->
     IF file[i].bullet = None THEN file[i]
     ELSE [file[i] EXCEPT !.bullet.source = "Authoritative"]]

\* The backend may answer an utterance with no token at all; it is left alone.
WroteAll == \A i \in DOMAIN lines : lines[i].words # <<>> => aligned[i] # <<>>

\* The file is saved and run again.
Rerun ==
  /\ phase = "done" /\ runs < MaxRuns
  /\ lines' = Reloaded(lines) /\ loaded' = lines'
  /\ own' = (own \/ (route = "injected" /\ WroteAll))
  /\ phase' = "start" /\ runs' = runs + 1
  /\ kept' = <<>> /\ aligned' = <<>>
  /\ at' = 1 /\ words' = <<>> /\ next' = 1 /\ cursor' = 0 /\ lastStart' = 0
  /\ UNCHANGED <<noAlign, unlinked, route>>

Next ==
  \/ PassThrough \/ Refresh \/ NoAudio \/ Dispatch
  \/ BackendFails \/ AnswerMiscounts \/ AnswerMerges
  \/ SkipUtterance \/ Collapse \/ CollapseWord \/ CollapseEnds \/ TokensMiscount
  \/ RebalanceFromFollowing \/ RebalanceFromPreceding \/ Attach \/ InjectionEnds
  \/ Order \/ OrderEnds \/ Clamp \/ Finish
  \/ Rerun

Spec == Init /\ [][Next]_vars

-------------------------------------------------------------------------------
(* Properties. *)

TypeOK ==
  /\ lines \in Seq(Utterance) /\ loaded \in Seq(Utterance)
  /\ noAlign \in BOOLEAN /\ unlinked \in BOOLEAN /\ own \in BOOLEAN
  /\ phase \in {"start", "dispatched", "inject", "collapse", "following", "preceding",
                "order", "clamp", "done", "failed"}
  /\ route \in {"none", "passed", "refreshed", "injected", "audio", "backend",
                "miscount", "tokens"}
  /\ kept \in Seq(Segment \cup {None})
  /\ aligned \in Seq(Segment)
  /\ words \in Seq(WorWord)
  /\ at \in Nat \ {0} /\ next \in Nat \ {0} /\ cursor \in Nat /\ lastStart \in Nat /\ runs \in Nat

\* Bullets start in the order of the utterances and none reaches into a later
\* one.
InOrder(file) ==
  \A i, j \in DOMAIN file :
    i < j /\ Bulleted(file, i) /\ Bulleted(file, j)
      => /\ file[i].bullet.start <= file[j].bullet.start
         /\ file[i].bullet.end <= file[j].bullet.start

\* Whatever the backend answered and whatever bullets the file had, the bullets
\* of an aligned file are in order (enforce_fa_monotonicity); and they stay in
\* order when a later run takes the fast path, which repairs nothing, on a file
\* whose utterances the stage wrote itself.
BulletsInOrder ==
  phase = "done" /\ (route = "injected" \/ (route = "refreshed" /\ own))
    => InOrder(lines)

\* A mixed file keeps the word times it was trusted for: writing the reused
\* segments back through the collapsing and rebalancing of fresh ones changes
\* none of them.  Only the repair of the order may remove them, all together.
ReusedTimesKept ==
  phase = "done" /\ route = "injected"
    => \A i \in DOMAIN lines :
         kept[i] # None => lines[i].wor \in {loaded[i].wor, None}

\* No timed word without a bullet, none that starts before its bullet, and none
\* of zero or negative length, in every utterance the run wrote, after the
\* rebalancing and both repairs.
WordsUnderBullets ==
  phase = "done" /\ route = "injected"
    => \A i \in DOMAIN lines :
         aligned[i] # <<>> /\ lines[i].wor # None
           => \A j \in DOMAIN lines[i].wor :
                LET span == lines[i].wor[j].span
                IN span # None
                     => /\ Usable(span)
                        /\ lines[i].bullet # None
                        /\ lines[i].bullet.start <= span.start

\* Reuse settles: once a run refreshed a file the stage had written, the next
\* run refreshes it again and changes nothing.
RefreshSettles ==
  [][phase = "start" /\ own /\ route = "refreshed" /\ phase' # "start"
       => phase' = "done" /\ lines' = lines]_vars

-------------------------------------------------------------------------------
(* The invariant behind BulletsInOrder and WordsUnderBullets. *)

\* What the loops of the code are at, and what they read by index.
Shape ==
  /\ phase = "dispatched" => Len(kept) = Len(lines)
  /\ phase \in {"dispatched", "inject", "collapse", "following", "preceding",
                "order", "clamp"} => route = "injected"
  /\ route = "injected" /\ phase \notin {"start", "dispatched", "failed"}
       => Len(aligned) = Len(lines)
  /\ phase \in {"collapse", "following", "preceding"}
       => at <= Len(lines) /\ aligned[at] # <<>>
  /\ phase = "preceding" => next >= 2

\* The words being built lie within the times of the utterance's tokens.
Within(span, cover) ==
  span # None => /\ Usable(span)
                 /\ cover # None
                 /\ cover.start <= span.start
                 /\ span.end <= cover.end

Covered ==
  phase \in {"collapse", "following", "preceding"}
    => \A i \in DOMAIN words : Within(words[i].span, Cover(aligned[at]))

WordsUnder(u) ==
  u.wor # None
    => \A j \in DOMAIN u.wor :
         LET span == u.wor[j].span
         IN span # None => /\ Usable(span)
                           /\ u.bullet # None
                           /\ u.bullet.start <= span.start

Written ==
  /\ phase \in {"inject", "collapse", "following", "preceding"}
       => \A i \in DOMAIN lines :
            i < at /\ aligned[i] # <<>> => WordsUnder(lines[i])
  /\ phase \in {"order", "clamp"} \/ (phase = "done" /\ route = "injected")
       => \A i \in DOMAIN lines : aligned[i] # <<>> => WordsUnder(lines[i])

OwnWords ==
  own => \A i \in DOMAIN lines : lines[i].words # <<>> => WordsUnder(lines[i])

StartsInOrder(file, n) ==
  \A i, j \in DOMAIN file :
    i < j /\ j < n /\ Bulleted(file, i) /\ Bulleted(file, j)
      => file[i].bullet.start <= file[j].bullet.start

Ordered ==
  /\ phase = "order"
       => /\ StartsInOrder(lines, at)
          /\ \A i \in DOMAIN lines :
               i < at /\ Bulleted(lines, i) => lines[i].bullet.start <= lastStart
  /\ phase = "clamp"
       => /\ StartsInOrder(lines, Len(lines) + 1)
          /\ \A i, j \in DOMAIN lines :
               i < at /\ i < j /\ Bulleted(lines, i) /\ Bulleted(lines, j)
                 => lines[i].bullet.end <= lines[j].bullet.start
  /\ phase = "done" /\ (route = "injected" \/ own) => InOrder(lines)
  /\ phase = "start" /\ own => InOrder(lines)

IInv == TypeOK /\ Shape /\ Covered /\ Written /\ OwnWords /\ Ordered

-------------------------------------------------------------------------------
(* The invariant behind RefreshSettles. *)

\* A file the stage wrote and then refreshed: every utterance with words has a
\* clean %wor tier and exactly its span as bullet.
Settled ==
  phase \in {"start", "done"} /\ own /\ route = "refreshed"
    => /\ \E i \in DOMAIN lines : lines[i].words # <<>>
       /\ \A i \in DOMAIN lines :
            /\ lines[i].review = FALSE
            /\ lines[i].words # <<>> =>
                 /\ CleanWor(lines[i])
                 /\ lines[i].bullet = NewBullet(First(lines[i]), Last(lines[i]))

-------------------------------------------------------------------------------
(* The invariant behind ReusedTimesKept. *)

\* No word is left out of what the backend is asked for.
EveryWordAsked == \A word \in Word : Parts[word] # 0

TimesOf(wor) == [j \in DOMAIN wor |-> wor[j].span]

\* A reused utterance was clean when it was read, its segment is what it had,
\* and its %wor tier is that one or gone.
ReusedFromLoaded ==
  /\ phase = "start" => loaded = lines
  /\ route = "injected" /\ phase \notin {"start", "failed"}
       => /\ Len(kept) = Len(lines) /\ Len(loaded) = Len(lines)
          /\ \A i \in DOMAIN lines : kept[i] # None =>
               /\ CleanWor(loaded[i])
               /\ kept[i] = TimesOf(loaded[i].wor)
               /\ lines[i].words = loaded[i].words
               /\ lines[i].wor \in {loaded[i].wor, None}
               /\ phase # "dispatched" => aligned[i] = kept[i]

\* Collapsing a reused segment takes at least one token a word; as long as it
\* took exactly one each, it rebuilt the tier that was read.  With one token too
\* many it cannot come out even, and the stage fails.
Rebuilt ==
  /\ phase = "collapse" /\ kept[at] # None
       => /\ next <= Len(lines[at].words) + 1
          /\ Len(words) = next - 1 /\ cursor >= next - 1
          /\ cursor = next - 1 => \A j \in DOMAIN words : words[j] = loaded[at].wor[j]
  /\ phase \in {"following", "preceding"} /\ kept[at] # None
       => words = loaded[at].wor
===============================================================================
