---------------------------- MODULE PipelineProofs ----------------------------
(***************************************************************************)
(* Safety of the runs of a pipeline, for every set of runs, every number   *)
(* of inputs, stages and workers: IInv of Pipeline is inductive, and the   *)
(* properties of Pipeline follow from it.                                  *)
(*                                                                         *)
(* Almost every step moves one input: OneInput says under which conditions *)
(* such a move preserves IInv, and each action is shown to meet them.      *)
(* What is left is the end of a run (DropsInputs) and the steps of a run   *)
(* that move no input (RunMoves).                                          *)
(***************************************************************************)
EXTENDS Pipeline, FiniteSetTheorems, TLAPS

\* An input belongs to one run, and a run's inputs are those that name it.
LEMMA InputFacts ==
  /\ \A x \in Inputs : RunOf(x) \in Runs
  /\ \A r \in Runs : InputsOf(r) = {x \in Inputs : RunOf(x) = r}
BY DEF Inputs, InputsOf, RunOf

(***************************************************************************)
(* Events.                                                                 *)
(***************************************************************************)

\* One more event, that may follow the last one, keeps the history legal.
LEMMA OneMoreEvent ==
  ASSUME NEW es \in Seq(Event), NEW e \in Event, Legal(es),
         es = <<>> => e \in {Ev("started", 1), Ev("failed", 0)},
         es # <<>> => MayFollow(es[Len(es)], e)
  PROVE  /\ es \o <<e>> \in Seq(Event)
         /\ Legal(es \o <<e>>)
         /\ LastIs(es \o <<e>>, e)
         /\ \A f : Told(es \o <<e>>, f) <=> Told(es, f) \/ f = e
<1> DEFINE fs == es \o <<e>>
<1>1. /\ fs \in Seq(Event)
      /\ Len(es) \in Nat
      /\ Len(fs) = Len(es) + 1
      /\ \A i \in 1..Len(es) : fs[i] = es[i]
      /\ fs[Len(es) + 1] = e
      /\ fs # <<>>
      /\ es = <<>> <=> Len(es) = 0
  OBVIOUS
<1> HIDE DEF fs
<1>2. Legal(fs)
  <2>1. fs[1] \in {Ev("started", 1), Ev("failed", 0)}
    BY <1>1 DEF Legal
  <2>2. ASSUME NEW i \in 2..Len(fs)
        PROVE  MayFollow(fs[i - 1], fs[i])
    <3>1. CASE i = Len(fs)
      BY <1>1, <3>1
    <3>2. CASE i # Len(fs)
      <4>1. i \in 2..Len(es) /\ i - 1 \in 1..Len(es) /\ i \in 1..Len(es)
        BY <1>1, <3>2
      <4>2. QED
        BY <1>1, <4>1 DEF Legal
    <3>3. QED
      BY <3>1, <3>2
  <2>3. QED
    BY <2>1, <2>2 DEF Legal
<1>3. ASSUME NEW f
      PROVE  Told(fs, f) <=> Told(es, f) \/ f = e
  <2>1. Told(fs, f) => Told(es, f) \/ f = e
    BY <1>1 DEF Told
  <2>2. Told(es, f) \/ f = e => Told(fs, f)
    BY <1>1 DEF Told
  <2>3. QED
    BY <2>1, <2>2
<1>4. QED
  BY <1>1, <1>2, <1>3 DEF LastIs, fs

\* The events of the pipeline.
LEMMA EventTypes ==
  /\ \A s \in 0..Stages, k \in {"started", "injected", "failed"} : Ev(k, s) \in Event
  /\ Ev("completed", 0) \in Event
BY DEF Event, Ev

\* The closing events of an input that could not be converted.
LEMMA ConversionReported ==
  /\ <<>> \o ConversionEvents = ConversionEvents
  /\ ConversionEvents \in Seq(Event)
  /\ Legal(ConversionEvents)
  /\ \A f : Told(ConversionEvents, f) <=> f \in {Ev("failed", 0), Ev("completed", 0)}
<1>1. ConversionEvents \in Seq(Event) /\ <<>> \o ConversionEvents = ConversionEvents
  BY EventTypes, PipelineAssumption DEF ConversionEvents
<1>2. Legal(ConversionEvents)
  BY DEF Legal, ConversionEvents, MayFollow, Ev
<1>3. \A f : Told(ConversionEvents, f) <=> f \in {Ev("failed", 0), Ev("completed", 0)}
  BY DEF Told, ConversionEvents
<1>4. QED
  BY <1>1, <1>2, <1>3

\* Nothing is told by an empty history.
LEMMA NothingTold ==
  <<>> \in Seq(Event) /\ Legal(<<>>) /\ \A f : ~Told(<<>>, f)
BY DEF Legal, Told

\* What was said last was said.
LEMMA LastTold ==
  ASSUME NEW es \in Seq(Event), NEW e, LastIs(es, e)
  PROVE  Told(es, e)
BY DEF LastIs, Told

(***************************************************************************)
(* One input moves.                                                        *)
(***************************************************************************)

\* Input x moves to place p, with next stage g, failed value b, events es,
\* outcome o, and c calls of the outcome callback.
MovesTo(x, p, g, b, es, o, c) ==
  /\ at' = [at EXCEPT ![x] = p]
  /\ stage' = [stage EXCEPT ![x] = g]
  /\ failed' = [failed EXCEPT ![x] = b]
  /\ events' = [events EXCEPT ![x] = es]
  /\ outcome' = [outcome EXCEPT ![x] = o]
  /\ called' = [called EXCEPT ![x] = c]
  /\ UNCHANGED <<cancelled, run>>

\* The permit the move takes or gives back.
PermitMoves(x, p) ==
  permits' = permits + (IF at[x] \in Holding THEN 1 ELSE 0)
                     - (IF p \in Holding THEN 1 ELSE 0)

\* Where an input may go, given its run.
MayMove(x, p) ==
  /\ at[x] \notin {"delivered", "dropped"}
  /\ run[RunOf(x)] \in {"idle", "convert"} => p \in {"listed", "converted"}
  /\ p = "finished" => Polls(RunOf(x))
  /\ p \in Holding /\ at[x] \notin Holding => permits > 0

\* What is to be handed out for an input at place p.
LedgerOf(x, p, b, o, c) ==
  /\ o = IF p = "delivered" THEN IF b THEN "failed" ELSE "ok" ELSE "none"
  /\ p \notin {"delivered", "dropped"} => c = 0
  /\ p = "delivered" => c = IF RunOf(x) \in CallbackRuns /\ ~b THEN 1 ELSE 0

\* A move that keeps the history, the ledger and the permits keeps IInv.
LEMMA OneInput ==
  ASSUME IInv, NEW x \in Inputs,
         NEW p \in Places, NEW g \in 1..(Stages + 1), NEW b \in BOOLEAN,
         NEW es \in Seq(Event), NEW o \in {"none", "ok", "failed"}, NEW c \in 0..1,
         MovesTo(x, p, g, b, es, o, c), PermitMoves(x, p), MayMove(x, p),
         p = "queued" /\ RunOf(x) \in CallbackRuns => ~b,
         HistoryOf(p, g, b, es), Legal(es), LedgerOf(x, p, b, o, c)
  PROVE  IInv'
<1> USE PipelineAssumption
<1>1. TypeOK /\ IsFiniteSet(Live)
  BY DEF IInv
<1>2. /\ at' \in [Inputs -> Places] /\ at'[x] = p
      /\ \A y \in Inputs : y # x => at'[y] = at[y]
      /\ \A y \in Inputs : y # x => /\ stage'[y] = stage[y] /\ failed'[y] = failed[y]
                                   /\ events'[y] = events[y] /\ outcome'[y] = outcome[y]
                                   /\ called'[y] = called[y]
      /\ stage'[x] = g /\ failed'[x] = b /\ events'[x] = es /\ outcome'[x] = o /\ called'[x] = c
      /\ run' = run /\ cancelled' = cancelled
  BY <1>1 DEF TypeOK, MovesTo
<1>3. IsFiniteSet(Live')
  <2>1. IsFiniteSet(Live \cup {x})
    BY <1>1, FS_AddElement
  <2>2. Live' \in SUBSET (Live \cup {x})
    BY <1>2 DEF Live
  <2>3. QED
    BY <2>1, <2>2, FS_Subset
<1>4. IsFiniteSet(Holders) /\ Cardinality(Holders) \in Nat
  <2>1. Holders \in SUBSET Live
    BY DEF Holders, Live
  <2>2. QED
    BY <1>1, <2>1, FS_Subset, FS_CardinalityType
<1>5. /\ IsFiniteSet(Holders') /\ Cardinality(Holders') \in Nat
      /\ Cardinality(Holders') = Cardinality(Holders)
                                   - (IF at[x] \in Holding THEN 1 ELSE 0)
                                   + (IF p \in Holding THEN 1 ELSE 0)
  <2>1. x \in Holders <=> at[x] \in Holding
    BY DEF Holders
  <2>2. CASE p \in Holding
    <3>1. Holders' = Holders \cup {x}
      BY <1>2, <2>2 DEF Holders
    <3>2. QED
      BY <1>4, <2>1, <2>2, <3>1, FS_AddElement, FS_CardinalityType
  <2>3. CASE p \notin Holding
    <3>1. Holders' = Holders \ {x}
      BY <1>2, <2>3 DEF Holders
    <3>2. QED
      BY <1>4, <2>1, <2>3, <3>1, FS_RemoveElement, FS_CardinalityType
  <2>4. QED
    BY <2>2, <2>3
<1>6. PermitsAccounted' /\ permits' \in 0..Workers
  <2>1. permits \in 0..Workers /\ permits + Cardinality(Holders) = Workers
    BY <1>1 DEF IInv, PermitsAccounted, TypeOK
  <2>2. permits' + Cardinality(Holders') = Workers
    BY <1>4, <1>5, <2>1 DEF PermitMoves
  <2>3. permits' \in Int /\ permits' >= 0
    BY <2>1 DEF PermitMoves, MayMove
  <2>4. QED
    BY <1>5, <2>1, <2>2, <2>3 DEF PermitsAccounted
<1>7. TypeOK'
  BY <1>1, <1>2, <1>6 DEF TypeOK, MovesTo
<1>8. OneFinished'
  <2> SUFFICES ASSUME NEW y \in Inputs, NEW z \in Inputs,
                      RunOf(y) = RunOf(z), RunOf(y) \in CallbackRuns,
                      at'[y] = "finished", at'[z] = "finished", y # z
               PROVE  FALSE
    BY DEF OneFinished
  <2>1. \A u \in Inputs : u # x /\ RunOf(u) = RunOf(x) /\ RunOf(x) \in CallbackRuns
                            /\ at[u] = "finished" => p # "finished"
    BY InputFacts DEF MayMove, Polls
  <2>2. y = x \/ z = x
    BY <1>2 DEF IInv, OneFinished
  <2>3. QED
    BY <1>2, <2>1, <2>2
<1>9. RunPlaces'
  BY <1>2 DEF IInv, RunPlaces, MayMove
<1>10. History' /\ EventsLegal'
  BY <1>2 DEF IInv, History, EventsLegal
<1>11. Ledger'
  BY <1>2 DEF IInv, Ledger, LedgerOf, Result
<1>12. QED
  BY <1>3, <1>6, <1>7, <1>8, <1>9, <1>10, <1>11 DEF IInv

\* What IInv says of an input that has not been handed out.
LEMMA Here ==
  ASSUME IInv, NEW x \in Inputs, at[x] \notin {"delivered", "dropped"}
  PROVE  /\ at[x] \in Places /\ stage[x] \in 1..(Stages + 1) /\ failed[x] \in BOOLEAN
         /\ events[x] \in Seq(Event) /\ Legal(events[x])
         /\ outcome[x] = "none" /\ called[x] = 0
         /\ HistoryOf(at[x], stage[x], failed[x], events[x])
         /\ at[x] \notin {"listed", "converted"} => run[RunOf(x)] \notin {"idle", "convert"}
BY DEF IInv, TypeOK, Ledger, History, RunPlaces, EventsLegal

\* An input that moves and is not handed out: only its place, stage, failure
\* and events change.
LEMMA OneInputKept ==
  ASSUME IInv, NEW x \in Inputs,
         NEW p \in Places \ {"delivered"}, NEW g \in 1..(Stages + 1), NEW b \in BOOLEAN,
         NEW es \in Seq(Event),
         at' = [at EXCEPT ![x] = p], stage' = [stage EXCEPT ![x] = g],
         failed' = [failed EXCEPT ![x] = b], events' = [events EXCEPT ![x] = es],
         UNCHANGED <<cancelled, run, outcome, called>>,
         p = "queued" /\ RunOf(x) \in CallbackRuns => ~b,
         PermitMoves(x, p), MayMove(x, p), HistoryOf(p, g, b, es), Legal(es)
  PROVE  IInv'
<1>1. outcome[x] = "none" /\ called[x] = 0
  BY Here DEF MayMove
<1>2. MovesTo(x, p, g, b, es, "none", 0)
  BY <1>1 DEF MovesTo, IInv, TypeOK
<1>3. LedgerOf(x, p, b, "none", 0)
  BY DEF LedgerOf
<1>4. 0 \in 0..1
  OBVIOUS
<1>5. QED
  BY <1>2, <1>3, <1>4, OneInput

\* A component of the state that is left alone.
LEMMA LeftAlone ==
  ASSUME TypeOK, NEW x \in Inputs
  PROVE  /\ stage = [stage EXCEPT ![x] = stage[x]]
         /\ failed = [failed EXCEPT ![x] = failed[x]]
         /\ events = [events EXCEPT ![x] = events[x]]
BY DEF TypeOK

(***************************************************************************)
(* Conversion, the window and the semaphore.                               *)
(***************************************************************************)

LEMMA EagerConvertKeeps ==
  ASSUME IInv, NEW x \in Inputs, EagerConvert(x)
  PROVE  IInv'
<1>1. at[x] = "listed" /\ run[RunOf(x)] = "convert"
  BY DEF EagerConvert
<1>2. /\ stage[x] = 1 /\ ~failed[x] /\ events[x] = <<>> /\ stage[x] \in 1..(Stages + 1)
      /\ failed[x] \in BOOLEAN
  BY <1>1, Here DEF HistoryOf
<1>3. /\ PermitMoves(x, "converted") /\ MayMove(x, "converted")
      /\ "converted" \in Places \ {"delivered"}
  BY <1>1 DEF PermitMoves, MayMove, Holding, EagerConvert, IInv, TypeOK, Places
<1>4. CASE UNCHANGED <<failed, events>>
  <2>1. HistoryOf("converted", stage[x], failed[x], events[x])
    BY <1>2, NothingTold DEF HistoryOf
  <2>2. QED
    BY <1>2, <1>3, <1>4, <2>1, NothingTold, LeftAlone, OneInputKept DEF EagerConvert, IInv
<1>5. CASE failed' = [failed EXCEPT ![x] = TRUE] /\ Emit(x, ConversionEvents)
  <2>1. HistoryOf("converted", stage[x], TRUE, ConversionEvents)
    BY <1>2 DEF HistoryOf
  <2>2. events' = [events EXCEPT ![x] = ConversionEvents]
    BY <1>2, <1>5, ConversionReported DEF Emit
  <2>3. QED
    BY <1>2, <1>3, <1>5, <2>1, <2>2, ConversionReported, LeftAlone, OneInputKept
       DEF EagerConvert, IInv
<1>6. QED
  BY <1>4, <1>5 DEF EagerConvert

LEMMA LateConvertKeeps ==
  ASSUME IInv, NEW x \in Inputs, LateConvert(x)
  PROVE  IInv'
<1>1. at[x] = "converting" /\ run[RunOf(x)] = "work"
  BY DEF LateConvert, Polls
<1>2. /\ stage[x] = 1 /\ ~failed[x] /\ events[x] = <<>> /\ stage[x] \in 1..(Stages + 1)
      /\ failed[x] \in BOOLEAN
  BY <1>1, Here DEF HistoryOf
<1>3. /\ PermitMoves(x, "staged") /\ MayMove(x, "staged")
      /\ "staged" \in Places \ {"delivered"}
  BY <1>1 DEF PermitMoves, MayMove, Holding, LateConvert, IInv, TypeOK, Places
<1>4. CASE UNCHANGED <<failed, events>>
  <2>1. HistoryOf("staged", stage[x], failed[x], events[x])
    BY <1>2, NothingTold DEF HistoryOf
  <2>2. QED
    BY <1>2, <1>3, <1>4, <2>1, NothingTold, LeftAlone, OneInputKept DEF LateConvert, IInv
<1>5. CASE failed' = [failed EXCEPT ![x] = TRUE] /\ Emit(x, ConversionEvents)
  <2>1. HistoryOf("staged", stage[x], TRUE, ConversionEvents)
    BY <1>2 DEF HistoryOf
  <2>2. events' = [events EXCEPT ![x] = ConversionEvents]
    BY <1>2, <1>5, ConversionReported DEF Emit
  <2>3. QED
    BY <1>2, <1>3, <1>5, <2>1, <2>2, ConversionReported, LeftAlone, OneInputKept
       DEF LateConvert, IInv
<1>6. QED
  BY <1>4, <1>5 DEF LateConvert

LEMMA OrphanConvertsKeeps ==
  ASSUME IInv, NEW x \in Inputs, OrphanConverts(x)
  PROVE  IInv'
<1>1. at[x] = "orphan"
  BY DEF OrphanConverts
<1>2. /\ events[x] = <<>> /\ stage[x] \in 1..(Stages + 1) /\ failed[x] \in BOOLEAN
      /\ run[RunOf(x)] \notin {"idle", "convert"}
  BY <1>1, Here DEF HistoryOf
<1>3. /\ PermitMoves(x, "dropped") /\ MayMove(x, "dropped")
      /\ "dropped" \in Places \ {"delivered"}
  BY <1>1, <1>2 DEF PermitMoves, MayMove, Holding, OrphanConverts, IInv, TypeOK, Places
<1>4. \A b, es : HistoryOf("dropped", stage[x], b, es)
  BY DEF HistoryOf
<1>5. CASE events' = events
  BY <1>2, <1>3, <1>4, <1>5, NothingTold, LeftAlone, OneInputKept DEF OrphanConverts, IInv
<1>6. CASE events' = [events EXCEPT ![x] = @ \o ConversionEvents]
  <2>1. events' = [events EXCEPT ![x] = ConversionEvents]
    BY <1>2, <1>6, ConversionReported
  <2>2. QED
    BY <1>2, <1>3, <1>4, <2>1, ConversionReported, LeftAlone, OneInputKept
       DEF OrphanConverts, IInv
<1>7. QED
  BY <1>5, <1>6 DEF OrphanConverts

LEMMA PullKeeps ==
  ASSUME IInv, NEW x \in Inputs, Pull(x)
  PROVE  IInv'
<1>1. at[x] \in {"listed", "converted"} /\ run[RunOf(x)] = "work"
  BY DEF Pull, Polls
<1>2. /\ HistoryOf("queued", stage[x], failed[x], events[x])
      /\ RunOf(x) \in CallbackRuns => ~failed[x]
  BY <1>1, Here DEF HistoryOf, Pull
<1>3. /\ PermitMoves(x, "queued") /\ MayMove(x, "queued")
      /\ "queued" \in Places \ {"delivered"}
  BY <1>1 DEF PermitMoves, MayMove, Holding, Pull, IInv, TypeOK, Places
<1>4. /\ at' = [at EXCEPT ![x] = "queued"]
      /\ UNCHANGED <<cancelled, permits, run, stage, failed, events, outcome, called>>
  BY DEF Pull
<1>5. /\ stage[x] \in 1..(Stages + 1) /\ failed[x] \in BOOLEAN
      /\ events[x] \in Seq(Event) /\ Legal(events[x])
  BY <1>1, Here
<1>6. /\ stage' = [stage EXCEPT ![x] = stage[x]]
      /\ failed' = [failed EXCEPT ![x] = failed[x]]
      /\ events' = [events EXCEPT ![x] = events[x]]
  BY <1>4, LeftAlone DEF IInv
<1>7. QED
  BY <1>2, <1>3, <1>4, <1>5, <1>6, OneInputKept

LEMMA AcquireKeeps ==
  ASSUME IInv, NEW x \in Inputs, Acquire(x)
  PROVE  IInv'
<1> DEFINE p == IF RunOf(x) \in CallbackRuns THEN "converting" ELSE "staged"
<1>1. at[x] = "queued" /\ run[RunOf(x)] = "work" /\ permits > 0
  BY DEF Acquire, Polls
<1>2. HistoryOf(p, stage[x], failed[x], events[x])
  <2>1. RunOf(x) \in CallbackRuns => ~failed[x]
    BY <1>1 DEF IInv, RunPlaces
  <2>2. QED
    BY <1>1, <2>1, Here DEF HistoryOf
<1>3. PermitMoves(x, p) /\ MayMove(x, p) /\ p \in Places \ {"delivered"} /\ p # "queued"
  BY <1>1 DEF PermitMoves, MayMove, Holding, Acquire, IInv, TypeOK, Places
<1>4. at' = [at EXCEPT ![x] = p]
  BY DEF Acquire
<1> HIDE DEF p
<1>5. /\ stage[x] \in 1..(Stages + 1) /\ failed[x] \in BOOLEAN
      /\ events[x] \in Seq(Event) /\ Legal(events[x])
  BY <1>1, Here
<1>6. /\ stage' = [stage EXCEPT ![x] = stage[x]]
      /\ failed' = [failed EXCEPT ![x] = failed[x]]
      /\ events' = [events EXCEPT ![x] = events[x]]
      /\ UNCHANGED <<cancelled, run, outcome, called>>
  BY LeftAlone DEF Acquire, IInv
<1>7. QED
  BY <1>2, <1>3, <1>4, <1>5, <1>6, OneInputKept

(***************************************************************************)
(* run_one and try_step.                                                   *)
(***************************************************************************)

\* A stage that may fail: its input is being worked on, with a value, and the
\* last thing said of it belongs to this stage.
StageGoesOn(x, es) ==
  /\ at[x] \in Holding \ {"converting"}
  /\ ~failed[x] /\ stage[x] \in 1..Stages
  /\ es \in Seq(Event) /\ Legal(es)
  /\ LastIs(es, Ev("started", stage[x])) \/ LastIs(es, Ev("injected", stage[x]))

LEMMA Reassociate ==
  ASSUME NEW s \in Seq(Event), NEW t \in Seq(Event), NEW e \in Event
  PROVE  s \o Append(t, e) = (s \o t) \o <<e>>
OBVIOUS

\* A failure of the stage, after the events es, poisons the value.
LEMMA FailStageKeeps ==
  ASSUME IInv, NEW x \in Inputs, NEW es \in Seq(Event),
         StageGoesOn(x, events[x] \o es), FailStage(x, es), UNCHANGED Unshared
  PROVE  IInv'
<1> DEFINE fs == (events[x] \o es) \o <<Ev("failed", stage[x])>>
<1>1. /\ events[x] \in Seq(Event) /\ stage[x] \in 1..Stages
      /\ at[x] \notin {"delivered", "dropped", "listed", "converted"}
      /\ run[RunOf(x)] \notin {"idle", "convert"}
  BY Here DEF StageGoesOn, Holding
<1>2. Ev("failed", stage[x]) \in Event
  BY <1>1, EventTypes, PipelineAssumption
<1>3. /\ fs \in Seq(Event) /\ Legal(fs) /\ LastIs(fs, Ev("failed", stage[x]))
  <2>1. LastIs(events[x] \o es, Ev("started", stage[x]))
          \/ LastIs(events[x] \o es, Ev("injected", stage[x]))
    BY DEF StageGoesOn
  <2>2. /\ events[x] \o es # <<>>
        /\ MayFollow((events[x] \o es)[Len(events[x] \o es)], Ev("failed", stage[x]))
    BY <2>1 DEF LastIs, MayFollow, Ev
  <2>3. QED
    BY <1>2, <2>2, OneMoreEvent DEF StageGoesOn
<1>4. events' = [events EXCEPT ![x] = fs]
  <2>1. events[x] \o Append(es, Ev("failed", stage[x])) = fs
    BY <1>1, <1>2, Reassociate
  <2>2. QED
    BY <2>1 DEF FailStage, Emit
<1> HIDE DEF fs
<1>5. stage[x] + 1 \in 1..(Stages + 1) /\ stage[x] + 1 > 1 /\ (stage[x] + 1) - 1 = stage[x]
  BY <1>1, PipelineAssumption
<1>6. HistoryOf("staged", stage[x] + 1, TRUE, fs)
  BY <1>3, <1>5 DEF HistoryOf
<1>7. PermitMoves(x, "staged") /\ MayMove(x, "staged") /\ "staged" \in Places \ {"delivered"}
  BY <1>1 DEF PermitMoves, MayMove, Holding, StageGoesOn, Unshared, IInv, TypeOK, Places
<1>8. /\ at' = [at EXCEPT ![x] = "staged"] /\ failed' = [failed EXCEPT ![x] = TRUE]
      /\ stage' = [stage EXCEPT ![x] = stage[x] + 1]
      /\ UNCHANGED <<cancelled, run, outcome, called>>
  BY DEF FailStage, Unshared
<1>9. QED
  BY <1>3, <1>4, <1>5, <1>6, <1>7, <1>8, OneInputKept

\* What a stage in progress knows of its input.
LEMMA Applying ==
  ASSUME IInv, NEW x \in Inputs, at[x] \in {"applying", "awaiting", "replied"}
  PROVE  /\ StageGoesOn(x, events[x]) /\ events[x] \o <<>> = events[x]
         /\ stage[x] \in 1..(Stages + 1) /\ failed[x] \in BOOLEAN
         /\ run[RunOf(x)] \notin {"idle", "convert"}
<1>1. /\ stage[x] \in 1..(Stages + 1) /\ events[x] \in Seq(Event) /\ Legal(events[x])
      /\ failed[x] \in BOOLEAN
      /\ run[RunOf(x)] \notin {"idle", "convert"}
      /\ HistoryOf(at[x], stage[x], failed[x], events[x])
  BY Here
<1>2. StageGoesOn(x, events[x])
  BY <1>1, PipelineAssumption DEF StageGoesOn, HistoryOf, Holding
<1>3. QED
  BY <1>1, <1>2

\* An event of a stage in progress, that is not its end.
LEMMA StageReports ==
  ASSUME NEW x \in Inputs, NEW es, StageGoesOn(x, es),
         NEW k \in {"started", "injected"},
         MayFollow(es[Len(es)], Ev(k, stage[x]))
  PROVE  /\ StageGoesOn(x, es \o <<Ev(k, stage[x])>>)
         /\ LastIs(es \o <<Ev(k, stage[x])>>, Ev(k, stage[x]))
         /\ \A f : Told(es \o <<Ev(k, stage[x])>>, f) <=> Told(es, f) \/ f = Ev(k, stage[x])
<1>1. Ev(k, stage[x]) \in Event /\ es # <<>> /\ es \in Seq(Event) /\ Legal(es)
  BY EventTypes, PipelineAssumption DEF StageGoesOn, LastIs
<1>2. QED
  BY <1>1, OneMoreEvent DEF StageGoesOn

\* StageStarted twice, or once and then a failure.
LEMMA StartStageKeeps ==
  ASSUME IInv, NEW x \in Inputs, StartStage(x)
  PROVE  IInv'
<1> DEFINE e == Ev("started", stage[x])
           fs == events[x] \o <<e>>
           gs == fs \o <<e>>
<1>1. /\ at[x] = "staged" /\ ~failed[x] /\ stage[x] \in 1..Stages /\ failed[x] \in BOOLEAN
      /\ events[x] \in Seq(Event) /\ Legal(events[x])
      /\ run[RunOf(x)] \notin {"idle", "convert"}
      /\ HistoryOf("staged", stage[x], failed[x], events[x])
  BY Here, PipelineAssumption DEF StartStage, NextStage
<1>2. e \in Event /\ <<e>> \in Seq(Event)
  BY <1>1, EventTypes, PipelineAssumption
<1>3. /\ fs \in Seq(Event) /\ Legal(fs) /\ LastIs(fs, e)
      /\ \A f : Told(fs, f) <=> Told(events[x], f) \/ f = e
  <2>1. events[x] = <<>> => e \in {Ev("started", 1), Ev("failed", 0)}
    BY <1>1 DEF HistoryOf, LastIs
  <2>2. events[x] # <<>> => MayFollow(events[x][Len(events[x])], e)
    BY <1>1 DEF HistoryOf, LastIs, MayFollow, Ev
  <2>3. QED
    BY <1>1, <1>2, <2>1, <2>2, OneMoreEvent
<1>4. StageGoesOn(x, fs)
  BY <1>1, <1>3 DEF StageGoesOn, Holding
<1>5. CASE FailStage(x, <<e>>)
  BY <1>2, <1>4, <1>5, FailStageKeeps DEF StartStage
<1>6. CASE /\ at' = [at EXCEPT ![x] = "applying"]
           /\ Emit(x, <<e, e>>)
           /\ UNCHANGED <<failed, stage>>
  <2>1. gs = events[x] \o <<e, e>>
    BY <1>1, <1>2
  <2>2. MayFollow(fs[Len(fs)], e)
    BY <1>3 DEF LastIs, MayFollow, Ev
  <2>3. /\ gs \in Seq(Event) /\ Legal(gs) /\ LastIs(gs, e)
        /\ \A f : Told(gs, f) <=> Told(fs, f) \/ f = e
    BY <1>4, <2>2, StageReports DEF StageGoesOn
  <2>4. \A s \in 0..Stages : ~Told(gs, Ev("failed", s))
    BY <1>1, <1>3, <2>3 DEF HistoryOf, Ev
  <2>5. events' = [events EXCEPT ![x] = gs]
    BY <1>6, <2>1 DEF Emit
  <2> HIDE DEF gs
  <2>6. HistoryOf("applying", stage[x], failed[x], gs)
    BY <1>1, <2>3, <2>4 DEF HistoryOf
  <2>7. PermitMoves(x, "applying") /\ MayMove(x, "applying")
        /\ "applying" \in Places \ {"delivered"} /\ stage[x] \in 1..(Stages + 1)
    BY <1>1, PipelineAssumption
       DEF PermitMoves, MayMove, Holding, StartStage, Unshared, IInv, TypeOK, Places
  <2>8. QED
    BY <1>1, <1>6, <2>3, <2>5, <2>6, <2>7, LeftAlone, OneInputKept
       DEF StartStage, Unshared, IInv
<1>7. QED
  BY <1>5, <1>6 DEF StartStage

\* The dispatch and its answer change only where the input stands.
LEMMA DispatchKeeps ==
  ASSUME IInv, NEW x \in Inputs,
         Dispatch(x) \/ DispatchRefused(x) \/ Answered(x)
  PROVE  IInv'
<1>1. at[x] \in {"applying", "awaiting"} /\ UNCHANGED Unshared
  BY DEF Dispatch, DispatchRefused, Answered
<1>2. /\ StageGoesOn(x, events[x]) /\ events[x] \o <<>> = events[x]
      /\ stage[x] \in 1..(Stages + 1) /\ failed[x] \in BOOLEAN
      /\ run[RunOf(x)] \notin {"idle", "convert"}
  BY <1>1, Applying
<1>3. CASE FailStage(x, <<>>)
  BY <1>1, <1>2, <1>3, NothingTold, FailStageKeeps
<1>4. ASSUME NEW p \in {"awaiting", "replied"},
             at' = [at EXCEPT ![x] = p], UNCHANGED <<stage, failed, events>>
      PROVE  IInv'
  <2>1. HistoryOf(p, stage[x], failed[x], events[x])
    BY <1>1, Here DEF HistoryOf
  <2>2. PermitMoves(x, p) /\ MayMove(x, p) /\ p \in Places \ {"delivered"}
    BY <1>1, <1>2 DEF PermitMoves, MayMove, Holding, Unshared, IInv, TypeOK, Places
  <2>3. UNCHANGED <<cancelled, run, outcome, called>>
    BY <1>1 DEF Unshared
  <2>4. events[x] \in Seq(Event) /\ Legal(events[x])
    BY <1>2 DEF StageGoesOn
  <2>5. QED
    BY <1>2, <1>4, <2>1, <2>2, <2>3, <2>4, LeftAlone, OneInputKept DEF IInv
<1>5. QED
  BY <1>3, <1>4 DEF Dispatch, DispatchRefused, Answered

\* The stage fails, or is injected and then fails, or is injected twice.
LEMMA EndStageKeeps ==
  ASSUME IInv, NEW x \in Inputs, EndStage(x)
  PROVE  IInv'
<1> DEFINE e == Ev("injected", stage[x])
           fs == events[x] \o <<e>>
           gs == fs \o <<e>>
<1>1. at[x] \in {"applying", "replied"} /\ UNCHANGED Unshared
  BY DEF EndStage
<1>2. /\ StageGoesOn(x, events[x]) /\ events[x] \o <<>> = events[x]
      /\ stage[x] \in 1..Stages /\ failed[x] \in BOOLEAN /\ ~failed[x]
      /\ events[x] \in Seq(Event)
      /\ run[RunOf(x)] \notin {"idle", "convert"}
      /\ \A s \in 0..Stages : ~Told(events[x], Ev("failed", s))
  BY <1>1, Applying, Here DEF StageGoesOn, HistoryOf
<1>3. e \in Event /\ <<e>> \in Seq(Event)
  BY <1>2, EventTypes, PipelineAssumption
<1>4. /\ StageGoesOn(x, fs) /\ LastIs(fs, e)
      /\ \A f : Told(fs, f) <=> Told(events[x], f) \/ f = e
  <2>1. MayFollow(events[x][Len(events[x])], e)
    BY <1>2 DEF StageGoesOn, LastIs, MayFollow, Ev
  <2>2. QED
    BY <1>2, <2>1, StageReports
<1>5. CASE FailStage(x, <<>>)
  BY <1>1, <1>2, <1>5, NothingTold, FailStageKeeps
<1>6. CASE FailStage(x, <<e>>)
  BY <1>1, <1>3, <1>4, <1>6, FailStageKeeps
<1>7. CASE /\ Emit(x, <<e, e>>)
           /\ stage' = [stage EXCEPT ![x] = @ + 1]
           /\ at' = [at EXCEPT ![x] = "staged"]
           /\ UNCHANGED failed
  <2>1. gs = events[x] \o <<e, e>>
    BY <1>2, <1>3
  <2>2. MayFollow(fs[Len(fs)], e)
    BY <1>4 DEF LastIs, MayFollow, Ev
  <2>3. /\ gs \in Seq(Event) /\ Legal(gs) /\ LastIs(gs, e)
        /\ \A f : Told(gs, f) <=> Told(fs, f) \/ f = e
    BY <1>4, <2>2, StageReports DEF StageGoesOn
  <2>4. \A s \in 0..Stages : ~Told(gs, Ev("failed", s))
    BY <1>2, <1>4, <2>3 DEF Ev
  <2>5. events' = [events EXCEPT ![x] = gs]
    BY <1>7, <2>1 DEF Emit
  <2> HIDE DEF gs
  <2>6. stage[x] + 1 \in 1..(Stages + 1) /\ stage[x] + 1 > 1 /\ (stage[x] + 1) - 1 = stage[x]
    BY <1>2, PipelineAssumption
  <2>7. HistoryOf("staged", stage[x] + 1, failed[x], gs)
    BY <1>2, <2>3, <2>4, <2>6 DEF HistoryOf
  <2>8. PermitMoves(x, "staged") /\ MayMove(x, "staged") /\ "staged" \in Places \ {"delivered"}
    BY <1>1, <1>2 DEF PermitMoves, MayMove, Holding, Unshared, IInv, TypeOK, Places
  <2>9. UNCHANGED <<cancelled, run, outcome, called>>
    BY <1>1 DEF Unshared
  <2>10. failed' = [failed EXCEPT ![x] = failed[x]]
    BY <1>7, LeftAlone DEF IInv
  <2>11. QED
    BY <1>2, <1>7, <2>3, <2>5, <2>6, <2>7, <2>8, <2>9, <2>10, OneInputKept
<1>8. QED
  BY <1>5, <1>6, <1>7 DEF EndStage

\* run_one returns, with SourceCompleted after the last stage.
LEMMA RunOneReturnsKeeps ==
  ASSUME IInv, NEW x \in Inputs, RunOneReturns(x)
  PROVE  IInv'
<1> DEFINE e == Ev("completed", 0)
           fs == events[x] \o <<e>>
<1>1. /\ at[x] = "staged" /\ ~NextStage(x) /\ Polls(RunOf(x))
      /\ permits' = permits + 1
      /\ at' = [at EXCEPT ![x] = "finished"]
      /\ UNCHANGED <<cancelled, run, stage, failed, outcome, called>>
  BY DEF RunOneReturns, RunOneReturnsBy
<1>2. /\ stage[x] \in 1..(Stages + 1) /\ failed[x] \in BOOLEAN
      /\ events[x] \in Seq(Event) /\ Legal(events[x])
      /\ run[RunOf(x)] \notin {"idle", "convert"}
      /\ HistoryOf("staged", stage[x], failed[x], events[x])
  BY <1>1, Here
<1>3. PermitMoves(x, "finished") /\ MayMove(x, "finished") /\ "finished" \in Places \ {"delivered"}
  BY <1>1, <1>2 DEF PermitMoves, MayMove, Holding, IInv, TypeOK, Places
<1>4. /\ stage' = [stage EXCEPT ![x] = stage[x]]
      /\ failed' = [failed EXCEPT ![x] = failed[x]]
      /\ events = [events EXCEPT ![x] = events[x]]
  BY <1>1, LeftAlone DEF IInv
<1>5. failed[x] => \E s \in 0..Stages : Told(events[x], Ev("failed", s))
  <2>1. CASE stage[x] = 1
    BY <1>2, <2>1, ConversionReported, PipelineAssumption DEF HistoryOf
  <2>2. CASE stage[x] > 1
    <3>1. failed[x] => LastIs(events[x], Ev("failed", stage[x] - 1))
      BY <1>2, <2>2 DEF HistoryOf
    <3>2. stage[x] - 1 \in 0..Stages
      BY <1>2, <2>2, PipelineAssumption
    <3>3. QED
      BY <1>2, <3>1, <3>2, LastTold
  <2>3. QED
    BY <1>2, <2>1, <2>2
<1>6. CASE stage[x] > Stages
  <2>1. LastIs(events[x], Ev(IF failed[x] THEN "failed" ELSE "injected", Stages))
    BY <1>2, <1>6, PipelineAssumption DEF HistoryOf
  <2>2. events[x] # <<>> /\ MayFollow(events[x][Len(events[x])], e)
    BY <2>1 DEF LastIs, MayFollow, Ev
  <2>3. /\ fs \in Seq(Event) /\ Legal(fs)
        /\ \A f : Told(fs, f) <=> Told(events[x], f) \/ f = e
    BY <1>2, <2>2, EventTypes, OneMoreEvent
  <2>4. events' = [events EXCEPT ![x] = fs]
    BY <1>6 DEF RunOneReturns, RunOneReturnsBy, Emit
  <2> HIDE DEF fs
  <2>5. ~failed[x] => Told(events[x], Ev("injected", Stages))
    BY <1>2, <2>1, LastTold
  <2>6. ~failed[x] => \A s \in 0..Stages : ~Told(fs, Ev("failed", s))
    BY <1>2, <2>3 DEF HistoryOf, Ev
  <2>7. HistoryOf("finished", stage[x], failed[x], fs)
    BY <1>2, <1>5, <2>3, <2>5, <2>6 DEF HistoryOf
  <2>8. QED
    BY <1>1, <1>2, <1>3, <1>4, <2>3, <2>4, <2>7, OneInputKept
<1>7. CASE stage[x] <= Stages
  <2>1. failed[x]
    BY <1>1, <1>7 DEF NextStage
  <2>2. events' = events
    BY <1>2, <1>7, PipelineAssumption DEF RunOneReturns, RunOneReturnsBy
  <2>3. HistoryOf("finished", stage[x], failed[x], events[x])
    BY <1>5, <2>1 DEF HistoryOf
  <2>4. QED
    BY <1>1, <1>2, <1>3, <1>4, <2>2, <2>3, OneInputKept
<1>8. QED
  BY <1>2, <1>6, <1>7, PipelineAssumption

(***************************************************************************)
(* Outcomes.                                                               *)
(***************************************************************************)

LEMMA DeliveryKeeps ==
  ASSUME IInv, NEW x \in Inputs, Collect(x) \/ HandOver(x)
  PROVE  IInv'
<1> DEFINE c == IF RunOf(x) \in CallbackRuns /\ ~failed[x] THEN 1 ELSE 0
<1>1. /\ at[x] = "finished" /\ at' = [at EXCEPT ![x] = "delivered"]
      /\ outcome' = [outcome EXCEPT ![x] = Result(x)]
      /\ UNCHANGED <<cancelled, permits, run, stage, failed, events>>
  BY DEF Collect, HandOver
<1>2. /\ stage[x] \in 1..(Stages + 1) /\ failed[x] \in BOOLEAN
      /\ events[x] \in Seq(Event) /\ Legal(events[x]) /\ called[x] = 0
      /\ run[RunOf(x)] \notin {"idle", "convert"}
      /\ HistoryOf("finished", stage[x], failed[x], events[x])
  BY <1>1, Here
<1>3. called' = [called EXCEPT ![x] = c]
  BY <1>2 DEF Collect, HandOver, IInv, TypeOK
<1>4. PermitMoves(x, "delivered") /\ MayMove(x, "delivered") /\ "delivered" \in Places
  BY <1>1, <1>2 DEF PermitMoves, MayMove, Holding, IInv, TypeOK, Places
<1>5. MovesTo(x, "delivered", stage[x], failed[x], events[x], Result(x), c)
  BY <1>1, <1>3, LeftAlone DEF MovesTo, IInv
<1>6. HistoryOf("delivered", stage[x], failed[x], events[x])
  BY <1>2 DEF HistoryOf
<1>7. /\ LedgerOf(x, "delivered", failed[x], Result(x), c)
      /\ Result(x) \in {"none", "ok", "failed"} /\ c \in 0..1
  BY <1>2 DEF LedgerOf, Result
<1> HIDE DEF c
<1>8. QED
  BY <1>2, <1>4, <1>5, <1>6, <1>7, OneInput

(***************************************************************************)
(* The steps of a run.                                                     *)
(***************************************************************************)

\* A run raises: its inputs that were not handed out are dropped, with their
\* permits; c[y] is what the callback has received by then.
LEMMA DropsInputs ==
  ASSUME IInv, NEW r \in Runs, Abort(r), run[r] \in {"convert", "work"},
         UNCHANGED <<cancelled, stage, failed, events, outcome>>,
         called' \in [Inputs -> 0..1],
         \A y \in Inputs : RunOf(y) # r \/ at[y] \in {"delivered", "converting"}
                            => called'[y] = called[y]
  PROVE  IInv'
<1>1. TypeOK /\ IsFiniteSet(Live)
  BY DEF IInv
<1>2. /\ at' \in [Inputs -> Places]
      /\ \A y \in Inputs :
           at'[y] = IF RunOf(y) # r \/ at[y] = "delivered" THEN at[y]
                    ELSE IF at[y] = "converting" THEN "orphan" ELSE "dropped"
      /\ run' \in [Runs -> {"idle", "convert", "work", "returned", "raised"}]
      /\ run'[r] = "raised" /\ \A q \in Runs : q # r => run'[q] = run[q]
  BY <1>1 DEF TypeOK, Abort, Places
<1>3. IsFiniteSet(Live')
  <2>1. Live' \in SUBSET Live
    BY <1>2 DEF Live, Holding
  <2>2. QED
    BY <1>1, <2>1, FS_Subset
<1>4. PermitsAccounted' /\ permits' \in 0..Workers
  <2>1. Holders \in SUBSET Live
    BY DEF Holders, Live
  <2>2. IsFiniteSet(Holders) /\ Cardinality(Holders) \in Nat
    BY <1>1, <2>1, FS_Subset, FS_CardinalityType
  <2>3. Holders' = Holders \ InputsOf(r)
    BY <1>2, InputFacts DEF Holders, Holding
  <2>4. /\ IsFiniteSet(Holders')
        /\ Cardinality(Holders') = Cardinality(Holders) - Cardinality(Holders \cap InputsOf(r))
    BY <2>2, <2>3, FS_Difference
  <2>5. /\ Cardinality(Holders') \in Nat
        /\ Cardinality(Holders \cap InputsOf(r)) \in Nat
    BY <2>2, <2>4, FS_Intersection, FS_CardinalityType
  <2>6. permits \in 0..Workers /\ permits + Cardinality(Holders) = Workers
    BY <1>1 DEF IInv, PermitsAccounted, TypeOK
  <2>7. permits' = permits + Cardinality(Holders \cap InputsOf(r))
    BY DEF Abort
  <2>8. QED
    BY <2>2, <2>4, <2>5, <2>6, <2>7, PipelineAssumption DEF PermitsAccounted
<1>5. TypeOK'
  BY <1>1, <1>2, <1>4 DEF TypeOK
<1>6. OneFinished'
  BY <1>2 DEF IInv, OneFinished
<1>7. RunPlaces'
  BY <1>2, InputFacts DEF IInv, RunPlaces
<1>8. History'
  <2> SUFFICES ASSUME NEW y \in Inputs
               PROVE  HistoryOf(at'[y], stage[y], failed[y], events[y])
    BY DEF History
  <2>1. HistoryOf(at[y], stage[y], failed[y], events[y])
    BY DEF IInv, History
  <2>2. CASE at'[y] = at[y]
    BY <2>1, <2>2
  <2>3. CASE at[y] = "converting" /\ at'[y] = "orphan"
    BY <2>1, <2>3 DEF HistoryOf
  <2>4. CASE at'[y] = "dropped"
    BY <2>4 DEF HistoryOf
  <2>5. QED
    BY <1>2, <2>2, <2>3, <2>4
<1>9. Ledger'
  BY <1>2 DEF IInv, Ledger, Result
<1>10. EventsLegal'
  BY DEF IInv, EventsLegal
<1>11. QED
  BY <1>3, <1>4, <1>5, <1>6, <1>7, <1>8, <1>9, <1>10 DEF IInv

\* No input is in flight before its run works, so nothing is given back.
LEMMA EagerConvertRaisesKeeps ==
  ASSUME IInv, NEW r \in Runs, EagerConvertRaises(r)
  PROVE  IInv'
<1>1. \A x \in Inputs : RunOf(x) = r => at[x] \in {"listed", "converted"}
  BY DEF IInv, RunPlaces, EagerConvertRaises
<1>2. Holders \cap InputsOf(r) = {}
  BY <1>1, InputFacts DEF Holders, Holding
<1>3. permits' = permits + Cardinality(Holders \cap InputsOf(r))
  <2>1. Cardinality(Holders \cap InputsOf(r)) = 0
    BY <1>2, FS_EmptySet
  <2>2. permits' = permits /\ permits \in Nat
    BY PipelineAssumption DEF EagerConvertRaises, IInv, TypeOK
  <2>3. QED
    BY <2>1, <2>2
<1>4. at' = [x \in Inputs |->
               IF RunOf(x) # r \/ at[x] = "delivered" THEN at[x]
               ELSE IF at[x] = "converting" THEN "orphan" ELSE "dropped"]
  BY <1>1 DEF EagerConvertRaises
<1>5. Abort(r)
  BY <1>3, <1>4 DEF Abort, EagerConvertRaises
<1>6. QED
  <2>1. /\ run[r] \in {"convert", "work"} /\ called' = called
        /\ UNCHANGED <<cancelled, stage, failed, events, outcome>>
    BY DEF EagerConvertRaises
  <2>2. called' \in [Inputs -> 0..1]
    BY <2>1 DEF IInv, TypeOK
  <2>3. QED
    BY <1>5, <2>1, <2>2, DropsInputs

LEMMA WorkRaisesKeeps ==
  ASSUME IInv, NEW x \in Inputs, CallbackRaises(x) \/ LateConvertRaises(x)
  PROVE  IInv'
<1>1. RunOf(x) \in Runs /\ Abort(RunOf(x)) /\ run[RunOf(x)] = "work"
  BY InputFacts DEF CallbackRaises, LateConvertRaises, Polls
<1>2. CASE CallbackRaises(x)
  <2>1. called[x] = 0 /\ at[x] = "finished"
    BY <1>2, Here DEF CallbackRaises
  <2>2. called' = [called EXCEPT ![x] = 1]
    BY <1>2, <2>1 DEF CallbackRaises
  <2>3. /\ called' \in [Inputs -> 0..1]
        /\ \A y \in Inputs : RunOf(y) # RunOf(x) \/ at[y] \in {"delivered", "converting"}
                              => called'[y] = called[y]
    BY <2>1, <2>2 DEF IInv, TypeOK
  <2>4. QED
    BY <1>1, <1>2, <2>3, DropsInputs DEF CallbackRaises
<1>3. CASE LateConvertRaises(x)
  BY <1>1, <1>3, DropsInputs DEF LateConvertRaises, IInv, TypeOK
<1>4. QED
  BY <1>2, <1>3

\* Steps of a run, or of its caller, that leave every input where it is.
LEMMA RunMoves ==
  ASSUME IInv, cancelled' \in BOOLEAN,
         run' \in [Runs -> {"idle", "convert", "work", "returned", "raised"}],
         \A r \in Runs : \/ run'[r] = run[r]
                         \/ run[r] \in {"idle", "convert"} /\ run'[r] \in {"convert", "work"}
                         \/ /\ run'[r] = "returned" /\ run[r] = "work"
                            /\ \A x \in InputsOf(r) : at[x] = "delivered",
         UNCHANGED <<permits, at, stage, failed, events, outcome, called>>
  PROVE  IInv'
<1>1. /\ Live' = Live /\ Holders' = Holders
      /\ PermitsAccounted' /\ OneFinished' /\ History' /\ Ledger' /\ EventsLegal'
  BY DEF IInv, Live, Holders, PermitsAccounted, OneFinished, History, Ledger, Result, EventsLegal
<1>2. TypeOK'
  BY DEF IInv, TypeOK
<1>3. RunPlaces'
  BY InputFacts DEF IInv, RunPlaces
<1>4. QED
  BY <1>1, <1>2, <1>3 DEF IInv

(***************************************************************************)
(* The invariant.                                                          *)
(***************************************************************************)

LEMMA InitInvariant == Init => IInv
<1> SUFFICES ASSUME Init
             PROVE  IInv
  OBVIOUS
<1>1. Live = {} /\ Holders = {}
  BY DEF Init, Live, Holders, Holding
<1>2. IsFiniteSet(Live) /\ PermitsAccounted
  BY <1>1, FS_EmptySet, PipelineAssumption DEF PermitsAccounted, Init
<1>3. TypeOK
  BY NothingTold, PipelineAssumption DEF Init, TypeOK, Places
<1>4. OneFinished /\ EventsLegal
  BY NothingTold DEF Init, OneFinished, EventsLegal
<1>5. RunPlaces
  BY InputFacts DEF Init, RunPlaces
<1>6. History
  BY NothingTold DEF Init, History, HistoryOf
<1>7. Ledger
  BY DEF Init, Ledger
<1>8. QED
  BY <1>2, <1>3, <1>4, <1>5, <1>6, <1>7 DEF IInv

LEMMA StepInvariant == IInv /\ [Next]_vars => IInv'
<1> SUFFICES ASSUME IInv, [Next]_vars
             PROVE  IInv'
  OBVIOUS
<1>1. CASE Cancel
  BY <1>1, RunMoves DEF Cancel, IInv, TypeOK
<1>2. ASSUME NEW r \in Runs, Start(r)
      PROVE  IInv'
  BY <1>2, RunMoves DEF Start, IInv, TypeOK
<1>3. ASSUME NEW r \in Runs, EagerConvertEnds(r)
      PROVE  IInv'
  BY <1>3, RunMoves DEF EagerConvertEnds, IInv, TypeOK
<1>4. ASSUME NEW r \in Runs, Return(r)
      PROVE  IInv'
  BY <1>4, RunMoves DEF Return, IInv, TypeOK
<1>5. ASSUME NEW r \in Runs, EagerConvertRaises(r)
      PROVE  IInv'
  BY <1>5, EagerConvertRaisesKeeps
<1>6. ASSUME NEW x \in Inputs, InputStep(x)
      PROVE  IInv'
  <2>1. CASE EagerConvert(x) \/ Pull(x) \/ Acquire(x) \/ LateConvert(x) \/ OrphanConverts(x)
    BY <2>1, EagerConvertKeeps, PullKeeps, AcquireKeeps, LateConvertKeeps, OrphanConvertsKeeps
  <2>2. CASE StartStage(x) \/ Dispatch(x) \/ DispatchRefused(x) \/ Answered(x)
    BY <2>2, StartStageKeeps, DispatchKeeps
  <2>3. CASE EndStage(x) \/ RunOneReturns(x)
    BY <2>3, EndStageKeeps, RunOneReturnsKeeps
  <2>4. CASE Collect(x) \/ HandOver(x)
    BY <2>4, DeliveryKeeps
  <2>5. CASE CallbackRaises(x) \/ LateConvertRaises(x)
    BY <2>5, WorkRaisesKeeps
  <2>6. QED
    BY <1>6, <2>1, <2>2, <2>3, <2>4, <2>5 DEF InputStep
<1>7. CASE UNCHANGED vars
  BY <1>7, RunMoves DEF vars, IInv, TypeOK
<1>8. QED
  BY <1>1, <1>2, <1>3, <1>4, <1>5, <1>6, <1>7 DEF Next, RunStep

\* IInv holds in every state of every behaviour.
THEOREM Invariant == Spec => []IInv
BY InitInvariant, StepInvariant, PTL DEF Spec

(***************************************************************************)
(* The properties.                                                         *)
(***************************************************************************)

\* Every variable keeps its type: in particular no abort of a run makes more
\* permits than the semaphore was built with, and no callback gets an input twice.
THEOREM TypesHold == Spec => []TypeOK
<1>1. IInv => TypeOK
  BY DEF IInv
<1>2. QED
  BY <1>1, Invariant, PTL

\* The semaphore that all runs share neither loses nor gains a permit.
THEOREM PermitsHold == Spec => []PermitsAccounted
<1>1. IInv => PermitsAccounted
  BY DEF IInv
<1>2. QED
  BY <1>1, Invariant, PTL

\* Both at once: runs that share a semaphore leave it, and each other, sound
\* (the drop of a run's futures, pipeline.rs:545 and 591).
THEOREM PipelineSafe == Spec => []PipelineSound
<1>1. TypeOK /\ PermitsAccounted => PipelineSound
  BY DEF PipelineSound
<1>2. QED
  BY <1>1, TypesHold, PermitsHold, PTL

\* What the sink hears of a source is the history of one pass, for any number
\* of stages.
THEOREM EventsHold == Spec => []EventsLegal
<1>1. IInv => EventsLegal
  BY DEF IInv
<1>2. QED
  BY <1>1, Invariant, PTL

\* An outcome agrees with the events of its source.
THEOREM OutcomesAgree == Spec => []OutcomeTold
<1>1. IInv => OutcomeTold
  <2> SUFFICES ASSUME IInv, NEW x \in Inputs
               PROVE  /\ outcome[x] = "ok" => /\ Told(events[x], Ev("injected", Stages))
                                              /\ Told(events[x], Ev("completed", 0))
                      /\ outcome[x] = "failed" <=>
                           /\ at[x] = "delivered"
                           /\ \E s \in 0..Stages : Told(events[x], Ev("failed", s))
    BY DEF OutcomeTold
  <2>1. /\ failed[x] \in BOOLEAN
        /\ outcome[x] = IF at[x] = "delivered" THEN Result(x) ELSE "none"
        /\ HistoryOf(at[x], stage[x], failed[x], events[x])
    BY DEF IInv, TypeOK, Ledger, History
  <2>2. QED
    BY <2>1 DEF Result, HistoryOf
<1>2. QED
  BY <1>1, Invariant, PTL

\* A run that returns has handed out every input, and its callback has had the
\* successes, each once.
THEOREM OutcomesComplete == Spec => []OutcomeComplete
<1>1. IInv => OutcomeComplete
  BY InputFacts DEF IInv, TypeOK, RunPlaces, Ledger, Result, OutcomeComplete
<1>2. QED
  BY <1>1, Invariant, PTL

\* The callback runs of a pipeline together hold at most `workers` parsed
\* documents, and one for each run with an outcome to hand over.
THEOREM ParsedHold == Spec => []ParsedBounded
<1>1. IInv => ParsedBounded
  <2> SUFFICES ASSUME IInv
               PROVE  ParsedBounded
    OBVIOUS
  <2> DEFINE F == {x \in Parsed : at[x] = "finished"}
             R == {r \in CallbackRuns : \E x \in InputsOf(r) : at[x] = "finished"}
             f == [x \in F |-> RunOf(x)]
  <2>1. /\ IsFiniteSet(Holders) /\ IsFiniteSet(Parsed) /\ IsFiniteSet(F)
        /\ Parsed \in SUBSET (Holders \cup F)
    <3>1. Holders \in SUBSET Live /\ Parsed \in SUBSET Live /\ F \in SUBSET Live
      BY DEF Holders, Parsed, Live
    <3>2. Parsed \in SUBSET (Holders \cup F)
      BY DEF Parsed, Holders
    <3>3. IsFiniteSet(Live)
      BY DEF IInv
    <3>4. QED
      BY <3>1, <3>2, <3>3, FS_Subset
  <2>2. f \in Bijection(F, R)
    <3>1. f \in [F -> R]
      BY InputFacts, PipelineAssumption DEF Parsed
    <3>2. \A x, y \in F : f[x] = f[y] => x = y
      BY DEF Parsed, IInv, OneFinished
    <3>3. \A r \in R : \E x \in F : f[x] = r
      BY InputFacts, PipelineAssumption DEF Parsed
    <3>4. QED
      BY <3>1, <3>2, <3>3 DEF Bijection, Injection, Surjection, IsInjective
  <2>3. Cardinality(R) = Cardinality(F)
    BY <2>1, <2>2, FS_Bijection DEF ExistsBijection
  <2>4. Cardinality(Parsed) <= Cardinality(Holders) + Cardinality(F)
    <3>1. /\ IsFiniteSet(Holders \cup F)
          /\ Cardinality(Holders \cup F) =
               Cardinality(Holders) + Cardinality(F) - Cardinality(Holders \cap F)
      BY <2>1, FS_Union
    <3>2. Cardinality(Parsed) <= Cardinality(Holders \cup F)
      BY <2>1, <3>1, FS_Subset
    <3>3. /\ Cardinality(Parsed) \in Nat /\ Cardinality(Holders) \in Nat
          /\ Cardinality(F) \in Nat /\ Cardinality(Holders \cap F) \in Nat
      BY <2>1, FS_Intersection, FS_CardinalityType
    <3>4. QED
      BY <3>1, <3>2, <3>3
  <2>5. Cardinality(Holders) <= Workers
    <3>1. permits \in Nat /\ permits + Cardinality(Holders) = Workers
      BY DEF IInv, TypeOK, PermitsAccounted
    <3>2. Cardinality(Holders) \in Nat
      BY <2>1, FS_CardinalityType
    <3>3. QED
      BY <3>1, <3>2, PipelineAssumption
  <2>6. /\ Cardinality(Parsed) \in Nat /\ Cardinality(Holders) \in Nat
        /\ Cardinality(F) \in Nat
    BY <2>1, FS_CardinalityType
  <2> HIDE DEF F, R
  <2>7. Cardinality(Parsed) <= Workers + Cardinality(R)
    BY <2>3, <2>4, <2>5, <2>6, PipelineAssumption
  <2>8. QED
    BY <2>7 DEF ParsedBounded, R
<1>2. QED
  BY <1>1, Invariant, PTL
===============================================================================
