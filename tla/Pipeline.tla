------------------------------- MODULE Pipeline -------------------------------
(***************************************************************************)
(* Pipeline.run of batchalign-engine (src/crates/batchalign/               *)
(* batchalign-engine/src/pipeline.rs): several runs of one pipeline, from  *)
(* different Python threads, each a list of inputs that pass through the   *)
(* stages of the pipeline in order.                                        *)
(*                                                                         *)
(* A run polls the futures of its inputs on the thread that called it:     *)
(* a bounded window of them, while the semaphore all runs share bounds the *)
(* inputs being worked on.  Without an outcome callback a run converts its *)
(* inputs first and collects the outcomes in order; with one it converts   *)
(* each input after admission and hands outcomes over as they come.        *)
(*                                                                         *)
(* Dispatching to a backend is taken from DispatchContract: refused when   *)
(* cancelled, answered with an output or an error otherwise.               *)
(***************************************************************************)
EXTENDS Naturals, Sequences, FiniteSets

CONSTANTS
  Runs,        \* calls of Pipeline.run on one pipeline
  CallbackRuns,\* those with an outcome_callback
  N,           \* N[r]: how many inputs run r has
  Stages,      \* length of the pipeline's task order
  Workers      \* the `workers` argument: permits, and size of a run's window

ASSUME PipelineAssumption ==
  /\ CallbackRuns \subseteq Runs
  /\ N \in [Runs -> Nat]
  /\ Stages \in Nat \ {0}   \* a pipeline of no task is legal and does nothing
  /\ Workers \in Nat \ {0}

Inputs == UNION {{r} \X (1..N[r]) : r \in Runs}
InputsOf(r) == {r} \X (1..N[r])
RunOf(x) == x[1]

VARIABLES
  cancelled,   \* the engine's flag, shared by all runs and never reset
  permits,     \* free permits of PipelineInner.sem
  run,         \* run[r]: where the call stands
  at,          \* at[x]: where the future of input x stands
  stage,       \* stage[x]: the stage that comes next for x, 1..Stages + 1
  failed,      \* failed[x]: the value of x is BAValue::Failed
  events,      \* events[x]: what the sink received for x
  outcome,     \* outcome[x]: what the run hands out for x
  called       \* called[x]: how often the outcome callback received x

vars == <<cancelled, permits, run, at, stage, failed, events, outcome, called>>

Places == {"listed", "converted", "queued", "converting", "staged", "applying",
           "awaiting", "replied", "finished", "delivered", "dropped", "orphan"}

\* The futures that own a permit of the semaphore.
Holding == {"converting", "staged", "applying", "awaiting", "replied"}
Holders == {x \in Inputs : at[x] \in Holding}

Event == [kind : {"started", "injected", "failed"}, stage : 0..Stages]
           \cup {[kind |-> "completed", stage |-> 0]}
Ev(k, s) == [kind |-> k, stage |-> s]

TypeOK ==
  /\ cancelled \in BOOLEAN
  /\ permits \in 0..Workers
  /\ run \in [Runs -> {"idle", "convert", "work", "returned", "raised"}]
  /\ at \in [Inputs -> Places]
  /\ stage \in [Inputs -> 1..(Stages + 1)]
  /\ failed \in [Inputs -> BOOLEAN]
  /\ events \in [Inputs -> Seq(Event)]
  /\ outcome \in [Inputs -> {"none", "ok", "failed"}]
  /\ called \in [Inputs -> 0..1]

\* A pipeline just built, or one that an earlier run left cancelled.
Init ==
  /\ cancelled \in BOOLEAN
  /\ permits = Workers
  /\ run = [r \in Runs |-> "idle"]
  /\ at = [x \in Inputs |-> "listed"]
  /\ stage = [x \in Inputs |-> 1]
  /\ failed = [x \in Inputs |-> FALSE]
  /\ events = [x \in Inputs |-> <<>>]
  /\ outcome = [x \in Inputs |-> "none"]
  /\ called = [x \in Inputs |-> 0]

\* sink.emit for the source of x.
Emit(x, es) == events' = [events EXCEPT ![x] = @ \o es]
-------------------------------------------------------------------------------
(***************************************************************************)
(* Conversion of Python inputs.                                            *)
(***************************************************************************)

\* convert_input_or_failure when conversion fails and the source is known.
ConversionEvents == <<Ev("failed", 0), Ev("completed", 0)>>

Start(r) ==
  /\ run[r] = "idle"
  /\ run' = [run EXCEPT ![r] = IF r \in CallbackRuns THEN "work" ELSE "convert"]
  /\ UNCHANGED <<cancelled, permits, at, stage, failed, events, outcome, called>>

\* The eager loop of run: each input in turn, before any work.
EagerConvert(x) ==
  /\ run[RunOf(x)] = "convert"
  /\ at[x] = "listed"
  /\ \A j \in 1..(x[2] - 1) : at[<<RunOf(x), j>>] = "converted"
  /\ at' = [at EXCEPT ![x] = "converted"]
  /\ \/ UNCHANGED <<failed, events>>
     \/ /\ failed' = [failed EXCEPT ![x] = TRUE]
        /\ Emit(x, ConversionEvents)
  /\ UNCHANGED <<cancelled, permits, run, stage, outcome, called>>

\* An input without a recoverable source id raises: nothing has been started.
EagerConvertRaises(r) ==
  /\ run[r] = "convert"
  /\ \E x \in InputsOf(r) : at[x] = "listed"
  /\ run' = [run EXCEPT ![r] = "raised"]
  /\ at' = [x \in Inputs |-> IF RunOf(x) = r THEN "dropped" ELSE at[x]]
  /\ UNCHANGED <<cancelled, permits, stage, failed, events, outcome, called>>

EagerConvertEnds(r) ==
  /\ run[r] = "convert"
  /\ \A x \in InputsOf(r) : at[x] = "converted"
  /\ run' = [run EXCEPT ![r] = "work"]
  /\ UNCHANGED <<cancelled, permits, at, stage, failed, events, outcome, called>>
-------------------------------------------------------------------------------
(***************************************************************************)
(* The window and the semaphore.                                           *)
(***************************************************************************)

\* Futures the stream holds: constructed, and not handed out.
InWindow(r) ==
  {x \in InputsOf(r) : at[x] \in Holding \cup {"queued", "finished"}}

\* A mutant of Polls: a run that goes on while it hands an outcome over.
PollsAlways(r) == run[r] = "work"

\* A callback run polls nothing while it hands an outcome over.
Polls(r) ==
  /\ run[r] = "work"
  /\ r \in CallbackRuns => \A x \in InputsOf(r) : at[x] # "finished"

\* A mutant of WindowHasRoom: an outcome handed out keeps its place.
WindowNeverShrinks(r) ==
  Cardinality(InWindow(r) \cup {x \in InputsOf(r) : at[x] = "delivered"}) < Workers

WindowHasRoom(r) == Cardinality(InWindow(r)) < Workers

\* buffered / buffer_unordered construct the next future.
Pull(x) ==
  LET r == RunOf(x) IN
  /\ Polls(r)
  /\ at[x] = IF r \in CallbackRuns THEN "listed" ELSE "converted"
  /\ \A j \in 1..(x[2] - 1) : at[<<r, j>>] \notin {"listed", "converted"}
  /\ WindowHasRoom(r)
  /\ at' = [at EXCEPT ![x] = "queued"]
  /\ UNCHANGED <<cancelled, permits, run, stage, failed, events, outcome, called>>

\* sem.acquire_owned().await; a callback run then converts on a blocking thread.
Acquire(x) ==
  /\ at[x] = "queued"
  /\ Polls(RunOf(x))
  /\ permits > 0
  /\ permits' = permits - 1
  /\ at' = [at EXCEPT ![x] = IF RunOf(x) \in CallbackRuns THEN "converting" ELSE "staged"]
  /\ UNCHANGED <<cancelled, run, stage, failed, events, outcome, called>>

\* Conversion after admission: a value, or a Failed with its closing events.
LateConvert(x) ==
  /\ at[x] = "converting"
  /\ Polls(RunOf(x))
  /\ at' = [at EXCEPT ![x] = "staged"]
  /\ \/ UNCHANGED <<failed, events>>
     \/ /\ failed' = [failed EXCEPT ![x] = TRUE]
        /\ Emit(x, ConversionEvents)
  /\ UNCHANGED <<cancelled, permits, run, stage, outcome, called>>
-------------------------------------------------------------------------------
(***************************************************************************)
(* run_one and try_step.                                                   *)
(***************************************************************************)

\* A mutant of FailStage: every failure returns as the one without a runner
\* does (pipeline.rs:785), and the sink is not told.
FailSilently(x, es) ==
  /\ Emit(x, es)
  /\ failed' = [failed EXCEPT ![x] = TRUE]
  /\ stage' = [stage EXCEPT ![x] = @ + 1]
  /\ at' = [at EXCEPT ![x] = "staged"]

\* try_step returns Failed: the value is poisoned, the loop goes on.
FailStage(x, es) ==
  /\ Emit(x, Append(es, Ev("failed", stage[x])))
  /\ failed' = [failed EXCEPT ![x] = TRUE]
  /\ stage' = [stage EXCEPT ![x] = @ + 1]
  /\ at' = [at EXCEPT ![x] = "staged"]

Unshared == <<cancelled, permits, run, outcome, called>>

\* A mutant of NextStage: the head of the loop ignores a failed value.
NextStageUnchecked(x) == stage[x] <= Stages
NextStage(x) == ~failed[x] /\ stage[x] <= Stages

\* StageStarted and the pre-stage gate; then the runner, which refuses a value
\* of another kind or says StageStarted itself.
StartStage(x) ==
  /\ at[x] = "staged"
  /\ Polls(RunOf(x))
  /\ NextStage(x)
  /\ \/ /\ at' = [at EXCEPT ![x] = "applying"]
        /\ Emit(x, <<Ev("started", stage[x]), Ev("started", stage[x])>>)
        /\ UNCHANGED <<failed, stage>>
     \/ FailStage(x, <<Ev("started", stage[x])>>)
  /\ UNCHANGED Unshared

\* The runner dispatches: refused once the engine is cancelled.
Dispatch(x) ==
  /\ at[x] = "applying"
  /\ Polls(RunOf(x))
  /\ ~cancelled
  /\ at' = [at EXCEPT ![x] = "awaiting"]
  /\ UNCHANGED <<stage, failed, events>>
  /\ UNCHANGED Unshared

DispatchRefused(x) ==
  /\ at[x] = "applying"
  /\ Polls(RunOf(x))
  /\ cancelled
  /\ FailStage(x, <<>>)
  /\ UNCHANGED Unshared

\* The engine answers: an output, or an error that ends the stage.
Answered(x) ==
  /\ at[x] = "awaiting"
  /\ Polls(RunOf(x))
  /\ \/ /\ at' = [at EXCEPT ![x] = "replied"]
        /\ UNCHANGED <<stage, failed, events>>
     \/ FailStage(x, <<>>)
  /\ UNCHANGED Unshared

\* The runner is done, with or without a dispatch: it fails, or it says
\* StageInjected; then the post-stage gate rejects its value, or try_step says
\* StageInjected as well.
EndStage(x) ==
  /\ at[x] \in {"applying", "replied"}
  /\ Polls(RunOf(x))
  /\ \/ FailStage(x, <<>>)
     \/ FailStage(x, <<Ev("injected", stage[x])>>)
     \/ /\ Emit(x, <<Ev("injected", stage[x]), Ev("injected", stage[x])>>)
        /\ stage' = [stage EXCEPT ![x] = @ + 1]
        /\ at' = [at EXCEPT ![x] = "staged"]
        /\ UNCHANGED failed
  /\ UNCHANGED Unshared

\* run_one returns: at the head of the loop with a failed value, or past the
\* last stage, and then it also reports SourceCompleted.
RunOneReturnsBy(x, released) ==
  /\ at[x] = "staged"
  /\ Polls(RunOf(x))
  /\ ~NextStage(x)
  /\ IF stage[x] > Stages THEN Emit(x, <<Ev("completed", 0)>>) ELSE UNCHANGED events
  /\ permits' = permits + released
  /\ at' = [at EXCEPT ![x] = "finished"]
  /\ UNCHANGED <<cancelled, run, stage, failed, outcome, called>>

\* A mutant of RunOneReturns: a failed value returns without its permit.
RunOneLeaksPermit(x) == RunOneReturnsBy(x, IF failed[x] THEN 0 ELSE 1)
RunOneReturns(x) == RunOneReturnsBy(x, 1)
-------------------------------------------------------------------------------
(***************************************************************************)
(* Handing outcomes out.                                                   *)
(***************************************************************************)

Result(x) == IF failed[x] THEN "failed" ELSE "ok"

DeliverNext(x) == \A j \in 1..(x[2] - 1) : at[<<RunOf(x), j>>] = "delivered"

\* buffered(..).collect(): outcomes leave the stream in input order.
Collect(x) ==
  /\ run[RunOf(x)] = "work"
  /\ RunOf(x) \notin CallbackRuns
  /\ at[x] = "finished"
  /\ DeliverNext(x)
  /\ at' = [at EXCEPT ![x] = "delivered"]
  /\ outcome' = [outcome EXCEPT ![x] = Result(x)]
  /\ UNCHANGED <<cancelled, permits, run, stage, failed, events, called>>

\* An outcome in order of completion; the callback receives successes only.
HandOver(x) ==
  /\ run[RunOf(x)] = "work"
  /\ RunOf(x) \in CallbackRuns
  /\ at[x] = "finished"
  /\ at' = [at EXCEPT ![x] = "delivered"]
  /\ outcome' = [outcome EXCEPT ![x] = Result(x)]
  /\ called' = [called EXCEPT ![x] = IF failed[x] THEN @ ELSE @ + 1]
  /\ UNCHANGED <<cancelled, permits, run, stage, failed, events>>

\* A mutant of Abort: futures that wait for a permit give one back as well.
AbortReleasesQueued(r) ==
  /\ run' = [run EXCEPT ![r] = "raised"]
  /\ permits' = permits + Cardinality({x \in InputsOf(r) : at[x] \in Holding \cup {"queued"}})
  /\ at' = [x \in Inputs |->
              IF RunOf(x) # r \/ at[x] = "delivered" THEN at[x]
              ELSE IF at[x] = "converting" THEN "orphan" ELSE "dropped"]

\* The run returns an error and drops its stream: every future gives its
\* permit back; a conversion in progress keeps its thread.
Abort(r) ==
  /\ run' = [run EXCEPT ![r] = "raised"]
  /\ permits' = permits + Cardinality(Holders \cap InputsOf(r))
  /\ at' = [x \in Inputs |->
              IF RunOf(x) # r \/ at[x] = "delivered" THEN at[x]
              ELSE IF at[x] = "converting" THEN "orphan" ELSE "dropped"]

\* The callback raises on a successful outcome.
CallbackRaises(x) ==
  /\ run[RunOf(x)] = "work"
  /\ RunOf(x) \in CallbackRuns
  /\ at[x] = "finished"
  /\ ~failed[x]
  /\ called' = [called EXCEPT ![x] = @ + 1]
  /\ Abort(RunOf(x))
  /\ UNCHANGED <<cancelled, stage, failed, events, outcome>>

\* An admitted input without a recoverable source id fails the whole run.
LateConvertRaises(x) ==
  /\ at[x] = "converting"
  /\ Polls(RunOf(x))
  /\ Abort(RunOf(x))
  /\ UNCHANGED <<cancelled, stage, failed, events, outcome, called>>

\* A conversion whose run is gone still reports its failure to the sink.
OrphanConverts(x) ==
  /\ at[x] = "orphan"
  /\ at' = [at EXCEPT ![x] = "dropped"]
  /\ events' \in {events, [events EXCEPT ![x] = @ \o ConversionEvents]}
  /\ UNCHANGED <<cancelled, permits, run, stage, failed, outcome, called>>

\* A mutant of Return: it ends when no future is left, not when no input is.
ReturnEarly(r) ==
  /\ run[r] = "work"
  /\ InWindow(r) = {}
  /\ run' = [run EXCEPT ![r] = "returned"]
  /\ UNCHANGED <<cancelled, permits, at, stage, failed, events, outcome, called>>

Return(r) ==
  /\ run[r] = "work"
  /\ \A x \in InputsOf(r) : at[x] = "delivered"
  /\ run' = [run EXCEPT ![r] = "returned"]
  /\ UNCHANGED <<cancelled, permits, at, stage, failed, events, outcome, called>>

\* Pipeline.cancel, or the watchdog of a run that saw a signal.
Cancel ==
  /\ ~cancelled
  /\ cancelled' = TRUE
  /\ UNCHANGED <<permits, run, at, stage, failed, events, outcome, called>>
-------------------------------------------------------------------------------
InputStep(x) ==
  \/ EagerConvert(x) \/ Pull(x) \/ Acquire(x) \/ LateConvert(x)
  \/ StartStage(x) \/ Dispatch(x) \/ DispatchRefused(x) \/ Answered(x)
  \/ EndStage(x) \/ RunOneReturns(x) \/ Collect(x) \/ HandOver(x)
  \/ CallbackRaises(x) \/ LateConvertRaises(x) \/ OrphanConverts(x)

RunStep(r) == EagerConvertRaises(r) \/ EagerConvertEnds(r) \/ Return(r)

Next == \/ Cancel
        \/ \E r \in Runs : Start(r) \/ RunStep(r)
        \/ \E x \in Inputs : InputStep(x)

Spec == Init /\ [][Next]_vars

\* The calling thread keeps polling, a conversion and a callback return, and
\* the engine answers (AcceptedReturns of Engine).
Fairness == /\ \A x \in Inputs : WF_vars(InputStep(x))
            /\ \A r \in Runs : WF_vars(RunStep(r))

FairSpec == Spec /\ Fairness
-------------------------------------------------------------------------------
(***************************************************************************)
(* Properties.                                                             *)
(***************************************************************************)

\* The shared semaphore neither loses nor gains a permit, whatever runs fail,
\* return or are dropped in the middle (the RAII permit of the per-input
\* futures, pipeline.rs:545 and 591).
PermitsAccounted == permits + Cardinality(Holders) = Workers

\* A step of one run leaves the other runs, and the semaphore, as they have to be:
\* dropping a run gives back no more than it held (TypeOK bounds the permits).
PipelineSound == TypeOK /\ PermitsAccounted

\* Documents parsed and not handed out yet, of the runs that parse late.
Parsed == {x \in Inputs : /\ RunOf(x) \in CallbackRuns
                          /\ at[x] \in Holding \cup {"finished"}}

\* All callback runs of a pipeline together hold at most `workers` parsed
\* documents, and one for each outcome being handed over (pipeline.rs:595,
\* "a directory run retains at most `workers` parsed inputs").
ParsedBounded ==
  Cardinality(Parsed) <=
    Workers + Cardinality({r \in CallbackRuns : \E x \in InputsOf(r) : at[x] = "finished"})

\* May e follow what came before it, d, in the events of one source?
MayFollow(d, e) ==
  \/ e.kind = "started"   /\ d \in {Ev("started", e.stage), Ev("injected", e.stage - 1)}
  \/ e.kind \in {"injected", "failed"} /\ d \in {Ev("started", e.stage), Ev("injected", e.stage)}
  \/ e.kind = "completed" /\ d \in {Ev("injected", Stages), Ev("failed", Stages), Ev("failed", 0)}

Legal(es) ==
  /\ Len(es) > 0 => es[1] \in {Ev("started", 1), Ev("failed", 0)}
  /\ \A i \in 2..Len(es) : MayFollow(es[i - 1], es[i])

\* What a progress callback hears of its source is the history of one pass:
\* stages start in order, each is injected before the next starts, a failure
\* ends the pass and nothing follows SourceCompleted (run_one, try_step, the
\* runners, convert_input_or_failure).
EventsLegal == \A x \in Inputs : Legal(events[x])

Told(es, e) == \E i \in 1..Len(es) : es[i] = e

\* An outcome agrees with what the sink was told of its source: a success has
\* injected its last stage and completed, a failure has its StageFailed.
OutcomeTold ==
  \A x \in Inputs :
    /\ outcome[x] = "ok" => /\ Told(events[x], Ev("injected", Stages))
                            /\ Told(events[x], Ev("completed", 0))
    /\ outcome[x] = "failed" <=> /\ at[x] = "delivered"
                                 /\ \E s \in 0..Stages : Told(events[x], Ev("failed", s))

\* A run that returns has an outcome for every input ("one outcome per input",
\* pipeline.rs:631), and its callback has had each success once and no failure.
OutcomeComplete ==
  \A r \in Runs : run[r] = "returned" =>
    \A x \in InputsOf(r) :
      /\ outcome[x] # "none"
      /\ called[x] = IF r \in CallbackRuns /\ outcome[x] = "ok" THEN 1 ELSE 0

\* run() comes back: a run that waits for permits another run holds, keeps
\* finished inputs behind a slow first one, or was cancelled, ends.
RunReturns ==
  \A r \in Runs : run[r] \in {"convert", "work"} ~> run[r] \in {"returned", "raised"}
-------------------------------------------------------------------------------
(***************************************************************************)
(* The invariant behind these properties.                                  *)
(***************************************************************************)

\* Inputs whose document is held: being worked on, or finished.
Live == {x \in Inputs : at[x] \in Holding \cup {"finished"}}

\* A callback run has one finished input at a time.
OneFinished ==
  \A x, y \in Inputs :
    /\ RunOf(x) = RunOf(y) /\ RunOf(x) \in CallbackRuns
    /\ at[x] = "finished" /\ at[y] = "finished"
    => x = y

\* Nothing is worked on before the conversion is over, an input of a callback
\* run is not converted before its admission, nothing is left when the run has
\* returned.
RunPlaces ==
  \A x \in Inputs :
    /\ run[RunOf(x)] \in {"idle", "convert"} => at[x] \in {"listed", "converted"}
    /\ at[x] = "queued" /\ RunOf(x) \in CallbackRuns => ~failed[x]
    /\ run[RunOf(x)] = "returned" => at[x] = "delivered"

LastIs(es, e) == es # <<>> /\ es[Len(es)] = e

\* What place p of an input says of its next stage g, of whether its value is a
\* failure (b), and of its events es.
HistoryOf(p, g, b, es) ==
  /\ p \in {"listed", "converting", "orphan"} => g = 1 /\ ~b /\ es = <<>>
  /\ p \in {"converted", "queued"} => g = 1 /\ es = IF b THEN ConversionEvents ELSE <<>>
  /\ p = "staged" => \/ g = 1 /\ es = IF b THEN ConversionEvents ELSE <<>>
                     \/ g > 1 /\ LastIs(es, Ev(IF b THEN "failed" ELSE "injected", g - 1))
  /\ p \in {"applying", "awaiting", "replied"} =>
       g <= Stages /\ ~b /\ LastIs(es, Ev("started", g))
  /\ p \in {"finished", "delivered"} =>
       IF b THEN \E s \in 0..Stages : Told(es, Ev("failed", s))
       ELSE Told(es, Ev("injected", Stages)) /\ Told(es, Ev("completed", 0))
  /\ p # "dropped" /\ ~b => \A s \in 0..Stages : ~Told(es, Ev("failed", s))

History == \A x \in Inputs : HistoryOf(at[x], stage[x], failed[x], events[x])

\* What has been handed out.
Ledger ==
  \A x \in Inputs :
    /\ outcome[x] = IF at[x] = "delivered" THEN Result(x) ELSE "none"
    /\ at[x] \notin {"delivered", "dropped"} => called[x] = 0
    /\ at[x] = "delivered" =>
         called[x] = IF RunOf(x) \in CallbackRuns /\ ~failed[x] THEN 1 ELSE 0

IInv == /\ TypeOK /\ IsFiniteSet(Live) /\ PermitsAccounted /\ OneFinished
        /\ RunPlaces /\ History /\ Ledger /\ EventsLegal
===============================================================================
