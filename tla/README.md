# Batchalign in TLA+

Batchalign runs language-sample analysis: it transcribes audio, aligns words
with it, and annotates CHAT transcripts. Its core is a Rust engine with a
Python extension module, a daemon with an HTTP API, a command line and a
desktop application. This directory holds TLA+ modules of the parts where
order, failure and concurrency decide whether a result is right, the TLC
configurations that check them on small instances, and proofs for every
instance.

Run inside this directory:

    tlc -workers 2 -config EngineUse.cfg MCEngine.tla
    tlapm EngineProofs.tla

`PROJECT.json` lists every run with its configuration, which source lines each
definition stands for, the hazards of the code with the properties that cover
them, and for each property a plausible bug (a *mutant* definition in the
module) that breaks it. A definition marked "a mutant of X" is never part of a
specification; it stands before the definition it replaces.

Paths below are short: `engine/` is
`crates/batchalign/batchalign-engine/src/`, `core/` is
`crates/batchalign/batchalign-core/src/`, `py/` is `python/batchalign/`,
`gui/` is `apps/batchalign/batchalign-gui/src/` and `tauri/` its
`src-tauri/src/`.

## 1. Inventory

### How the parts call each other

    user interface (gui/) --commands, events--> shell (tauri/) --HTTP, pumps--> daemon (py/api.py)
    daemon --threads--> recipe jobs (py/api.py) --------------------------> Pipeline.run
    daemon --supervisor process--> worker (py/desktop_process.py, desktop.py) --> Pipeline.run
    command line (py/cli) ------------------------------------------------> Pipeline.run
    Pipeline.run (engine/pipeline.rs) --per input, stage by stage--> task runner (core/taskrunners)
    task runner --dispatch--> engine (engine/engine.rs) --channel--> batcher (engine/batcher.rs)
    batcher --get, put--> cache (engine/cache.rs);  batcher --call--> back end (Python or native)

### Components

| component | state | operations | what is hard | correct means |
|---|---|---|---|---|
| engine dispatch and batching | routes, cancel flag, one channel and one loop per back end | dispatch, cancel, shutdown, register; collect, call, reply, store | callers that come, wait or go away at any moment; batches shared by callers; a store that ends after the reply | nobody waits for ever; each caller gets its own output; nothing stored is computed again |
| output cache | one LMDB environment per path, policy | get, put, clear | one handle per process, swallowed errors | an entry is an output for its key |
| pipeline runs | semaphore, window of futures, value and events of each input | run (two delivery modes), cancel | several runs share permits; callbacks and conversions raise in the middle; failed values travel on | one outcome per input, events that form one pass, bounded memory, run() returns |
| forced alignment | bullets and `%wor` tiers of a file | reuse, refresh, ask, merge, rebalance, write, repair the order | answers that run backwards or overlap; times of an earlier run | bullets in order, words under bullets, trusted times kept |
| recipe jobs | state, result, event queue | start, progress, stream, DELETE, result | thread and requests write the same fields | marker before nothing, failures told |
| desktop jobs | job, supervisor, worker process, event file, result file, destinations | start, follow, stop, stage, publish | two processes and a pipe; crashes, hangs, DELETE | no writer outlives its job; nothing half done is published |
| daemon of the desktop application | latch, handle, child, start-up error, shutdown watches | spawn, ensure, drain, fail, stop; requests | start and failure race requests and listeners | one daemon; the interface shows what is the case |
| desktop user interface | batches, files, stages, connection | reducer, start of a batch, bridge | late and missing events | a batch ends as its job did |
| other task runners | the transcript, the answers so far, progress | ask, then split, relabel, annotate or rebuild utterances in place | concurrent answers, partial reuse, answers of the wrong size, tiers that outlive the words they describe | tiers describe their words; what is said survives; a voice has one code |
| transcription and time recovery | none between files | recognised elements to utterances; utterances to times | rules that cut, spell, mark and share out time one after another; words heard out of order | each word once, in time order, in one place; no bullet overlaps by accident |
| task graph, progress | order, counter | topo sort, ScaledProgress | concurrent dispatches share a counter | dependencies first; progress within its total |
| transcript algorithms | none | alignment, segmentation, comparison, numerals, dates, stamps, review tiers | boundaries, empty inputs, fast paths | the result a plain definition gives |
| transcript object for Python | entries, shared utterance objects | list operations, speaker, time, text, tiers, parse, write | languages and participants are derived when written | a written document reads back the same |
| outputs of a run | files beside a path, an outcome until it is written | write of transcripts, tables, media, lists, failures | nested values and failures | what does not parse is not written; failures leave a log |
| terminal display | state of a task | start, stage, update, complete, fail, skip | events after the end | states only advance |
| wire format, bridge to Python, native and Python back ends, recipes, inputs, build | little or none | accessors, conversions, calls of services | outside | – |

The last rows and what is still open of the others are listed in `PROJECT.json` as not
modelled, each with its reason.

### Where it is hard

The full list, line by line, is `hazards` in `PROJECT.json`. The main groups:

* callers of one batch (`engine/batcher.rs`): three parallel vectors of inputs,
  replies and outputs; the cache consulted before and written after the call;
* sharing between runs (`engine/pipeline.rs`): permits given back by dropped
  futures, the flag of `cancel()` that is never reset;
* values that failed but travel on (`run_one`, `try_step`);
* threads and requests that test a state and then write it (`py/api.py`,
  `py/desktop_process.py`);
* processes that must not outlive what they work for (`desktop_process.py`,
  `tauri/daemon.rs`);
* messages that come before anyone listens (`gui/bridge.ts`);
* output of a stage that is the input of its next run, or of another stage: a
  split (`taskrunners/utseg.rs`, `speaker.rs`) has to take along or drop every tier that
  counts the words it moved, and each runner counts words in its own way
  (`%mor`, `%wor` and `%pho` differ on fillers, retraces, separators and pauses);
* chains of small rules over recognised text, each right alone
  (`core/asr/`), and times that must survive them;
* fast paths beside a general algorithm (`alignment/mod.rs`, `utr/strategy.rs`);
* an object that several documents share and whose meaning depends on the
  document it is in (`core/pychat/`).

## 2. Modules

| module | models | lines of code |
|---|---|---|
| `DispatchContract` | what `dispatch` promises, nothing of how | – |
| `Engine` | `engine/engine.rs`, `batcher.rs`, get and put of `cache.rs`, the drop of the runtime | about 380 |
| `EngineProofs` | theorems about `Engine` and its refinement of `DispatchContract` | |
| `Pipeline` | `engine/pipeline.rs`: run, both delivery modes, permits, stage loop, events, cancel | about 415 |
| `PipelineProofs` | theorems about `Pipeline` | |
| `FaTimings` | `core/taskrunners/fa.rs`: the whole stage | about 745 |
| `FaTimingsProofs` | theorems about `FaTimings`: what is written, what is reused | |
| `DesktopJob` | `py/desktop_process.py`, `desktop.py`, DELETE and stream of `api.py` | about 270 |
| `DesktopJobProofs` | theorems about `DesktopJob` | |
| `RecipeJob` | the job of `POST /recipes/{name}` in `py/api.py` | about 110 |
| `RecipeJobProofs` | theorems about `RecipeJob` | |
| `Daemon` | `tauri/daemon.rs`, `state.rs`, `commands.rs`, `events.rs`, and `gui/bridge.ts` | about 430 |
| `DaemonProofs` | theorems about `Daemon` | |
| `Transcript` | the part of the transcript model (an external library) the runners look at | – |
| `Segmentation` | `core/segmentation/mod.rs`: the split of an utterance | about 490 |
| `Utseg`, `Speaker` | `core/taskrunners/utseg.rs`, `speaker.rs` | about 600 |
| `Annotators` | `core/taskrunners/morphosyntax.rs`, `translate.rs`, `coref.rs`, `phonetic.rs`, `ai.rs` | about 750 |
| `TaskRunners` | those runners as stages: requests, windows, progress, injection, the gate | about 250 |
| `TaskRunnersProofs` | theorems about `TaskRunners`, with lemmas about the modules it is built from | |
| `StageProofs` | theorems about what the stages of `TaskRunners` keep and leave: words, tiers, splits, voices | |
| `Alignment`, `Utr` | `core/alignment/mod.rs`, `core/taskrunners/utr/` | about 1020 |
| `AsrText`, `Transcribe` | `core/asr/`, `core/taskrunners/asr.rs` | about 1470 |
| `Numbers` | `core/asr/num2chinese.rs`, `num2text/`, the calendar of `core/utils.rs` | about 320 |
| `Compare` | `core/backends/compare.rs`, `core/taskrunners/compare.rs` | about 920 |
| `Document` | `core/pychat/`: the transcript object for Python | about 455 |
| `Stages` | order of tasks, stamps, review tiers (`engine/pipeline.rs`, `core/utils.rs`, `decisions.rs`) | about 230 |
| `Audio`, `Outputs` | `core/backends/convert.rs`; `BAValue` of `core/base.rs` and `engine/py_outcome.rs` | about 330 |
| `MCAlgorithms` | a behaviour of one step for each algorithm and input; reference definitions | |
| `MC*` | instances for TLC and, for some, the statement of a comment the code does not keep | |

The modules meet at what one promises another. `Pipeline` takes a dispatch from
`DispatchContract`: refused once cancelled, else answered with an output or an
error; `Engine` implements that contract, and the fairness of `Pipeline` that
the engine answers is `AcceptedReturns` of `Engine`. `RecipeJob` and
`DesktopJob` take from `Pipeline` that a run returns (`RunReturns`) with one
outcome per input. `FaTimings` is one stage of `Pipeline`, seen from inside: one
dispatch, then a file edited in place. `TaskRunners` is such a stage for seven
other runners, and the stages of `Pipeline` follow each other there on one file.

### Engine

One call of `dispatch` is `disp[d]`: it is refused (`Refuse`), or checks the
flag and clones the sender (`Begin`, the lines to the await), waits for a slot
(`Enqueue`) and then for its reply. It may be dropped at each await
(`Abandon`). The loop `batcher_loop` is `phase`: `First` takes the first item;
`FillWindow` and `WindowEnds` are the timed window of a batch, `FillDrain` and
`DrainEnds` the non-blocking one; each item taken is answered at once from the
cache or joins `batch`. `CallSucceeds` is the return of the back end: replies
for every member and the storing task are one step, since there is no await
between them; `PutStarts`, `PutNext`, `PutEnds` are the storing task and the
loop that awaits it. `LoopExits` needs the route cleared and no clone of the
sender alive. `DropRuntime` is `Drop for Pipeline`: what has not started is
cancelled, a storing task that runs is waited for.

An input is its cache key; two outputs for one key differ by a version, so that
a cached answer and a computed one can be told apart. Progress ticks and
metrics are left out: they go to sinks that change nothing here.

### Pipeline

A run has its place in `run[r]`, an input in `at[x]`, and what `run_one`
carries along in `stage[x]` and `failed[x]`. `events[x]` is what the sink got.
Futures of a run are polled by the thread that called it, one at a time, which
is why a callback run does not move while it hands an outcome over (`Polls`). A
failing stage writes its event and poisons the value (`FailStage`), the head of
the loop (`NextStage`) keeps later stages from it. `Abort` drops a stream: held
permits come back, a conversion on a blocking thread goes on as an `orphan`.
A stage makes one round of dispatches; what it writes into the document is the
business of its runner.

### FaTimings

A file is a sequence of utterances with their words, bullet, `%wor` tier and
review marker. Every loop of the stage that changes the file is a phase with
one step per iteration, so the two passes of rebalancing, the collapse of
compound fillers, the injection and the two repair loops are interleaved as in
the code. `Rerun` saves the file and starts the stage on it again; a bullet read
back is authoritative (the source of a bullet is not written to a file).
Words are model values, the checked arithmetic of the code is kept (an
unsigned subtraction out of range would leave the natural numbers).

`own` remembers that an earlier run wrote every utterance that has words. It is
needed because the code skips an utterance the back end answered without a
token (`fa.rs:606`): the old tier and bullet stay, and later runs may trust
them. Two further facts the model shows, which nothing in the code or its
documentation contradicts: an end cut back to the next start leaves `%wor`
words beyond the bullet (so `WordsUnderBullets` speaks of starts only), and the
fast path, which repairs nothing, may leave overlapping bullets in a file the
stage has not written (so `BulletsInOrder` is claimed after it for own files
only). In the second loop of `enforce_fa_monotonicity` the pairs are collected
before the loop; the model looks the next bullet up in the file instead, which
is the same because only the earlier one of a pair is ever removed.

### DesktopJob

`rj` is the coroutine `run_job` with its finally clause, `sup` the supervisor
process, `worker` the worker process with `_run`. The pipe to the supervisor is
`pipe`; the event file and how much of it was read are `log` and `read`.
DELETE is two steps in a thread of its own, since `cancel_job` is a plain
function, and tests the state before it writes it; so does `run_job` when it
handles an error (`HandleError`, `FailJob`), and it writes the state of a
finished job before its result (`TakeState`, `TakeResult`). Other threads act
between any two of these. A worker may crash, hang or
finish at any step, and the daemon may die. The supervisor may fail before it has
a worker, or between starting it and watching it (`worker.pid` cannot be
written): then it is `lost`, and its worker goes on with nobody to stop it. A
supervisor killed from outside would leave the same behind and is not modelled.
A transcript and its CSV are one destination. The 25-second limit after which `run_job` kills the supervisor is
left out: the supervisor needs at most 3 s after SIGTERM and 10 s after
SIGKILL, so that limit is met only when the system does not deliver SIGKILL.

### RecipeJob

The thread of `_run_job_blocking` is `pc`: outcomes, result, decision, state,
finally. Streams take from the one queue of the job. `Served` is what
`GET /jobs/{id}/result` would answer.

### Daemon

`setup()` and the web view's `ensure_daemon` are two callers of `spawn`; each
may start one daemon. The writes of `set_child`, `set_daemon`, the port check
and `failed` are steps of their own, because other threads read in between.
Requests and pumps take the handle, subscribe to its shutdown watch and check
it again. `inbox` holds events sent to the web view after it registered; what
was sent before is lost. The exit of the application and the registry of pumps
are left out.

### Transcript, Segmentation, Utseg, Speaker, Annotators

A transcript is a sequence of utterances, an utterance its items (words, groups,
fillers, retraces, separators, pauses) and its tiers. `Transcript` defines what
each tier counts (`MorWords`, `WorWords`, `Units`) and which files parse
(`Parses`), as the code uses the external model; `IsTranscript` is the shape
every file has: times are spans of numbers, and participants, the keys of a map,
are declared once. Each runner is a pair of operators: what it asks of its back
end, and the file with the answers put in, `None` when it fails; what an answer
holds by its type alone is `Decodes`. A span of a segmenter is `items`, what its
text reads as, beside its `words`: a file that is rebuilt (`Rebuilt`) has its main
lines from the one and its `%wor` tiers from the other (`Fresh`), as
`collect_split` and `inject_word_timings` have, and the two may disagree. A text
of nothing but a terminator, and linkers, postcodes and languages that a text may
contain, are left out. `Segmentation` gives each item of an utterance the group
of its words, settles what has no counted word of its own (a filler or
separator goes with what follows, a retrace with its correction) and deals out
linkers, terminators, postcodes and tiers. Names of words, tags and phones are
model values.

### TaskRunners

`Begin` takes a task and works out its requests; `Send`, `Tick`, `Answer` and
`BackendFails` interleave, morphosyntax within its window, so progress and
answers come in any order. An answer `Decodes` to the type its task has, what
does not is a failure of the back end (`BackendFails`). `Inject` puts the answers in and passes the gate
(`validate_stage_output`). A stage that fails ends the behaviour, as a
value that failed is not given to later stages.

### Alignment, Utr, AsrText, Transcribe, Numbers, Compare, Stages, Audio, Outputs

Functions without state of their own, written as operators. `Align` is the
divide and conquer of the code with its trimming and its table for small inputs.
`Utr` has the fast path for words that embed in one way only, the ranges of the
full alignment, the floor under proposals, and the second pass with its windows
for overlaps. `AsrText` follows an element through compounds, titles, the cut at
marks, spaces and characters, spelt numbers, the split of a turn at pauses and
lengths, and the marking of repeats; a text is a sequence of atoms, each of a
class, so that letters are never compared. `Transcribe` makes speakers,
utterances and bullets of it. `Compare` conforms two transcripts to tokens,
aligns each gold utterance to a window of the main one, and writes its tiers
and counts. `Audio` counts samples in fractions, so that the arithmetic, which
in the code is in floating point, is exact. In `Outputs` files are a
function from names to contents, so that what a write leaves behind shows.

### Document

Utterance objects live on a heap; a document is a list of headers and
references, so one object can be in it twice or outlive its entry. Writing
works out participants and languages; `Parse` reads what was written. An
operation that raises leaves everything as it was.

## 3. Runs

Every run finishes within about two minutes. `CHECK_DEADLOCK FALSE` throughout:
all these systems really come to an end (all calls answered, the job over, the
file aligned, the stages done).

| run | instance | distinct states | shows |
|---|---|---|---|
| `engine_use` | three calls, two for the same input, channel and batch of two, all initial caches | 77 thousand | nobody is stranded, answers and entries belong to their inputs, no stored output is computed again, `cancel()` only drains, the contract is implemented, every accepted call returns, the loop ends |
| `pipeline_runs` | two callback runs of two inputs, two workers, one stage | 511 thousand | permits add up, parsed documents are bounded over both runs, a returned run handed out each input once |
| `pipeline_events` | an ordinary run of three inputs and a callback run of one, one worker, two stages, with fairness | 280 thousand | events form one pass and agree with outcomes, both runs return |
| `fa_timings` | 49 files of one to three utterances, 196 initial states, up to three runs each, some 330 answers | 6.3 million | bullets in order, trusted times kept, words under bullets, reuse settles |
| `desktop_job` | two files, two recipes | 124 thousand | no supervised worker left, failed files keep their original, a state of completed means published and a marker of completed means the result is there, the marker is last, the worker stops, the cancelled client is told |
| `recipe_job` | two streams, two DELETEs, two inputs, three events | 10 thousand | events go once and in order, no marker before an answer, failures are told, someone is told |
| `daemon` | two callers, two daemons, one request | 330 thousand | one daemon at a time, requests end with their daemon, failure and readiness are shown |
| `task_runners` | nine files of up to two utterances, all seven tasks, three stages in any order, good and bad answers | 3.8 million | a stage whose answers are about what it asked keeps the tiers describing their words; whatever the answers, what is said survives every stage, a second run of a stage is refused only where the code cannot repeat it, runner and library judge a segmentation alike, voices are told apart unless a made-up code was taken, progress stays within its total |
| `algorithms` | every small input of sixteen algorithms, and all sequences of three edits of a document | 239 thousand | each result is what a definition of another kind gives; comparison, recovered times, transcripts and documents are faithful to their input |

The other three runs check one statement each and find it violated; they are
the findings of section 6. Some properties are conjunctions of named parts
(`EngineSound`, `PipelineSound`, `RecipeJobSound`, `DesktopJobSound`, `StagesAgree`,
`MatchesReference`, `ComparisonFaithful`, `HeardOnce`); each part has its own
comment. A property with several parts has more than one mutant.

### Why these bounds are enough

* Engine: two calls for one input and one for another is the least with which
  an answer can go to the wrong caller, a key can be shared, and a batch can
  hold one call while the channel holds another. Capacity and batch size of two
  let both be full and let three ways of filling a batch differ. Policies other
  than "use" are covered by the proofs, which take any policy.
* Pipeline: two runs are needed for one to starve another, two workers for a
  future to be dropped while another holds a permit, three inputs for one to
  wait outside the window, two stages for a failure to be followed by a stage.
* FaTimings: three utterances give a bullet between two others and one without
  words in the middle; three words give dominance; times in units of 20 ms make
  the 40 ms limit two units; two further runs are needed because a refreshed
  file must be read once more to see that it settles.
* Jobs: two files let one fail while the other goes on; two stages let a failure
  meet a later stage; two streams and two DELETEs let each race its like.
* Daemon: two daemons are what two callers can start.
* TaskRunners: an utterance with a retrace before its correction, one with a
  filler and a pause, a group, one with nothing countable and one already
  tagged meet each rule of the split; a file that declares `PAR1` itself meets a
  made-up code; with three stages any runner works on what
  any two others, or itself, wrote; two requests under way let answers overtake
  progress. Among the answers of the segmenter are a text that corrects itself, one
  that is empty although it has words, one that is not that of its words and one
  that cannot be read; the third is reached, and leaves a `%wor` that does not
  describe its line, so the hypothesis of `SoundStaysSound` (`Fair`) excludes
  something.
* Algorithms: sides of four words are beyond the size at which the aligner
  splits (its cutoff is lowered to 2); three gold utterances for two main ones
  let one be claimed twice and one by none; three utterances put one between
  two others; three elements and a whole segment before and after meet each
  rule of the transcription next to each other; three edits of three objects
  let one be inserted twice, changed and removed.

### Fairness

* Engine: the loop, the storing task and the sending of a queued call are
  weakly fair (tokio polls a ready task; a channel serves waiting senders in
  order; a back end call returns). Nothing is assumed of callers, of `cancel`,
  of `shutdown` or of the end of the runtime.
* Pipeline: the thread inside `run()` polls, conversions and callbacks return,
  and the engine answers. Nothing is assumed of starting a run or of `cancel`.
* DesktopJob: the event loop, the supervisor, the stream, and a DELETE once
  begun. Nothing is assumed of the worker, which may hang in native code.
* RecipeJob: the thread ends (by `RunReturns`), streams take what is there.
* Daemon: threads and tasks run, `wait_for_port` and requests have deadlines, an
  ended process is noticed. Nothing is assumed of the daemon process itself.
* TaskRunners and the algorithms have safety properties only; that a stage ends
  is `RunReturns` of `Pipeline`.

## 4. Proofs

Checked by tlapm 1.4.5 for every value of the constants that satisfies the
ASSUMEs in the modules (at least one slot, one worker, one stage, and so on).

**`EngineProofs`**, for any number of calls, inputs, capacity, batch size,
policy and faulty caches. The inductive invariant `IInv` adds four facts to the
properties: what is in the channel or the batch has not been answered
(`ItemsPending`); the loop is gone only after its route is cleared
(`GoneUnrouted`); outputs are stored only while the loop waits for that
(`PutPhases`), which is why a lookup never sees a store half done; and what is
to be stored sits under its own key (`PutsSound`). Without the first, a reply
could go to a call already answered; without the third, `NoRedundantCall` does
not follow from the phase. `TakeItemFacts` and `DistributeFacts` say what taking
an item and answering a batch do to every call; the preservation proof has one
step per action. From `IInv` follow `Typing`, `CallsTracked`, `OwnContent`,
`KeysSound`, `EngineSafe` (the conjunction the run checks), `NothingComputedTwice`; `FreshAnswers` (under Refresh and Bypass no
answer comes from the environment) and `CancelDrains` have steps of their own;
`EngineImplementsContract` maps each action to an action of the contract or a
stutter.

**`PipelineProofs`**, for any runs, numbers of inputs, stages and workers: all six
safety properties of `Pipeline` (`TypesHold` and `PermitsHold`, together `PipelineSafe`; `ParsedHold`,
`EventsHold`, `OutcomesAgree`, `OutcomesComplete`). The inductive invariant is
`IInv` of `Pipeline`. Its parts say what the place of an input tells of its
next stage, its value and its events (`History`: a staged input has last been
injected or failed by the stage before, one at work has last started its own,
a value that is not a failure was never reported as one), what has been handed
out (`Ledger`), that a run has nothing in flight before its conversion is over
and nothing left when it has returned, and that an input queued by a callback
run has not been converted (`RunPlaces`), and that a callback run has one
finished input at a time (`OneFinished`, which `Polls` maintains and the bound on
parsed documents rests on). Thirteen of the actions move one input and are
instances of one lemma, `OneInput`; `DropsInputs` covers the three ways a run
raises, where permits are given back all at once; `RunMoves` the rest.

**`FaTimingsProofs`**, for any file, any answer, any thresholds and any number of
runs: `TypesHold` (times stay natural numbers, also through the subtractions of
the rebalancing), `OrderHolds` (`BulletsInOrder`) and `WordsHold`
(`WordsUnderBullets`). The invariant says what each loop has established so far:
the words being built lie within the cover of the tokens of their utterance
(`Covered`: moving a boundary between two such words keeps that), utterances
already written have their words under their bullet (`Written`), starts are in
order up to the place of the first repair loop and not later than its
`lastStart`, ends reach no later start up to the place of the second
(`Ordered`). `OwnWords` carries `Written` over to later runs, where the fast
path relies on it. Facts about Min and Max of finite sets of times come from
the well-foundedness of the natural numbers (`WFMin`), as least
counterexamples, since induction schemes with an operator parameter cannot be
used.

The second half, for any file and number of runs: `RefreshHasSettled`
(`RefreshSettles`, an action property) and `ReusedTimesHold`
(`ReusedTimesKept`). For the first, `Settled` says what a refreshed utterance
looks like: the times of its tier are clean and its bullet runs from the first
to the last, so refreshing it again writes what is there. For the second,
`ReusedFromLoaded` and `Rebuilt` follow a reused tier from the file as it was
read through the token count, the rebuilding, and both repair loops. The
argument is one of counting: in the rebuilding each word takes a token or more, so the cursor is
never behind the number of words, and a reused utterance, which has as many
tokens as words, ends on it only if every word took exactly one. That needs the
hypothesis `EveryWordAsked`: no word is split into zero parts. The code splits
one so only when it is a filler of underscores alone (`split_compound_filler`,
`extraction.rs:38-48`, drops empty parts); beside such a word a filler of two
parts would go unnoticed, and its reused times would be merged. The hypothesis
holds in the instance of `fa_timings`.

**`RecipeJobProofs`**, for any streams, DELETEs, inputs and number of events:
`RecipeJobSafe` (`RecipeJobSound`). `QueueShape` says that the queue always
holds the events posted last, in order, with the sentinel behind them, and that
every stream has heard only earlier ones: this is why streams that share a
queue share out its events without repeating one. `StateFollows` says which
states the thread may find when it decides, whatever a DELETE has written.

**`DesktopJobProofs`**, for any set of files and number of stages:
`DesktopJobSafe`, `FailedIsKept`, `CompletedIsPublished`. Three chains meet in the
invariant. The worker is gone before the supervisor ends and the supervisor
before the sentinel (`Processes`, `RunJobStands`; `Over` is stable, lemma
`OverStays`). A file leaves the stages only with an error, and no file with an
error is among those to publish (`FilesTold`). And each failure on its way to
the client, in the event file, the queue or heard, belongs to a file with an
error or to a job that failed as a whole (`FailuresLogged`, `ClientTold`), so
nothing a client heard contradicts a state that says completed. That state is
seen before its result is there (`TakeState`, `TakeResult`), which is why
`CompletedMeansPublished` speaks of the destinations as soon as the state says
completed, and of the result only for a client whose final marker does. The worker
may crash, the daemon may die and a DELETE may come between any two of these
steps. Excepted from "the worker is gone" is one whose supervisor failed before
watching it (`Supervised`): nothing stops that one.

**`DaemonProofs`**, for any requests and pumps of the two callers: `OneDaemon`
(`AtMostOneDaemon`). The latch alone does not exclude a second daemon: the task
of a daemon that fails may release it, and release it again in the trailing
check, when a second call already holds it. The invariant says instead that the
latch is free, or being taken back, only when the first daemon is withdrawn for
good (`LatchGuards`), and that while its process runs its own task can still
stop it (`FirstDaemonHeld`). `CallsStart` is where the number of callers enters:
both are spent once there is a second daemon.

**`TaskRunnersProofs`**, for any files, tasks, window, scale and answers:
`BarStaysWithinTotal` (`BarWithinTotal`) and `StagesKeepTheTranscript`, the
invariant behind it (`StageUnderWay`): the file is a transcript after every
stage, what a stage asks and has been answered belongs to the file it began on,
and the bar counts no request that was not sent. The work is in the lemmas,
one group for each runner, which say that its injection makes a transcript of
a transcript: the split and rebuilding of utterances (`ChildrenFacts`,
`UtsegTranscript`), tiers (`MorTranscript`, `TextsTranscript`,
`PhoTranscript`), new speakers (`RelabelledTranscript`), and the revisions of a
language model, applied from the last utterance on so that none is put where no
line is left (`SplicedUtterances`, `AiTranscript`). `ReachesAll`, `NthOrder` and
`PickedFacts` are the facts about numbering the members of a set that they rest
on. Assumed are that the files are transcripts and the tasks known
(`RunnersAssumption`); that answers have their type is a guard (`Decodes`).

**`StageProofs`**, on top of it, for any files, stages and answers, are the
theorems about what a stage leaves.

* `WhatIsSaidIsKept` (`SubstanceKept`). The members of a group of a split are
  numbered upwards, and each place of the utterance is in one group, so the
  children one after the other hold what the utterance held, in its order
  (words, linkers, postcodes, `%com` and `%xtra`); the file is those utterances one
  after the other. Tiers and voices touch none of it. Coreference is left out of
  what is kept, see section 6.
* `SoundnessIsKept` (`SoundStaysSound`): a stage with fair answers makes a sound
  file of a sound file, whatever happened before it. `AppliedSettles` says so of
  every runner.
* `StagesLeaveSoundTranscripts`, over whole behaviours. Its invariant `StageSound`
  says of each utterance that its tiers describe its main line, that %gra comes
  only with %mor and no label twice, and that a translation or coreference is
  there only after a stage of it (`MarksOf(log)`); the last is why the gate
  refuses nothing but a second one. The hard step is a split: %mor goes by
  counted words, %wor by spoken ones, and each child is a legal line because a
  retrace stays with its correction and no group ends before it. Two hypotheses
  name what is not this code: the files are sound and without translation to
  begin with (`BeginsSound`), and at every step the tagger tags the words it was
  asked for, the text of each span of the segmenter reads as the words of that
  span, and the language model writes sound utterances (`FairAnswers`). The
  code checks how many words a tagger tagged and that a revision parses, not
  which words are meant, and it writes the main line of a rebuilt utterance from
  the text and its `%wor` from the words without comparing them, so without the
  hypotheses the statement is false. Every
  other answer is any answer that decodes: right, wrong or of another length.
  What it says of the gate is `RefusedOnlyForRepeats`, a part of `StagesAgree`.
* `SegmentationsAgree` (`SplitsAgreed`, the other part of `StagesAgree`), with no
  such hypothesis.
* `VoicesStayApart` (`VoicesToldApart`). Some segment is nearest to every time
  (`SegmentIsThere`), an utterance keeps its time when it gets a voice
  (`SameTiming`), and codes given to different labels differ both when they are
  given and when they are moved down to the codes spoken with (`CodesDiffer`,
  `LabelsHaveCodes`, `MovedDownFacts`), unless a made-up one was taken, the case
  `CodesApart` excludes. `DeclaredOnce` says that the new list of participants
  still names no one twice.

What filters a sequence is written in the modules by the places that pass
(`Picked`), where the code has a filter, because a filter defined by recursion
could not be reasoned about; `PickedReaches`, `PickedFewer` and
`PickedDistinct` say what it keeps. Assumed besides `RunnersAssumption` is that
labels are numbered without repetition and have a code each
(`SpeakerAssumption`).

Only model-checked, not proved:

* everything under fairness, which is out of the prover's reach: `AcceptedReturns`,
  `ShutdownEndsLoop`, `RunReturns`, `WorkerStops`, `CancelEndsStream`,
  `SomeoneIsTold`, `ClientsOfDeadEnd`, `FailureIsShown`, `ReadyIsShown`;
* the properties of `algorithms`: definitions by recursion over sequences (folds,
  recursive functions and, in `Outputs`, recursive operators), where a proof for
  every input would need an induction the provers cannot instantiate.

## 5. Not modelled

* Data of the runners: prompts and parsing of replies of `ai.rs`, special forms
  and languages cut by characters in `morphosyntax.rs`, tables of compounds,
  spellings, number words and Cantonese normalisation. The modules take such
  tables as constants; `Numbers` has the Chinese, English, Dutch and Portuguese
  rules that compute.
* Functions of `segmentation` and `lang_detect` that only tests call.
* `gui/store.ts` and `useStartBatch.ts`, the pumps of several jobs, the terminal
  display, the registry of open cache environments: planned, section 7.
* A comparison writes a CSV before its transcript; `DesktopJob` takes the two as
  one destination.
* Python and native back ends, recipes, inputs, wire format, the bridge's
  conversions, the parser and validator of CHAT (an external library): conversions, constructors or
  calls of services, with no state whose order matters beyond what `Engine` and
  `Transcript` show of them.
* Build, packaging and the book.

## 6. Findings

Each is a run that checks one statement and finds a counterexample.

* `desktop_cancel`: the error handler of `run_job` tests the state (157) and writes
  "failed" (158); a DELETE that writes "cancelled" in another thread and is
  answered between the two is overwritten. In the trace the supervisor could not
  be started. The same holds between the test at 144 and the write at 150, where
  the state of `result.json`, "completed" or "failed", overwrites an answered DELETE; that
  window is the wider one, it spans a wait, a drain and the reading of a file.
* `fa_split`: a mixed file with a compound filler in a trusted utterance fails as
  a whole, since reuse and injection count its tokens differently.
* `document_language`: an utterance edited through Python is validated in a file
  of its own, whose languages are those of its speaker; an edit of its time or
  a tier can so give it another language, which is then written before its
  words.

Larger differences between what the code says of itself and what it does, which
the modules keep as the code has them:

* `segmentation/mod.rs` says (387-393, 409-411) that a split drops coreference,
  since its chains span positions the split changes. `policy_for_tier` (441) hands `%xcor`, as any
  other tier, to the first child. The tier left there describes an utterance
  that is gone, and the gate then refuses the coreference run that was to write
  it anew. `SubstanceKept` takes no side: it leaves `%xcor` out.
* `prepare.rs:98-101`, meant for `<pause>`, discards every value that begins with
  `<` and ends with `>`. A segment that has a text but no words is one such
  value, so one written as an overlap from end to end vanishes, although `asr.rs:294-298`
  says that these marks are preserved. `HeardOnce` says what is left out, and
  that a marker takes no neighbour along.
* A rebuilt utterance has its line from the text of a span and its `%wor` from the
  words of that span (`utseg.rs:286-337`, 373-383, 457-490); nothing compares the two, and words of a
  span whose text is empty are lost. `segmentation/mod.rs:384-386` takes a stale
  `%wor` to be harmless; `chat/utterances.rs:98` says that the path that
  reads a text has no production callers, and this is one.
* `desktop_process.py:4` says that the death of the daemon stops the inference
  process tree. It does not stop a worker whose supervisor failed to write
  `worker.pid` (54), or was killed; `run_job` takes the end of the supervisor for
  the end of the job, and ends the stream while that worker may still publish.
* `run_job` writes the state (150) before the error and the result (151, 152):
  who polls `GET /jobs/{id}/result` in between gets a completed job whose
  outcomes are null. A client that waits for its marker does not
  (`CompletedMeansPublished`).

Smaller differences between comments and code, seen while modelling and checked
by no run: a comment in `batcher.rs` (193) says the store commits before the
shutdown of the runtime can cancel it, but replies are sent before the storing
task is spawned, so a pipeline dropped right after its last run may lose what it
just computed; `SourceCompleted` is documented as "finished all stages" and is
also emitted when the last stage failed and when the input could not be parsed;
`api.py:868` says the result of a cancelled job is discarded, it is stored
and served; `batcher.rs:48` says cache writes happen before the reply, they happen
after it; `engine.rs:225` says pending dispatches fail at `shutdown()`, those that
hold a sender are served (the better behaviour, and what `NoCallStranded` states);
`engine.rs:90` names `BAError::Cancelled`, callers get `BAError::Worker`;
`bridge.py:81` takes StageInjected for a clean end of the stage, but runners say it
before the post-stage gate may still reject their value; `api.py:845` calls its
marker final, but a DELETE that has tested the state may still change it; `daemon.rs:35` says the latch is reset so that a retry can occur,
but `ensure` returns the recorded start-up error before it reaches `spawn`;
the trailing check of `drain_child` looks at whatever daemon is published, not
at its own, so with three or more concurrent `ensure` calls a late reset of the
latch could let two daemons start (with two callers it cannot, by `OneDaemon`); `clear_media_unlinked` drops the marker after an injection
that timed no word at all; the streams of one job share a queue, so a second
stream of a finished job gets no marker.

Behaviour a reader may not expect, which no comment contradicts and the
modules keep:

* `ScaledProgress` is not monotone while several dispatches are under way
  (`base.rs:902`, `morphosyntax.rs:291`): a tick is counted into the step sent last.
* The order of tasks looks at direct requirements only: a pipeline of alignment
  and transcription without segmentation keeps the declared order.
* A run without decisions leaves the review tiers of an earlier run in place.
* Translation and coreference cannot run twice on a file (the gate refuses
  the second tier); comparison strips its tiers first; morphosyntax and phonetics
  skip what they have done.
* A code made up for a new voice may be one the file already declares
  (`VoicesToldApart` is claimed where none is, `CodesApart`); an
  utterance whose words all lie in one voice gets another when that one is
  heard at its midpoint; untimed utterances are relabelled too.
* One segmentation answer with other words rebuilds the whole file, without
  its linkers, postcodes, tiers, options, provenance comments and other headers; one
  misnumbered morphology answer fails the whole file.
* In a comparison, gold utterances that share nothing with the main file do not
  count in its totals.
* Recovery keeps a bullet without length, and counts an utterance timed in the
  second pass as unmatched in its record.
* A merged compound keeps the time of its first half; segments without a speaker
  share one with an explicit `PAR1`.
* An outcome is used up also by a write that fails; every transcript of a list
  is written to one path; an old `error.log` stays after a later success.

## 7. Plan

Done: the engine with its contract, the pipeline, desktop and recipe jobs, the
daemon and forced alignment, each with the proofs of its safety; the other task
runners, with the proofs of what a stage works on, keeps and leaves;
the transcript algorithms; the order of tasks, stamps, decisions and progress;
the transcript object; outputs.

Open, most important first:

1. Proofs: all safety and action properties of the stateful runs are proved;
   what is left are facts about `Stages` and `Compare` that need no induction.
2. `Batch`: `gui/store.ts` and `useStartBatch.ts` with the event pumps; abstractly
   a batch that ends once, as its job did, whatever order events come in. It
   composes with `RecipeJob` at the event stream.
3. `DesktopJob`: a CSV and its transcript as two destinations.
4. `CacheStore`: the registry of environments with `nuke_cache`.
5. `TuiTask`: the state machine of the display under the events of `Pipeline`.
