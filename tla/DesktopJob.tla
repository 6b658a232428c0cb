------------------------------ MODULE DesktopJob ------------------------------
(***************************************************************************)
(* A desktop job of the Batchalign daemon: the coroutine run_job and the   *)
(* supervisor (src/python/batchalign/desktop_process.py), the worker       *)
(* process that runs _run (desktop.py), DELETE /jobs/{id} and the event    *)
(* stream (api.py).                                                        *)
(*                                                                         *)
(* The daemon and the supervisor share a pipe, whose closing tells the     *)
(* supervisor to stop the worker; the worker appends events to a file that *)
(* run_job follows, and leaves result.json.  Requests are served by other  *)
(* threads: a DELETE reads the job's state and writes it in two steps, and *)
(* run_job's own reads and writes of it are steps that others come between.*)
(***************************************************************************)
EXTENDS Naturals, FiniteSets, SequencesExt

CONSTANTS
  Files,       \* the source_ids of the request
  Stages       \* recipes the worker runs, one after the other

ASSUME DesktopAssumption ==
  /\ IsFiniteSet(Files) /\ Files # {}
  /\ Stages \in Nat \ {0}

VARIABLES
  jobState,    \* Job.state in the daemon
  result,      \* Job.result: {}, or {F} when it lists the files F
  rj,          \* where run_job stands
  deleted,     \* where a DELETE stands
  queue,       \* Job.events
  heard,       \* events the client of the stream has received
  marker,      \* the state its final marker carried, or "none"
  pipe,        \* the owner end of the supervisor's stdin is open
  sup,         \* the supervisor process
  worker,      \* the worker process
  stage,       \* the recipe the worker runs
  current,     \* files that reached this stage
  pending,     \* files that have an output of this stage, or in the
               \* publishing loop the files it has come to
  errors,      \* files with an error
  published,   \* files whose destination has been replaced
  log,         \* events.jsonl
  read,        \* how much of it run_job has read
  json         \* result.json: <<>>, or its state and result

daemonVars == <<jobState, result, rj, deleted, queue, heard, marker, read>>
workVars == <<stage, current, pending, errors, published, log, json>>
vars == <<daemonVars, pipe, sup, worker, workVars>>

Terminal == {"completed", "failed", "cancelled"}
Ev(k, f) == [kind |-> k, file |-> f]
Events == [kind : {"completed", "failed"}, file : Files]
Done == [kind |-> "done"]
Results == {{}} \cup {{F} : F \in SUBSET Files}

TypeOK ==
  /\ jobState \in {"running"} \cup Terminal
  /\ result \in Results
  /\ rj \in {"spawn", "poll", "decide", "drain", "result", "stated", "except",
             "failing", "cleanup", "reap", "done", "gone"}
  /\ deleted \in {"idle", "checked", "answered"}
  /\ queue \in Seq(Events \cup {Done})
  /\ heard \subseteq Events
  /\ marker \in {"none"} \cup Terminal
  /\ pipe \in BOOLEAN
  /\ sup \in {"none", "watching", "stopping", "exited", "failed", "lost"}
  /\ worker \in {"none", "running", "publishing", "exited", "dead"}
  /\ stage \in 1..(Stages + 1)
  /\ current \subseteq Files /\ pending \subseteq current
  /\ errors \subseteq Files /\ published \subseteq Files
  /\ log \in Seq(Events)
  /\ read \in 0..Len(log)
  /\ json \in {<<>>} \cup ({"completed", "failed"} \X Results)

\* start_desktop_job has registered the job and created the task of run_job.
Init ==
  /\ jobState = "running" /\ result = {} /\ rj = "spawn" /\ deleted = "idle"
  /\ queue = <<>> /\ heard = {} /\ marker = "none"
  /\ pipe = FALSE /\ sup = "none" /\ worker = "none"
  /\ stage = 1 /\ current = Files /\ pending = {} /\ errors = {} /\ published = {}
  /\ log = <<>> /\ read = 0 /\ json = <<>>

Alive == worker \in {"running", "publishing"}
-------------------------------------------------------------------------------
(***************************************************************************)
(* The worker process.                                                     *)
(***************************************************************************)

\* Files of this stage without an output or an error.
Unsettled == current \ (pending \cup errors)

\* The outcome callback stages the output of f, or f fails in this stage.
Outcome(f) ==
  /\ worker = "running" /\ stage <= Stages
  /\ f \in Unsettled
  /\ \/ pending' = pending \cup {f} /\ UNCHANGED <<errors, log>>
     \/ /\ errors' = errors \cup {f}
        /\ log' = Append(log, Ev("failed", f))
        /\ UNCHANGED pending
  /\ UNCHANGED <<daemonVars, pipe, sup, worker, stage, current, published, json>>

\* A mutant of NextStage: files that failed go on to the next stage.
NextStageKeepsAll ==
  /\ worker = "running" /\ stage <= Stages /\ Unsettled = {}
  /\ pending' = {}
  /\ stage' = stage + 1
  /\ UNCHANGED <<daemonVars, pipe, sup, worker, current, errors, published, log, json>>

\* pipeline.run returned; the loop goes on with what has an output.
NextStage ==
  /\ worker = "running" /\ stage <= Stages /\ Unsettled = {}
  /\ current' = pending
  /\ pending' = {}
  /\ stage' = stage + 1
  /\ UNCHANGED <<daemonVars, pipe, sup, worker, errors, published, log, json>>

\* One StageFailed for each file of F.
Failures(F) == LET s == SetToSeq(F) IN [i \in 1..Len(s) |-> Ev("failed", s[i])]

\* A backend cannot be built, or the run raises: every file of the stage fails.
StageRaises ==
  /\ worker = "running" /\ stage <= Stages /\ current # {}
  /\ log' = log \o Failures(current)
  /\ json' = <<"failed", {}>>
  /\ worker' = "exited"
  /\ UNCHANGED <<daemonVars, pipe, sup, stage, current, pending, errors, published>>

StartPublishing ==
  /\ worker = "running"
  /\ stage > Stages \/ current = {}
  /\ worker' = "publishing"
  /\ UNCHANGED <<daemonVars, pipe, sup, workVars>>

\* SourceCompleted has been reported.
Announced == {f \in Files : \E i \in 1..Len(log) : log[i] = Ev("completed", f)}
Unpublished == current \ pending

\* _publish replaces the destination, or fails and leaves it alone.
Publish(f) ==
  /\ worker = "publishing"
  /\ f \in Unpublished
  /\ published \subseteq Announced
  /\ pending' = pending \cup {f}
  /\ \/ published' = published \cup {f} /\ UNCHANGED <<errors, log>>
     \/ /\ errors' = errors \cup {f}
        /\ log' = Append(log, Ev("failed", f))
        /\ UNCHANGED published
  /\ UNCHANGED <<daemonVars, pipe, sup, worker, stage, current, json>>

\* SourceCompleted follows the replacement.
Announce(f) ==
  /\ worker = "publishing"
  /\ f \in published \ Announced
  /\ log' = Append(log, Ev("completed", f))
  /\ UNCHANGED <<daemonVars, pipe, sup, worker, stage, current, pending, errors, published, json>>

\* A mutant of FinalState: what matters is that something was published.
FinalStateLenient == IF published # {} \/ errors = {} THEN "completed" ELSE "failed"
FinalState == IF errors # {} THEN "failed" ELSE "completed"

\* The collector has written every event; result.json is put in place.
WorkerFinishes ==
  /\ worker = "publishing"
  /\ Unpublished = {} /\ published \subseteq Announced
  /\ json' = <<FinalState, {published}>>
  /\ worker' = "exited"
  /\ UNCHANGED <<daemonVars, pipe, sup, stage, current, pending, errors, published, log>>

\* Native code crashes, or the system kills the process.
WorkerCrashes ==
  /\ Alive
  /\ worker' = "dead"
  /\ UNCHANGED <<daemonVars, pipe, sup, workVars>>
-------------------------------------------------------------------------------
(***************************************************************************)
(* The supervisor.                                                         *)
(***************************************************************************)

\* _supervise starts the worker.  That may raise; and when only writing
\* worker.pid raises, the supervisor ends and leaves a worker nobody watches.
SupStarts ==
  /\ sup = "watching" /\ worker = "none"
  /\ \/ worker' = "running" /\ sup' \in {"watching", "lost"}
     \/ sup' = "failed" /\ UNCHANGED worker
  /\ UNCHANGED <<daemonVars, pipe, workVars>>

\* A mutant of SupNotices: only the end of the worker ends the watch.
SupNoticesWorkerOnly ==
  /\ sup = "watching" /\ worker # "none" /\ ~Alive
  /\ sup' = "stopping"
  /\ UNCHANGED <<daemonVars, pipe, worker, workVars>>

\* The watch ends with the worker or with the pipe.
SupNotices ==
  /\ sup = "watching" /\ worker # "none"
  /\ ~Alive \/ ~pipe
  /\ sup' = "stopping"
  /\ UNCHANGED <<daemonVars, pipe, worker, workVars>>

\* _stop_worker, and the exit code of the worker becomes the supervisor's.
SupStops ==
  /\ sup = "stopping"
  /\ worker' = IF Alive THEN "dead" ELSE worker
  /\ sup' = IF worker = "exited" THEN "exited" ELSE "failed"
  /\ UNCHANGED <<daemonVars, pipe, workVars>>

SupEnded == sup \in {"exited", "failed", "lost"}
-------------------------------------------------------------------------------
(***************************************************************************)
(* run_job.                                                                *)
(***************************************************************************)

processVars == <<sup, worker, workVars>>

\* The supervisor is started with the pipe; that may raise.
Spawn ==
  /\ rj = "spawn"
  /\ \/ rj' = "poll" /\ pipe' = TRUE /\ sup' = "watching"
     \/ rj' = "except" /\ UNCHANGED <<pipe, sup>>
  /\ UNCHANGED <<jobState, result, deleted, queue, heard, marker, read, worker, workVars>>

\* drain_events, an event at a time: a cancelled job drops it.
Drain ==
  /\ rj \in {"poll", "drain"}
  /\ read < Len(log)
  /\ read' = read + 1
  /\ queue' = IF jobState # "cancelled" THEN Append(queue, log[read + 1]) ELSE queue
  /\ UNCHANGED <<jobState, result, rj, deleted, heard, marker, pipe, processVars>>

\* A mutant of LeavePoll: the loop waits for the process alone.
LeavePollProcess ==
  /\ rj = "poll"
  /\ SupEnded
  /\ rj' = "decide"
  /\ UNCHANGED <<jobState, result, deleted, queue, heard, marker, read, pipe, processVars>>

\* The loop ends with the process or with a cancellation.
LeavePoll ==
  /\ rj = "poll"
  /\ SupEnded \/ jobState = "cancelled"
  /\ rj' = "decide"
  /\ UNCHANGED <<jobState, result, deleted, queue, heard, marker, read, pipe, processVars>>

Decide ==
  /\ rj = "decide"
  /\ rj' = IF jobState # "cancelled" THEN "drain" ELSE "cleanup"
  /\ UNCHANGED <<jobState, result, deleted, queue, heard, marker, read, pipe, processVars>>

\* After process.wait and the last drain, a nonzero code raises.
CheckCode ==
  /\ rj = "drain"
  /\ SupEnded /\ read = Len(log)
  /\ rj' = IF sup = "exited" THEN "result" ELSE "except"
  /\ UNCHANGED <<jobState, result, deleted, queue, heard, marker, read, pipe, processVars>>

\* result.json decides the state, which other threads see at once.
TakeState ==
  /\ rj = "result"
  /\ jobState' = json[1]
  /\ rj' = "stated"
  /\ UNCHANGED <<result, deleted, queue, heard, marker, read, pipe, processVars>>

\* The result follows the state.
TakeResult ==
  /\ rj = "stated"
  /\ result' = json[2]
  /\ rj' = "cleanup"
  /\ UNCHANGED <<jobState, deleted, queue, heard, marker, read, pipe, processVars>>

\* except Exception: a cancelled job is left as it is.
HandleError ==
  /\ rj = "except"
  /\ rj' = IF jobState = "cancelled" THEN "cleanup" ELSE "failing"
  /\ UNCHANGED <<jobState, result, deleted, queue, heard, marker, read, pipe, processVars>>

\* Otherwise the job fails, and so do all its files.
FailJob ==
  /\ rj = "failing"
  /\ jobState' = "failed"
  /\ queue' = queue \o Failures(Files)
  /\ rj' = "cleanup"
  /\ UNCHANGED <<result, deleted, heard, marker, read, pipe, processVars>>

\* The event loop shuts down and cancels the task at one of its awaits.
TaskCancelled ==
  /\ rj \in {"poll", "drain"}
  /\ jobState' = "cancelled"
  /\ rj' = "cleanup"
  /\ UNCHANGED <<result, deleted, queue, heard, marker, read, pipe, processVars>>

\* finally: the pipe is closed, and the process has to end.
ClosePipe ==
  /\ rj = "cleanup"
  /\ rj' = "reap"
  /\ pipe' = FALSE
  /\ UNCHANGED <<jobState, result, deleted, queue, heard, marker, read, processVars>>

\* A mutant of Reap: the stream ends as soon as the pipe is closed.
ReapAtOnce ==
  /\ rj = "reap"
  /\ rj' = "done"
  /\ queue' = Append(queue, Done)
  /\ UNCHANGED <<jobState, result, deleted, heard, marker, read, pipe, processVars>>

\* With the process gone, the stream gets its sentinel.
Reap ==
  /\ rj = "reap"
  /\ sup = "none" \/ SupEnded
  /\ rj' = "done"
  /\ queue' = Append(queue, Done)
  /\ UNCHANGED <<jobState, result, deleted, heard, marker, read, pipe, processVars>>

\* The daemon dies without cleaning up: the system closes its pipe.
DaemonDies ==
  /\ rj # "gone"
  /\ rj' = "gone"
  /\ pipe' = FALSE
  /\ UNCHANGED <<jobState, result, deleted, queue, heard, marker, read, processVars>>
-------------------------------------------------------------------------------
(***************************************************************************)
(* The client.                                                             *)
(***************************************************************************)

\* cancel_job reads the state, and then writes it.
DeleteChecks ==
  /\ rj # "gone" /\ deleted = "idle"
  /\ deleted' = IF jobState = "running" THEN "checked" ELSE "answered"
  /\ UNCHANGED <<jobState, result, rj, queue, heard, marker, read, pipe, processVars>>

DeleteWrites ==
  /\ rj # "gone" /\ deleted = "checked"
  /\ deleted' = "answered"
  /\ jobState' = "cancelled"
  /\ UNCHANGED <<result, rj, queue, heard, marker, read, pipe, processVars>>

\* stream_events hands one item on; the sentinel becomes a marker that
\* carries the state the job has at that moment.
Receive ==
  /\ rj # "gone" /\ marker = "none" /\ queue # <<>>
  /\ queue' = Tail(queue)
  /\ IF Head(queue) = Done THEN marker' = jobState /\ UNCHANGED heard
     ELSE heard' = heard \cup {Head(queue)} /\ UNCHANGED marker
  /\ UNCHANGED <<jobState, result, rj, deleted, read, pipe, processVars>>
-------------------------------------------------------------------------------
RunJob == Spawn \/ Drain \/ LeavePoll \/ Decide \/ CheckCode \/ TakeState
            \/ TakeResult \/ HandleError \/ FailJob \/ ClosePipe \/ Reap

Supervisor == SupStarts \/ SupNotices \/ SupStops

Worker == NextStage \/ StageRaises \/ StartPublishing \/ WorkerFinishes
            \/ \E f \in Files : Outcome(f) \/ Publish(f) \/ Announce(f)

Next == RunJob \/ Supervisor \/ Worker \/ WorkerCrashes \/ TaskCancelled
          \/ DaemonDies \/ DeleteChecks \/ DeleteWrites \/ Receive

Spec == Init /\ [][Next]_vars

\* The event loop, the supervisor and the client's stream run; a DELETE that
\* has begun ends.  Nothing is assumed of the worker: native code may hang.
FairSpec == /\ Spec
            /\ WF_vars(RunJob) /\ WF_vars(Supervisor)
            /\ WF_vars(DeleteWrites) /\ WF_vars(Receive)
-------------------------------------------------------------------------------
(***************************************************************************)
(* Properties.                                                             *)
(***************************************************************************)

\* The worker still runs, and some process of the job may yet stop it: all but
\* the one whose supervisor failed between starting it and watching it.
Supervised == Alive /\ sup # "lost"

\* When the stream gets its sentinel no process of the job is left that writes
\* to the destination or starts one that does (the finally clause of run_job,
\* desktop_process.py:164).
NoWorkerLeft == rj = "done" => ~Supervised /\ sup \notin {"watching", "stopping"}

\* A file that failed in a stage is never published, not by a later stage
\* either: its destination keeps the original (desktop.py:299).
FailedKeepsOriginal ==
  \A f \in Files : f \in errors => f \notin published

\* A job that counts as completed, if only for the moment before a DELETE
\* overwrites it, has replaced every destination and told the client of no
\* failure.  Its state is seen before its result (desktop_process.py:150-152);
\* but the client whose final marker says completed finds every file listed.
CompletedMeansPublished ==
  /\ jobState = "completed" =>
       published = Files /\ \A f \in Files : Ev("failed", f) \notin heard
  /\ marker = "completed" => result = {Files}

\* Whoever has the final marker may ask for the result: the job is not
\* running, and nobody is left who could publish (stream_events, desktop_process.py:164).
MarkerMeansOver == marker # "none" => jobState # "running" /\ ~Supervised

\* A job that is over is over: for its process, its supervisor and its client.
DesktopJobSound == TypeOK /\ NoWorkerLeft /\ MarkerMeansOver

\* A cancelled job, or one whose daemon died, loses its worker, even when the
\* worker hangs in native code (watch_owner, desktop_process.py:57).
WorkerStops == (jobState = "cancelled" \/ rj = "gone") ~> ~Supervised

\* The client of a cancelled job gets its final marker, unless the daemon dies.
CancelEndsStream == jobState = "cancelled" ~> (marker # "none" \/ rj = "gone")
-------------------------------------------------------------------------------
(* The invariant behind DesktopJobSound, FailedKeepsOriginal and               *)
(* CompletedMeansPublished.                                                    *)

\* A supervisor that has ended has left no worker, unless it failed before it
\* watched, and one that reports success had a worker that left its result.
Processes ==
  /\ rj = "spawn" => sup = "none"
  /\ sup = "none" => worker = "none"
  /\ sup \in {"stopping", "exited", "lost"} => worker # "none"
  /\ SupEnded => ~Supervised
  /\ sup = "exited" => worker = "exited"
  /\ worker = "exited" <=> json # <<>>

\* No process of the job is left, and its state is final.
Over == /\ sup = "none" \/ SupEnded
        /\ rj \in {"done", "gone"} /\ jobState # "running"

\* How far run_job has come.
RunJobStands ==
  /\ rj \in {"result", "stated"} => sup = "exited"
  /\ rj \in {"stated", "cleanup", "reap", "done"} => jobState # "running"
  /\ rj = "done" => Over
  /\ \A i \in 1..Len(queue) : queue[i] = Done => Over
  /\ marker # "none" => Over

\* What the worker has done to the files: no file is lost without an error, and
\* one with an error is not among those that go on.
FilesTold ==
  /\ Files \subseteq current \cup errors
  /\ published \cap errors = {}
  /\ worker \in {"none", "running"} => published = {} /\ pending \cap errors = {}
  /\ worker = "none" => errors = {} /\ stage = 1 /\ pending = {}
  /\ worker = "running" /\ stage > Stages => pending = {} /\ current \cap errors = {}
  /\ worker = "publishing" =>
       /\ published \subseteq pending /\ pending \subseteq published \cup errors
       /\ Unpublished \cap errors = {}

\* A failure the client may hear is one of a file with an error, or the whole
\* job has failed.
Failed(e) == e.kind = "failed"
Backed(e) == Failed(e) => e.file \in errors \/ (json # <<>> /\ json[1] = "failed")

FailuresLogged ==
  /\ json # <<>> => json[1] = "failed" \/ json = <<"completed", {Files}>>
  /\ json # <<>> /\ json[1] = "completed" => errors = {} /\ published = Files
  /\ \A i \in 1..Len(log) : Backed(log[i])

\* What the client is told comes from the log until run_job takes the result,
\* and nothing but the sentinel follows a result that says completed.
ClientTold ==
  /\ rj \in {"spawn", "poll", "decide", "drain", "result"} =>
       (\A i \in 1..Len(queue) : Backed(queue[i])) /\ (\A e \in heard : Backed(e))
  /\ jobState = "completed" =>
       /\ json = <<"completed", {Files}>>
       /\ rj \in {"stated", "cleanup", "reap", "done", "gone"}
       /\ rj \in {"cleanup", "reap", "done"} => result = {Files}
       /\ (\A i \in 1..Len(queue) : ~Failed(queue[i])) /\ (\A e \in heard : ~Failed(e))
  /\ marker = "completed" => result = {Files}

IInv == TypeOK /\ Processes /\ RunJobStands /\ FilesTold /\ FailuresLogged /\ ClientTold
===============================================================================
