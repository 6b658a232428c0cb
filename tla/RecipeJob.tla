------------------------------- MODULE RecipeJob -------------------------------
(***************************************************************************)
(* A job of POST /recipes/{name} (src/python/batchalign/api.py): the       *)
(* thread that runs _run_job_blocking, the event streams, DELETE and the   *)
(* answer of GET /jobs/{id}/result.                                        *)
(*                                                                         *)
(* The thread posts events to the job's queue in order; the streams of all *)
(* clients take from that one queue.  DELETE runs in a thread of its own   *)
(* and does not reach the pipeline, which runs to its end.                 *)
(***************************************************************************)
EXTENDS Naturals, Sequences, FiniteSets

CONSTANTS
  Clients,     \* connections to GET /jobs/{id}/events
  Deletes,     \* DELETE requests
  Inputs,      \* inputs of the job
  MaxEvents    \* bound on the progress events of the run

ASSUME RecipeAssumption == MaxEvents \in Nat

VARIABLES
  state,       \* Job.state
  result,      \* Job.result is there
  failed,      \* inputs whose outcome is a failure
  pc,          \* where the thread stands
  sent,        \* events posted so far
  queue,       \* Job.events: numbers of events, and Sentinel
  heard,       \* heard[c]: the events client c has received
  marker,      \* marker[c]: the state its final marker carried, or "none"
  del          \* del[d]: where a DELETE stands

vars == <<state, result, failed, pc, sent, queue, heard, marker, del>>

Terminal == {"completed", "failed", "cancelled"}
Sentinel == 0

TypeOK ==
  /\ state \in {"running"} \cup Terminal
  /\ result \in BOOLEAN
  /\ failed \subseteq Inputs
  /\ pc \in {"run", "outcomes", "decide", "raised", "state", "failing", "finally", "ended"}
  /\ sent \in 0..MaxEvents
  /\ queue \in Seq(0..MaxEvents) /\ Len(queue) <= MaxEvents + 1
  /\ heard \in [Clients -> Seq(1..MaxEvents)]
  /\ marker \in [Clients -> {"none"} \cup Terminal]
  /\ del \in [Deletes -> {"idle", "checked", "answered"}]

\* The handler has registered the job, started the thread and answered the id.
Init ==
  /\ state = "running" /\ result = FALSE /\ failed = {} /\ pc = "run"
  /\ sent = 0 /\ queue = <<>>
  /\ heard = [c \in Clients |-> <<>>]
  /\ marker = [c \in Clients |-> "none"]
  /\ del = [d \in Deletes |-> "idle"]
-------------------------------------------------------------------------------
(***************************************************************************)
(* The thread.                                                             *)
(***************************************************************************)

\* A progress callback schedules a put.
Progress ==
  /\ pc = "run" /\ sent < MaxEvents
  /\ sent' = sent + 1
  /\ queue' = Append(queue, sent + 1)
  /\ UNCHANGED <<state, result, failed, pc, heard, marker, del>>

\* The pipeline is built and run: outcomes, some of them failures, or it raises.
RunEnds ==
  /\ pc = "run"
  /\ \/ pc' = "outcomes" /\ failed' \in SUBSET Inputs
     \/ pc' = "raised" /\ UNCHANGED failed
  /\ UNCHANGED <<state, result, sent, queue, heard, marker, del>>

\* A mutant of StoreResult: the stream ends with the outcomes.
StoreResultEndsStream ==
  /\ pc = "outcomes"
  /\ result' = TRUE
  /\ pc' = "decide"
  /\ queue' = Append(queue, Sentinel)
  /\ UNCHANGED <<state, failed, sent, heard, marker, del>>

StoreResult ==
  /\ pc = "outcomes"
  /\ result' = TRUE
  /\ pc' = "decide"
  /\ UNCHANGED <<state, failed, sent, queue, heard, marker, del>>

\* Both endings look at the state before they write it.
Decide ==
  /\ pc \in {"decide", "raised"}
  /\ pc' = IF state = "cancelled" THEN "finally"
           ELSE IF pc = "decide" THEN "state" ELSE "failing"
  /\ UNCHANGED <<state, result, failed, sent, queue, heard, marker, del>>

\* A mutant of FinalState: whatever comes back has completed.
FinalStateAlways == "completed"
FinalState == IF pc = "state" /\ failed = {} THEN "completed" ELSE "failed"

WriteState ==
  /\ pc \in {"state", "failing"}
  /\ state' = FinalState
  /\ pc' = "finally"
  /\ UNCHANGED <<result, failed, sent, queue, heard, marker, del>>

\* A mutant of Finally: a cancelled job posts no sentinel.
FinallyIfNotCancelled ==
  /\ pc = "finally"
  /\ pc' = "ended"
  /\ queue' = IF state = "cancelled" THEN queue ELSE Append(queue, Sentinel)
  /\ UNCHANGED <<state, result, failed, sent, heard, marker, del>>

Finally ==
  /\ pc = "finally"
  /\ pc' = "ended"
  /\ queue' = Append(queue, Sentinel)
  /\ UNCHANGED <<state, result, failed, sent, heard, marker, del>>
-------------------------------------------------------------------------------
(***************************************************************************)
(* Clients.                                                                *)
(***************************************************************************)

\* A mutant of Receive: an item stays in the queue when two streams meet it.
ReceiveTwice(c) ==
  /\ marker[c] = "none" /\ queue # <<>>
  /\ queue' \in {queue, Tail(queue)}
  /\ IF Head(queue) = Sentinel
     THEN marker' = [marker EXCEPT ![c] = state] /\ UNCHANGED heard
     ELSE heard' = [heard EXCEPT ![c] = Append(@, Head(queue))] /\ UNCHANGED marker
  /\ Len(heard[c]) < MaxEvents
  /\ UNCHANGED <<state, result, failed, pc, sent, del>>

\* stream_events of client c takes the next item.
Receive(c) ==
  /\ marker[c] = "none" /\ queue # <<>>
  /\ queue' = Tail(queue)
  /\ IF Head(queue) = Sentinel
     THEN marker' = [marker EXCEPT ![c] = state] /\ UNCHANGED heard
     ELSE heard' = [heard EXCEPT ![c] = Append(@, Head(queue))] /\ UNCHANGED marker
  /\ UNCHANGED <<state, result, failed, pc, sent, del>>

\* cancel_job reads the state, and then writes it.
DeleteChecks(d) ==
  /\ del[d] = "idle"
  /\ del' = [del EXCEPT ![d] = IF state = "running" THEN "checked" ELSE "answered"]
  /\ UNCHANGED <<state, result, failed, pc, sent, queue, heard, marker>>

DeleteWrites(d) ==
  /\ del[d] = "checked"
  /\ state' = "cancelled"
  /\ del' = [del EXCEPT ![d] = "answered"]
  /\ UNCHANGED <<result, failed, pc, sent, queue, heard, marker>>

\* What GET /jobs/{id}/result answers.
Served == CASE state = "running" -> "not finished"
            [] state = "failed" -> "error"
            [] OTHER -> IF result THEN "outcomes" ELSE "null"
-------------------------------------------------------------------------------
Thread == Progress \/ RunEnds \/ StoreResult \/ Decide \/ WriteState \/ Finally

Next == \/ Thread
        \/ \E c \in Clients : Receive(c)
        \/ \E d \in Deletes : DeleteChecks(d) \/ DeleteWrites(d)

Spec == Init /\ [][Next]_vars

\* The pipeline ends (RunReturns of Pipeline) and the event loop runs.
FairSpec == /\ Spec /\ WF_vars(Thread)
            /\ \A c \in Clients : WF_vars(Receive(c))
-------------------------------------------------------------------------------
(***************************************************************************)
(* Properties.                                                             *)
(***************************************************************************)

\* Progress events reach the streams of a job in the order the thread posted
\* them, and none reaches two streams or one stream twice (stream_events).
EventsPartitioned ==
  /\ \A c \in Clients : \A i, j \in 1..Len(heard[c]) : i < j => heard[c][i] < heard[c][j]
  /\ \A c, d \in Clients :
       c # d => \A i \in 1..Len(heard[c]), j \in 1..Len(heard[d]) : heard[c][i] # heard[d][j]

\* Whoever has the final marker gets an answer from GET /jobs/{id}/result, not
\* 409 (the order of the state and the sentinel in _run_job_blocking).
MarkerMeansServed == \A c \in Clients : marker[c] # "none" => Served # "not finished"

\* A failed input never leaves a job that counts as completed
\* (_run_job_blocking, api.py:504).
FailuresAreTold == state = "completed" => result /\ failed = {}

\* What the clients of a job hear, are told and are served, at any time.
RecipeJobSound == TypeOK /\ EventsPartitioned /\ MarkerMeansServed /\ FailuresAreTold

\* The stream of some client ends, whether the run ended or was cancelled.
SomeoneIsTold == pc # "ended" ~> \E c \in Clients : marker[c] # "none"
-------------------------------------------------------------------------------
(* The invariant behind RecipeJobSound. *)

\* The progress events that are still in the queue.
Left == IF pc = "ended" /\ queue # <<>> THEN Len(queue) - 1 ELSE Len(queue)

\* The queue holds the events posted last, and behind them the sentinel once
\* the thread has ended; what was taken from it was posted before.
QueueShape ==
  /\ Left <= sent
  /\ \A i \in 1..Left : queue[i] = sent - Left + i
  /\ pc = "ended" /\ queue # <<>> => queue[Len(queue)] = Sentinel
  /\ \A c \in Clients : \A i \in 1..Len(heard[c]) : heard[c][i] <= sent - Left

\* The thread writes a final state before it ends, and nobody else one that
\* says what became of the inputs.
StateFollows ==
  /\ pc \in {"finally", "ended"} => state # "running"
  /\ state \in {"completed", "failed"} => pc \in {"finally", "ended"}
  /\ pc \in {"decide", "state"} => result
  /\ \A c \in Clients : marker[c] # "none" => pc = "ended"

IInv == RecipeJobSound /\ QueueShape /\ StateFollows
===============================================================================
