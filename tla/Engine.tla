-------------------------------- MODULE Engine --------------------------------
(***************************************************************************)
(* The dispatch engine of batchalign-engine (src/crates/batchalign/        *)
(* batchalign-engine/src/engine.rs and batcher.rs): callers hand a value   *)
(* to `dispatch`, which passes it through a bounded mpsc channel to the    *)
(* batcher loop of the backend that serves its task and waits for the      *)
(* reply on a oneshot channel.  The batcher answers cache hits at once,    *)
(* collects the misses, calls the backend with the batch on a blocking     *)
(* thread, distributes the outputs, and only then lets another blocking    *)
(* thread store them.                                                      *)
(*                                                                         *)
(* The module is one backend with its channel: two backends share nothing  *)
(* but the cancellation flag, the clearing of the route table and a cache  *)
(* whose keys carry the backend's name.                                    *)
(***************************************************************************)
EXTENDS Naturals, Sequences, FiniteSets

CONSTANTS
  Calls,        \* the calls of `dispatch`, each made once
  Contents,     \* cache keys: the inputs up to routing fields
  ContentOf,    \* ContentOf[d]: the cache key of the input of call d
  Versions,     \* what two results of the backend for one input differ by
  Capacity,     \* the channel's capacity (route_queue_capacity)
  MaxSize,      \* BatchPolicy.max_size, at least 1
  CachePolicy,  \* "use", "bypass" or "refresh"
  CacheFaults,  \* whether LMDB reads and writes may fail (errors are swallowed)
  ErrWorker,    \* the BAError every failing path of `dispatch` returns
  NoResult,     \* a call without an answer
  NoEntry       \* a cache key without an entry

ASSUME EngineAssumption ==
  /\ ContentOf \in [Calls -> Contents]
  /\ Capacity \in Nat \ {0}
  /\ MaxSize \in Nat \ {0}
  /\ CachePolicy \in {"use", "bypass", "refresh"}
  /\ CacheFaults \in BOOLEAN

\* The results a backend can return for content c.
OutputsOf(c) == [of : {c}, v : Versions]
Outputs == [of : Contents, v : Versions]
Stored == Contents \X Outputs

ASSUME TokensDiffer ==
  /\ ErrWorker \notin Outputs
  /\ NoResult \notin Outputs \cup {ErrWorker}
  /\ NoEntry \notin Outputs

VARIABLES
  cancelled,    \* BatchalignEngine.cancelled
  routed,       \* the route table has the entry of this backend
  disp,         \* disp[d]: where the call d of dispatch_inner stands
  got,          \* got[d]: what dispatch returned for d
  queue,        \* the mpsc channel
  phase,        \* where batcher_loop stands
  batch,        \* fresh_inputs with fresh_replies: the misses collected
  putJob,       \* the blocking task that stores outputs
  puts,         \* to_cache: what that task has left to store
  cache,        \* the entries of this backend in the LMDB environment
  computed      \* history: the outputs the backend returned

vars == <<cancelled, routed, disp, got, queue, phase, batch, putJob, puts,
          cache, computed>>

batcherVars == <<phase, batch, putJob, puts>>

\* A call between reading its route and returning owns a clone of the sender.
InFlight == {d \in Calls : disp[d] \in {"sending", "waiting"}}

\* Types, and what the loop keeps resident: the channel and one batch.
TypeOK ==
  /\ cancelled \in BOOLEAN
  /\ routed \in BOOLEAN
  /\ disp \in [Calls -> {"idle", "sending", "waiting", "done", "dropped"}]
  /\ got \in [Calls -> Outputs \cup {ErrWorker, NoResult}]
  /\ queue \in Seq(Calls) /\ Len(queue) <= Capacity
  /\ phase \in {"recv", "window", "drain", "call", "put", "gone"}
  /\ batch \in Seq(Calls) /\ Len(batch) <= MaxSize
  /\ putJob \in {"none", "spawned", "running"}
  /\ puts \in Seq(Stored)
  /\ cache \in [Contents -> Outputs \cup {NoEntry}]
  /\ computed \subseteq Outputs

\* A backend has just been registered; the cache may hold entries that an
\* earlier process stored.
Init ==
  /\ cancelled = FALSE
  /\ routed = TRUE
  /\ disp = [d \in Calls |-> "idle"]
  /\ got = [d \in Calls |-> NoResult]
  /\ queue = <<>>
  /\ phase = "recv"
  /\ batch = <<>>
  /\ putJob = "none"
  /\ puts = <<>>
  /\ cache \in [Contents -> Outputs \cup {NoEntry}]
  /\ \A c \in Contents : cache[c] \in OutputsOf(c) \cup {NoEntry}
  /\ computed = {}
-------------------------------------------------------------------------------
(***************************************************************************)
(* The callers.                                                            *)
(***************************************************************************)

\* BatchalignEngine::cancel; nothing resets the flag.
Cancel ==
  /\ ~cancelled
  /\ cancelled' = TRUE
  /\ UNCHANGED <<routed, disp, got, queue, batcherVars, cache, computed>>

\* BatchalignEngine::shutdown clears the routes; callers keep their clones.
Shutdown ==
  /\ routed
  /\ routed' = FALSE
  /\ UNCHANGED <<cancelled, disp, got, queue, batcherVars, cache, computed>>

\* dispatch_inner checks the flag and reads its route.
AdmittedWithoutFlag == routed  \* a mutant of Admitted
Admitted == ~cancelled /\ routed

\* dispatch_inner returns before it owns a sender: cancelled, or no route.
Refuse(d) ==
  /\ disp[d] = "idle"
  /\ ~Admitted
  /\ disp' = [disp EXCEPT ![d] = "done"]
  /\ got' = [got EXCEPT ![d] = ErrWorker]
  /\ UNCHANGED <<cancelled, routed, queue, batcherVars, cache, computed>>

\* dispatch_inner passes the flag check and clones its sender.
Begin(d) ==
  /\ disp[d] = "idle"
  /\ Admitted
  /\ disp' = [disp EXCEPT ![d] = "sending"]
  /\ UNCHANGED <<cancelled, routed, got, queue, batcherVars, cache, computed>>

\* tx.send(..).await gets a slot in the channel.
Enqueue(d) ==
  /\ disp[d] = "sending"
  /\ phase # "gone"
  /\ Len(queue) < Capacity
  /\ queue' = Append(queue, d)
  /\ disp' = [disp EXCEPT ![d] = "waiting"]
  /\ UNCHANGED <<cancelled, routed, got, batcherVars, cache, computed>>

\* The caller's future is dropped (Pipeline.run leaves its stream on an error
\* of a callback): a queued item stays queued, its reply has no receiver.
Abandon(d) ==
  /\ disp[d] \in {"idle", "sending", "waiting"}
  /\ disp' = [disp EXCEPT ![d] = "dropped"]
  /\ UNCHANGED <<cancelled, routed, got, queue, batcherVars, cache, computed>>
-------------------------------------------------------------------------------
(***************************************************************************)
(* The batcher loop.                                                       *)
(***************************************************************************)

\* Cache::get: nothing under Bypass and Refresh, nothing on a read error.
CacheGetAnyKey(c) ==  \* a mutant of CacheGet: the key forgets the content
  {cache[k] : k \in Contents}

CacheGet(c) ==
  IF CachePolicy = "use"
  THEN {cache[c]} \cup IF CacheFaults THEN {NoEntry} ELSE {}
  ELSE {NoEntry}

\* reply.send: a dropped receiver makes it a no-op.
Reply(d, result) ==
  /\ disp' = [disp EXCEPT ![d] = IF @ = "waiting" THEN "done" ELSE @]
  /\ got' = [got EXCEPT ![d] = IF disp[d] = "waiting" THEN result ELSE @]

\* The next item of the channel goes to its caller if the cache has it and to
\* the batch otherwise.
TakeItem(onHit, onMiss) ==
  /\ queue # <<>>
  /\ queue' = Tail(queue)
  /\ LET d == Head(queue) IN
     \E found \in CacheGet(ContentOf[d]) :
       \/ /\ found # NoEntry
          /\ Reply(d, found)
          /\ phase' = onHit
          /\ UNCHANGED batch
       \/ /\ found = NoEntry
          /\ batch' = Append(batch, d)
          /\ phase' = onMiss
          /\ UNCHANGED <<disp, got>>
  /\ UNCHANGED <<cancelled, routed, putJob, puts, cache, computed>>

\* Step 1 and 2 of the loop: the first item decides how the batch is filled.
First == phase = "recv" /\ TakeItem("drain", "window")

\* Step 3 after a miss: fill the batch until the deadline.
FillWindowUnbounded == phase = "window" /\ TakeItem("window", "window")  \* a mutant

FillWindow == /\ phase = "window"
              /\ Len(batch) < MaxSize
              /\ TakeItem("window", "window")

\* Step 3 after a hit: fill the batch with what is already queued.
FillDrain == /\ phase = "drain"
             /\ Len(batch) < MaxSize
             /\ TakeItem("drain", "drain")

\* The window ends: full, past the deadline (at any time), or closed.
WindowEnds ==
  /\ phase = "window"
  /\ phase' = "call"
  /\ UNCHANGED <<cancelled, routed, disp, got, queue, batch, putJob, puts,
                 cache, computed>>

\* The drain ends: full or nothing queued; without a miss the loop restarts.
LeaveDrain(next) ==
  /\ phase = "drain"
  /\ queue = <<>> \/ Len(batch) = MaxSize
  /\ phase' = next
  /\ UNCHANGED <<cancelled, routed, disp, got, queue, batch, putJob, puts,
                 cache, computed>>

DrainEndsForgets == LeaveDrain("recv")  \* a mutant of DrainEnds
DrainEnds == LeaveDrain(IF batch = <<>> THEN "recv" ELSE "call")

\* Position i of a batch answers the call at position i, if its receiver is
\* still there.
Position(d) == CHOOSE i \in 1..Len(batch) : batch[i] = d
PositionReversed(d) == CHOOSE i \in 1..Len(batch) : batch[Len(batch) + 1 - i] = d

DistributeBy(outs, pos(_)) ==
  LET reached == {d \in Calls : /\ disp[d] = "waiting"
                                /\ \E i \in 1..Len(batch) : batch[i] = d}
  IN  /\ disp' = [d \in Calls |-> IF d \in reached THEN "done" ELSE disp[d]]
      /\ got' = [d \in Calls |-> IF d \in reached THEN outs[pos(d)] ELSE got[d]]

DistributeReversed(outs) == DistributeBy(outs, PositionReversed)  \* a mutant
Distribute(outs) == DistributeBy(outs, Position)

\* to_cache: input and output of each position.
ToCacheShifted(outs) ==  \* a mutant of ToCache: the first input for all
  [i \in 1..Len(batch) |-> <<ContentOf[batch[1]], outs[i]>>]
ToCache(outs) == [i \in 1..Len(batch) |-> <<ContentOf[batch[i]], outs[i]>>]

\* The backend returns one output per input.  Replies first, then the task
\* that stores the outputs is spawned; the loop goes on in phase `next`.
ReplyAndStore(next) ==
  /\ phase = "call"
  /\ \E outs \in [1..Len(batch) -> Outputs] :
       /\ \A i \in 1..Len(batch) : outs[i].of = ContentOf[batch[i]]
       /\ Distribute(outs)
       /\ puts' = ToCache(outs)
       /\ computed' = computed \cup {outs[i] : i \in 1..Len(batch)}
  /\ putJob' = "spawned"
  /\ batch' = <<>>
  /\ phase' = next
  /\ UNCHANGED <<cancelled, routed, queue, cache>>

\* The storing task is awaited.
CallSucceedsNoAwait == ReplyAndStore("recv")  \* a mutant of CallSucceeds
CallSucceeds == ReplyAndStore("put")

\* The backend raises, panics, or returns a batch of another length: every
\* member gets an error and nothing is stored.
CallFails ==
  /\ phase = "call"
  /\ Distribute([i \in 1..Len(batch) |-> ErrWorker])
  /\ batch' = <<>>
  /\ phase' = "recv"
  /\ UNCHANGED <<cancelled, routed, queue, putJob, puts, cache, computed>>

\* A thread of the blocking pool takes the storing task up.
PutStarts ==
  /\ putJob = "spawned"
  /\ putJob' = "running"
  /\ UNCHANGED <<cancelled, routed, disp, got, queue, phase, batch, puts,
                 cache, computed>>

\* Cache::put: one write transaction; a no-op under Bypass; an error is logged
\* and swallowed.
CachePut(c, output) ==
  IF CachePolicy = "bypass" THEN {cache}
  ELSE {[cache EXCEPT ![c] = output]} \cup IF CacheFaults THEN {cache} ELSE {}

\* The storing task writes its next output.
PutNext ==
  /\ putJob = "running"
  /\ puts # <<>>
  /\ puts' = Tail(puts)
  /\ cache' \in CachePut(Head(puts)[1], Head(puts)[2])
  /\ UNCHANGED <<cancelled, routed, disp, got, queue, phase, batch, putJob,
                 computed>>

\* put_handle.await returns and the loop restarts.
PutEnds ==
  /\ phase = "put"
  /\ putJob = "running"
  /\ puts = <<>>
  /\ putJob' = "none"
  /\ phase' = "recv"
  /\ UNCHANGED <<cancelled, routed, disp, got, queue, batch, puts, cache,
                 computed>>

\* No sender is left: the route is cleared and no call owns a clone.
ClosedByShutdown == ~routed  \* a mutant of Closed: shutdown() closes the channel
ClosedUnlessDropped ==  \* a mutant of Closed: a dropped future leaks its clone
  ~routed /\ \A d \in Calls : disp[d] \in {"idle", "done"}
Closed == ~routed /\ InFlight = {}

\* recv() returns None: the channel is closed and empty.
LoopExits ==
  /\ phase = "recv"
  /\ queue = <<>>
  /\ Closed
  /\ phase' = "gone"
  /\ UNCHANGED <<cancelled, routed, disp, got, queue, batch, putJob, puts,
                 cache, computed>>

\* Drop for Pipeline: shutdown, then the runtime goes.  No run borrows the
\* pipeline, so no call is in flight.  Dropping the runtime waits for blocking
\* tasks that run, cancels those that do not, and ends the loop at its await.
DropRuntime ==
  /\ InFlight = {}
  /\ phase # "gone"
  /\ putJob # "running"
  /\ routed' = FALSE
  /\ phase' = "gone"
  /\ queue' = <<>>
  /\ batch' = <<>>
  /\ putJob' = "none"
  /\ puts' = <<>>
  /\ UNCHANGED <<cancelled, disp, got, cache, computed>>
-------------------------------------------------------------------------------
Batcher == \/ First \/ FillWindow \/ FillDrain \/ WindowEnds \/ DrainEnds
           \/ CallSucceeds \/ CallFails
           \/ PutStarts \/ PutNext \/ PutEnds \/ LoopExits

Next == \/ Cancel
        \/ Shutdown
        \/ \E d \in Calls : Refuse(d) \/ Begin(d) \/ Enqueue(d) \/ Abandon(d)
        \/ First \/ FillWindow \/ FillDrain \/ WindowEnds \/ DrainEnds
        \/ CallSucceeds \/ CallFails
        \/ PutStarts \/ PutNext \/ PutEnds \/ LoopExits
        \/ DropRuntime

Spec == Init /\ [][Next]_vars

\* tokio polls ready tasks and runs blocking tasks, a backend call returns,
\* and the channel serves waiting senders.
Fairness == /\ WF_vars(Batcher)
            /\ \A d \in Calls : WF_vars(Enqueue(d))

FairSpec == Spec /\ Fairness
-------------------------------------------------------------------------------
(***************************************************************************)
(* Properties.                                                             *)
(***************************************************************************)

Members(s) == {s[i] : i \in 1..Len(s)}
Distinct(s) == \A i, j \in 1..Len(s) : s[i] = s[j] => i = j

\* No accepted call is ever stranded: as long as a caller waits, its item is
\* in the channel or in the batch of a living batcher, at one place only, and
\* a batcher is gone only when nobody holds a sender.  This is why the errors
\* "batcher is gone" and "dropped reply" of dispatch_inner cannot be reached.
NoCallStranded ==
  /\ \A d \in Calls : disp[d] = "waiting" => d \in Members(queue) \cup Members(batch)
  /\ Distinct(queue) /\ Distinct(batch) /\ Members(queue) \cap Members(batch) = {}
  /\ phase = "gone" => InFlight = {}

\* An answer is an error or an output for the caller's own input, whether it
\* came from the cache or from a batch shared with other callers.
AnswersOwnContent ==
  \A d \in Calls : got[d] \in OutputsOf(ContentOf[d]) \cup {ErrWorker, NoResult}

\* An entry is stored under the key of the input it was computed for.
CacheKeySound == \A c \in Contents : cache[c] \in OutputsOf(c) \cup {NoEntry}

\* The bounds of the channel and of a batch, and whose outputs are whose.
EngineSound == TypeOK /\ AnswersOwnContent /\ CacheKeySound

\* The batcher never pays for an input whose output is already stored: the
\* put is awaited before the next lookup (batcher.rs:193-198).
NoRedundantCall ==
  (CachePolicy = "use" /\ ~CacheFaults /\ phase \in {"window", "drain", "call"})
    => \A i \in 1..Len(batch) : cache[ContentOf[batch[i]]] = NoEntry

\* Under Bypass and Refresh every answer was computed by this process, even
\* when the environment already holds an entry for the input.
FreshUnlessUse ==
  CachePolicy # "use" =>
    \A d \in Calls : got[d] \in computed \cup {ErrWorker, NoResult}

\* The work the engine still owes its backend.
Owed == Members(queue) \cup Members(batch) \cup {d \in Calls : disp[d] = "sending"}

\* After cancel() the engine only drains: nothing is added to what was
\* accepted before it.
CancelOnlyDrains == [][cancelled => Owed' \subseteq Owed]_vars

\* Every accepted call returns, also across cancel() and shutdown().
AcceptedReturns ==
  \A d \in Calls : (disp[d] \in {"sending", "waiting"}) ~> (disp[d] \in {"done", "dropped"})

\* After shutdown() the loop exits: no sender is leaked.
ShutdownEndsLoop == ~routed ~> (phase = "gone")
-------------------------------------------------------------------------------
\* The engine implements the contract of dispatch.
CallState(s) == CASE s = "idle" -> "new"
                  [] s \in {"sending", "waiting"} -> "accepted"
                  [] s = "done" -> "answered"
                  [] s = "dropped" -> "abandoned"

Contract == INSTANCE DispatchContract WITH
              call <- [d \in Calls |-> CallState(disp[d])],
              answer <- got

ImplementsContract == Contract!CSpec
===============================================================================
