-------------------------------- MODULE Daemon --------------------------------
(***************************************************************************)
(* The shell of the desktop application and its daemon process             *)
(* (src-tauri/src/daemon.rs, state.rs, events.rs, commands.rs) and the     *)
(* bridge of the user interface to it (src/bridge.ts).                     *)
(*                                                                         *)
(* setup() and the ensure_daemon call of the web view may start a daemon;  *)
(* a task per daemon reads its output, publishes its port and notices its  *)
(* end.  Requests and event pumps take the published handle and must not   *)
(* outlive it.  The bridge learns of it all by events, which it may have   *)
(* missed, and by the answer of its own ensure_daemon call.                *)
(***************************************************************************)
EXTENDS Naturals, Sequences, FiniteSets

CONSTANTS
  Clients,     \* requests relayed to the daemon, and event pumps
  Failure,     \* a daemon-failed event, and the error ensure returns
  Starting,    \* "daemon still starting"
  None         \* no answer yet

\* The call of daemon::spawn in lib.rs, and that of the web view's
\* ensure_daemon.  Each starts one daemon at most.
Callers == {"setup", "bridge"}
Gens == 1..2     \* the daemons, in the order of their start

VARIABLES
  latch,       \* AppState.daemon_spawning
  handle,      \* AppState.daemon: the daemon whose port is published, or 0
  child,       \* AppState.child: the process to stop, or 0
  err,         \* AppState.startup_error is there
  down,        \* daemons whose shutdown watch holds true
  caller,      \* caller[c]: where a call of spawn or ensure stands
  answer,      \* what ensure returned: a daemon, Failure or Starting
  task,        \* task[g]: where the task of daemon g stands
  why,         \* why[g]: what made it fail
  proc,        \* proc[g]: the process
  client,      \* client[c]: where a pump or request stands
  holds,       \* holds[c]: the daemon whose handle it loaded, or 0
  bridge,      \* where bootBridge stands
  inbox,       \* events on their way to the web view
  port,        \* connectedPort
  ui,          \* what the store shows
  fetching     \* a request for the capabilities of this generation is under way

rust == <<latch, handle, child, err, down, task, why, proc>>
calls == <<caller, answer>>
clients == <<client, holds>>
web == <<bridge, port, ui, fetching>>
vars == <<rust, calls, clients, web, inbox>>

TypeOK ==
  /\ latch \in BOOLEAN /\ err \in BOOLEAN /\ fetching \in BOOLEAN
  /\ handle \in Gens \cup {0} /\ child \in Gens \cup {0} /\ port \in Gens \cup {0}
  /\ down \subseteq Gens
  /\ caller \in [Callers -> {"idle", "port", "err", "spawn", "clear", "poll", "over"}]
  /\ answer \in Gens \cup {None, Failure, Starting}
  /\ task \in [Gens -> {"none", "launch", "set", "port", "store", "announce", "drain",
                        "kill", "err", "swap", "latch", "emit", "trail", "over"}]
  /\ why \in [Gens -> {"start", "drain", "trail"}]
  /\ proc \in [Gens -> {"none", "up", "dead"}]
  /\ client \in [Clients -> {"idle", "loaded", "check", "flying", "over"}]
  /\ holds \in [Clients -> Gens \cup {0}]
  /\ bridge \in {"listening", "asking", "settled"}
  /\ inbox \in Seq({Failure} \cup Gens) /\ Len(inbox) <= 3 * Cardinality(Gens)
  /\ ui \in {"booting", "ready", "interactive", "failed"}

Init ==
  /\ latch = FALSE /\ handle = 0 /\ child = 0 /\ err = FALSE /\ down = {}
  /\ caller = [c \in Callers |-> "idle"] /\ answer = None
  /\ task = [g \in Gens |-> "none"] /\ why = [g \in Gens |-> "start"]
  /\ proc = [g \in Gens |-> "none"]
  /\ client = [c \in Clients |-> "idle"] /\ holds = [c \in Clients |-> 0]
  /\ bridge = "listening" /\ inbox = <<>> /\ port = 0 /\ ui = "booting" /\ fetching = FALSE

\* The event reaches the listeners of the web view, if they are registered.
Tell(e) == inbox' = IF bridge = "listening" THEN inbox ELSE Append(inbox, e)
-------------------------------------------------------------------------------
(***************************************************************************)
(* spawn and ensure.                                                       *)
(***************************************************************************)

Goto(c, pc) == caller' = [caller EXCEPT ![c] = pc]
Return(a) == Goto("bridge", "over") /\ answer' = a

SetupCalls ==
  /\ caller["setup"] = "idle" /\ Goto("setup", "spawn")
  /\ UNCHANGED <<rust, answer, clients, web, inbox>>

EnsureChecksPort ==
  /\ caller["bridge"] = "port"
  /\ IF handle # 0 THEN Return(handle) ELSE Goto("bridge", "err") /\ UNCHANGED answer
  /\ UNCHANGED <<rust, clients, web, inbox>>

EnsureChecksError ==
  /\ caller["bridge"] = "err"
  /\ IF err THEN Return(Failure) ELSE Goto("bridge", "spawn") /\ UNCHANGED answer
  /\ UNCHANGED <<rust, clients, web, inbox>>

AfterSpawn(c) == IF c = "setup" THEN "over" ELSE "poll"

\* A mutant of Claims: the latch is taken without looking at it.
ClaimsAlways(c) ==
  /\ caller[c] = "spawn"
  /\ latch' = TRUE /\ Goto(c, "clear")
  /\ UNCHANGED <<handle, child, err, down, task, why, proc, answer, clients, web, inbox>>

\* The compare_exchange of spawn.
Claims(c) ==
  /\ caller[c] = "spawn"
  /\ latch' = TRUE
  /\ Goto(c, IF latch THEN AfterSpawn(c) ELSE "clear")
  /\ UNCHANGED <<handle, child, err, down, task, why, proc, answer, clients, web, inbox>>

\* clear_startup_error, and the task of the daemon is spawned.
Clears(c) ==
  /\ caller[c] = "clear"
  /\ err' = FALSE
  /\ LET g == CHOOSE g \in Gens : task[g] = "none" /\ \A h \in 1..(g - 1) : task[h] # "none"
     IN  task' = [task EXCEPT ![g] = "launch"]
  /\ Goto(c, AfterSpawn(c))
  /\ UNCHANGED <<latch, handle, child, down, why, proc, answer, clients, web, inbox>>

\* The poll of ensure meets the port, the error, or its deadline.
EnsurePolls ==
  /\ caller["bridge"] = "poll"
  /\ \/ handle # 0 /\ Return(handle)
     \/ handle = 0 /\ err /\ Return(Failure)
     \/ handle = 0 /\ ~err /\ Return(Starting)
  /\ UNCHANGED <<rust, clients, web, inbox>>
-------------------------------------------------------------------------------
(***************************************************************************)
(* The task of a daemon: start, drain_child and what a failure does.       *)
(***************************************************************************)

At(g, pc) == task[g] = pc
To(g, pc) == task' = [task EXCEPT ![g] = pc]
Because(g, r) == why' = [why EXCEPT ![g] = r]

\* cmd.spawn.
Launch(g) ==
  /\ At(g, "launch")
  /\ \/ To(g, "set") /\ proc' = [proc EXCEPT ![g] = "up"]
     \/ To(g, "err") /\ UNCHANGED proc
  /\ UNCHANGED <<latch, handle, child, err, down, why, calls, clients, web, inbox>>

SetChild(g) ==
  /\ At(g, "set") /\ To(g, "port")
  /\ child' = g
  /\ UNCHANGED <<latch, handle, err, down, why, proc, calls, clients, web, inbox>>

\* wait_for_port reads the port, or gives up: the process ended, an error of
\* the pipe, fifteen minutes.
WaitForPort(g) ==
  /\ At(g, "port") /\ (To(g, "store") \/ To(g, "kill"))
  /\ UNCHANGED <<latch, handle, child, err, down, why, proc, calls, clients, web, inbox>>

SetDaemon(g) ==
  /\ At(g, "store") /\ To(g, "announce")
  /\ handle' = g
  /\ UNCHANGED <<latch, child, err, down, why, proc, calls, clients, web, inbox>>

AnnounceReady(g) ==
  /\ At(g, "announce") /\ To(g, "drain")
  /\ Tell(g)
  /\ UNCHANGED <<latch, handle, child, err, down, why, proc, calls, clients, web>>

\* drain_child: the process ended, the pipe failed, or the channel closed.
Drain(g) ==
  /\ At(g, "drain")
  /\ \/ To(g, "kill") /\ Because(g, "drain")
     \/ To(g, "trail") /\ UNCHANGED why
  /\ UNCHANGED <<latch, handle, child, err, down, proc, calls, clients, web, inbox>>

\* stop_child stops whatever process is there.
StopChild(g) ==
  /\ At(g, "kill") /\ To(g, "err")
  /\ child' = 0
  /\ proc' = IF child = 0 THEN proc ELSE [proc EXCEPT ![child] = "dead"]
  /\ UNCHANGED <<latch, handle, err, down, why, calls, clients, web, inbox>>

\* The three writes of AppState::failed.
FailedError(g) ==
  /\ At(g, "err") /\ To(g, "swap")
  /\ err' = TRUE
  /\ UNCHANGED <<latch, handle, child, down, why, proc, calls, clients, web, inbox>>

\* A mutant of FailedHandle: send(), which drops the value without receivers.
FailedHandleSend(g) ==
  /\ At(g, "swap") /\ To(g, "latch")
  /\ handle' = 0
  /\ down' = IF \E c \in Clients : holds[c] = handle /\ client[c] \in {"check", "flying"}
             THEN down \cup {handle} ELSE down
  /\ UNCHANGED <<latch, child, err, why, proc, calls, clients, web, inbox>>

FailedHandle(g) ==
  /\ At(g, "swap") /\ To(g, "latch")
  /\ handle' = 0
  /\ down' = IF handle = 0 THEN down ELSE down \cup {handle}
  /\ UNCHANGED <<latch, child, err, why, proc, calls, clients, web, inbox>>

FailedLatch(g) ==
  /\ At(g, "latch") /\ To(g, "emit")
  /\ latch' = FALSE
  /\ UNCHANGED <<handle, child, err, down, why, proc, calls, clients, web, inbox>>

AnnounceFailed(g) ==
  /\ At(g, "emit") /\ To(g, IF why[g] = "drain" THEN "trail" ELSE "over")
  /\ Tell(Failure)
  /\ UNCHANGED <<latch, handle, child, err, down, why, proc, calls, clients, web>>

\* The check behind the loop of drain_child.
Trail(g) ==
  /\ At(g, "trail")
  /\ IF handle # 0 THEN To(g, "kill") /\ Because(g, "trail")
                   ELSE To(g, "over") /\ UNCHANGED why
  /\ UNCHANGED <<latch, handle, child, err, down, proc, calls, clients, web, inbox>>

Dies(g) ==
  /\ proc[g] = "up"
  /\ proc' = [proc EXCEPT ![g] = "dead"]
  /\ UNCHANGED <<latch, handle, child, err, down, task, why, calls, clients, web, inbox>>

Task(g) == \/ Launch(g) \/ SetChild(g) \/ WaitForPort(g) \/ SetDaemon(g) \/ AnnounceReady(g)
           \/ StopChild(g) \/ FailedError(g) \/ FailedHandle(g) \/ FailedLatch(g)
           \/ AnnounceFailed(g) \/ Trail(g)
-------------------------------------------------------------------------------
(***************************************************************************)
(* Requests (daemon_request) and event pumps.                              *)
(***************************************************************************)

Step(c, pc) == client' = [client EXCEPT ![c] = pc]

Load(c) ==
  /\ client[c] = "idle"
  /\ holds' = [holds EXCEPT ![c] = handle]
  /\ Step(c, IF handle = 0 THEN "over" ELSE "loaded")
  /\ UNCHANGED <<rust, calls, web, inbox>>

Subscribe(c) ==
  /\ client[c] = "loaded" /\ Step(c, "check")
  /\ UNCHANGED <<rust, calls, holds, web, inbox>>

ChecksShutdown(c) ==
  /\ client[c] = "check"
  /\ Step(c, IF holds[c] \in down THEN "over" ELSE "flying")
  /\ UNCHANGED <<rust, calls, holds, web, inbox>>

\* The shutdown watch changed.
Interrupted(c) ==
  /\ client[c] = "flying" /\ holds[c] \in down
  /\ Step(c, "over")
  /\ UNCHANGED <<rust, calls, holds, web, inbox>>

\* The answer, or the end of the stream.
Ends(c) ==
  /\ client[c] = "flying" /\ Step(c, "over")
  /\ UNCHANGED <<rust, calls, holds, web, inbox>>

ClientStep(c) == Load(c) \/ Subscribe(c) \/ ChecksShutdown(c) \/ Interrupted(c)
-------------------------------------------------------------------------------
(***************************************************************************)
(* bootBridge.                                                             *)
(***************************************************************************)

Failed == port' = 0 /\ ui' = "failed" /\ fetching' = FALSE
Ready(g) == IF port = g THEN UNCHANGED <<port, ui, fetching>>
                        ELSE port' = g /\ ui' = "ready" /\ fetching' = TRUE

\* A mutant of Listens: ensure_daemon is called before the listeners are there.
ListensLate ==
  /\ bridge = "listening"
  /\ IF caller["bridge"] = "idle" THEN Goto("bridge", "port") /\ UNCHANGED bridge
     ELSE /\ answer # None /\ bridge' = "asking" /\ UNCHANGED caller
  /\ UNCHANGED <<rust, answer, clients, port, ui, fetching, inbox>>

\* The listeners are registered; ensure_daemon is called.
Listens ==
  /\ bridge = "listening" /\ bridge' = "asking"
  /\ Goto("bridge", "port")
  /\ UNCHANGED <<rust, answer, clients, port, ui, fetching, inbox>>

\* A mutant of TakesAnswer: readiness is left to the event.
TakesErrors ==
  /\ bridge = "asking" /\ answer # None /\ bridge' = "settled"
  /\ IF answer = Failure THEN Failed ELSE UNCHANGED <<port, ui, fetching>>
  /\ UNCHANGED <<rust, calls, clients, inbox>>

\* The answer of ensure_daemon reaches the bridge.
TakesAnswer ==
  /\ bridge = "asking" /\ answer # None /\ bridge' = "settled"
  /\ CASE answer = Failure -> Failed
       [] answer = Starting -> UNCHANGED <<port, ui, fetching>>
       [] OTHER -> Ready(answer)
  /\ UNCHANGED <<rust, calls, clients, inbox>>

TakesEvent ==
  /\ inbox # <<>> /\ inbox' = Tail(inbox)
  /\ IF Head(inbox) = Failure THEN Failed ELSE Ready(Head(inbox))
  /\ UNCHANGED <<rust, calls, clients, bridge>>

\* fetchCapabilities of the current generation answers, or fails.
Fetched ==
  /\ fetching
  /\ \/ handle # 0 /\ ui' = "interactive" /\ fetching' = FALSE /\ UNCHANGED port
     \/ Failed
  /\ UNCHANGED <<rust, calls, clients, bridge, inbox>>
-------------------------------------------------------------------------------
EnsureStep == EnsureChecksPort \/ EnsureChecksError \/ EnsurePolls

Next ==
  \/ SetupCalls
  \/ \E c \in Callers : Claims(c) \/ Clears(c)
  \/ EnsureStep
  \/ \E g \in Gens : Task(g) \/ Drain(g) \/ Dies(g)
  \/ \E c \in Clients : ClientStep(c) \/ Ends(c)
  \/ Listens \/ TakesAnswer \/ TakesEvent \/ Fetched

Spec == Init /\ [][Next]_vars

\* Threads, tasks and the event loop run; wait_for_port and the requests have
\* deadlines; a process that ended is noticed.
Fairness ==
  /\ WF_vars(SetupCalls)
  /\ \A c \in Callers : WF_vars(Claims(c)) /\ WF_vars(Clears(c))
  /\ WF_vars(EnsureStep)
  /\ \A g \in Gens : WF_vars(Task(g)) /\ WF_vars(proc[g] = "dead" /\ Drain(g))
  /\ \A c \in Clients : WF_vars(client[c] # "idle" /\ ClientStep(c))
  /\ WF_vars(Listens) /\ WF_vars(TakesAnswer) /\ WF_vars(TakesEvent) /\ WF_vars(Fetched)

FairSpec == Spec /\ Fairness
-------------------------------------------------------------------------------
(***************************************************************************)
(* Properties.                                                             *)
(***************************************************************************)

\* No two daemon processes run at a time, whichever of setup() and the web
\* views started them and however the earlier one failed (spawn).
AtMostOneDaemon == TypeOK /\ Cardinality({g \in Gens : proc[g] = "up"}) <= 1

\* A request or pump that took the handle of a daemon that failed comes to an
\* end, also if it had not subscribed when the daemon failed (state.rs,
\* AppState::failed).
ClientsOfDeadEnd ==
  \A c \in Clients : (holds[c] # 0 /\ holds[c] # handle) ~> client[c] = "over"

\* When the daemon is gone for good, the user interface says so, also when it
\* failed before the web view listened (bootBridge, ensure).
FailureIsShown == <>[](handle = 0 /\ err) => <>[](ui = "failed")

\* When a daemon stays published, the user interface leaves its boot screen,
\* also when the announcement was missed.
ReadyIsShown == <>[](handle # 0) => <>[](ui # "booting")
-------------------------------------------------------------------------------
(* The invariant behind AtMostOneDaemon. *)

\* A call that cannot start a daemon any more.
Spent(c) == caller[c] \in {"poll", "over"}

\* Every daemon was started by a call of its own, the second after the first.
CallsStart ==
  /\ bridge = "listening" => caller["bridge"] = "idle"
  /\ task[1] # "none" => \E c \in Callers : Spent(c)
  /\ task[2] # "none" => task[1] # "none" /\ \A c \in Callers : Spent(c)

\* The task of a daemon that is starting, published, or failing.
Launching == {"launch", "set", "port", "store", "announce", "drain"}
Failing == {"kill", "err", "swap", "latch"}

\* While there is one daemon, the latch is free or in the hands of a call only
\* if that daemon is withdrawn for good.
Withdrawn == handle = 0 /\ task[1] \notin Launching \cup Failing /\ task[2] = "none"

LatchGuards ==
  /\ ~latch => Withdrawn \/ task[2] # "none"
  /\ \A c \in Callers : caller[c] = "clear" =>
       latch /\ Withdrawn /\ \A d \in Callers \ {c} : caller[d] # "clear"
  /\ task[1] = "latch" /\ task[2] = "none" => handle = 0
  /\ task[2] # "none" => task[1] \notin Launching

\* As long as the first daemon runs, its task can still stop it, and the latch
\* keeps the second from being started.
FirstDaemonHeld ==
  /\ \A g \in Gens : /\ proc[g] # "none" => task[g] \notin {"none", "launch"}
                     /\ task[g] = "set" => proc[g] # "none"
  /\ child # 0 => proc[child] # "none"
  /\ proc[1] = "up" =>
       /\ latch /\ task[2] = "none" /\ \A c \in Callers : caller[c] # "clear"
       /\ task[1] \in (Launching \cup {"trail", "kill"}) \ {"launch"}
       /\ task[1] # "set" => child = 1
       /\ task[1] \in {"announce", "drain", "trail"} => handle = 1

\* How many events the task of a daemon has sent at most.
Before(g) == IF why[g] = "start" THEN 0 ELSE IF why[g] = "drain" THEN 1 ELSE 2
Told(g) == IF task[g] \in {"none"} \cup (Launching \ {"drain"}) THEN 0
           ELSE IF task[g] \in Failing \cup {"emit"} THEN Before(g) ELSE Before(g) + 1

EventsFew ==
  /\ Len(inbox) <= Told(1) + Told(2)
  /\ \A g \in Gens : /\ task[g] \in {"none"} \cup Launching => why[g] = "start"
                     /\ task[g] = "trail" => why[g] # "trail"

IInv == TypeOK /\ CallsStart /\ LatchGuards /\ FirstDaemonHeld /\ EventsFew
================================================================================
