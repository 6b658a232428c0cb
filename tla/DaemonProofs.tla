------------------------------ MODULE DaemonProofs ------------------------------
(***************************************************************************)
(* No two daemons run at a time, for every set of requests and pumps: IInv *)
(* of Daemon is inductive, and AtMostOneDaemon follows from it.            *)
(*                                                                         *)
(* The latch alone does not keep a second daemon away, since the task of   *)
(* a failed one may release it twice.  What does is that the latch can be  *)
(* free, or taken anew, only when the task of the first daemon has stopped *)
(* its process or has nothing left to release.                             *)
(***************************************************************************)
EXTENDS Daemon, FiniteSetTheorems, SequenceTheorems, TLAPS

\* There are two daemons at most.
LEMMA GensTwo == Cardinality(Gens) = 2 /\ Gens = {1, 2}
<1>1. Gens = {1} \cup {2}
  BY DEF Gens
<1>2. IsFiniteSet({1}) /\ Cardinality({1}) = 1
  BY FS_Singleton
<1>3. Cardinality({1} \cup {2}) = 1 + 1
  BY <1>2, FS_AddElement
<1>4. QED
  BY <1>1, <1>3

\* The task of a daemon sends three events at most.
LEMMA ToldBounds == \A g \in Gens : Told(g) \in 0..3
BY DEF Told, Before

\* Nothing has happened before setup() and the web view call.
LEMMA InitInvariant == Init => IInv
<1> SUFFICES ASSUME Init
             PROVE  IInv
  OBVIOUS
<1> USE DEF Init
<1>1. Len(inbox) = 0 /\ inbox \in Seq({Failure} \cup Gens)
  BY EmptySeq
<1>2. TypeOK
  <2>1. 1 \in Gens /\ 2 \in Gens
    BY GensTwo
  <2>2. Len(inbox) <= 3 * Cardinality(Gens)
    BY <1>1, GensTwo
  <2>3. QED
    BY <1>1, <2>2 DEF TypeOK
<1>3. CallsStart /\ LatchGuards /\ FirstDaemonHeld
  BY GensTwo DEF CallsStart, LatchGuards, FirstDaemonHeld, Withdrawn, Launching, Failing, Callers
<1>4. EventsFew
  BY <1>1, GensTwo, ToldBounds DEF EventsFew, Told, Before
<1>5. QED
  BY <1>2, <1>3, <1>4 DEF IInv

\* What the tasks, the latch and the calls leave alone keeps the invariant.
LEMMA RustKept ==
  ASSUME IInv, UNCHANGED <<rust, caller>>, Len(inbox') <= Len(inbox), Len(inbox') \in Nat,
         bridge' = bridge \/ bridge' # "listening"
  PROVE  CallsStart' /\ LatchGuards' /\ FirstDaemonHeld' /\ EventsFew'
<1>1. CallsStart /\ LatchGuards /\ FirstDaemonHeld /\ EventsFew /\ TypeOK
  BY DEF IInv
<1>2. UNCHANGED <<latch, handle, child, err, down, task, why, proc, caller>>
  BY DEF rust
<1>3. CallsStart'
  BY <1>1, <1>2 DEF CallsStart, Spent
<1>4. LatchGuards' /\ FirstDaemonHeld'
  BY <1>1, <1>2 DEF LatchGuards, FirstDaemonHeld, Withdrawn
<1>5. EventsFew'
  <2>1. Told(1)' = Told(1) /\ Told(2)' = Told(2)
    BY <1>2 DEF Told, Before
  <2>2. Told(1) \in 0..3 /\ Told(2) \in 0..3 /\ Len(inbox) \in Nat
    BY <1>1, ToldBounds, GensTwo DEF TypeOK
  <2>3. Len(inbox') <= Told(1)' + Told(2)'
    BY <1>1, <2>1, <2>2 DEF EventsFew
  <2>4. QED
    BY <1>1, <1>2, <2>3 DEF EventsFew
<1>6. QED
  BY <1>3, <1>4, <1>5

\* A daemon that sends no more than its task counts keeps the events few.
LEMMA EventsKept ==
  ASSUME IInv, NEW g \in Gens,
         \A h \in Gens \ {g} : task'[h] = task[h] /\ why'[h] = why[h],
         Len(inbox') \in Nat, Len(inbox') + Told(g) <= Len(inbox) + Told(g)',
         task'[g] \in {"none"} \cup Launching => why'[g] = "start",
         task'[g] = "trail" => why'[g] # "trail"
  PROVE  EventsFew'
<1>1. TypeOK /\ EventsFew
  BY DEF IInv
<1>2. Len(inbox) \in Nat
  BY <1>1 DEF TypeOK
<1>3. Told(1) \in 0..3 /\ Told(2) \in 0..3
  BY ToldBounds, GensTwo
<1>4. Told(1)' \in 0..3 /\ Told(2)' \in 0..3
  BY DEF Told, Before
<1>5. Len(inbox) <= Told(1) + Told(2)
  BY <1>1 DEF EventsFew
<1>6. CASE g = 1
  <2>1. task'[2] = task[2] /\ why'[2] = why[2]
    BY <1>6, GensTwo
  <2>2. Told(2)' = Told(2)
    BY <2>1 DEF Told, Before
  <2>3. Len(inbox') + Told(1) <= Len(inbox) + Told(1)'
    BY <1>6
  <2>4. Len(inbox') <= Told(1)' + Told(2)'
    BY <1>2, <1>3, <1>4, <1>5, <2>2, <2>3
  <2>5. QED
    BY <1>1, <1>6, <2>1, <2>4, GensTwo DEF EventsFew
<1>7. CASE g = 2
  <2>1. task'[1] = task[1] /\ why'[1] = why[1]
    BY <1>7, GensTwo
  <2>2. Told(1)' = Told(1)
    BY <2>1 DEF Told, Before
  <2>3. Len(inbox') + Told(2) <= Len(inbox) + Told(2)'
    BY <1>7
  <2>4. Len(inbox') <= Told(1)' + Told(2)'
    BY <1>2, <1>3, <1>4, <1>5, <2>2, <2>3
  <2>5. QED
    BY <1>1, <1>7, <2>1, <2>4, GensTwo DEF EventsFew
<1>8. QED
  BY <1>6, <1>7, GensTwo

\* Requests and pumps change nothing of the daemons.
LEMMA ClientsKeep ==
  ASSUME IInv, NEW c \in Clients, ClientStep(c) \/ Ends(c)
  PROVE  IInv'
<1>1. TypeOK /\ CallsStart /\ LatchGuards /\ FirstDaemonHeld /\ EventsFew
  BY DEF IInv
<1>2. UNCHANGED <<rust, calls, web, inbox>>
  BY DEF ClientStep, Load, Subscribe, ChecksShutdown, Interrupted, Ends
<1>3. Len(inbox) \in Nat
  BY <1>1 DEF TypeOK
<1>4. CallsStart' /\ LatchGuards' /\ FirstDaemonHeld' /\ EventsFew'
  BY <1>2, <1>3, RustKept DEF calls, web
<1>5. client' \in [Clients -> {"idle", "loaded", "check", "flying", "over"}]
  BY <1>1 DEF TypeOK, ClientStep, Load, Subscribe, ChecksShutdown, Interrupted, Ends, Step
<1>6. holds' \in [Clients -> Gens \cup {0}]
  BY <1>1 DEF TypeOK, ClientStep, Load, Subscribe, ChecksShutdown, Interrupted, Ends
<1>7. TypeOK'
  BY <1>1, <1>2, <1>5, <1>6 DEF TypeOK, rust, calls, web
<1>8. QED
  BY <1>4, <1>7 DEF IInv

\* Nor does the bridge when it takes an answer, an event or the capabilities.
LEMMA BridgeKeeps == IInv /\ (TakesAnswer \/ TakesEvent \/ Fetched) => IInv'
<1> SUFFICES ASSUME IInv, TakesAnswer \/ TakesEvent \/ Fetched
             PROVE  IInv'
  OBVIOUS
<1>1. TypeOK /\ CallsStart /\ LatchGuards /\ FirstDaemonHeld /\ EventsFew
  BY DEF IInv
<1>2. UNCHANGED <<rust, calls, clients>> /\ (bridge' = bridge \/ bridge' = "settled")
  BY DEF TakesAnswer, TakesEvent, Fetched
<1>3. /\ inbox' \in Seq({Failure} \cup Gens) /\ Len(inbox') \in Nat
      /\ Len(inbox') <= Len(inbox)
  <2>1. CASE UNCHANGED inbox
    BY <1>1, <2>1 DEF TypeOK
  <2>2. CASE TakesEvent
    <3>1. inbox # <<>> /\ inbox' = Tail(inbox)
      BY <2>2 DEF TakesEvent
    <3>2. inbox \in Seq({Failure} \cup Gens)
      BY <1>1 DEF TypeOK
    <3>3. inbox' \in Seq({Failure} \cup Gens) /\ Len(inbox') = Len(inbox) - 1
      BY <3>1, <3>2, HeadTailProperties
    <3>4. QED
      BY <3>2, <3>3
  <2>3. QED
    BY <2>1, <2>2 DEF TakesAnswer, Fetched
<1>4. CallsStart' /\ LatchGuards' /\ FirstDaemonHeld' /\ EventsFew'
  BY <1>2, <1>3, RustKept DEF calls
<1>5. port' \in Gens \cup {0} /\ ui' \in {"booting", "ready", "interactive", "failed"} /\ fetching' \in BOOLEAN
  <2>1. CASE TakesAnswer
    <3>1. answer \in Gens \cup {None, Failure, Starting}
      BY <1>1 DEF TypeOK
    <3>2. CASE answer = Failure \/ answer = Starting
      BY <1>1, <2>1, <3>2 DEF TakesAnswer, Failed, TypeOK
    <3>3. CASE answer # Failure /\ answer # Starting
      <4>1. Ready(answer) /\ answer \in Gens
        BY <2>1, <3>1, <3>3 DEF TakesAnswer
      <4>2. QED
        BY <1>1, <4>1 DEF Ready, TypeOK
    <3>4. QED
      BY <3>2, <3>3
  <2>2. CASE TakesEvent
    <3>1. inbox # <<>> /\ Head(inbox) \in {Failure} \cup Gens
      BY <1>1, <2>2, HeadTailProperties DEF TakesEvent, TypeOK
    <3>2. Failed \/ (Ready(Head(inbox)) /\ Head(inbox) \in Gens)
      BY <2>2, <3>1 DEF TakesEvent
    <3>3. QED
      BY <1>1, <3>2 DEF Failed, Ready, TypeOK
  <2>3. CASE Fetched
    BY <1>1, <2>3 DEF Fetched, Failed, TypeOK
  <2>4. QED
    BY <2>1, <2>2, <2>3
<1>6. TypeOK'
  <2>1. Len(inbox') <= 3 * Cardinality(Gens)
    BY <1>1, <1>3, GensTwo DEF TypeOK
  <2>2. QED
    BY <1>1, <1>2, <1>3, <1>5, <2>1 DEF TypeOK, rust, calls, clients
<1>7. QED
  BY <1>4, <1>6 DEF IInv

\* A call that is not about to start a daemon moves on: none that is spent
\* comes back, and none gets into the hands of the latch.
LEMMA CallsKeep ==
  IInv /\ (SetupCalls \/ EnsureChecksPort \/ EnsureChecksError \/ EnsurePolls \/ Listens) => IInv'
<1> SUFFICES ASSUME IInv, SetupCalls \/ EnsureChecksPort \/ EnsureChecksError \/ EnsurePolls \/ Listens
             PROVE  IInv'
  OBVIOUS
<1>1. TypeOK /\ CallsStart /\ LatchGuards /\ FirstDaemonHeld /\ EventsFew
  BY DEF IInv
<1>2. /\ UNCHANGED <<rust, clients, port, ui, fetching, inbox>>
      /\ bridge' = bridge \/ bridge' = "asking"
  BY DEF SetupCalls, EnsureChecksPort, EnsureChecksError, EnsurePolls, Listens, web
<1>3. caller \in [Callers -> {"idle", "port", "err", "spawn", "clear", "poll", "over"}]
  BY <1>1 DEF TypeOK
<1>4. \E c \in Callers, pc \in {"port", "err", "spawn", "over"} :
        /\ Goto(c, pc)
        /\ pc # "over" => caller[c] \in {"idle", "port", "err"}
        /\ c = "bridge" => bridge' # "listening"
  <2>1. CASE SetupCalls
    BY <2>1 DEF SetupCalls, Callers
  <2>2. CASE EnsureChecksPort
    BY <1>1, <2>2 DEF EnsureChecksPort, Return, Callers, CallsStart, web
  <2>3. CASE EnsureChecksError
    BY <1>1, <2>3 DEF EnsureChecksError, Return, Callers, CallsStart, web
  <2>4. CASE EnsurePolls
    BY <1>1, <2>4 DEF EnsurePolls, Return, Callers, CallsStart, web
  <2>5. CASE Listens
    BY <1>1, <2>5 DEF Listens, Callers, CallsStart
  <2>6. QED
    BY <2>1, <2>2, <2>3, <2>4, <2>5
<1>5. /\ caller' \in [Callers -> {"idle", "port", "err", "spawn", "clear", "poll", "over"}]
      /\ \A c \in Callers : caller'[c] = "clear" => caller[c] = "clear"
      /\ \A c \in Callers : Spent(c) => Spent(c)'
      /\ bridge' = "listening" => bridge = "listening" /\ caller'["bridge"] = caller["bridge"]
  BY <1>2, <1>3, <1>4 DEF Goto, Spent, Callers
<1>6. UNCHANGED <<latch, handle, child, err, down, task, why, proc>>
  BY <1>2 DEF rust
<1>7. CallsStart'
  BY <1>1, <1>5, <1>6 DEF CallsStart
<1>8. LatchGuards' /\ FirstDaemonHeld'
  BY <1>1, <1>5, <1>6 DEF LatchGuards, FirstDaemonHeld, Withdrawn
<1>9. EventsFew'
  BY <1>1, <1>2, <1>6 DEF EventsFew, Told, Before
<1>10. answer' \in Gens \cup {None, Failure, Starting}
  BY <1>1 DEF TypeOK, SetupCalls, EnsureChecksPort, EnsureChecksError, EnsurePolls, Listens, Return
<1>11. TypeOK'
  BY <1>1, <1>2, <1>5, <1>6, <1>10 DEF TypeOK, clients
<1>12. QED
  BY <1>7, <1>8, <1>9, <1>11 DEF IInv

\* The latch is taken by one call at a time, and only while the first daemon
\* is withdrawn or not the last.
LEMMA ClaimsKeep ==
  ASSUME IInv, NEW c \in Callers, Claims(c)
  PROVE  IInv'
<1>1. TypeOK /\ CallsStart /\ LatchGuards /\ FirstDaemonHeld /\ EventsFew
  BY DEF IInv
<1>2. /\ caller[c] = "spawn" /\ latch' = TRUE
      /\ UNCHANGED <<handle, child, err, down, task, why, proc, answer, clients, web, inbox>>
      /\ caller' = [caller EXCEPT ![c] = IF latch THEN AfterSpawn(c) ELSE "clear"]
  BY DEF Claims, Goto
<1>3. /\ caller' \in [Callers -> {"idle", "port", "err", "spawn", "clear", "poll", "over"}]
      /\ \A d \in Callers \ {c} : caller'[d] = caller[d]
      /\ caller'[c] \in {"clear", "poll", "over"}
      /\ caller'[c] = "clear" <=> ~latch
  BY <1>1, <1>2 DEF TypeOK, AfterSpawn
<1>4. UNCHANGED <<bridge, port, ui, fetching, client, holds>>
  BY <1>2 DEF web, clients
<1>5. ~Spent(c)
  BY <1>2 DEF Spent
<1>6. CallsStart'
  <2>1. \A d \in Callers : Spent(d) => Spent(d)'
    BY <1>3, <1>5 DEF Spent
  <2>2. bridge' = "listening" => c # "bridge"
    BY <1>1, <1>2, <1>4 DEF CallsStart
  <2>3. QED
    BY <1>1, <1>2, <1>3, <1>4, <2>1, <2>2 DEF CallsStart, Callers
<1>7. task[2] = "none"
  BY <1>1, <1>5 DEF CallsStart
<1>8. LatchGuards'
  BY <1>1, <1>2, <1>3, <1>7 DEF LatchGuards, Withdrawn
<1>9. FirstDaemonHeld'
  <2>1. proc[1] = "up" => caller'[c] # "clear"
    BY <1>1, <1>3 DEF FirstDaemonHeld
  <2>2. QED
    BY <1>1, <1>2, <1>3, <2>1 DEF FirstDaemonHeld
<1>10. EventsFew'
  BY <1>1, <1>2 DEF EventsFew, Told, Before
<1>11. TypeOK'
  BY <1>1, <1>2, <1>3, <1>4 DEF TypeOK
<1>12. QED
  BY <1>6, <1>8, <1>9, <1>10, <1>11 DEF IInv

\* The call that took the latch starts the next daemon: the first, or the
\* second once the first is withdrawn.
LEMMA ClearsKeep ==
  ASSUME IInv, NEW c \in Callers, Clears(c)
  PROVE  IInv'
<1>1. TypeOK /\ CallsStart /\ LatchGuards /\ FirstDaemonHeld /\ EventsFew
  BY DEF IInv
<1> DEFINE next == CHOOSE g \in Gens : task[g] = "none" /\ \A h \in 1..(g - 1) : task[h] # "none"
<1>2. /\ caller[c] = "clear" /\ err' = FALSE
      /\ task' = [task EXCEPT ![next] = "launch"]
      /\ caller' = [caller EXCEPT ![c] = AfterSpawn(c)]
      /\ UNCHANGED <<latch, handle, child, down, why, proc, answer, clients, web, inbox>>
  BY DEF Clears, Goto
<1>3. ~Spent(c) /\ task[2] = "none" /\ latch /\ handle = 0 /\ task[1] \notin Launching \cup Failing
  BY <1>1, <1>2 DEF Spent, CallsStart, LatchGuards, Withdrawn
<1>4. /\ task[1] = "none" => next = 1
      /\ task[1] # "none" => next = 2
  <2>1. CASE task[1] = "none"
    <3>1. \A g \in Gens : (task[g] = "none" /\ \A h \in 1..(g - 1) : task[h] # "none") => g = 1
      BY <2>1, GensTwo
    <3>2. \A h \in 1..(1 - 1) : task[h] # "none"
      OBVIOUS
    <3>3. QED
      BY <2>1, <3>1, <3>2, GensTwo
  <2>2. CASE task[1] # "none"
    <3>1. \A g \in Gens : (task[g] = "none" /\ \A h \in 1..(g - 1) : task[h] # "none") => g = 2
      BY <2>2, GensTwo
    <3>2. \A h \in 1..(2 - 1) : task[h] # "none"
      BY <2>2
    <3>3. QED
      BY <1>3, <2>2, <3>1, <3>2, GensTwo
  <2>3. QED
    BY <2>1, <2>2
<1>5. PICK g \in Gens :
      /\ task[1] = "none" => g = 1
      /\ task[1] # "none" => g = 2
      /\ task[g] = "none" /\ task'[g] = "launch"
      /\ \A h \in Gens \ {g} : task'[h] = task[h]
      /\ task' \in [Gens -> {"none", "launch", "set", "port", "store", "announce", "drain",
                        "kill", "err", "swap", "latch", "emit", "trail", "over"}]
  BY <1>1, <1>2, <1>3, <1>4, GensTwo DEF TypeOK
<1>6. /\ caller' \in [Callers -> {"idle", "port", "err", "spawn", "clear", "poll", "over"}]
      /\ \A d \in Callers \ {c} : caller'[d] = caller[d]
      /\ Spent(c)'
      /\ \A d \in Callers : caller'[d] # "clear"
  BY <1>1, <1>2 DEF TypeOK, AfterSpawn, Spent, LatchGuards
<1>7. UNCHANGED <<bridge, port, ui, fetching, client, holds>>
  BY <1>2 DEF web, clients
<1>8. proc[g] = "none" /\ why[g] = "start" /\ proc[1] # "up"
  BY <1>1, <1>2, <1>5 DEF FirstDaemonHeld, EventsFew
<1>9. CallsStart'
  <2>1. \A d \in Callers : Spent(d) => Spent(d)'
    BY <1>6 DEF Spent
  <2>2. bridge' = "listening" => c # "bridge"
    BY <1>1, <1>2, <1>7 DEF CallsStart
  <2>3. CASE task[1] = "none"
    BY <1>1, <1>3, <1>5, <1>6, <1>7, <2>1, <2>2, <2>3, GensTwo DEF CallsStart, Callers
  <2>4. CASE task[1] # "none"
    <3>1. \A d \in Callers : Spent(d)'
      BY <1>1, <1>3, <1>6, <2>1, <2>4 DEF CallsStart, Callers
    <3>2. QED
      BY <1>1, <1>3, <1>5, <1>6, <1>7, <2>2, <2>4, <3>1, GensTwo DEF CallsStart, Callers
  <2>5. QED
    BY <2>3, <2>4
<1>10. LatchGuards'
  BY <1>2, <1>3, <1>5, <1>6, GensTwo DEF LatchGuards, Launching
<1>11. FirstDaemonHeld'
  BY <1>1, <1>2, <1>5, <1>8 DEF FirstDaemonHeld
<1>12. EventsFew'
  <2>1. Told(g) = 0 /\ Told(g)' = 0
    BY <1>5 DEF Told, Launching
  <2>2. Len(inbox') \in Nat /\ inbox' = inbox
    BY <1>1, <1>2 DEF TypeOK
  <2>3. \A h \in Gens \ {g} : task'[h] = task[h] /\ why'[h] = why[h]
    BY <1>2, <1>5
  <2>4. task'[g] # "trail" /\ why'[g] = "start"
    BY <1>2, <1>5, <1>8
  <2>5. Len(inbox') + Told(g) <= Len(inbox) + Told(g)'
    BY <2>1, <2>2
  <2>6. QED
    BY <1>5, <2>2, <2>3, <2>4, <2>5, EventsKept
<1>13. TypeOK'
  BY <1>1, <1>2, <1>5, <1>6, <1>7 DEF TypeOK
<1>14. QED
  BY <1>9, <1>10, <1>11, <1>12, <1>13 DEF IInv

\* A step of the task of daemon g moves that task and leaves the calls alone.
LEMMA TaskMoves ==
  ASSUME IInv, NEW g \in Gens, Task(g) \/ Drain(g) \/ Dies(g)
  PROVE  /\ UNCHANGED <<calls, clients, web>>
         /\ task[g] # "none" /\ task'[g] # "none"
         /\ \A h \in Gens \ {g} : task'[h] = task[h] /\ why'[h] = why[h]
         /\ task' \in [Gens -> {"none", "launch", "set", "port", "store", "announce", "drain",
                               "kill", "err", "swap", "latch", "emit", "trail", "over"}]
         /\ why' \in [Gens -> {"start", "drain", "trail"}]
<1>1. TypeOK /\ FirstDaemonHeld
  BY DEF IInv
<1>2. task \in [Gens -> {"none", "launch", "set", "port", "store", "announce", "drain",
                        "kill", "err", "swap", "latch", "emit", "trail", "over"}]
      /\ why \in [Gens -> {"start", "drain", "trail"}]
  BY <1>1 DEF TypeOK
<1> USE DEF At, To, Because
<1>3. CASE Launch(g)
  BY <1>1, <1>2, <1>3 DEF Launch
<1>4. CASE SetChild(g)
  BY <1>1, <1>2, <1>4 DEF SetChild
<1>5. CASE WaitForPort(g)
  BY <1>1, <1>2, <1>5 DEF WaitForPort
<1>6. CASE SetDaemon(g)
  BY <1>1, <1>2, <1>6 DEF SetDaemon
<1>7. CASE AnnounceReady(g)
  BY <1>1, <1>2, <1>7 DEF AnnounceReady
<1>8. CASE StopChild(g)
  BY <1>1, <1>2, <1>8 DEF StopChild
<1>9. CASE FailedError(g)
  BY <1>1, <1>2, <1>9 DEF FailedError
<1>10. CASE FailedHandle(g)
  BY <1>1, <1>2, <1>10 DEF FailedHandle
<1>11. CASE FailedLatch(g)
  BY <1>1, <1>2, <1>11 DEF FailedLatch
<1>12. CASE AnnounceFailed(g)
  BY <1>1, <1>2, <1>12 DEF AnnounceFailed
<1>13. CASE Trail(g)
  BY <1>1, <1>2, <1>13 DEF Trail
<1>14. CASE Drain(g)
  BY <1>1, <1>2, <1>14 DEF Drain
<1>15. CASE Dies(g)
  BY <1>1, <1>2, <1>15 DEF Dies, FirstDaemonHeld
<1>16. QED
  BY <1>3, <1>4, <1>5, <1>6, <1>7, <1>8, <1>9, <1>10, <1>11, <1>12, <1>13, <1>14, <1>15 DEF Task

\* The tasks start no daemon.
LEMMA TaskStarts ==
  ASSUME IInv, NEW g \in Gens, Task(g) \/ Drain(g) \/ Dies(g)
  PROVE  CallsStart'
<1>1. CallsStart
  BY DEF IInv
<1>2. UNCHANGED <<caller, bridge>> /\ \A h \in Gens : task'[h] = "none" <=> task[h] = "none"
  BY TaskMoves DEF calls, web
<1>3. QED
  BY <1>1, <1>2, GensTwo DEF CallsStart, Spent

\* The latch is released by a task that has withdrawn its daemon.
LEMMA TaskLatch ==
  ASSUME IInv, NEW g \in Gens, Task(g) \/ Drain(g) \/ Dies(g)
  PROVE  LatchGuards'
<1>1. TypeOK /\ CallsStart /\ LatchGuards /\ FirstDaemonHeld
  BY DEF IInv
<1>2. /\ task \in [Gens -> {"none", "launch", "set", "port", "store", "announce", "drain",
                        "kill", "err", "swap", "latch", "emit", "trail", "over"}]
      /\ UNCHANGED caller /\ g \in {1, 2} /\ Gens = {1, 2}
  BY <1>1, TaskMoves, GensTwo DEF TypeOK, calls
<1> USE DEF At, To, LatchGuards, Withdrawn, Launching, Failing
<1>3. CASE Launch(g)
  BY <1>1, <1>2, <1>3 DEF Launch, FirstDaemonHeld, CallsStart
<1>4. CASE SetChild(g)
  BY <1>1, <1>2, <1>4 DEF SetChild, FirstDaemonHeld, CallsStart
<1>5. CASE WaitForPort(g)
  BY <1>1, <1>2, <1>5 DEF WaitForPort, FirstDaemonHeld, CallsStart
<1>6. CASE SetDaemon(g)
  BY <1>1, <1>2, <1>6 DEF SetDaemon, FirstDaemonHeld, CallsStart
<1>7. CASE AnnounceReady(g)
  BY <1>1, <1>2, <1>7 DEF AnnounceReady, FirstDaemonHeld, CallsStart
<1>8. CASE StopChild(g)
  BY <1>1, <1>2, <1>8 DEF StopChild, FirstDaemonHeld, CallsStart
<1>9. CASE FailedError(g)
  BY <1>1, <1>2, <1>9 DEF FailedError, FirstDaemonHeld, CallsStart
<1>10. CASE FailedHandle(g)
  BY <1>1, <1>2, <1>10 DEF FailedHandle, FirstDaemonHeld, CallsStart
<1>11. CASE FailedLatch(g)
  BY <1>1, <1>2, <1>11 DEF FailedLatch, FirstDaemonHeld, CallsStart
<1>12. CASE AnnounceFailed(g)
  BY <1>1, <1>2, <1>12 DEF AnnounceFailed, FirstDaemonHeld, CallsStart
<1>13. CASE Trail(g)
  BY <1>1, <1>2, <1>13 DEF Trail, FirstDaemonHeld, CallsStart
<1>14. CASE Drain(g)
  BY <1>1, <1>2, <1>14 DEF Drain, FirstDaemonHeld, CallsStart
<1>15. CASE Dies(g)
  BY <1>1, <1>2, <1>15 DEF Dies, FirstDaemonHeld, CallsStart
<1>16. QED
  BY <1>3, <1>4, <1>5, <1>6, <1>7, <1>8, <1>9, <1>10, <1>11, <1>12, <1>13, <1>14, <1>15 DEF Task

\* The task of the first daemon holds on to its process until it has stopped it.
LEMMA TaskHolds ==
  ASSUME IInv, NEW g \in Gens, Task(g) \/ Drain(g) \/ Dies(g)
  PROVE  FirstDaemonHeld'
<1>1. TypeOK /\ CallsStart /\ LatchGuards /\ FirstDaemonHeld
  BY DEF IInv
<1>2. /\ task \in [Gens -> {"none", "launch", "set", "port", "store", "announce", "drain",
                        "kill", "err", "swap", "latch", "emit", "trail", "over"}]
      /\ proc \in [Gens -> {"none", "up", "dead"}] /\ child \in {0, 1, 2}
      /\ UNCHANGED caller /\ g \in {1, 2} /\ Gens = {1, 2}
  BY <1>1, TaskMoves, GensTwo DEF TypeOK, calls
<1> USE DEF At, To, FirstDaemonHeld, Launching
<1>3. CASE Launch(g)
  BY <1>1, <1>2, <1>3 DEF Launch, LatchGuards, Withdrawn, Failing
<1>4. CASE SetChild(g)
  BY <1>1, <1>2, <1>4 DEF SetChild, LatchGuards, Withdrawn, Failing
<1>5. CASE WaitForPort(g)
  BY <1>1, <1>2, <1>5 DEF WaitForPort, LatchGuards, Withdrawn, Failing
<1>6. CASE SetDaemon(g)
  BY <1>1, <1>2, <1>6 DEF SetDaemon, LatchGuards, Withdrawn, Failing
<1>7. CASE AnnounceReady(g)
  BY <1>1, <1>2, <1>7 DEF AnnounceReady, LatchGuards, Withdrawn, Failing
<1>8. CASE StopChild(g)
  <2>1. /\ \A h \in Gens : proc'[h] # "none" <=> proc[h] # "none"
        /\ \A h \in Gens : proc'[h] = "up" => proc[h] = "up"
    BY <1>1, <1>2, <1>8 DEF StopChild
  <2>2. proc'[1] # "up"
    BY <1>1, <1>2, <1>8 DEF StopChild
  <2>3. /\ child' = 0
        /\ \A h \in Gens : /\ task'[h] \in {"none", "launch"} => task[h] \in {"none", "launch"}
                           /\ task'[h] = "set" => task[h] = "set"
    BY <1>2, <1>8 DEF StopChild
  <2>4. QED
    BY <1>1, <2>1, <2>2, <2>3
<1>9. CASE FailedError(g)
  BY <1>1, <1>2, <1>9 DEF FailedError, LatchGuards, Withdrawn, Failing
<1>10. CASE FailedHandle(g)
  BY <1>1, <1>2, <1>10 DEF FailedHandle, LatchGuards, Withdrawn, Failing
<1>11. CASE FailedLatch(g)
  BY <1>1, <1>2, <1>11 DEF FailedLatch, LatchGuards, Withdrawn, Failing
<1>12. CASE AnnounceFailed(g)
  BY <1>1, <1>2, <1>12 DEF AnnounceFailed, LatchGuards, Withdrawn, Failing
<1>13. CASE Trail(g)
  BY <1>1, <1>2, <1>13 DEF Trail, LatchGuards, Withdrawn, Failing
<1>14. CASE Drain(g)
  BY <1>1, <1>2, <1>14 DEF Drain, LatchGuards, Withdrawn, Failing
<1>15. CASE Dies(g)
  BY <1>1, <1>2, <1>15 DEF Dies, LatchGuards, Withdrawn, Failing
<1>16. QED
  BY <1>3, <1>4, <1>5, <1>6, <1>7, <1>8, <1>9, <1>10, <1>11, <1>12, <1>13, <1>14, <1>15 DEF Task

\* An announcement reaches the web view or not.
LEMMA Tells ==
  ASSUME TypeOK, NEW e \in {Failure} \cup Gens, Tell(e)
  PROVE  inbox' \in Seq({Failure} \cup Gens) /\ Len(inbox') \in Nat /\ Len(inbox') <= Len(inbox) + 1
<1>1. inbox \in Seq({Failure} \cup Gens)
  BY DEF TypeOK
<1>2. CASE inbox' = inbox
  BY <1>1, <1>2
<1>3. CASE inbox' = Append(inbox, e)
  BY <1>1, <1>3, AppendProperties
<1>4. QED
  BY <1>2, <1>3 DEF Tell

\* The task of a daemon tells of it once when it is ready and twice when it
\* fails, at most.
LEMMA TaskTells ==
  ASSUME IInv, NEW g \in Gens, Task(g) \/ Drain(g) \/ Dies(g)
  PROVE  EventsFew'
<1>1. TypeOK /\ EventsFew
  BY DEF IInv
<1>2. /\ task \in [Gens -> {"none", "launch", "set", "port", "store", "announce", "drain",
                        "kill", "err", "swap", "latch", "emit", "trail", "over"}]
      /\ why \in [Gens -> {"start", "drain", "trail"}]
      /\ inbox \in Seq({Failure} \cup Gens) /\ Len(inbox) \in Nat
      /\ task[g] \in {"none"} \cup Launching => why[g] = "start"
      /\ task[g] = "trail" => why[g] # "trail"
  BY <1>1 DEF TypeOK, EventsFew
<1>3. \A h \in Gens \ {g} : task'[h] = task[h] /\ why'[h] = why[h]
  BY TaskMoves
<1>4. /\ Len(inbox') \in Nat /\ Len(inbox') + Told(g) <= Len(inbox) + Told(g)'
      /\ task'[g] \in {"none"} \cup Launching => why'[g] = "start"
      /\ task'[g] = "trail" => why'[g] # "trail"
  <2> USE DEF At, To, Because, Told, Before, Launching, Failing
  <2>1. CASE Launch(g)
    BY <1>2, <2>1 DEF Launch
  <2>2. CASE SetChild(g)
    BY <1>2, <2>2 DEF SetChild
  <2>3. CASE WaitForPort(g)
    BY <1>2, <2>3 DEF WaitForPort
  <2>4. CASE SetDaemon(g)
    BY <1>2, <2>4 DEF SetDaemon
  <2>5. CASE AnnounceReady(g)
    <3>1. Tell(g)
      BY <2>5 DEF AnnounceReady
    <3>2. Len(inbox') \in Nat /\ Len(inbox') <= Len(inbox) + 1
      BY <1>1, <3>1, Tells
    <3>3. QED
      BY <1>2, <2>5, <3>2 DEF AnnounceReady
  <2>6. CASE StopChild(g)
    BY <1>2, <2>6 DEF StopChild
  <2>7. CASE FailedError(g)
    BY <1>2, <2>7 DEF FailedError
  <2>8. CASE FailedHandle(g)
    BY <1>2, <2>8 DEF FailedHandle
  <2>9. CASE FailedLatch(g)
    BY <1>2, <2>9 DEF FailedLatch
  <2>10. CASE AnnounceFailed(g)
    <3>1. Tell(Failure)
      BY <2>10 DEF AnnounceFailed
    <3>2. Len(inbox') \in Nat /\ Len(inbox') <= Len(inbox) + 1
      BY <1>1, <3>1, Tells
    <3>3. QED
      BY <1>2, <2>10, <3>2 DEF AnnounceFailed
  <2>11. CASE Trail(g)
    BY <1>2, <2>11 DEF Trail
  <2>12. CASE Drain(g)
    BY <1>2, <2>12 DEF Drain
  <2>13. CASE Dies(g)
    BY <1>2, <2>13 DEF Dies
  <2>14. QED
    BY <2>1, <2>2, <2>3, <2>4, <2>5, <2>6, <2>7, <2>8, <2>9, <2>10, <2>11, <2>12, <2>13 DEF Task
<1>5. QED
  BY <1>3, <1>4, EventsKept

\* A step of a task keeps the types.
LEMMA TaskTypes ==
  ASSUME IInv, NEW g \in Gens, Task(g) \/ Drain(g) \/ Dies(g)
  PROVE  TypeOK'
<1>1. TypeOK
  BY DEF IInv
<1>2. /\ UNCHANGED <<calls, clients, web>>
      /\ task' \in [Gens -> {"none", "launch", "set", "port", "store", "announce", "drain",
                            "kill", "err", "swap", "latch", "emit", "trail", "over"}]
      /\ why' \in [Gens -> {"start", "drain", "trail"}]
  BY TaskMoves
<1>3. inbox' \in Seq({Failure} \cup Gens)
  <2>1. CASE inbox' = inbox
    BY <1>1, <2>1 DEF TypeOK
  <2>2. CASE Tell(g) \/ Tell(Failure)
    BY <1>1, <2>2, Tells
  <2>3. QED
    BY <2>1, <2>2 DEF Task, Launch, SetChild, WaitForPort, SetDaemon, AnnounceReady, StopChild, FailedError, FailedHandle, FailedLatch, AnnounceFailed, Trail, Drain, Dies
<1>4. Len(inbox') <= 3 * Cardinality(Gens)
  <2>1. Len(inbox') <= Told(1)' + Told(2)' /\ Len(inbox') \in Nat
    BY <1>3, TaskTells DEF EventsFew
  <2>2. Told(1)' \in 0..3 /\ Told(2)' \in 0..3
    BY DEF Told, Before
  <2>3. QED
    BY <2>1, <2>2, GensTwo
<1>5. /\ latch' \in BOOLEAN /\ err' \in BOOLEAN
      /\ handle' \in Gens \cup {0} /\ child' \in Gens \cup {0} /\ down' \subseteq Gens
  BY <1>1 DEF TypeOK, Task, Launch, SetChild, WaitForPort, SetDaemon, AnnounceReady, StopChild, FailedError, FailedHandle, FailedLatch, AnnounceFailed, Trail, Drain, Dies
<1>6. proc' \in [Gens -> {"none", "up", "dead"}]
  BY <1>1 DEF TypeOK, Task, Launch, SetChild, WaitForPort, SetDaemon, AnnounceReady, StopChild, FailedError, FailedHandle, FailedLatch, AnnounceFailed, Trail, Drain, Dies
<1>7. QED
  BY <1>1, <1>2, <1>3, <1>4, <1>5, <1>6 DEF TypeOK, calls, clients, web

\* Every step keeps the invariant.
LEMMA StepInvariant == IInv /\ [Next]_vars => IInv'
<1> SUFFICES ASSUME IInv, [Next]_vars
             PROVE  IInv'
  OBVIOUS
<1>1. CASE SetupCalls \/ EnsureStep \/ Listens
  BY <1>1, CallsKeep DEF EnsureStep
<1>2. CASE \E c \in Callers : Claims(c) \/ Clears(c)
  BY <1>2, ClaimsKeep, ClearsKeep
<1>3. CASE \E g \in Gens : Task(g) \/ Drain(g) \/ Dies(g)
  BY <1>3, TaskTypes, TaskStarts, TaskLatch, TaskHolds, TaskTells DEF IInv
<1>4. CASE \E c \in Clients : ClientStep(c) \/ Ends(c)
  BY <1>4, ClientsKeep
<1>5. CASE TakesAnswer \/ TakesEvent \/ Fetched
  BY <1>5, BridgeKeeps
<1>6. CASE UNCHANGED vars
  <2>1. UNCHANGED <<rust, calls, clients, web, inbox>>
    BY <1>6 DEF vars
  <2>2. Len(inbox) \in Nat
    BY DEF IInv, TypeOK
  <2>3. CallsStart' /\ LatchGuards' /\ FirstDaemonHeld' /\ EventsFew'
    BY <2>1, <2>2, RustKept DEF calls, web
  <2>4. TypeOK'
    BY <2>1 DEF IInv, TypeOK, rust, calls, clients, web
  <2>5. QED
    BY <2>3, <2>4 DEF IInv
<1>7. QED
  BY <1>1, <1>2, <1>3, <1>4, <1>5, <1>6 DEF Next

\* The invariant of the shell holds in every state, however the calls, the
\* tasks and the ends of the processes interleave.
THEOREM Invariance == Spec => []IInv
<1>1. Init => IInv
  BY InitInvariant
<1>2. IInv /\ [Next]_vars => IInv'
  BY StepInvariant
<1>3. QED
  BY <1>1, <1>2, PTL DEF Spec

\* No two daemon processes run at a time, whichever of setup() and the web
\* views started them and however the earlier one failed (daemon.rs, spawn).
THEOREM OneDaemon == Spec => []AtMostOneDaemon
<1>1. IInv => AtMostOneDaemon
  <2> SUFFICES ASSUME IInv
               PROVE  AtMostOneDaemon
    OBVIOUS
  <2>1. \E h \in Gens : {g \in Gens : proc[g] = "up"} \subseteq {h}
    BY GensTwo DEF IInv, FirstDaemonHeld
  <2>2. PICK h \in Gens : {g \in Gens : proc[g] = "up"} \subseteq {h}
    BY <2>1
  <2>3. IsFiniteSet({h}) /\ Cardinality({h}) = 1
    BY FS_Singleton
  <2>4. Cardinality({g \in Gens : proc[g] = "up"}) <= 1
    BY <2>2, <2>3, FS_Subset
  <2>5. QED
    BY <2>4 DEF AtMostOneDaemon, IInv
<1>2. QED
  BY <1>1, Invariance, PTL
================================================================================
