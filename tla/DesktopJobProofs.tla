--------------------------- MODULE DesktopJobProofs ---------------------------
(***************************************************************************)
(* Safety of a desktop job, for every set of files and number of stages:   *)
(* IInv of DesktopJob is inductive, and what the runs check of its states  *)
(* follows from it.                                                        *)
(*                                                                         *)
(* Three chains meet in it: the worker is gone before the supervisor ends, *)
(* and the supervisor before the sentinel; a file leaves the stages only   *)
(* with an error; and a failure the client hears is one the result knows.  *)
(***************************************************************************)
EXTENDS DesktopJob, FiniteSetTheorems, SequenceTheorems, TLAPS

\* One failure for each file, and for no other.
LEMMA FailuresOf ==
  ASSUME NEW F \in SUBSET Files
  PROVE  /\ Failures(F) \in Seq(Events)
         /\ \A i \in 1..Len(Failures(F)) : Failures(F)[i].kind = "failed"
<1> DEFINE n == Cardinality(F)
           s == SetToSeq(F)
<1>1. IsFiniteSet(F) /\ n \in Nat
  BY DesktopAssumption, FS_Subset, FS_CardinalityType
<1>2. PICK m \in Nat : ExistsBijection(1..m, F)
  BY <1>1, FS_NatBijection
<1>3. m = n
  BY <1>2, FS_CountingElements
<1>4. \E f \in [1..n -> F] : IsInjective(f)
  BY <1>2, <1>3 DEF ExistsBijection, Bijection, Injection
<1>5. s \in [1..n -> F]
  BY <1>4 DEF SetToSeq
<1>6. Len(s) = n
  BY <1>1, <1>5, LenProperties
<1>7. Failures(F) = [i \in 1..n |-> Ev("failed", s[i])]
  BY <1>6 DEF Failures
<1>8. \A i \in 1..n : Ev("failed", s[i]) \in Events /\ Ev("failed", s[i]).kind = "failed"
  BY <1>5 DEF Ev, Events
<1>9. Failures(F) \in Seq(Events) /\ Len(Failures(F)) = n
  BY <1>1, <1>7, <1>8
<1>10. QED
  BY <1>7, <1>8, <1>9

\* The job is registered and nothing else has happened.
LEMMA InitInvariant == Init => IInv
<1> SUFFICES ASSUME Init
             PROVE  IInv
  OBVIOUS
<1> USE DesktopAssumption DEF Init
<1>1. TypeOK
  <2>1. stage \in 1..(Stages + 1)
    OBVIOUS
  <2>2. queue \in Seq(Events \cup {Done}) /\ log \in Seq(Events) /\ Len(log) = 0
    BY EmptySeq
  <2>3. result \in Results /\ json \in {<<>>} \cup ({"completed", "failed"} \X Results)
    BY DEF Results
  <2>4. /\ read \in 0..Len(log)
        /\ heard \subseteq Events
        /\ pipe \in BOOLEAN
    <3>1. read = 0 /\ 0 \in 0..Len(log)
      BY <2>2
    <3>2. QED
      BY <3>1
  <2>5. current \subseteq Files /\ pending \subseteq current /\ errors \subseteq Files /\ published \subseteq Files
    OBVIOUS
  <2>6. QED
    BY <2>1, <2>2, <2>3, <2>4, <2>5 DEF TypeOK
<1>2. Processes /\ RunJobStands /\ FilesTold
  BY EmptySeq DEF Processes, RunJobStands, FilesTold, SupEnded, Supervised, Alive
<1>3. FailuresLogged /\ ClientTold
  BY EmptySeq DEF FailuresLogged, ClientTold
<1>4. QED
  BY <1>1, <1>2, <1>3 DEF IInv

\* A step of run_job, of the daemon's end or of the client: it leaves the
\* worker's files alone, and the worker too.
JobStep == RunJob \/ TaskCancelled \/ DaemonDies \/ DeleteChecks \/ DeleteWrites \/ Receive

LEMMA JobLeavesWork == JobStep => UNCHANGED <<worker, workVars>>
BY DEF JobStep, RunJob, processVars, Spawn, Drain, LeavePoll, Decide, CheckCode, TakeState, TakeResult, HandleError, FailJob, ClosePipe, Reap, TaskCancelled, DaemonDies, DeleteChecks, DeleteWrites, Receive

\* A step of the worker: it leaves the daemon and the supervisor alone.
WorkStep == Worker \/ WorkerCrashes

LEMMA WorkLeavesJob == WorkStep => UNCHANGED <<daemonVars, pipe, sup>>
BY DEF WorkStep, Worker, Outcome, NextStage, StageRaises, StartPublishing, Publish, Announce, WorkerFinishes, WorkerCrashes

\* The items of the queue, after a step that adds to it or takes from it.
LEMMA QueueSteps ==
  ASSUME TypeOK
  PROVE  /\ \A e \in Events \cup {Done} :
              /\ Append(queue, e) \in Seq(Events \cup {Done})
              /\ Len(Append(queue, e)) = Len(queue) + 1
              /\ Append(queue, e)[Len(queue) + 1] = e
              /\ \A i \in 1..Len(queue) : Append(queue, e)[i] = queue[i]
         /\ queue # <<>> =>
              /\ Tail(queue) \in Seq(Events \cup {Done})
              /\ Len(Tail(queue)) = Len(queue) - 1
              /\ \A i \in 1..Len(Tail(queue)) : Tail(queue)[i] = queue[i + 1]
              /\ Len(queue) > 0 /\ Head(queue) = queue[1]
              /\ Head(queue) \in Events \cup {Done}
         /\ Len(queue) \in Nat
<1>1. queue \in Seq(Events \cup {Done})
  BY DEF TypeOK
<1>2. QED
  BY <1>1, HeadTailProperties, AppendProperties, LenProperties

\* What stands in the log is an event.
LEMMA LogTyped == TypeOK => Len(log) \in Nat /\ \A i \in 1..Len(log) : log[i] \in Events
BY DEF TypeOK

\* Who starts, watches and stops whom.
LEMMA ProcessesKept == IInv /\ [Next]_vars => Processes'
<1> SUFFICES ASSUME IInv, [Next]_vars
             PROVE  Processes'
  OBVIOUS
<1>1. TypeOK /\ Processes
  BY DEF IInv
<1> USE DEF Processes, SupEnded, Supervised, Alive
<1>2. CASE Spawn
  BY <1>1, <1>2 DEF Spawn, processVars, workVars
<1>3. CASE Drain
  BY <1>1, <1>3 DEF Drain, processVars, workVars
<1>4. CASE LeavePoll
  BY <1>1, <1>4 DEF LeavePoll, processVars, workVars
<1>5. CASE Decide
  BY <1>1, <1>5 DEF Decide, processVars, workVars
<1>6. CASE CheckCode
  BY <1>1, <1>6 DEF CheckCode, processVars, workVars
<1>7. CASE TakeState \/ TakeResult
  BY <1>1, <1>7 DEF TakeState, TakeResult, processVars, workVars
<1>8. CASE HandleError \/ FailJob
  BY <1>1, <1>8 DEF HandleError, FailJob, processVars, workVars
<1>9. CASE ClosePipe
  BY <1>1, <1>9 DEF ClosePipe, processVars, workVars
<1>10. CASE Reap
  BY <1>1, <1>10 DEF Reap, processVars, workVars
<1>11. CASE TaskCancelled
  BY <1>1, <1>11 DEF TaskCancelled, processVars, workVars
<1>12. CASE DaemonDies
  BY <1>1, <1>12 DEF DaemonDies, processVars, workVars
<1>13. CASE DeleteChecks
  BY <1>1, <1>13 DEF DeleteChecks, processVars, workVars
<1>14. CASE DeleteWrites
  BY <1>1, <1>14 DEF DeleteWrites, processVars, workVars
<1>15. CASE Receive
  BY <1>1, <1>15 DEF Receive, processVars, workVars
<1>16. CASE SupStarts
  BY <1>1, <1>16 DEF SupStarts, daemonVars, workVars
<1>17. CASE SupNotices
  BY <1>1, <1>17 DEF SupNotices, daemonVars, workVars
<1>18. CASE SupStops
  BY <1>1, <1>18 DEF SupStops, daemonVars, workVars
<1>19. CASE \E f \in Files : Outcome(f)
  BY <1>1, <1>19 DEF Outcome, daemonVars
<1>20. CASE NextStage
  BY <1>1, <1>20 DEF NextStage, daemonVars
<1>21. CASE StageRaises
  BY <1>1, <1>21 DEF StageRaises, daemonVars
<1>22. CASE StartPublishing
  BY <1>1, <1>22 DEF StartPublishing, daemonVars, workVars
<1>23. CASE \E f \in Files : Publish(f)
  BY <1>1, <1>23 DEF Publish, daemonVars
<1>24. CASE \E f \in Files : Announce(f)
  BY <1>1, <1>24 DEF Announce, daemonVars
<1>25. CASE WorkerFinishes
  BY <1>1, <1>25 DEF WorkerFinishes, daemonVars
<1>26. CASE WorkerCrashes
  BY <1>1, <1>26 DEF WorkerCrashes, daemonVars, workVars
<1>27. CASE UNCHANGED vars
  BY <1>1, <1>27 DEF vars, daemonVars, workVars
<1>28. QED
  BY <1>2, <1>3, <1>4, <1>5, <1>6, <1>7, <1>8, <1>9, <1>10, <1>11, <1>12, <1>13, <1>14, <1>15, <1>16, <1>17, <1>18, <1>19, <1>20, <1>21, <1>22, <1>23, <1>24, <1>25, <1>26, <1>27
     DEF Next, RunJob, Supervisor, Worker

\* A job that is over stays so.
LEMMA OverStays == IInv /\ [Next]_vars /\ Over => Over'
<1> SUFFICES ASSUME IInv, [Next]_vars, Over
             PROVE  Over'
  OBVIOUS
<1>1. TypeOK /\ Processes
  BY DEF IInv
<1>2. rj \in {"done", "gone"} /\ jobState # "running" /\ (sup = "none" \/ SupEnded)
  BY DEF Over
<1>3. CASE JobStep
  <2>1. UNCHANGED sup /\ rj' \in {"done", "gone"} /\ jobState' # "running"
    BY <1>2, <1>3 DEF JobStep, RunJob, processVars, Spawn, Drain, LeavePoll, Decide, CheckCode, TakeState, TakeResult, HandleError, FailJob, ClosePipe, Reap, TaskCancelled, DaemonDies, DeleteChecks, DeleteWrites, Receive
  <2>2. QED
    BY <1>2, <2>1 DEF Over, SupEnded
<1>4. CASE WorkStep
  BY <1>2, <1>4, WorkLeavesJob DEF Over, SupEnded, daemonVars
<1>5. CASE Supervisor
  BY <1>2, <1>5 DEF Over, SupEnded, Supervisor, SupStarts, SupNotices, SupStops, daemonVars
<1>6. CASE UNCHANGED vars
  BY <1>2, <1>6 DEF Over, SupEnded, vars, daemonVars
<1>7. QED
  BY <1>3, <1>4, <1>5, <1>6 DEF Next, JobStep, WorkStep

\* run_job is done only when its supervisor is, and only then the queue has
\* the sentinel.
LEMMA RunJobKept == IInv /\ [Next]_vars => RunJobStands'
<1> SUFFICES ASSUME IInv, [Next]_vars
             PROVE  RunJobStands'
  OBVIOUS
<1>1. TypeOK /\ Processes /\ RunJobStands
  BY DEF IInv
<1>2. rj' \in {"result", "stated"} => sup' = "exited"
  <2>1. CASE JobStep
    BY <1>1, <2>1 DEF RunJobStands, JobStep, RunJob, processVars, SupEnded, Spawn, Drain, LeavePoll, Decide, CheckCode, TakeState, TakeResult, HandleError, FailJob, ClosePipe, Reap, TaskCancelled, DaemonDies, DeleteChecks, DeleteWrites, Receive
  <2>2. CASE WorkStep
    BY <1>1, <2>2, WorkLeavesJob DEF RunJobStands, daemonVars
  <2>3. CASE Supervisor
    BY <1>1, <2>3 DEF RunJobStands, Processes, Supervisor, SupStarts, SupNotices, SupStops, daemonVars
  <2>4. CASE UNCHANGED vars
    BY <1>1, <2>4 DEF RunJobStands, vars, daemonVars
  <2>5. QED
    BY <2>1, <2>2, <2>3, <2>4 DEF Next, JobStep, WorkStep
<1>3. rj' \in {"stated", "cleanup", "reap", "done"} => jobState' # "running"
  <2>1. CASE TakeState
    <3>1. json # <<>>
      BY <1>1, <2>1 DEF TakeState, RunJobStands, Processes
    <3>2. json[1] \in {"completed", "failed"}
      BY <1>1, <3>1 DEF TypeOK
    <3>3. QED
      BY <2>1, <3>2 DEF TakeState
  <2>2. CASE JobStep /\ ~TakeState
    BY <1>1, <2>2 DEF RunJobStands, JobStep, RunJob, Spawn, Drain, LeavePoll, Decide, CheckCode, TakeResult, HandleError, FailJob, ClosePipe, Reap, TaskCancelled, DaemonDies, DeleteChecks, DeleteWrites, Receive
  <2>3. CASE WorkStep
    BY <1>1, <2>3, WorkLeavesJob DEF RunJobStands, daemonVars
  <2>4. CASE Supervisor
    BY <1>1, <2>4 DEF RunJobStands, Supervisor, SupStarts, SupNotices, SupStops, daemonVars
  <2>5. CASE UNCHANGED vars
    BY <1>1, <2>5 DEF RunJobStands, vars, daemonVars
  <2>6. QED
    BY <2>1, <2>2, <2>3, <2>4, <2>5 DEF Next, JobStep, WorkStep
<1>4. rj' = "done" => Over'
  <2>1. CASE rj = "done"
    <3>1. Over
      BY <1>1, <2>1 DEF RunJobStands
    <3>2. QED
      BY <3>1, OverStays
  <2>2. CASE Reap
    BY <1>1, <2>2 DEF RunJobStands, Over, Reap, processVars, SupEnded
  <2>3. CASE rj # "done" /\ ~Reap
    <3>1. rj' # "done"
      <4>1. CASE JobStep
        BY <2>3, <4>1 DEF JobStep, RunJob, Spawn, Drain, LeavePoll, Decide, CheckCode, TakeState, TakeResult, HandleError, FailJob, ClosePipe, TaskCancelled, DaemonDies, DeleteChecks, DeleteWrites, Receive
      <4>2. CASE WorkStep
        BY <2>3, <4>2, WorkLeavesJob DEF daemonVars
      <4>3. CASE Supervisor
        BY <2>3, <4>3 DEF Supervisor, SupStarts, SupNotices, SupStops, daemonVars
      <4>4. CASE UNCHANGED vars
        BY <2>3, <4>4 DEF vars, daemonVars
      <4>5. QED
        BY <4>1, <4>2, <4>3, <4>4 DEF Next, JobStep, WorkStep
    <3>2. QED
      BY <3>1
  <2>4. QED
    BY <2>1, <2>2, <2>3
<1>5. (\E i \in 1..Len(queue') : queue'[i] = Done) => Over'
  <2>1. CASE Reap
    <3>1. rj' = "done"
      BY <2>1 DEF Reap
    <3>2. QED
      BY <1>4, <3>1
  <2>2. CASE Drain
    <3>1. CASE queue' = queue
      BY <1>1, <3>1, OverStays DEF RunJobStands
    <3>2. CASE queue' = Append(queue, log[read + 1])
      <4>1. log[read + 1] \in Events
        BY <1>1, <2>2, LogTyped DEF Drain, TypeOK
      <4>2. log[read + 1] # Done
        BY <4>1 DEF Events, Done
      <4>3. QED
        BY <1>1, <3>2, <4>1, <4>2, QueueSteps, OverStays DEF RunJobStands
    <3>3. QED
      BY <2>2, <3>1, <3>2 DEF Drain
  <2>3. CASE FailJob
    <3>1. CASE queue' = queue
      BY <1>1, <3>1, OverStays DEF RunJobStands
    <3>2. CASE queue' = queue \o Failures(Files)
      <4>1. Failures(Files) \in Seq(Events) /\ queue \in Seq(Events \cup {Done})
        BY <1>1, FailuresOf DEF TypeOK
      <4>2. \A i \in 1..Len(Failures(Files)) : Failures(Files)[i] # Done
        BY <4>1 DEF Events, Done
      <4>3. /\ Len(queue') = Len(queue) + Len(Failures(Files))
            /\ Len(queue) \in Nat /\ Len(Failures(Files)) \in Nat
            /\ \A i \in 1..Len(queue') :
                 queue'[i] = IF i <= Len(queue) THEN queue[i] ELSE Failures(Files)[i - Len(queue)]
        BY <3>2, <4>1
      <4>4. (\E i \in 1..Len(queue') : queue'[i] = Done) => \E i \in 1..Len(queue) : queue[i] = Done
        BY <4>2, <4>3
      <4>5. QED
        BY <1>1, <4>4, OverStays DEF RunJobStands
    <3>3. QED
      BY <2>3, <3>1, <3>2 DEF FailJob
  <2>4. CASE Receive
    <3>1. queue # <<>> /\ queue' = Tail(queue)
      BY <2>4 DEF Receive
    <3>2. (\E i \in 1..Len(queue') : queue'[i] = Done) => \E i \in 1..Len(queue) : queue[i] = Done
      BY <1>1, <3>1, QueueSteps
    <3>3. QED
      BY <1>1, <3>2, OverStays DEF RunJobStands
  <2>5. CASE UNCHANGED queue
    BY <1>1, <2>5, OverStays DEF RunJobStands
  <2>6. QED
    <3>1. CASE JobStep
      BY <2>1, <2>2, <2>3, <2>4, <2>5, <3>1
         DEF JobStep, RunJob, Spawn, LeavePoll, Decide, CheckCode, TakeState, TakeResult, HandleError, ClosePipe, TaskCancelled, DaemonDies, DeleteChecks, DeleteWrites
    <3>2. CASE WorkStep
      BY <2>5, <3>2, WorkLeavesJob DEF daemonVars
    <3>3. CASE Supervisor
      BY <2>5, <3>3 DEF Supervisor, SupStarts, SupNotices, SupStops, daemonVars
    <3>4. CASE UNCHANGED vars
      BY <2>5, <3>4 DEF vars, daemonVars
    <3>5. QED
      BY <3>1, <3>2, <3>3, <3>4 DEF Next, JobStep, WorkStep
<1>6. marker' # "none" => Over'
  <2>1. CASE marker # "none"
    BY <1>1, <2>1, OverStays DEF RunJobStands
  <2>2. CASE Receive /\ Head(queue) = Done
    <3>1. \E i \in 1..Len(queue) : queue[i] = Done
      BY <1>1, <2>2, QueueSteps DEF Receive
    <3>2. QED
      BY <1>1, <3>1, OverStays DEF RunJobStands
  <2>3. CASE UNCHANGED marker
    BY <2>1, <2>3
  <2>4. QED
    <3>1. CASE JobStep
      BY <2>2, <2>3, <3>1
         DEF JobStep, RunJob, Spawn, Drain, LeavePoll, Decide, CheckCode, TakeState, TakeResult, HandleError, FailJob, ClosePipe, Reap, TaskCancelled, DaemonDies, DeleteChecks, DeleteWrites, Receive
    <3>2. CASE WorkStep
      BY <2>3, <3>2, WorkLeavesJob DEF daemonVars
    <3>3. CASE Supervisor
      BY <2>3, <3>3 DEF Supervisor, SupStarts, SupNotices, SupStops, daemonVars
    <3>4. CASE UNCHANGED vars
      BY <2>3, <3>4 DEF vars, daemonVars
    <3>5. QED
      BY <3>1, <3>2, <3>3, <3>4 DEF Next, JobStep, WorkStep
<1>7. QED
  BY <1>2, <1>3, <1>4, <1>5, <1>6 DEF RunJobStands

\* No file leaves the stages without an error, and none with one goes on.
LEMMA FilesKept == IInv /\ [Next]_vars => FilesTold'
<1> SUFFICES ASSUME IInv, [Next]_vars
             PROVE  FilesTold'
  OBVIOUS
<1>1. TypeOK /\ FilesTold /\ Processes
  BY DEF IInv
<1>2. /\ current \subseteq Files /\ pending \subseteq current /\ errors \subseteq Files
      /\ Stages \in Nat \ {0} /\ stage \in Nat
  BY <1>1, DesktopAssumption DEF TypeOK
<1> USE DEF FilesTold
<1>3. CASE JobStep
  BY <1>1, <1>3, JobLeavesWork DEF workVars, Unpublished
<1>4. CASE Supervisor
  BY <1>1, <1>2, <1>4 DEF Supervisor, SupStarts, SupNotices, SupStops, Alive, workVars, Unpublished
<1>5. ASSUME NEW f \in Files, Outcome(f)
      PROVE  FilesTold'
  BY <1>1, <1>2, <1>5 DEF Outcome, Unsettled, Unpublished
<1>6. CASE NextStage
  BY <1>1, <1>2, <1>6 DEF NextStage, Unsettled, Unpublished, workVars, Alive
<1>7. CASE StageRaises
  BY <1>1, <1>2, <1>7 DEF StageRaises, Unsettled, Unpublished, workVars, Alive
<1>8. CASE StartPublishing
  BY <1>1, <1>2, <1>8 DEF StartPublishing, Unsettled, Unpublished, workVars, Alive
<1>9. ASSUME NEW f \in Files, Publish(f)
      PROVE  FilesTold'
  BY <1>1, <1>2, <1>9 DEF Publish, Unsettled, Unpublished
<1>10. ASSUME NEW f \in Files, Announce(f)
      PROVE  FilesTold'
  BY <1>1, <1>2, <1>10 DEF Announce, Unsettled, Unpublished
<1>11. CASE WorkerFinishes
  BY <1>1, <1>2, <1>11 DEF WorkerFinishes, Unsettled, Unpublished, workVars, Alive
<1>12. CASE WorkerCrashes
  BY <1>1, <1>2, <1>12 DEF WorkerCrashes, Unsettled, Unpublished, workVars, Alive
<1>13. CASE UNCHANGED vars
  BY <1>1, <1>13 DEF vars, workVars, Unpublished
<1>14. QED
  BY <1>3, <1>4, <1>5, <1>6, <1>7, <1>8, <1>9, <1>10, <1>11, <1>12, <1>13
     DEF Next, JobStep, Worker

\* A failure that has been told stays one of a file with an error, or of a job
\* that failed.
BackedNext(e) == Failed(e) => e.file \in errors' \/ (json' # <<>> /\ json'[1] = "failed")

LEMMA BackedStays ==
  ASSUME IInv, [Next]_vars
  PROVE  \A e : Backed(e) => BackedNext(e)
<1>1. Processes
  BY DEF IInv
<1>2. errors \subseteq errors'
  <2>1. CASE JobStep
    BY <2>1, JobLeavesWork DEF workVars
  <2>2. CASE Supervisor
    BY <2>2 DEF Supervisor, SupStarts, SupNotices, SupStops, workVars
  <2>3. CASE WorkStep
    BY <2>3 DEF WorkStep, Worker, workVars, Outcome, NextStage, StageRaises, StartPublishing, Publish, Announce, WorkerFinishes, WorkerCrashes
  <2>4. CASE UNCHANGED vars
    BY <2>4 DEF vars, workVars
  <2>5. QED
    BY <2>1, <2>2, <2>3, <2>4 DEF Next, JobStep, WorkStep
<1>3. json # <<>> => json' = json
  <2>1. CASE JobStep
    BY <2>1, JobLeavesWork DEF workVars
  <2>2. CASE Supervisor
    BY <2>2 DEF Supervisor, SupStarts, SupNotices, SupStops, workVars
  <2>3. CASE WorkStep
    BY <1>1, <2>3 DEF Processes, WorkStep, Worker, Alive, workVars, Outcome, NextStage, StageRaises, StartPublishing, Publish, Announce, WorkerFinishes, WorkerCrashes
  <2>4. CASE UNCHANGED vars
    BY <2>4 DEF vars, workVars
  <2>5. QED
    BY <2>1, <2>2, <2>3, <2>4 DEF Next, JobStep, WorkStep
<1>4. QED
  BY <1>2, <1>3 DEF Backed, BackedNext

\* The log and the result agree about who failed.
LEMMA LoggedKept == IInv /\ [Next]_vars => FailuresLogged'
<1> SUFFICES ASSUME IInv, [Next]_vars
             PROVE  FailuresLogged'
  OBVIOUS
<1>1. TypeOK /\ Processes /\ FilesTold /\ FailuresLogged
  BY DEF IInv
<1>2. log \in Seq(Events) /\ Len(log) \in Nat /\ \A i \in 1..Len(log) : log[i] \in Events /\ BackedNext(log[i])
  BY <1>1, BackedStays DEF FailuresLogged, TypeOK
<1>3. CASE JobStep
  BY <1>1, <1>3, JobLeavesWork DEF FailuresLogged, Backed, workVars
<1>4. CASE Supervisor
  BY <1>1, <1>4 DEF FailuresLogged, Backed, Supervisor, SupStarts, SupNotices, SupStops, workVars
<1>5. CASE UNCHANGED vars
  BY <1>1, <1>5 DEF FailuresLogged, Backed, vars, workVars
<1>6. CASE WorkStep
  <2>1. worker \in {"running", "publishing"} /\ json = <<>>
    BY <1>1, <1>6 DEF Processes, WorkStep, Worker, Alive, Outcome, NextStage, StageRaises, StartPublishing, Publish, Announce, WorkerFinishes, WorkerCrashes
  <2>2. CASE UNCHANGED <<log, json>>
    BY <1>2, <2>1, <2>2 DEF FailuresLogged, Backed, BackedNext
  <2>3. ASSUME NEW f \in Files, NEW k \in {"completed", "failed"}, log' = Append(log, Ev(k, f)),
               k = "completed" \/ f \in errors', json' = json
        PROVE  FailuresLogged'
    <3>1. Ev(k, f) \in Events /\ BackedNext(Ev(k, f))
      BY <2>3 DEF Ev, Events, BackedNext, Failed
    <3>2. /\ Len(log') = Len(log) + 1 /\ log'[Len(log) + 1] = Ev(k, f)
          /\ \A i \in 1..Len(log) : log'[i] = log[i]
      BY <1>2, <2>3, <3>1, AppendProperties
    <3>3. \A i \in 1..Len(log') : BackedNext(log'[i])
      BY <1>2, <3>1, <3>2
    <3>4. QED
      BY <2>1, <2>3, <3>3 DEF FailuresLogged, Backed, BackedNext
  <2>4. CASE \E f \in Files : Outcome(f)
    BY <2>2, <2>3, <2>4 DEF Outcome
  <2>5. CASE \E f \in Files : Publish(f)
    BY <2>2, <2>3, <2>5 DEF Publish
  <2>6. CASE \E f \in Files : Announce(f)
    BY <2>3, <2>6 DEF Announce
  <2>7. CASE StageRaises
    <3>1. json' = <<"failed", {}>>
      BY <2>7 DEF StageRaises
    <3>2. QED
      BY <3>1 DEF FailuresLogged, Backed
  <2>8. CASE WorkerFinishes
    <3>1. json' = <<FinalState, {published}>> /\ UNCHANGED <<errors, published, log>>
      BY <2>8 DEF WorkerFinishes
    <3>2. errors = {} => published = Files
      BY <1>1, <2>8 DEF WorkerFinishes, FilesTold, Unpublished, TypeOK
    <3>3. QED
      BY <1>2, <3>1, <3>2 DEF FailuresLogged, FinalState, Backed, BackedNext
  <2>9. CASE NextStage \/ StartPublishing \/ WorkerCrashes
    BY <2>2, <2>9 DEF NextStage, StartPublishing, WorkerCrashes, workVars
  <2>10. QED
    BY <1>6, <2>4, <2>5, <2>6, <2>7, <2>8, <2>9 DEF WorkStep, Worker
<1>7. QED
  BY <1>3, <1>4, <1>5, <1>6 DEF Next, JobStep, WorkStep

\* What the client has been told and what waits for it.
Waiting(e) == \E i \in 1..Len(queue) : queue[i] = e
WaitingNext(e) == \E i \in 1..Len(queue') : queue'[i] = e

\* Whatever waits after a step waited before it, or is the next event of the
\* log, the sentinel, or a failure of the whole job.
LEMMA QueueGrows ==
  ASSUME IInv, [Next]_vars, NEW e, WaitingNext(e)
  PROVE  \/ Waiting(e)
         \/ Drain /\ e = log[read + 1] /\ read + 1 \in 1..Len(log)
         \/ Reap /\ e = Done
         \/ FailJob /\ jobState' = "failed"
<1>1. TypeOK
  BY DEF IInv
<1>2. CASE Drain
  <2>1. read + 1 \in 1..Len(log) /\ log[read + 1] \in Events
    BY <1>1, <1>2, LogTyped DEF Drain, TypeOK
  <2>2. CASE queue' = queue
    BY <2>2 DEF Waiting, WaitingNext
  <2>3. CASE queue' = Append(queue, log[read + 1])
    BY <1>1, <1>2, <2>1, <2>3, QueueSteps DEF Waiting, WaitingNext
  <2>4. QED
    BY <1>2, <2>2, <2>3 DEF Drain
<1>3. CASE Reap
  BY <1>1, <1>3, QueueSteps DEF Reap, Waiting, WaitingNext
<1>4. CASE FailJob
  BY <1>4 DEF FailJob, Waiting, WaitingNext
<1>5. CASE Receive
  BY <1>1, <1>5, QueueSteps DEF Receive, Waiting, WaitingNext
<1>6. CASE UNCHANGED queue
  BY <1>6 DEF Waiting, WaitingNext
<1>7. CASE JobStep
  BY <1>2, <1>3, <1>4, <1>5, <1>6, <1>7
     DEF JobStep, RunJob, Spawn, LeavePoll, Decide, CheckCode, TakeState, TakeResult, HandleError, ClosePipe, TaskCancelled, DaemonDies, DeleteChecks, DeleteWrites
<1>8. CASE WorkStep
  BY <1>6, <1>8, WorkLeavesJob DEF daemonVars
<1>9. CASE Supervisor
  BY <1>6, <1>9 DEF Supervisor, SupStarts, SupNotices, SupStops, daemonVars
<1>10. CASE UNCHANGED vars
  BY <1>6, <1>10 DEF vars, daemonVars
<1>11. QED
  BY <1>7, <1>8, <1>9, <1>10 DEF Next, JobStep, WorkStep

\* Whatever the client hears has waited.
LEMMA HeardGrows == IInv /\ [Next]_vars => \A e \in heard' : e \in heard \/ Waiting(e)
<1> SUFFICES ASSUME IInv, [Next]_vars
             PROVE  \A e \in heard' : e \in heard \/ Waiting(e)
  OBVIOUS
<1>1. TypeOK
  BY DEF IInv
<1>2. CASE Receive
  BY <1>1, <1>2, QueueSteps DEF Receive, Waiting
<1>3. CASE JobStep /\ ~Receive
  BY <1>3 DEF JobStep, RunJob, Spawn, Drain, LeavePoll, Decide, CheckCode, TakeState, TakeResult, HandleError, FailJob, ClosePipe, Reap, TaskCancelled, DaemonDies, DeleteChecks, DeleteWrites
<1>4. CASE WorkStep
  BY <1>4, WorkLeavesJob DEF daemonVars
<1>5. CASE Supervisor
  BY <1>5 DEF Supervisor, SupStarts, SupNotices, SupStops, daemonVars
<1>6. CASE UNCHANGED vars
  BY <1>6 DEF vars, daemonVars
<1>7. QED
  BY <1>2, <1>3, <1>4, <1>5, <1>6 DEF Next, JobStep, WorkStep

\* run_job writes the result before it comes to its end.
LEMMA ResultKept == [Next]_vars /\ rj # "stated" => UNCHANGED result
<1> SUFFICES ASSUME [Next]_vars, rj # "stated"
             PROVE  UNCHANGED result
  OBVIOUS
<1>1. CASE JobStep
  BY <1>1 DEF JobStep, RunJob, Spawn, Drain, LeavePoll, Decide, CheckCode, TakeState, TakeResult, HandleError, FailJob, ClosePipe, Reap, TaskCancelled, DaemonDies, DeleteChecks, DeleteWrites, Receive
<1>2. CASE WorkStep
  BY <1>2, WorkLeavesJob DEF daemonVars
<1>3. CASE Supervisor
  BY <1>3 DEF Supervisor, SupStarts, SupNotices, SupStops, daemonVars
<1>4. CASE UNCHANGED vars
  BY <1>4 DEF vars, daemonVars
<1>5. QED
  BY <1>1, <1>2, <1>3, <1>4 DEF Next, JobStep, WorkStep

\* Only the sentinel writes the marker, and it writes the state.
LEMMA MarkerWritten ==
  [Next]_vars => UNCHANGED marker \/ (Receive /\ Head(queue) = Done /\ marker' = jobState)
<1> SUFFICES ASSUME [Next]_vars
             PROVE  UNCHANGED marker \/ (Receive /\ Head(queue) = Done /\ marker' = jobState)
  OBVIOUS
<1>1. CASE JobStep
  BY <1>1 DEF JobStep, RunJob, Spawn, Drain, LeavePoll, Decide, CheckCode, TakeState, TakeResult, HandleError, FailJob, ClosePipe, Reap, TaskCancelled, DaemonDies, DeleteChecks, DeleteWrites, Receive
<1>2. CASE WorkStep
  BY <1>2, WorkLeavesJob DEF daemonVars
<1>3. CASE Supervisor
  BY <1>3 DEF Supervisor, SupStarts, SupNotices, SupStops, daemonVars
<1>4. CASE UNCHANGED vars
  BY <1>4 DEF vars, daemonVars
<1>5. QED
  BY <1>1, <1>2, <1>3, <1>4 DEF Next, JobStep, WorkStep

\* The client of a job that counts as completed is told of no failure.
LEMMA ToldKept == IInv /\ [Next]_vars => ClientTold'
<1> SUFFICES ASSUME IInv, [Next]_vars
             PROVE  ClientTold'
  OBVIOUS
<1> DEFINE early == {"spawn", "poll", "decide", "drain", "result"}
<1>1. TypeOK /\ Processes /\ RunJobStands /\ FailuresLogged /\ ClientTold
  BY DEF IInv
<1>2. /\ rj' \in early => rj \in early /\ ~Reap /\ ~FailJob
      /\ jobState' = "completed" => jobState = "completed" \/ TakeState
  <2>1. CASE JobStep
    BY <1>1, <2>1 DEF TypeOK, JobStep, RunJob, Spawn, Drain, LeavePoll, Decide, CheckCode, TakeState, TakeResult, HandleError, FailJob, ClosePipe, Reap, TaskCancelled, DaemonDies, DeleteChecks, DeleteWrites, Receive
  <2>2. CASE WorkStep
    BY <2>2, WorkLeavesJob DEF daemonVars, Reap, FailJob
  <2>3. CASE Supervisor
    BY <2>3 DEF Supervisor, SupStarts, SupNotices, SupStops, daemonVars, Reap, FailJob
  <2>4. CASE UNCHANGED vars
    BY <2>4 DEF vars, daemonVars, Reap, FailJob
  <2>5. QED
    BY <2>1, <2>2, <2>3, <2>4 DEF Next, JobStep, WorkStep
<1>3. /\ rj \in early => \A e : Waiting(e) \/ e \in heard => Backed(e)
      /\ \A i \in 1..Len(log) : Backed(log[i])
  BY <1>1 DEF ClientTold, Waiting, FailuresLogged
<1>4. rj' \in early => (\A i \in 1..Len(queue') : BackedNext(queue'[i])) /\ (\A e \in heard' : BackedNext(e))
  <2> SUFFICES ASSUME rj' \in early
               PROVE  (\A i \in 1..Len(queue') : BackedNext(queue'[i])) /\ (\A e \in heard' : BackedNext(e))
    OBVIOUS
  <2>1. \A e : WaitingNext(e) => BackedNext(e)
    BY <1>2, <1>3, QueueGrows, BackedStays
  <2>2. \A e \in heard' : BackedNext(e)
    BY <1>2, <1>3, HeardGrows, BackedStays
  <2>3. QED
    BY <2>1, <2>2 DEF WaitingNext
<1>5. jobState' = "completed" =>
        /\ json' = <<"completed", {Files}>>
        /\ rj' \in {"stated", "cleanup", "reap", "done", "gone"}
        /\ rj' \in {"cleanup", "reap", "done"} => result' = {Files}
        /\ \A e : WaitingNext(e) \/ e \in heard' => ~Failed(e)
  <2> SUFFICES ASSUME jobState' = "completed"
               PROVE  /\ json' = <<"completed", {Files}>>
                      /\ rj' \in {"stated", "cleanup", "reap", "done", "gone"}
                      /\ rj' \in {"cleanup", "reap", "done"} => result' = {Files}
                      /\ \A e : WaitingNext(e) \/ e \in heard' => ~Failed(e)
    OBVIOUS
  <2>1. CASE TakeState
    <3>1. json # <<>> /\ json[1] = "completed"
      BY <1>1, <2>1 DEF TakeState, RunJobStands, Processes
    <3>2. json = <<"completed", {Files}>> /\ errors = {}
      BY <1>1, <3>1 DEF FailuresLogged
    <3>3. \A e : Waiting(e) \/ e \in heard => ~Failed(e)
      BY <1>3, <2>1, <3>1, <3>2 DEF TakeState, Backed
    <3>4. UNCHANGED <<queue, heard, json>> /\ rj' = "stated"
      BY <2>1, JobLeavesWork DEF TakeState, JobStep, RunJob, workVars
    <3>5. QED
      BY <3>2, <3>3, <3>4 DEF Waiting, WaitingNext
  <2>2. CASE jobState = "completed" /\ ~TakeState
    <3>1. /\ json = <<"completed", {Files}>> /\ json # <<>> /\ json[2] = {Files}
          /\ rj \in {"stated", "cleanup", "reap", "done", "gone"}
          /\ rj \in {"cleanup", "reap", "done"} => result = {Files}
          /\ \A e : Waiting(e) \/ e \in heard => ~Failed(e)
      BY <1>1, <2>2 DEF ClientTold, Waiting
    <3>2. /\ UNCHANGED json /\ rj' \in {"stated", "cleanup", "reap", "done", "gone"}
          /\ rj' \in {"cleanup", "reap", "done"} => result' = {Files}
          /\ ~Drain /\ ~FailJob
      <4>1. CASE JobStep
        BY <2>2, <3>1, <4>1 DEF workVars, processVars, JobStep, RunJob, Spawn, Drain, LeavePoll, Decide, CheckCode, TakeState, TakeResult, HandleError, FailJob, ClosePipe, Reap, TaskCancelled, DaemonDies, DeleteChecks, DeleteWrites, Receive
      <4>2. CASE WorkStep
        <5>1. worker = "exited" /\ ~Alive
          BY <1>1, <3>1 DEF Processes, Alive
        <5>2. FALSE
          BY <4>2, <5>1 DEF Alive, WorkStep, Worker, Outcome, NextStage, StageRaises, StartPublishing, Publish, Announce, WorkerFinishes, WorkerCrashes
        <5>3. QED
          BY <5>2
      <4>3. CASE Supervisor
        BY <3>1, <4>3 DEF Supervisor, SupStarts, SupNotices, SupStops, daemonVars, workVars, Drain, FailJob
      <4>4. CASE UNCHANGED vars
        BY <3>1, <4>4 DEF vars, daemonVars, workVars, Drain, FailJob
      <4>5. QED
        BY <4>1, <4>2, <4>3, <4>4 DEF Next, JobStep, WorkStep
    <3>3. \A e : WaitingNext(e) \/ e \in heard' => ~Failed(e)
      <4>1. ~Failed(Done)
        BY DEF Failed, Done
      <4>2. QED
        BY <3>1, <3>2, <4>1, QueueGrows, HeardGrows
    <3>4. QED
      BY <3>1, <3>2, <3>3
  <2>3. QED
    BY <1>2, <2>1, <2>2
<1>6. marker' = "completed" => result' = {Files}
  <2>1. CASE marker = "completed"
    <3>1. rj \in {"done", "gone"} /\ result = {Files}
      BY <1>1, <2>1 DEF ClientTold, RunJobStands, Over
    <3>2. QED
      BY <3>1, ResultKept
  <2>2. CASE Receive /\ jobState = "completed" /\ Head(queue) = Done
    <3>1. rj = "done" /\ result = {Files}
      BY <1>1, <2>2, QueueSteps DEF Receive, RunJobStands, Over, ClientTold
    <3>2. QED
      BY <3>1, ResultKept
  <2>3. CASE marker' = "completed" /\ UNCHANGED marker
    BY <2>1, <2>3
  <2>4. QED
    BY <2>1, <2>2, <2>3, MarkerWritten
<1>7. QED
  BY <1>4, <1>5, <1>6 DEF ClientTold, Backed, BackedNext, WaitingNext

\* run_job and the client keep the types.
LEMMA JobTypes == IInv /\ JobStep => TypeOK'
<1> SUFFICES ASSUME IInv, JobStep
             PROVE  TypeOK'
  OBVIOUS
<1>1. TypeOK /\ Processes /\ RunJobStands
  BY DEF IInv
<1>2. UNCHANGED <<worker, stage, current, pending, errors, published, log, json>>
  BY JobLeavesWork DEF workVars
<1>3. queue' \in Seq(Events \cup {Done})
  <2>1. CASE Drain
    <3>1. log[read + 1] \in Events
      BY <1>1, <2>1, LogTyped DEF Drain, TypeOK
    <3>2. QED
      BY <1>1, <2>1, <3>1, QueueSteps DEF Drain, TypeOK
  <2>2. CASE FailJob
    <3>1. Failures(Files) \in Seq(Events \cup {Done}) /\ queue \in Seq(Events \cup {Done})
      BY <1>1, FailuresOf DEF TypeOK
    <3>2. queue \o Failures(Files) \in Seq(Events \cup {Done})
      BY <3>1
    <3>3. QED
      BY <2>2, <3>1, <3>2 DEF FailJob
  <2>3. CASE Reap \/ Receive
    BY <1>1, <2>3, QueueSteps DEF Reap, Receive
  <2>4. CASE UNCHANGED queue
    BY <1>1, <2>4 DEF TypeOK
  <2>5. QED
    BY <2>1, <2>2, <2>3, <2>4 DEF JobStep, RunJob, Spawn, LeavePoll, Decide, CheckCode, TakeState, TakeResult, HandleError, ClosePipe, TaskCancelled, DaemonDies, DeleteChecks, DeleteWrites
<1>4. heard' \subseteq Events
  <2>1. CASE Receive
    BY <1>1, <2>1, QueueSteps DEF Receive, TypeOK
  <2>2. CASE ~Receive
    BY <1>1, <2>2 DEF TypeOK, JobStep, RunJob, Spawn, Drain, LeavePoll, Decide, CheckCode, TakeState, TakeResult, HandleError, FailJob, ClosePipe, Reap, TaskCancelled, DaemonDies, DeleteChecks, DeleteWrites
  <2>3. QED
    BY <2>1, <2>2
<1>5. jobState' \in {"running"} \cup Terminal /\ result' \in Results
  <2>1. CASE TakeState \/ TakeResult
    <3>1. json # <<>>
      BY <1>1, <2>1 DEF TakeState, TakeResult, RunJobStands, Processes
    <3>2. json[1] \in {"completed", "failed"} /\ json[2] \in Results
      BY <1>1, <3>1 DEF TypeOK
    <3>3. QED
      BY <1>1, <2>1, <3>2 DEF TakeState, TakeResult, Terminal, TypeOK
  <2>2. CASE ~TakeState /\ ~TakeResult
    BY <1>1, <2>2 DEF TypeOK, Terminal, JobStep, RunJob, Spawn, Drain, LeavePoll, Decide, CheckCode, HandleError, FailJob, ClosePipe, Reap, TaskCancelled, DaemonDies, DeleteChecks, DeleteWrites, Receive
  <2>3. QED
    BY <2>1, <2>2
<1>6. /\ rj' \in {"spawn", "poll", "decide", "drain", "result", "stated", "except", "failing", "cleanup", "reap", "done", "gone"}
      /\ deleted' \in {"idle", "checked", "answered"}
  BY <1>1 DEF TypeOK, JobStep, RunJob, Spawn, Drain, LeavePoll, Decide, CheckCode, TakeState, TakeResult, HandleError, FailJob, ClosePipe, Reap, TaskCancelled, DaemonDies, DeleteChecks, DeleteWrites, Receive
<1>7. sup' \in {"none", "watching", "stopping", "exited", "failed", "lost"} /\ pipe' \in BOOLEAN
  BY <1>1 DEF TypeOK, processVars, JobStep, RunJob, Spawn, Drain, LeavePoll, Decide, CheckCode, TakeState, TakeResult, HandleError, FailJob, ClosePipe, Reap, TaskCancelled, DaemonDies, DeleteChecks, DeleteWrites, Receive
<1>8. marker' \in {"none"} \cup Terminal
  <2>1. CASE Receive /\ Head(queue) = Done
    <3>1. jobState # "running"
      BY <1>1, <2>1, QueueSteps DEF Receive, RunJobStands, Over
    <3>2. QED
      BY <1>1, <2>1, <3>1 DEF Receive, TypeOK
  <2>2. CASE ~(Receive /\ Head(queue) = Done)
    BY <1>1, <2>2 DEF TypeOK, JobStep, RunJob, Spawn, Drain, LeavePoll, Decide, CheckCode, TakeState, TakeResult, HandleError, FailJob, ClosePipe, Reap, TaskCancelled, DaemonDies, DeleteChecks, DeleteWrites, Receive
  <2>3. QED
    BY <2>1, <2>2
<1>9. read' \in 0..Len(log)
  <2>1. Len(log) \in Nat /\ read \in 0..Len(log)
    BY <1>1, LogTyped DEF TypeOK
  <2>2. CASE Drain
    BY <2>1, <2>2 DEF Drain
  <2>3. CASE ~Drain
    BY <2>1, <2>3 DEF JobStep, RunJob, Spawn, LeavePoll, Decide, CheckCode, TakeState, TakeResult, HandleError, FailJob, ClosePipe, Reap, TaskCancelled, DaemonDies, DeleteChecks, DeleteWrites, Receive
  <2>4. QED
    BY <2>2, <2>3
<1>10. QED
  BY <1>1, <1>2, <1>3, <1>4, <1>5, <1>6, <1>7, <1>8, <1>9 DEF TypeOK

\* The worker keeps the types.
LEMMA WorkTypes == IInv /\ WorkStep => TypeOK'
<1> SUFFICES ASSUME IInv, WorkStep
             PROVE  TypeOK'
  OBVIOUS
<1>1. TypeOK
  BY DEF IInv
<1>2. UNCHANGED <<jobState, result, rj, deleted, queue, heard, marker, read, pipe, sup>>
  BY WorkLeavesJob DEF daemonVars
<1>3. log' \in Seq(Events) /\ Len(log) \in Nat /\ Len(log') \in Nat /\ Len(log') >= Len(log)
  <2>1. log \in Seq(Events) /\ Len(log) \in Nat
    BY <1>1 DEF TypeOK
  <2>2. ASSUME NEW f \in Files, NEW k \in {"completed", "failed"}, log' = Append(log, Ev(k, f))
        PROVE  log' \in Seq(Events) /\ Len(log') = Len(log) + 1
    BY <2>1, <2>2, AppendProperties DEF Ev, Events
  <2>3. ASSUME log' = log \o Failures(current)
        PROVE  log' \in Seq(Events) /\ Len(log') \in Nat /\ Len(log') >= Len(log)
    <3>1. Failures(current) \in Seq(Events)
      BY <1>1, FailuresOf DEF TypeOK
    <3>2. QED
      BY <2>1, <2>3, <3>1
  <2>4. CASE UNCHANGED log
    BY <2>1, <2>4
  <2>5. \/ UNCHANGED log \/ log' = log \o Failures(current)
        \/ \E f \in Files, k \in {"completed", "failed"} : log' = Append(log, Ev(k, f))
    BY DEF WorkStep, Worker, workVars, Outcome, NextStage, StageRaises, StartPublishing, Publish, Announce, WorkerFinishes, WorkerCrashes
  <2>6. QED
    BY <2>1, <2>2, <2>3, <2>4, <2>5
<1>4. read \in 0..Len(log')
  BY <1>1, <1>3 DEF TypeOK
<1>5. /\ current' \subseteq Files /\ pending' \subseteq current'
      /\ errors' \subseteq Files /\ published' \subseteq Files
  BY <1>1 DEF TypeOK, WorkStep, Worker, workVars, Unsettled, Unpublished, Outcome, NextStage, StageRaises, StartPublishing, Publish, Announce, WorkerFinishes, WorkerCrashes
<1>6. stage' \in 1..(Stages + 1) /\ worker' \in {"none", "running", "publishing", "exited", "dead"}
  BY <1>1, DesktopAssumption DEF TypeOK, WorkStep, Worker, workVars, Outcome, NextStage, StageRaises, StartPublishing, Publish, Announce, WorkerFinishes, WorkerCrashes
<1>7. json' \in {<<>>} \cup ({"completed", "failed"} \X Results)
  <2>1. CASE StageRaises
    BY <2>1 DEF StageRaises, Results
  <2>2. CASE WorkerFinishes
    BY <1>1, <2>2 DEF WorkerFinishes, FinalState, Results, TypeOK
  <2>3. CASE UNCHANGED json
    BY <1>1, <2>3 DEF TypeOK
  <2>4. QED
    BY <2>1, <2>2, <2>3 DEF WorkStep, Worker, workVars, Outcome, NextStage, StartPublishing, Publish, Announce, WorkerCrashes
<1>8. QED
  BY <1>1, <1>2, <1>3, <1>4, <1>5, <1>6, <1>7 DEF TypeOK

\* Every step keeps the types.
LEMMA TypesKept == IInv /\ [Next]_vars => TypeOK'
<1> SUFFICES ASSUME IInv, [Next]_vars
             PROVE  TypeOK'
  OBVIOUS
<1>1. CASE JobStep
  BY <1>1, JobTypes
<1>2. CASE WorkStep
  BY <1>2, WorkTypes
<1>3. CASE Supervisor
  BY <1>3 DEF IInv, TypeOK, Supervisor, SupStarts, SupNotices, SupStops, daemonVars, workVars
<1>4. CASE UNCHANGED vars
  BY <1>4 DEF IInv, TypeOK, vars, daemonVars, workVars
<1>5. QED
  BY <1>1, <1>2, <1>3, <1>4 DEF Next, JobStep, WorkStep

\* The invariant of a desktop job holds in every state, however its processes,
\* the client and the ends of them interleave.
THEOREM Invariance == Spec => []IInv
<1>1. Init => IInv
  BY InitInvariant
<1>2. IInv /\ [Next]_vars => IInv'
  BY TypesKept, ProcessesKept, RunJobKept, FilesKept, LoggedKept, ToldKept DEF IInv
<1>3. QED
  BY <1>1, <1>2, PTL DEF Spec

\* When the stream got its sentinel no process is left that could publish, and
\* whoever has the final marker finds a job that is over (run_job,
\* desktop_process.py:164; stream_events).
THEOREM DesktopJobSafe == Spec => []DesktopJobSound
<1>1. IInv => DesktopJobSound
  BY DEF IInv, RunJobStands, Over, Processes, SupEnded, Supervised, Alive, DesktopJobSound, NoWorkerLeft, MarkerMeansOver
<1>2. QED
  BY <1>1, Invariance, PTL

\* A file that failed in any stage keeps its original: nothing of it is ever
\* put in its destination (desktop.py:299).
THEOREM FailedIsKept == Spec => []FailedKeepsOriginal
<1>1. IInv => FailedKeepsOriginal
  BY DEF IInv, FilesTold, FailedKeepsOriginal
<1>2. QED
  BY <1>1, Invariance, PTL

\* A job that counts as completed has replaced every destination and has told
\* its client of no failure, and the client whose final marker says so finds
\* every file in the result, which is written after the state (_run, run_job).
THEOREM CompletedIsPublished == Spec => []CompletedMeansPublished
<1>1. IInv => CompletedMeansPublished
  <2> SUFFICES ASSUME IInv, jobState = "completed"
               PROVE  published = Files /\ \A f \in Files : Ev("failed", f) \notin heard
    BY DEF CompletedMeansPublished, IInv, ClientTold
  <2>1. json = <<"completed", {Files}>> /\ \A e \in heard : ~Failed(e)
    BY DEF IInv, ClientTold
  <2>2. published = Files
    BY <2>1 DEF IInv, FailuresLogged
  <2>3. \A f \in Files : Failed(Ev("failed", f))
    BY DEF Failed, Ev
  <2>4. QED
    BY <2>1, <2>2, <2>3
<1>2. QED
  BY <1>1, Invariance, PTL
===============================================================================
