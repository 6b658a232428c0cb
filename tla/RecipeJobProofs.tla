---------------------------- MODULE RecipeJobProofs ----------------------------
(***************************************************************************)
(* Safety of a recipe job, for every set of streams, DELETE requests and   *)
(* inputs and every number of progress events: IInv of RecipeJob is        *)
(* inductive, and RecipeJobSound is a part of it.                          *)
(*                                                                         *)
(* The queue always holds the events posted last, in order: what a stream  *)
(* takes next is above whatever any stream has heard.                      *)
(***************************************************************************)
EXTENDS RecipeJob, SequenceTheorems, TLAPS

\* The state of the thread's part of the job.
LEMMA InitInvariant == Init => IInv
<1> SUFFICES ASSUME Init
             PROVE  IInv
  OBVIOUS
<1> USE RecipeAssumption DEF Init
<1>1. TypeOK
  <2>1. queue \in Seq(0..MaxEvents) /\ Len(queue) = 0
    BY EmptySeq
  <2>2. \A c \in Clients : heard[c] \in Seq(1..MaxEvents)
    BY EmptySeq
  <2>3. heard \in [Clients -> Seq(1..MaxEvents)]
    BY <2>2
  <2>4. marker \in [Clients -> {"none"} \cup Terminal] /\ del \in [Deletes -> {"idle", "checked", "answered"}]
    OBVIOUS
  <2>5. result \in BOOLEAN /\ failed \subseteq Inputs
    OBVIOUS
  <2>6. sent \in 0..MaxEvents /\ Len(queue) <= MaxEvents + 1
    BY <2>1 DEF RecipeAssumption
  <2>7. QED
    BY <2>1, <2>3, <2>4, <2>5, <2>6 DEF TypeOK
<1>2. EventsPartitioned
  BY DEF EventsPartitioned
<1>3. MarkerMeansServed /\ FailuresAreTold
  BY DEF MarkerMeansServed, FailuresAreTold
<1>4. QueueShape
  BY DEF QueueShape, Left
<1>5. StateFollows
  BY DEF StateFollows
<1>6. QED
  BY <1>1, <1>2, <1>3, <1>4, <1>5 DEF IInv, RecipeJobSound

\* A step of the thread that leaves the queue and the streams alone keeps what
\* is said of them.
LEMMA QueueKept ==
  ASSUME IInv, UNCHANGED <<sent, queue, heard, marker>>, pc = "ended" <=> pc' = "ended"
  PROVE  EventsPartitioned' /\ QueueShape'
<1>1. EventsPartitioned /\ QueueShape
  BY DEF IInv, RecipeJobSound
<1>2. EventsPartitioned'
  BY <1>1 DEF EventsPartitioned
<1>3. Left' = Left
  BY DEF Left
<1>4. QueueShape'
  BY <1>1, <1>3 DEF QueueShape
<1>5. QED
  BY <1>2, <1>4

\* Progress puts the next number behind the events that are left.
LEMMA ProgressKeeps == IInv /\ Progress => IInv'
<1> SUFFICES ASSUME IInv, Progress
             PROVE  IInv'
  OBVIOUS
<1> USE RecipeAssumption
<1>1. TypeOK /\ EventsPartitioned /\ MarkerMeansServed /\ FailuresAreTold /\ QueueShape /\ StateFollows
  BY DEF IInv, RecipeJobSound
<1>2. /\ pc = "run" /\ pc' = pc /\ sent' = sent + 1 /\ queue' = Append(queue, sent + 1)
      /\ sent < MaxEvents /\ UNCHANGED <<state, result, failed, heard, marker, del>>
  BY DEF Progress
<1>3. /\ sent \in Nat /\ queue \in Seq(0..MaxEvents) /\ Len(queue) \in Nat
      /\ Len(queue') = Len(queue) + 1
      /\ \A i \in 1..Len(queue) : queue'[i] = queue[i]
      /\ queue'[Len(queue) + 1] = sent + 1
      /\ queue' \in Seq(0..MaxEvents)
  BY <1>1, <1>2 DEF TypeOK
<1>4. Left = Len(queue) /\ Left' = Len(queue) + 1
  BY <1>2, <1>3 DEF Left
<1>5. QueueShape'
  <2>1. Left' <= sent'
    BY <1>1, <1>2, <1>3, <1>4 DEF QueueShape
  <2>2. \A i \in 1..Left' : queue'[i] = sent' - Left' + i
    <3> SUFFICES ASSUME NEW i \in 1..Left'
                 PROVE  queue'[i] = sent' - Left' + i
      OBVIOUS
    <3>1. CASE i \in 1..Len(queue)
      BY <1>1, <1>2, <1>3, <1>4, <3>1 DEF QueueShape
    <3>2. CASE i = Len(queue) + 1
      BY <1>2, <1>3, <1>4, <3>2
    <3>3. QED
      BY <1>3, <1>4, <3>1, <3>2
  <2>3. \A c \in Clients : \A i \in 1..Len(heard'[c]) : heard'[c][i] <= sent' - Left'
    <3>1. sent' - Left' = sent - Left
      BY <1>2, <1>3, <1>4
    <3>2. QED
      BY <1>1, <1>2, <3>1 DEF QueueShape
  <2>4. QED
    BY <1>2, <2>1, <2>2, <2>3 DEF QueueShape
<1>6. TypeOK'
  <2>1. Len(queue') <= MaxEvents + 1
    BY <1>2, <1>3, <1>4, <1>5 DEF QueueShape
  <2>2. sent' \in 0..MaxEvents
    BY <1>2, <1>3
  <2>3. QED
    BY <1>1, <1>2, <1>3, <2>1, <2>2 DEF TypeOK
<1>7. EventsPartitioned' /\ MarkerMeansServed' /\ FailuresAreTold' /\ StateFollows'
  BY <1>1, <1>2 DEF EventsPartitioned, MarkerMeansServed, FailuresAreTold, StateFollows, Served
<1>8. QED
  BY <1>5, <1>6, <1>7 DEF IInv, RecipeJobSound

\* The steps of the thread that only move its state.
LEMMA ThreadKeeps == IInv /\ (RunEnds \/ StoreResult \/ Decide \/ WriteState) => IInv'
<1> SUFFICES ASSUME IInv, RunEnds \/ StoreResult \/ Decide \/ WriteState
             PROVE  IInv'
  OBVIOUS
<1>1. TypeOK /\ EventsPartitioned /\ MarkerMeansServed /\ FailuresAreTold /\ QueueShape /\ StateFollows
  BY DEF IInv, RecipeJobSound
<1>2. /\ UNCHANGED <<sent, queue, heard, marker, del>>
      /\ pc # "ended" /\ pc' # "ended"
  BY <1>1 DEF RunEnds, StoreResult, Decide, WriteState
<1>3. EventsPartitioned' /\ QueueShape'
  BY <1>2, QueueKept
<1>4. TypeOK'
  BY <1>1 DEF TypeOK, RunEnds, StoreResult, Decide, WriteState, FinalState, Terminal
<1>5. FailuresAreTold' /\ StateFollows'
  <2>1. CASE RunEnds
    BY <1>1, <1>2, <2>1 DEF RunEnds, FailuresAreTold, StateFollows
  <2>2. CASE StoreResult
    BY <1>1, <1>2, <2>2 DEF StoreResult, FailuresAreTold, StateFollows
  <2>3. CASE Decide
    BY <1>1, <1>2, <2>3 DEF Decide, FailuresAreTold, StateFollows, TypeOK, Terminal
  <2>4. CASE WriteState
    BY <1>1, <1>2, <2>4 DEF WriteState, FinalState, FailuresAreTold, StateFollows
  <2>5. QED
    BY <2>1, <2>2, <2>3, <2>4
<1>6. MarkerMeansServed'
  BY <1>1, <1>2 DEF StateFollows, MarkerMeansServed
<1>7. QED
  BY <1>3, <1>4, <1>5, <1>6 DEF IInv, RecipeJobSound

\* The thread ends, and puts the sentinel behind the events that are left.
LEMMA FinallyKeeps == IInv /\ Finally => IInv'
<1> SUFFICES ASSUME IInv, Finally
             PROVE  IInv'
  OBVIOUS
<1> USE RecipeAssumption
<1>1. TypeOK /\ EventsPartitioned /\ MarkerMeansServed /\ FailuresAreTold /\ QueueShape /\ StateFollows
  BY DEF IInv, RecipeJobSound
<1>2. /\ pc = "finally" /\ pc' = "ended" /\ queue' = Append(queue, Sentinel)
      /\ UNCHANGED <<state, result, failed, sent, heard, marker, del>>
  BY DEF Finally
<1>3. /\ sent \in Nat /\ sent <= MaxEvents /\ queue \in Seq(0..MaxEvents) /\ Len(queue) \in Nat
      /\ Len(queue') = Len(queue) + 1 /\ queue' # <<>>
      /\ \A i \in 1..Len(queue) : queue'[i] = queue[i]
      /\ queue'[Len(queue) + 1] = Sentinel
      /\ queue' \in Seq(0..MaxEvents)
  BY <1>1, <1>2 DEF TypeOK, Sentinel
<1>4. Left = Len(queue) /\ Left' = Len(queue)
  BY <1>2, <1>3 DEF Left
<1>5. QueueShape'
  BY <1>1, <1>2, <1>3, <1>4 DEF QueueShape
<1>6. TypeOK'
  <2>1. Len(queue') <= MaxEvents + 1
    BY <1>1, <1>3, <1>4 DEF QueueShape
  <2>2. QED
    BY <1>1, <1>2, <1>3, <2>1 DEF TypeOK
<1>7. EventsPartitioned' /\ MarkerMeansServed' /\ FailuresAreTold' /\ StateFollows'
  BY <1>1, <1>2 DEF EventsPartitioned, MarkerMeansServed, FailuresAreTold, StateFollows, Served
<1>8. QED
  BY <1>5, <1>6, <1>7 DEF IInv, RecipeJobSound

\* A stream takes the sentinel: the queue is empty from then on.
LEMMA SentinelTaken ==
  ASSUME IInv, NEW c \in Clients, Receive(c), Head(queue) = Sentinel
  PROVE  IInv'
<1> USE RecipeAssumption
<1>1. TypeOK /\ EventsPartitioned /\ MarkerMeansServed /\ FailuresAreTold /\ QueueShape /\ StateFollows
  BY DEF IInv, RecipeJobSound
<1>2. /\ queue # <<>> /\ queue' = Tail(queue)
      /\ marker' = [marker EXCEPT ![c] = state]
      /\ UNCHANGED <<state, result, failed, pc, sent, heard, del>>
  BY DEF Receive
<1>3. /\ sent \in Nat /\ queue \in Seq(0..MaxEvents) /\ Len(queue) \in Nat \ {0}
      /\ queue[1] = Sentinel /\ Len(queue') = Len(queue) - 1
      /\ queue' \in Seq(0..MaxEvents)
  BY <1>1, <1>2, HeadTailProperties DEF TypeOK
<1>4. pc = "ended" /\ Len(queue) = 1
  <2>0. Left \in Nat /\ Left <= sent
    BY <1>1, <1>3 DEF QueueShape, Left
  <2>1. Left > 0 => queue[1] = sent - Left + 1
    BY <1>1, <2>0 DEF QueueShape
  <2>2. Left > 0 => queue[1] > 0
    BY <1>3, <2>0, <2>1
  <2>3. Left = 0
    BY <1>3, <2>0, <2>2 DEF Sentinel
  <2>4. QED
    BY <1>3, <2>3 DEF Left
<1>5. queue' = <<>> /\ Left = 0 /\ Left' = 0
  BY <1>2, <1>3, <1>4, EmptySeq DEF Left
<1>6. QueueShape'
  BY <1>1, <1>2, <1>3, <1>5 DEF QueueShape
<1>7. TypeOK'
  <2>1. marker' \in [Clients -> {"none"} \cup Terminal]
    BY <1>1, <1>2, <1>4 DEF TypeOK, StateFollows
  <2>2. Len(queue') <= MaxEvents + 1
    BY <1>3, <1>4
  <2>3. QED
    BY <1>1, <1>2, <1>3, <2>1, <2>2 DEF TypeOK
<1>8. StateFollows'
  BY <1>1, <1>2, <1>4 DEF StateFollows
<1>9. EventsPartitioned' /\ FailuresAreTold'
  BY <1>1, <1>2 DEF EventsPartitioned, FailuresAreTold
<1>10. MarkerMeansServed'
  BY <1>1, <1>2, <1>4 DEF StateFollows, MarkerMeansServed, Served
<1>11. QED
  BY <1>6, <1>7, <1>8, <1>9, <1>10 DEF IInv, RecipeJobSound

\* A stream takes an event: the first of those that are left, above whatever
\* any stream has heard.
LEMMA EventTaken ==
  ASSUME IInv, NEW c \in Clients, Receive(c), Head(queue) # Sentinel
  PROVE  IInv'
<1> USE RecipeAssumption
<1>1. TypeOK /\ EventsPartitioned /\ MarkerMeansServed /\ FailuresAreTold /\ QueueShape /\ StateFollows
  BY DEF IInv, RecipeJobSound
<1>2. /\ queue # <<>> /\ queue' = Tail(queue)
      /\ heard' = [heard EXCEPT ![c] = Append(@, Head(queue))]
      /\ UNCHANGED <<state, result, failed, pc, sent, marker, del>>
  BY DEF Receive
<1>3. /\ sent \in Nat /\ queue \in Seq(0..MaxEvents) /\ Len(queue) \in Nat \ {0}
      /\ queue[1] # Sentinel /\ Len(queue') = Len(queue) - 1
      /\ queue' \in Seq(0..MaxEvents)
      /\ \A i \in 1..Len(queue') : queue'[i] = queue[i + 1]
      /\ Head(queue) = queue[1] /\ queue[1] \in 1..MaxEvents
  BY <1>1, <1>2, HeadTailProperties DEF TypeOK, Sentinel
<1>4. /\ Left \in Nat \ {0} /\ Left <= sent /\ Left' = Left - 1
      /\ pc = "ended" => Len(queue) > 1
  <2>1. Left \in Nat /\ Left <= sent
    BY <1>1, <1>3 DEF QueueShape, Left
  <2>2. pc = "ended" => Len(queue) > 1
    <3>1. pc = "ended" => queue[Len(queue)] = Sentinel
      BY <1>1, <1>2 DEF QueueShape
    <3>2. Len(queue) = 1 => queue[Len(queue)] # Sentinel
      BY <1>3
    <3>3. QED
      BY <1>3, <3>1, <3>2
  <2>3. queue' = <<>> <=> Len(queue') = 0
    BY <1>3, EmptySeq
  <2>4. CASE pc = "ended"
    <3>1. queue' # <<>> /\ pc' = "ended"
      BY <1>2, <1>3, <2>2, <2>3, <2>4
    <3>2. Left = Len(queue) - 1 /\ Left' = Len(queue') - 1
      BY <1>2, <2>4, <3>1 DEF Left
    <3>3. Len(queue) \in Nat /\ Len(queue') = Len(queue) - 1 /\ Len(queue) > 1
      BY <1>3, <2>2, <2>4
    <3>4. Left \in Nat \ {0} /\ Left' = Left - 1
      BY <2>1, <3>2, <3>3
    <3>5. QED
      BY <2>1, <2>2, <3>4
  <2>5. CASE pc # "ended"
    <3>1. Left = Len(queue) /\ Left' = Len(queue')
      BY <1>2, <2>5 DEF Left
    <3>2. QED
      BY <1>3, <2>1, <2>5, <3>1
  <2>6. QED
    BY <2>4, <2>5
<1>5. queue[1] = sent - Left + 1
  BY <1>1, <1>4 DEF QueueShape
<1>6. /\ \A d \in Clients \ {c} : heard'[d] = heard[d]
      /\ Len(heard[c]) \in Nat /\ Len(heard'[c]) = Len(heard[c]) + 1
      /\ \A i \in 1..Len(heard[c]) : heard'[c][i] = heard[c][i]
      /\ heard'[c][Len(heard[c]) + 1] = queue[1]
      /\ heard' \in [Clients -> Seq(1..MaxEvents)]
      /\ \A d \in Clients : heard[d] \in Seq(1..MaxEvents)
  BY <1>1, <1>2, <1>3, AppendProperties DEF TypeOK
<1>7. \A d \in Clients : \A i \in 1..Len(heard[d]) : heard[d][i] \in Nat /\ heard[d][i] < queue[1]
  <2> SUFFICES ASSUME NEW d \in Clients, NEW i \in 1..Len(heard[d])
               PROVE  heard[d][i] \in Nat /\ heard[d][i] < queue[1]
    OBVIOUS
  <2>1. heard[d][i] \in 1..MaxEvents
    BY <1>6
  <2>2. heard[d][i] <= sent - Left
    BY <1>1 DEF QueueShape
  <2>3. sent - Left < queue[1]
    BY <1>3, <1>4, <1>5
  <2>4. MaxEvents \in Nat
    BY DEF RecipeAssumption
  <2>5. heard[d][i] \in Nat /\ queue[1] \in Nat
    BY <1>3, <2>1, <2>4
  <2>6. sent - Left \in Int
    BY <1>3, <1>4
  <2>7. QED
    BY <2>2, <2>3, <2>5, <2>6
<1>8. QueueShape'
  <2>1. \A i \in 1..Left' : queue'[i] = sent' - Left' + i
    <3> SUFFICES ASSUME NEW i \in 1..Left'
                 PROVE  queue'[i] = sent' - Left' + i
      OBVIOUS
    <3>1. i + 1 \in 1..Left /\ i \in 1..Len(queue')
      BY <1>3, <1>4 DEF Left
    <3>2. queue[i + 1] = sent - Left + (i + 1)
      BY <1>1, <3>1 DEF QueueShape
    <3>3. QED
      BY <1>2, <1>3, <1>4, <3>1, <3>2
  <2>2. pc' = "ended" /\ queue' # <<>> => queue'[Len(queue')] = Sentinel
    BY <1>1, <1>2, <1>3, <1>4 DEF QueueShape
  <2>3. \A d \in Clients : \A i \in 1..Len(heard'[d]) : heard'[d][i] <= sent' - Left'
    <3> SUFFICES ASSUME NEW d \in Clients, NEW i \in 1..Len(heard'[d])
                 PROVE  heard'[d][i] <= sent' - Left'
      OBVIOUS
    <3>1. CASE i \in 1..Len(heard[d])
      <4>1. heard'[d][i] = heard[d][i]
        BY <1>6, <3>1
      <4>2. heard'[d][i] \in Nat /\ heard'[d][i] < queue[1]
        BY <1>7, <3>1, <4>1
      <4>3. QED
        BY <1>2, <1>3, <1>4, <1>5, <4>2
    <3>2. CASE d = c /\ i = Len(heard[c]) + 1
      BY <1>2, <1>3, <1>4, <1>5, <1>6, <3>2
    <3>3. d # c => Len(heard'[d]) = Len(heard[d])
      BY <1>6
    <3>4. QED
      BY <1>6, <3>1, <3>2, <3>3
  <2>4. Left' <= sent'
    BY <1>2, <1>3, <1>4
  <2>5. QED
    BY <2>1, <2>2, <2>3, <2>4 DEF QueueShape
<1>9. EventsPartitioned'
  <2>1. \A d \in Clients : \A i, j \in 1..Len(heard'[d]) : i < j => heard'[d][i] < heard'[d][j]
    <3> SUFFICES ASSUME NEW d \in Clients, NEW i \in 1..Len(heard'[d]), NEW j \in 1..Len(heard'[d]),
                        i < j
                 PROVE  heard'[d][i] < heard'[d][j]
      OBVIOUS
    <3>1. CASE d # c
      <4>1. heard'[d] = heard[d]
        BY <1>6, <3>1
      <4>2. QED
        BY <1>1, <4>1 DEF EventsPartitioned
    <3>2. CASE d = c
      <4>1. i \in 1..Len(heard[c])
        BY <1>6, <3>2
      <4>2. heard'[c][i] = heard[c][i]
        BY <1>6, <4>1
      <4>3. CASE j \in 1..Len(heard[c])
        <5>1. heard'[c][j] = heard[c][j]
          BY <1>6, <4>3
        <5>2. heard[c][i] < heard[c][j]
          BY <1>1, <4>1, <4>3 DEF EventsPartitioned
        <5>3. QED
          BY <3>2, <4>2, <5>1, <5>2
      <4>4. CASE j = Len(heard[c]) + 1
        <5>1. heard'[c][j] = queue[1]
          BY <1>6, <4>4
        <5>2. heard[c][i] < queue[1]
          BY <1>7, <4>1
        <5>3. QED
          BY <3>2, <4>2, <5>1, <5>2
      <4>5. j \in 1..(Len(heard[c]) + 1) /\ Len(heard[c]) \in Nat
        BY <1>6, <3>2
      <4>6. j \in 1..Len(heard[c]) \/ j = Len(heard[c]) + 1
        BY <4>5
      <4>7. QED
        BY <4>3, <4>4, <4>6
    <3>3. QED
      BY <3>1, <3>2
  <2>2. \A d, e \in Clients :
          d # e => \A i \in 1..Len(heard'[d]), j \in 1..Len(heard'[e]) : heard'[d][i] # heard'[e][j]
    <3>1. \A e \in Clients \ {c} : \A i \in 1..Len(heard'[c]), j \in 1..Len(heard'[e]) :
             heard'[c][i] # heard'[e][j]
      <4> SUFFICES ASSUME NEW e \in Clients \ {c}, NEW i \in 1..Len(heard'[c]), NEW j \in 1..Len(heard'[e])
                   PROVE  heard'[c][i] # heard'[e][j]
        OBVIOUS
      <4>1. heard'[e] = heard[e]
        BY <1>6
      <4>2. CASE i \in 1..Len(heard[c])
        <5>1. heard'[c][i] = heard[c][i]
          BY <1>6, <4>2
        <5>2. j \in 1..Len(heard[e])
          BY <4>1
        <5>3. heard[c][i] # heard[e][j]
          BY <1>1, <4>2, <5>2 DEF EventsPartitioned
        <5>4. QED
          BY <4>1, <5>1, <5>3
      <4>3. CASE i = Len(heard[c]) + 1
        <5>1. heard'[c][i] = queue[1]
          BY <1>6, <4>3
        <5>2. j \in 1..Len(heard[e])
          BY <4>1
        <5>3. heard[e][j] \in Nat /\ heard[e][j] < queue[1]
          BY <1>7, <5>2
        <5>4. QED
          BY <1>3, <4>1, <5>1, <5>3
      <4>4. i \in 1..(Len(heard[c]) + 1) /\ Len(heard[c]) \in Nat
        BY <1>6
      <4>5. i \in 1..Len(heard[c]) \/ i = Len(heard[c]) + 1
        BY <4>4
      <4>6. QED
        BY <4>2, <4>3, <4>5
    <3>2. \A d, e \in Clients \ {c} :
            d # e => \A i \in 1..Len(heard'[d]), j \in 1..Len(heard'[e]) : heard'[d][i] # heard'[e][j]
      <4> SUFFICES ASSUME NEW d \in Clients \ {c}, NEW e \in Clients \ {c}, d # e
                   PROVE  \A i \in 1..Len(heard'[d]), j \in 1..Len(heard'[e]) : heard'[d][i] # heard'[e][j]
        OBVIOUS
      <4>1. heard'[d] = heard[d] /\ heard'[e] = heard[e]
        BY <1>6
      <4>2. QED
        BY <1>1, <4>1 DEF EventsPartitioned
    <3>3. QED
      BY <3>1, <3>2
  <2>3. QED
    BY <2>1, <2>2 DEF EventsPartitioned
<1>10. TypeOK'
  <2>1. Len(queue') <= MaxEvents + 1
    BY <1>1, <1>3 DEF TypeOK
  <2>2. QED
    BY <1>1, <1>2, <1>3, <1>6, <2>1 DEF TypeOK
<1>11. MarkerMeansServed' /\ FailuresAreTold' /\ StateFollows'
  BY <1>1, <1>2 DEF MarkerMeansServed, FailuresAreTold, StateFollows, Served
<1>12. QED
  BY <1>8, <1>9, <1>10, <1>11 DEF IInv, RecipeJobSound

\* A DELETE reads the state, or overwrites it with "cancelled".
LEMMA DeletesKeep == ASSUME IInv, NEW d \in Deletes, DeleteChecks(d) \/ DeleteWrites(d) PROVE IInv'
<1>1. TypeOK /\ EventsPartitioned /\ MarkerMeansServed /\ FailuresAreTold /\ QueueShape /\ StateFollows
  BY DEF IInv, RecipeJobSound
<1>2. /\ UNCHANGED <<result, failed, pc, sent, queue, heard, marker>>
      /\ state' = state \/ state' = "cancelled"
  BY DEF DeleteChecks, DeleteWrites
<1>3. EventsPartitioned' /\ QueueShape'
  BY <1>2, QueueKept
<1>4. TypeOK'
  BY <1>1, <1>2 DEF TypeOK, DeleteChecks, DeleteWrites, Terminal
<1>5. MarkerMeansServed'
  BY <1>1, <1>2 DEF MarkerMeansServed, Served
<1>6. FailuresAreTold' /\ StateFollows'
  BY <1>1, <1>2 DEF FailuresAreTold, StateFollows
<1>7. QED
  BY <1>3, <1>4, <1>5, <1>6 DEF IInv, RecipeJobSound

\* Every step keeps the invariant.
LEMMA StepInvariant == IInv /\ [Next]_vars => IInv'
<1> SUFFICES ASSUME IInv, [Next]_vars
             PROVE  IInv'
  OBVIOUS
<1>1. CASE Progress
  BY <1>1, ProgressKeeps
<1>2. CASE RunEnds \/ StoreResult \/ Decide \/ WriteState
  BY <1>2, ThreadKeeps
<1>3. CASE Finally
  BY <1>3, FinallyKeeps
<1>4. CASE \E c \in Clients : Receive(c)
  BY <1>4, SentinelTaken, EventTaken
<1>5. CASE \E d \in Deletes : DeleteChecks(d) \/ DeleteWrites(d)
  BY <1>5, DeletesKeep
<1>6. CASE UNCHANGED vars
  <2>1. UNCHANGED <<state, result, failed, pc, sent, queue, heard, marker, del>>
    BY <1>6 DEF vars
  <2>2. EventsPartitioned' /\ QueueShape'
    BY <2>1, QueueKept
  <2>3. QED
    BY <2>1, <2>2 DEF IInv, RecipeJobSound, TypeOK, MarkerMeansServed, FailuresAreTold, StateFollows, Served
<1>7. QED
  BY <1>1, <1>2, <1>3, <1>4, <1>5, <1>6 DEF Next, Thread

\* The invariant of a recipe job holds in every state of it, however the
\* thread, the streams and the DELETE requests interleave.
THEOREM Invariance == Spec => []IInv
<1>1. Init => IInv
  BY InitInvariant
<1>2. IInv /\ [Next]_vars => IInv'
  BY StepInvariant
<1>3. QED
  BY <1>1, <1>2, PTL DEF Spec

\* The streams of a job hear its events in order and none twice, whoever was
\* told the job is over is served an answer, and a job with a failed input
\* never counts as completed (_run_job_blocking, stream_events, cancel_job).
THEOREM RecipeJobSafe == Spec => []RecipeJobSound
<1>1. IInv => RecipeJobSound
  BY DEF IInv
<1>2. QED
  BY <1>1, Invariance, PTL
===============================================================================
