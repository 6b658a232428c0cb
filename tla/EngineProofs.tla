----------------------------- MODULE EngineProofs -----------------------------
(***************************************************************************)
(* Safety of the dispatch engine, for every set of calls and contents,     *)
(* every channel capacity and batch size, and every cache policy.          *)
(***************************************************************************)
EXTENDS Engine, TLAPS

(***************************************************************************)
(* Sequences: what appending and taking the first element do to the        *)
(* members of a sequence without repetitions.                              *)
(***************************************************************************)

\* Appending a new element keeps a sequence free of repetitions.
LEMMA AppendDistinct ==
  ASSUME NEW S, NEW s \in Seq(S), NEW e \in S, Distinct(s), e \notin Members(s)
  PROVE  /\ Append(s, e) \in Seq(S)
         /\ Len(Append(s, e)) = Len(s) + 1
         /\ Distinct(Append(s, e))
         /\ Members(Append(s, e)) = Members(s) \cup {e}
<1>1. /\ Append(s, e) \in Seq(S)
      /\ Len(Append(s, e)) = Len(s) + 1
      /\ Len(s) \in Nat
      /\ \A i \in 1..Len(s) : Append(s, e)[i] = s[i]
      /\ Append(s, e)[Len(s) + 1] = e
  OBVIOUS
<1>2. Distinct(Append(s, e))
  BY <1>1 DEF Distinct, Members
<1>3. Members(Append(s, e)) = Members(s) \cup {e}
  <2>1. Members(Append(s, e)) \subseteq Members(s) \cup {e}
    BY <1>1 DEF Members
  <2>2. Members(s) \cup {e} \subseteq Members(Append(s, e))
    <3>1. e \in Members(Append(s, e))
      BY <1>1 DEF Members
    <3>2. ASSUME NEW i \in 1..Len(s)
          PROVE  s[i] \in Members(Append(s, e))
      BY <1>1 DEF Members
    <3>3. QED
      BY <3>1, <3>2 DEF Members
  <2>3. QED
    BY <2>1, <2>2
<1>4. QED
  BY <1>1, <1>2, <1>3

\* Removing the first element of a sequence free of repetitions.
LEMMA TailDistinct ==
  ASSUME NEW S, NEW s \in Seq(S), s # <<>>, Distinct(s)
  PROVE  /\ Head(s) \in S
         /\ Tail(s) \in Seq(S)
         /\ Len(Tail(s)) = Len(s) - 1
         /\ Distinct(Tail(s))
         /\ Members(s) = Members(Tail(s)) \cup {Head(s)}
         /\ Head(s) \notin Members(Tail(s))
<1>1. /\ Tail(s) \in Seq(S)
      /\ Len(s) \in Nat \ {0}
      /\ Len(Tail(s)) = Len(s) - 1
      /\ \A i \in 1..(Len(s) - 1) : Tail(s)[i] = s[i + 1]
      /\ Head(s) = s[1]
      /\ s[1] \in S
  OBVIOUS
<1>2. Distinct(Tail(s))
  BY <1>1 DEF Distinct
<1>3. Head(s) \notin Members(Tail(s))
  BY <1>1 DEF Distinct, Members
<1>4. Members(s) \subseteq Members(Tail(s)) \cup {Head(s)}
  <2>1. ASSUME NEW i \in 1..Len(s)
        PROVE  s[i] \in Members(Tail(s)) \cup {Head(s)}
    <3>1. CASE i = 1
      BY <1>1, <3>1
    <3>2. CASE i # 1
      <4>1. i - 1 \in 1..Len(Tail(s)) /\ Tail(s)[i - 1] = s[i]
        BY <1>1, <3>2
      <4>2. QED
        BY <4>1 DEF Members
    <3>3. QED
      BY <3>1, <3>2
  <2>2. QED
    BY <2>1 DEF Members
<1>5. Members(Tail(s)) \cup {Head(s)} \subseteq Members(s)
  <2>1. Head(s) \in Members(s)
    BY <1>1 DEF Members
  <2>2. ASSUME NEW i \in 1..Len(Tail(s))
        PROVE  Tail(s)[i] \in Members(s)
    <3>1. i + 1 \in 1..Len(s) /\ Tail(s)[i] = s[i + 1]
      BY <1>1
    <3>2. QED
      BY <3>1 DEF Members
  <2>3. QED
    BY <2>1, <2>2 DEF Members
<1>6. QED
  BY <1>1, <1>2, <1>3, <1>4, <1>5
-------------------------------------------------------------------------------
(***************************************************************************)
(* Typing.                                                                 *)
(***************************************************************************)

\* Misses are held only while a batch is filled or with the backend.
BatchPhases == phase \in {"recv", "put", "gone"} => batch = <<>>

\* Every state has its types, the channel respects its capacity and the batch
\* its size.
LEMMA TypeInit == Init => TypeOK /\ BatchPhases
<1> SUFFICES ASSUME Init PROVE TypeOK /\ BatchPhases
  OBVIOUS
<1>1. /\ queue \in Seq(Calls) /\ Len(queue) <= Capacity
      /\ batch \in Seq(Calls) /\ Len(batch) <= MaxSize
  BY EngineAssumption DEF Init
<1>2. puts \in Seq(Stored)
  BY DEF Init
<1>3. QED
  BY <1>1, <1>2 DEF Init, TypeOK, BatchPhases

LEMMA CacheGetType ==
  ASSUME TypeOK, NEW c \in Contents
  PROVE  CacheGet(c) \subseteq Outputs \cup {NoEntry}
  BY DEF TypeOK, CacheGet

\* Taking an item keeps the types if the batch has room for it.
LEMMA TakeItemType ==
  ASSUME TypeOK, Len(batch) < MaxSize,
         NEW p \in {"recv", "window", "drain", "call", "put", "gone"},
         NEW q \in {"recv", "window", "drain", "call", "put", "gone"},
         TakeItem(p, q)
  PROVE  TypeOK'
<1>1. /\ queue # <<>> /\ queue' = Tail(queue)
      /\ UNCHANGED <<cancelled, routed, putJob, puts, cache, computed>>
  BY DEF TakeItem
<1>2. /\ Head(queue) \in Calls /\ Tail(queue) \in Seq(Calls)
      /\ Len(Tail(queue)) <= Capacity
  BY <1>1, EngineAssumption DEF TypeOK
<1>3. PICK found \in CacheGet(ContentOf[Head(queue)]) :
        \/ found # NoEntry /\ Reply(Head(queue), found) /\ phase' = p /\ UNCHANGED batch
        \/ /\ found = NoEntry /\ batch' = Append(batch, Head(queue)) /\ phase' = q
           /\ UNCHANGED <<disp, got>>
  BY DEF TakeItem
<1>4. found \in Outputs \cup {NoEntry}
  BY <1>2, CacheGetType, EngineAssumption
<1>5. CASE found # NoEntry /\ Reply(Head(queue), found) /\ phase' = p /\ UNCHANGED batch
  BY <1>1, <1>2, <1>4, <1>5 DEF TypeOK, Reply
<1>6. CASE /\ found = NoEntry /\ batch' = Append(batch, Head(queue)) /\ phase' = q
           /\ UNCHANGED <<disp, got>>
  <2>1. batch' \in Seq(Calls) /\ Len(batch') <= MaxSize
    BY <1>2, <1>6, EngineAssumption DEF TypeOK
  <2>2. QED
    BY <1>1, <1>2, <1>6, <2>1 DEF TypeOK
<1>7. QED
  BY <1>3, <1>5, <1>6

\* A result for each position of the batch keeps the types of the replies.
LEMMA DistributeType ==
  ASSUME TypeOK, NEW outs \in [1..Len(batch) -> Outputs \cup {ErrWorker}],
         Distribute(outs)
  PROVE  /\ disp' \in [Calls -> {"idle", "sending", "waiting", "done", "dropped"}]
         /\ got' \in [Calls -> Outputs \cup {ErrWorker, NoResult}]
<1>1. ASSUME NEW d \in Calls, \E i \in 1..Len(batch) : batch[i] = d
      PROVE  outs[Position(d)] \in Outputs \cup {ErrWorker}
  BY <1>1 DEF Position
<1>2. QED
  BY <1>1 DEF Distribute, DistributeBy, TypeOK

LEMMA TypeNext == TypeOK /\ BatchPhases /\ [Next]_vars => TypeOK'
<1> SUFFICES ASSUME TypeOK, BatchPhases, [Next]_vars PROVE TypeOK'
  OBVIOUS
<1> USE DEF TypeOK
<1>1. CASE Cancel
  BY <1>1 DEF Cancel, batcherVars
<1>2. CASE Shutdown
  BY <1>2 DEF Shutdown, batcherVars
<1>3. ASSUME NEW d \in Calls, Refuse(d) PROVE TypeOK'
  BY <1>3 DEF Refuse, batcherVars
<1>4. ASSUME NEW d \in Calls, Begin(d) PROVE TypeOK'
  BY <1>4 DEF Begin, batcherVars
<1>5. ASSUME NEW d \in Calls, Enqueue(d) PROVE TypeOK'
  <2>1. queue' \in Seq(Calls) /\ Len(queue') <= Capacity
    BY <1>5, EngineAssumption DEF Enqueue
  <2>2. QED
    BY <1>5, <2>1 DEF Enqueue, batcherVars
<1>6. ASSUME NEW d \in Calls, Abandon(d) PROVE TypeOK'
  BY <1>6 DEF Abandon, batcherVars
<1>7. CASE First
  <2>1. Len(batch) < MaxSize
    BY <1>7, EngineAssumption DEF First, BatchPhases
  <2>2. QED
    BY <1>7, <2>1, TakeItemType DEF First
<1>8. CASE FillWindow
  BY <1>8, TakeItemType DEF FillWindow
<1>9. CASE FillDrain
  BY <1>9, TakeItemType DEF FillDrain
<1>10. CASE WindowEnds
  BY <1>10 DEF WindowEnds
<1>11. CASE DrainEnds
  BY <1>11 DEF DrainEnds, LeaveDrain
<1>12. CASE CallSucceeds
  <2>1. PICK outs \in [1..Len(batch) -> Outputs] :
          /\ \A i \in 1..Len(batch) : outs[i].of = ContentOf[batch[i]]
          /\ Distribute(outs)
          /\ puts' = ToCache(outs)
          /\ computed' = computed \cup {outs[i] : i \in 1..Len(batch)}
    BY <1>12 DEF CallSucceeds, ReplyAndStore
  <2>2. /\ disp' \in [Calls -> {"idle", "sending", "waiting", "done", "dropped"}]
        /\ got' \in [Calls -> Outputs \cup {ErrWorker, NoResult}]
    BY <2>1, DistributeType
  <2>3. puts' \in Seq(Stored)
    <3>1. \A i \in 1..Len(batch) : <<ContentOf[batch[i]], outs[i]>> \in Stored
      BY <2>1, EngineAssumption DEF Stored
    <3>2. QED
      BY <2>1, <3>1 DEF ToCache
  <2>4. computed' \subseteq Outputs
    BY <2>1
  <2>5. QED
    BY <1>12, <2>2, <2>3, <2>4, EngineAssumption DEF CallSucceeds, ReplyAndStore
<1>13. CASE CallFails
  <2>1. /\ disp' \in [Calls -> {"idle", "sending", "waiting", "done", "dropped"}]
        /\ got' \in [Calls -> Outputs \cup {ErrWorker, NoResult}]
    BY <1>13, DistributeType DEF CallFails
  <2>2. QED
    BY <1>13, <2>1, EngineAssumption DEF CallFails
<1>14. CASE PutStarts
  BY <1>14 DEF PutStarts
<1>15. CASE PutNext
  <2>1. /\ puts' \in Seq(Stored)
        /\ Head(puts) \in Stored
    BY <1>15 DEF PutNext
  <2>2. cache' \in [Contents -> Outputs \cup {NoEntry}]
    BY <1>15, <2>1 DEF PutNext, CachePut, Stored
  <2>3. QED
    BY <1>15, <2>1, <2>2 DEF PutNext
<1>16. CASE PutEnds
  BY <1>16 DEF PutEnds
<1>17. CASE LoopExits
  BY <1>17 DEF LoopExits
<1>18. CASE DropRuntime
  <2>1. /\ queue' \in Seq(Calls) /\ Len(queue') <= Capacity
        /\ batch' \in Seq(Calls) /\ Len(batch') <= MaxSize
    BY <1>18, EngineAssumption DEF DropRuntime
  <2>2. puts' \in Seq(Stored)
    BY <1>18 DEF DropRuntime
  <2>3. QED
    BY <1>18, <2>1, <2>2 DEF DropRuntime
<1>19. CASE UNCHANGED vars
  BY <1>19 DEF vars
<1>20. QED
  BY <1>1, <1>2, <1>3, <1>4, <1>5, <1>6, <1>7, <1>8, <1>9, <1>10, <1>11, <1>12,
     <1>13, <1>14, <1>15, <1>16, <1>17, <1>18, <1>19 DEF Next
-------------------------------------------------------------------------------
(***************************************************************************)
(* The inductive invariant.                                                *)
(***************************************************************************)

\* What sits in the channel or in the batch has not been answered.
ItemsPending ==
  \A d \in Members(queue) \cup Members(batch) : disp[d] \in {"waiting", "dropped"}

\* The loop ends only after its route is cleared.
GoneUnrouted == phase = "gone" => ~routed

\* Outputs are stored only while the loop waits for that.
PutPhases == puts # <<>> \/ putJob # "none" => phase = "put"

\* What is to be stored sits under the key it was computed for.
PutsSound == \A i \in 1..Len(puts) : puts[i][2] \in OutputsOf(puts[i][1])

IInv == /\ TypeOK /\ BatchPhases /\ ItemsPending /\ GoneUnrouted /\ PutPhases
        /\ PutsSound
        /\ NoCallStranded
        /\ AnswersOwnContent
        /\ CacheKeySound
        /\ NoRedundantCall

LEMMA InvInit == Init => IInv
<1> SUFFICES ASSUME Init PROVE IInv
  OBVIOUS
<1>1. TypeOK /\ BatchPhases
  BY TypeInit
<1>2. Members(queue) = {} /\ Members(batch) = {} /\ Distinct(queue) /\ Distinct(batch)
  BY DEF Init, Members, Distinct
<1>3. NoCallStranded /\ ItemsPending
  BY <1>2 DEF Init, NoCallStranded, ItemsPending
<1>4. GoneUnrouted /\ PutPhases /\ PutsSound
  BY DEF Init, GoneUnrouted, PutPhases, PutsSound
<1>5. AnswersOwnContent /\ CacheKeySound /\ NoRedundantCall
  BY DEF Init, AnswersOwnContent, CacheKeySound, NoRedundantCall
<1>6. QED
  BY <1>1, <1>3, <1>4, <1>5 DEF IInv

\* What the replies of a batch do: its waiting members are answered, each
\* with the result at its own position, and nobody else is touched.
LEMMA DistributeFacts ==
  ASSUME TypeOK, NEW outs, Distribute(outs)
  PROVE  \A d \in Calls :
           /\ disp[d] = "waiting" /\ d \in Members(batch) =>
                /\ disp'[d] = "done"
                /\ \E i \in 1..Len(batch) : batch[i] = d /\ got'[d] = outs[i]
           /\ ~(disp[d] = "waiting" /\ d \in Members(batch)) =>
                disp'[d] = disp[d] /\ got'[d] = got[d]
<1> SUFFICES ASSUME NEW d \in Calls
             PROVE  /\ disp[d] = "waiting" /\ d \in Members(batch) =>
                         /\ disp'[d] = "done"
                         /\ \E i \in 1..Len(batch) : batch[i] = d /\ got'[d] = outs[i]
                    /\ ~(disp[d] = "waiting" /\ d \in Members(batch)) =>
                         disp'[d] = disp[d] /\ got'[d] = got[d]
  OBVIOUS
<1>1. d \in Members(batch) <=> \E i \in 1..Len(batch) : batch[i] = d
  BY DEF Members
<1>2. ASSUME d \in Members(batch)
      PROVE  Position(d) \in 1..Len(batch) /\ batch[Position(d)] = d
  BY <1>1, <1>2 DEF Position
<1>3. QED
  BY <1>1, <1>2 DEF Distribute, DistributeBy

\* What taking an item does: it leaves the channel, and either its caller has
\* an answer from the cache or it joins the batch.
LEMMA TakeItemFacts ==
  ASSUME IInv, NEW p, NEW q, TakeItem(p, q)
  PROVE  \E h \in Members(queue) :
           /\ h \in Calls /\ h \notin Members(batch)
           /\ Members(queue') = Members(queue) \ {h} /\ Distinct(queue')
           /\ \A d \in Calls : d # h => disp'[d] = disp[d] /\ got'[d] = got[d]
           /\ \/ /\ Members(batch') = Members(batch) /\ UNCHANGED batch
                 /\ disp'[h] \in {"done", "dropped"} /\ phase' = p
                 /\ got'[h] \in {got[h], cache[ContentOf[h]]}
                 /\ got'[h] # got[h] => cache[ContentOf[h]] # NoEntry
              \/ /\ batch' = Append(batch, h) /\ Distinct(batch')
                 /\ Members(batch') = Members(batch) \cup {h}
                 /\ disp'[h] = disp[h] /\ got'[h] = got[h] /\ phase' = q
                 /\ CachePolicy = "use" /\ ~CacheFaults => cache[ContentOf[h]] = NoEntry
<1> DEFINE h == Head(queue)
<1>1. /\ queue # <<>> /\ queue' = Tail(queue)
      /\ queue \in Seq(Calls) /\ batch \in Seq(Calls)
      /\ Distinct(queue) /\ Distinct(batch)
      /\ Members(queue) \cap Members(batch) = {}
  BY DEF TakeItem, IInv, TypeOK, NoCallStranded
<1>2. /\ h \in Calls /\ h \in Members(queue) /\ h \notin Members(batch)
      /\ Members(queue') = Members(queue) \ {h} /\ Distinct(queue')
  BY <1>1, TailDistinct
<1>3. disp[h] \in {"waiting", "dropped"}
  BY <1>2 DEF IInv, ItemsPending
<1>4. PICK found \in CacheGet(ContentOf[h]) :
        \/ found # NoEntry /\ Reply(h, found) /\ phase' = p /\ UNCHANGED batch
        \/ /\ found = NoEntry /\ batch' = Append(batch, h) /\ phase' = q
           /\ UNCHANGED <<disp, got>>
  BY DEF TakeItem
<1>5. CASE found # NoEntry /\ Reply(h, found) /\ phase' = p /\ UNCHANGED batch
  <2>1. found = cache[ContentOf[h]]
    BY <1>4, <1>5 DEF CacheGet
  <2>2. \A d \in Calls : d # h => disp'[d] = disp[d] /\ got'[d] = got[d]
    BY <1>2, <1>5 DEF Reply, IInv, TypeOK
  <2>3. disp'[h] \in {"done", "dropped"} /\ got'[h] \in {got[h], found}
    BY <1>2, <1>3, <1>5 DEF Reply, IInv, TypeOK
  <2>4. QED
    BY <1>2, <1>5, <2>1, <2>2, <2>3
<1>6. CASE /\ found = NoEntry /\ batch' = Append(batch, h) /\ phase' = q
           /\ UNCHANGED <<disp, got>>
  <2>1. Distinct(batch') /\ Members(batch') = Members(batch) \cup {h}
    BY <1>1, <1>2, <1>6, AppendDistinct
  <2>2. CachePolicy = "use" /\ ~CacheFaults => cache[ContentOf[h]] = NoEntry
    BY <1>4, <1>6 DEF CacheGet
  <2>3. QED
    BY <1>2, <1>6, <2>1, <2>2
<1>7. QED
  BY <1>4, <1>5, <1>6

\* Taking an item preserves everything the invariant says beyond typing.
LEMMA TakeItemInv ==
  ASSUME IInv, NEW p \in {"window", "drain"}, NEW q \in {"window", "drain"},
         phase \in {"recv", "window", "drain"}, TakeItem(p, q)
  PROVE  /\ BatchPhases' /\ ItemsPending' /\ GoneUnrouted' /\ PutPhases' /\ PutsSound'
         /\ NoCallStranded' /\ AnswersOwnContent' /\ CacheKeySound' /\ NoRedundantCall'
<1> USE DEF IInv
<1>1. PICK h \in Members(queue) :
           /\ h \in Calls /\ h \notin Members(batch)
           /\ Members(queue') = Members(queue) \ {h} /\ Distinct(queue')
           /\ \A d \in Calls : d # h => disp'[d] = disp[d] /\ got'[d] = got[d]
           /\ \/ /\ Members(batch') = Members(batch) /\ UNCHANGED batch
                 /\ disp'[h] \in {"done", "dropped"} /\ phase' = p
                 /\ got'[h] \in {got[h], cache[ContentOf[h]]}
                 /\ got'[h] # got[h] => cache[ContentOf[h]] # NoEntry
              \/ /\ batch' = Append(batch, h) /\ Distinct(batch')
                 /\ Members(batch') = Members(batch) \cup {h}
                 /\ disp'[h] = disp[h] /\ got'[h] = got[h] /\ phase' = q
                 /\ CachePolicy = "use" /\ ~CacheFaults => cache[ContentOf[h]] = NoEntry
  BY TakeItemFacts
<1>2. /\ UNCHANGED <<cancelled, routed, putJob, puts, cache, computed>>
      /\ phase' \in {"window", "drain"}
  BY <1>1 DEF TakeItem
<1>3. /\ Members(queue) \subseteq Calls /\ Members(batch) \subseteq Calls
  BY DEF TypeOK, Members
<1>4. BatchPhases' /\ GoneUnrouted'
  BY <1>2 DEF BatchPhases, GoneUnrouted
<1>5. PutPhases' /\ PutsSound' /\ CacheKeySound'
  BY <1>2 DEF PutPhases, PutsSound, CacheKeySound
<1>6. ItemsPending'
  BY <1>1, <1>3 DEF ItemsPending
<1>7. NoCallStranded'
  <2>1. /\ Distinct(queue') /\ Distinct(batch')
        /\ Members(queue') \cap Members(batch') = {}
    BY <1>1 DEF NoCallStranded
  <2>2. \A d \in Calls : disp'[d] = "waiting"
          => d \in Members(queue') \cup Members(batch')
    BY <1>1 DEF NoCallStranded
  <2>3. QED
    BY <1>2, <2>1, <2>2 DEF NoCallStranded
<1>8. AnswersOwnContent'
  <2>1. \A d \in Calls : got'[d] = got[d] \/ got'[d] \in OutputsOf(ContentOf[d])
    BY <1>1, EngineAssumption DEF CacheKeySound
  <2>2. QED
    BY <2>1 DEF AnswersOwnContent
<1>9. NoRedundantCall'
  <2>1. SUFFICES ASSUME CachePolicy = "use", ~CacheFaults, NEW i \in 1..Len(batch')
                 PROVE  cache[ContentOf[batch'[i]]] = NoEntry
    BY <1>2 DEF NoRedundantCall
  <2>2. \A d \in Members(batch) : cache[ContentOf[d]] = NoEntry
    BY <2>1 DEF NoRedundantCall, BatchPhases, Members
  <2>3. batch'[i] \in Members(batch')
    BY DEF Members
  <2>4. QED
    BY <1>1, <2>1, <2>2, <2>3
<1>10. QED
  BY <1>4, <1>5, <1>6, <1>7, <1>8, <1>9

\* Answering a batch preserves everything the invariant says beyond typing;
\* what is left is about the outputs and what is stored.
LEMMA DistributeInv ==
  ASSUME IInv, phase = "call", NEW outs, Distribute(outs),
         \A i \in 1..Len(batch) :
           outs[i] \in OutputsOf(ContentOf[batch[i]]) \cup {ErrWorker},
         batch' = <<>>, queue' = queue, routed' = routed, phase' \in {"recv", "put"}
  PROVE  /\ BatchPhases' /\ ItemsPending' /\ GoneUnrouted'
         /\ NoCallStranded' /\ AnswersOwnContent' /\ NoRedundantCall'
<1> USE DEF IInv
<1>1. \A d \in Calls :
           /\ disp[d] = "waiting" /\ d \in Members(batch) =>
                /\ disp'[d] = "done"
                /\ \E i \in 1..Len(batch) : batch[i] = d /\ got'[d] = outs[i]
           /\ ~(disp[d] = "waiting" /\ d \in Members(batch)) =>
                disp'[d] = disp[d] /\ got'[d] = got[d]
  BY DistributeFacts
<1>2. /\ Members(batch') = {} /\ Distinct(batch') /\ Members(queue) \subseteq Calls
  BY DEF Members, Distinct, TypeOK
<1>3. BatchPhases' /\ GoneUnrouted'
  BY DEF BatchPhases, GoneUnrouted
<1>4. ItemsPending'
  BY <1>1, <1>2 DEF ItemsPending, NoCallStranded
<1>5. NoCallStranded'
  BY <1>1, <1>2 DEF NoCallStranded
<1>6. AnswersOwnContent'
  BY <1>1 DEF AnswersOwnContent
<1>7. NoRedundantCall'
  BY DEF NoRedundantCall
<1>8. QED
  BY <1>3, <1>4, <1>5, <1>6, <1>7

\* A step that leaves the channel, the batch and the answers alone, and in
\* which callers only move while they own no item, keeps the calls tracked.
LEMMA CallerInv ==
  ASSUME IInv, NEW d \in Calls, NEW s,
         disp' = [disp EXCEPT ![d] = s],
         \/ disp[d] = "idle" /\ s = "done"
         \/ disp[d] = "idle" /\ s = "sending" /\ phase # "gone"
         \/ s = "dropped",
         UNCHANGED <<queue, batch, phase>>
  PROVE  ItemsPending' /\ NoCallStranded'
<1> USE DEF IInv, TypeOK
<1>1. d \in Members(queue) \cup Members(batch) => disp[d] # "idle"
  BY DEF ItemsPending
<1>2. Members(queue) \subseteq Calls /\ Members(batch) \subseteq Calls
  BY DEF Members
<1>3. ItemsPending'
  BY <1>1, <1>2 DEF ItemsPending
<1>4. InFlight' \subseteq InFlight \/ phase # "gone"
  BY DEF InFlight
<1>5. NoCallStranded'
  BY <1>1, <1>4 DEF NoCallStranded
<1>6. QED
  BY <1>3, <1>5

LEMMA InvNext == IInv /\ [Next]_vars => IInv'
<1> SUFFICES ASSUME IInv, [Next]_vars PROVE IInv'
  OBVIOUS
<1> USE DEF IInv
<1>0. TypeOK'
  BY TypeNext
<1> DEFINE Rest == /\ BatchPhases /\ ItemsPending /\ GoneUnrouted /\ PutPhases
                   /\ PutsSound /\ NoCallStranded /\ AnswersOwnContent
                   /\ CacheKeySound /\ NoRedundantCall
<1> SUFFICES Rest'
  BY <1>0
<1>1. CASE Cancel
  BY <1>1 DEF Cancel, batcherVars, BatchPhases, ItemsPending, GoneUnrouted, PutPhases,
     PutsSound, NoCallStranded, AnswersOwnContent, CacheKeySound, NoRedundantCall, InFlight
<1>2. CASE Shutdown
  BY <1>2 DEF Shutdown, batcherVars, BatchPhases, ItemsPending, GoneUnrouted, PutPhases,
     PutsSound, NoCallStranded, AnswersOwnContent, CacheKeySound, NoRedundantCall, InFlight
<1>3. ASSUME NEW d \in Calls, Refuse(d) PROVE Rest'
  <2>1. ItemsPending' /\ NoCallStranded'
    BY <1>3, CallerInv DEF Refuse, batcherVars
  <2>2. AnswersOwnContent'
    BY <1>3 DEF Refuse, AnswersOwnContent, TypeOK
  <2>3. QED
    BY <1>3, <2>1, <2>2 DEF Refuse, batcherVars, BatchPhases, GoneUnrouted, PutPhases,
       PutsSound, CacheKeySound, NoRedundantCall
<1>4. ASSUME NEW d \in Calls, Begin(d) PROVE Rest'
  <2>1. phase # "gone"
    BY <1>4 DEF Begin, Admitted, GoneUnrouted
  <2>2. ItemsPending' /\ NoCallStranded'
    BY <1>4, <2>1, CallerInv DEF Begin, batcherVars
  <2>3. QED
    BY <1>4, <2>2 DEF Begin, batcherVars, BatchPhases, GoneUnrouted, PutPhases,
       PutsSound, CacheKeySound, NoRedundantCall, AnswersOwnContent
<1>5. ASSUME NEW d \in Calls, Enqueue(d) PROVE Rest'
  <2>1. d \notin Members(queue) /\ d \notin Members(batch)
    BY <1>5 DEF Enqueue, ItemsPending
  <2>2. Distinct(queue') /\ Members(queue') = Members(queue) \cup {d}
    BY <1>5, <2>1, AppendDistinct DEF Enqueue, NoCallStranded, TypeOK
  <2>3. /\ UNCHANGED <<phase, batch, cache, puts, putJob, got, routed>>
        /\ disp' = [disp EXCEPT ![d] = "waiting"]
        /\ phase # "gone"
    BY <1>5 DEF Enqueue, batcherVars
  <2>4. ItemsPending'
    <3>1. Members(queue) \subseteq Calls /\ Members(batch) \subseteq Calls
      BY DEF TypeOK, Members
    <3>2. /\ disp'[d] = "waiting"
          /\ \A x \in Calls \ {d} : disp'[x] = disp[x]
      BY <2>3 DEF TypeOK
    <3>3. Members(batch') = Members(batch)
      BY <2>3
    <3>4. QED
      BY <2>2, <3>1, <3>2, <3>3 DEF ItemsPending
  <2>5. NoCallStranded'
    BY <2>1, <2>2, <2>3 DEF NoCallStranded, TypeOK
  <2>6. QED
    BY <2>3, <2>4, <2>5 DEF BatchPhases, GoneUnrouted, PutPhases,
       PutsSound, CacheKeySound, NoRedundantCall, AnswersOwnContent
<1>6. ASSUME NEW d \in Calls, Abandon(d) PROVE Rest'
  <2>1. ItemsPending' /\ NoCallStranded'
    BY <1>6, CallerInv DEF Abandon, batcherVars
  <2>2. QED
    BY <1>6, <2>1 DEF Abandon, batcherVars, BatchPhases, GoneUnrouted, PutPhases,
       PutsSound, CacheKeySound, NoRedundantCall, AnswersOwnContent
<1>7. CASE First
  BY <1>7, TakeItemInv DEF First
<1>8. CASE FillWindow
  BY <1>8, TakeItemInv DEF FillWindow
<1>9. CASE FillDrain
  BY <1>9, TakeItemInv DEF FillDrain
<1>10. CASE WindowEnds
  BY <1>10 DEF WindowEnds, BatchPhases, ItemsPending, GoneUnrouted, PutPhases,
     PutsSound, NoCallStranded, AnswersOwnContent, CacheKeySound, NoRedundantCall, InFlight
<1>11. CASE DrainEnds
  BY <1>11 DEF DrainEnds, LeaveDrain, BatchPhases, ItemsPending, GoneUnrouted, PutPhases,
     PutsSound, NoCallStranded, AnswersOwnContent, CacheKeySound, NoRedundantCall, InFlight
<1>12. CASE CallSucceeds
  <2>1. PICK outs \in [1..Len(batch) -> Outputs] :
          /\ \A i \in 1..Len(batch) : outs[i].of = ContentOf[batch[i]]
          /\ Distribute(outs)
          /\ puts' = ToCache(outs)
    BY <1>12 DEF CallSucceeds, ReplyAndStore
  <2>2. /\ phase = "call" /\ phase' = "put" /\ batch' = <<>>
        /\ UNCHANGED <<routed, queue, cache>>
    BY <1>12 DEF CallSucceeds, ReplyAndStore
  <2>3. \A i \in 1..Len(batch) : outs[i] \in OutputsOf(ContentOf[batch[i]])
    BY <2>1 DEF Outputs, OutputsOf
  <2>4. /\ BatchPhases' /\ ItemsPending' /\ GoneUnrouted'
        /\ NoCallStranded' /\ AnswersOwnContent' /\ NoRedundantCall'
    BY <2>1, <2>2, <2>3, DistributeInv
  <2>5. PutPhases' /\ CacheKeySound'
    BY <2>2 DEF PutPhases, CacheKeySound
  <2>6. PutsSound'
    <3>1. Len(batch) \in Nat
      BY DEF TypeOK
    <3>2. Len(puts') = Len(batch)
      BY <2>1, <3>1 DEF ToCache
    <3>3. \A i \in 1..Len(batch) : puts'[i] = <<ContentOf[batch[i]], outs[i]>>
      BY <2>1 DEF ToCache
    <3>4. QED
      BY <2>3, <3>2, <3>3 DEF PutsSound
  <2>7. QED
    BY <2>4, <2>5, <2>6
<1>13. CASE CallFails
  <2>1. /\ Distribute([i \in 1..Len(batch) |-> ErrWorker])
        /\ phase = "call" /\ phase' = "recv" /\ batch' = <<>>
        /\ UNCHANGED <<routed, queue, putJob, puts, cache>>
    BY <1>13 DEF CallFails
  <2>2. /\ BatchPhases' /\ ItemsPending' /\ GoneUnrouted'
        /\ NoCallStranded' /\ AnswersOwnContent' /\ NoRedundantCall'
    BY <2>1, DistributeInv
  <2>3. QED
    BY <2>1, <2>2 DEF PutPhases, PutsSound, CacheKeySound
<1>14. CASE PutStarts
  BY <1>14 DEF PutStarts, BatchPhases, ItemsPending, GoneUnrouted, PutPhases,
     PutsSound, NoCallStranded, AnswersOwnContent, CacheKeySound, NoRedundantCall, InFlight
<1>15. CASE PutNext
  <2>1. /\ puts \in Seq(Stored) /\ puts # <<>> /\ puts' = Tail(puts)
        /\ UNCHANGED <<routed, disp, got, queue, phase, batch, putJob>>
    BY <1>15 DEF PutNext, TypeOK
  <2>2. /\ Head(puts) = puts[1] /\ 1 \in 1..Len(puts) /\ Head(puts) \in Stored
        /\ Len(puts') = Len(puts) - 1 /\ Len(puts) \in Nat
        /\ \A i \in 1..Len(puts') : puts'[i] = puts[i + 1] /\ i + 1 \in 1..Len(puts)
    BY <2>1
  <2>3. phase = "put"
    BY <2>1 DEF PutPhases
  <2>4. PutsSound'
    BY <2>2 DEF PutsSound
  <2>5. CacheKeySound'
    <3>1. Head(puts)[1] \in Contents /\ Head(puts)[2] \in OutputsOf(Head(puts)[1])
      BY <2>2 DEF Stored, PutsSound
    <3>2. QED
      BY <1>15, <3>1 DEF PutNext, CachePut, CacheKeySound, TypeOK
  <2>6. QED
    BY <2>1, <2>3, <2>4, <2>5 DEF BatchPhases, ItemsPending, GoneUnrouted, PutPhases,
       NoCallStranded, AnswersOwnContent, NoRedundantCall, InFlight
<1>16. CASE PutEnds
  BY <1>16 DEF PutEnds, BatchPhases, ItemsPending, GoneUnrouted, PutPhases,
     PutsSound, NoCallStranded, AnswersOwnContent, CacheKeySound, NoRedundantCall, InFlight
<1>17. CASE LoopExits
  BY <1>17 DEF LoopExits, Closed, BatchPhases, ItemsPending, GoneUnrouted, PutPhases,
     PutsSound, NoCallStranded, AnswersOwnContent, CacheKeySound, NoRedundantCall, InFlight
<1>18. CASE DropRuntime
  <2>1. /\ InFlight = {} /\ queue' = <<>> /\ batch' = <<>> /\ puts' = <<>>
        /\ phase' = "gone" /\ routed' = FALSE /\ putJob' = "none"
        /\ UNCHANGED <<disp, got, cache>>
    BY <1>18 DEF DropRuntime
  <2>2. /\ Members(queue') = {} /\ Members(batch') = {}
        /\ Distinct(queue') /\ Distinct(batch')
    BY <2>1 DEF Members, Distinct
  <2>3. ItemsPending' /\ NoCallStranded'
    BY <2>1, <2>2 DEF ItemsPending, NoCallStranded, InFlight
  <2>4. QED
    BY <2>1, <2>3 DEF BatchPhases, GoneUnrouted, PutPhases, PutsSound,
       AnswersOwnContent, CacheKeySound, NoRedundantCall
<1>19. CASE UNCHANGED vars
  BY <1>19 DEF vars, BatchPhases, ItemsPending, GoneUnrouted, PutPhases,
     PutsSound, NoCallStranded, AnswersOwnContent, CacheKeySound, NoRedundantCall, InFlight
<1>20. QED
  BY <1>1, <1>2, <1>3, <1>4, <1>5, <1>6, <1>7, <1>8, <1>9, <1>10, <1>11, <1>12,
     <1>13, <1>14, <1>15, <1>16, <1>17, <1>18, <1>19 DEF Next
-------------------------------------------------------------------------------
(***************************************************************************)
(* The theorems.                                                           *)
(***************************************************************************)

\* The invariant holds in every reachable state of the engine.
THEOREM Invariance == Spec => []IInv
<1>1. Init => IInv
  BY InvInit
<1>2. IInv /\ [Next]_vars => IInv'
  BY InvNext
<1>3. QED
  BY <1>1, <1>2, PTL DEF Spec

\* Types, and at most Capacity + MaxSize decoded inputs held by the loop.
THEOREM Typing == Spec => []TypeOK
  BY Invariance, PTL DEF IInv

\* No caller of dispatch is left waiting by a batcher that is gone, and its
\* item is never in two places.
THEOREM CallsTracked == Spec => []NoCallStranded
  BY Invariance, PTL DEF IInv

\* No caller receives another input's output, from the cache or from a batch.
THEOREM OwnContent == Spec => []AnswersOwnContent
  BY Invariance, PTL DEF IInv

\* No output is stored under another input's key.
THEOREM KeysSound == Spec => []CacheKeySound
  BY Invariance, PTL DEF IInv

\* Channel and batches keep their bounds, and every output, on its way to a
\* caller or in the cache, belongs to the input it is kept for.
THEOREM EngineSafe == Spec => []EngineSound
  BY Typing, OwnContent, KeysSound, PTL DEF EngineSound

\* With a working cache no stored input is sent to the backend again.
THEOREM NothingComputedTwice == Spec => []NoRedundantCall
  BY Invariance, PTL DEF IInv
-------------------------------------------------------------------------------
(***************************************************************************)
(* The engine implements the contract of dispatch.                         *)
(***************************************************************************)

\* A step that answers the waiting calls of a set, each with its own output
\* or an error, is the contract's Answer.
LEMMA AnswerRefines ==
  ASSUME IInv, AnswersOwnContent', NEW D \in SUBSET Calls,
         disp' \in [Calls -> {"idle", "sending", "waiting", "done", "dropped"}],
         got' \in [Calls -> Outputs \cup {ErrWorker, NoResult}],
         \A d \in D : disp[d] = "waiting" /\ disp'[d] = "done" /\ got'[d] # NoResult,
         \A d \in Calls \ D : disp'[d] = disp[d] /\ got'[d] = got[d]
  PROVE  Contract!Answer(D)
<1> DEFINE result == [d \in D |-> got'[d]]
<1>1. \A d \in D : got'[d] \in OutputsOf(ContentOf[d]) \cup {ErrWorker}
  BY DEF AnswersOwnContent
<1>2. result \in [D -> Outputs \cup {ErrWorker}]
  OBVIOUS
<1>3. \A d \in D : result[d] \in Contract!OutputsOf(ContentOf[d]) \cup {ErrWorker}
  BY <1>1 DEF OutputsOf, Contract!OutputsOf
<1>4. got' = [d \in Calls |-> IF d \in D THEN result[d] ELSE got[d]]
  OBVIOUS
<1>5. [d \in Calls |-> CallState(disp'[d])]
        = [d \in Calls |-> IF d \in D THEN "answered"
                           ELSE [e \in Calls |-> CallState(disp[e])][d]]
  BY DEF CallState
<1>6. \A d \in D : [e \in Calls |-> CallState(disp[e])][d] = "accepted"
  BY DEF CallState
<1>7. QED
  BY <1>2, <1>3, <1>4, <1>5, <1>6 DEF Contract!Answer, Contract!Outputs, Outputs

\* Every step of the engine is a step of the contract or changes nothing the
\* contract shows.
LEMMA StepRefines == IInv /\ IInv' /\ [Next]_vars => [Contract!CNext]_(Contract!cvars)
<1> SUFFICES ASSUME IInv, IInv', [Next]_vars PROVE [Contract!CNext]_(Contract!cvars)
  OBVIOUS
<1>1. /\ disp \in [Calls -> {"idle", "sending", "waiting", "done", "dropped"}]
      /\ got \in [Calls -> Outputs \cup {ErrWorker, NoResult}]
      /\ disp' \in [Calls -> {"idle", "sending", "waiting", "done", "dropped"}]
      /\ got' \in [Calls -> Outputs \cup {ErrWorker, NoResult}]
  BY DEF IInv, TypeOK
<1>2. ASSUME UNCHANGED <<disp, got>> PROVE UNCHANGED Contract!cvars
  BY <1>2 DEF Contract!cvars
<1>3. ASSUME NEW d \in Calls, Refuse(d) PROVE Contract!Reject(d)
  BY <1>1, <1>3 DEF Refuse, Contract!Reject, CallState
<1>4. ASSUME NEW d \in Calls, Begin(d) PROVE Contract!Accept(d)
  BY <1>1, <1>4 DEF Begin, Contract!Accept, CallState
<1>5. ASSUME NEW d \in Calls, Enqueue(d) PROVE UNCHANGED Contract!cvars
  <2>1. [e \in Calls |-> CallState(disp'[e])] = [e \in Calls |-> CallState(disp[e])]
    BY <1>1, <1>5 DEF Enqueue, CallState
  <2>2. QED
    BY <1>5, <2>1 DEF Enqueue, Contract!cvars
<1>6. ASSUME NEW d \in Calls, Abandon(d) PROVE Contract!Abandon(d)
  BY <1>1, <1>6 DEF Abandon, Contract!Abandon, CallState
<1>7. ASSUME NEW p, NEW q, TakeItem(p, q) PROVE [Contract!CNext]_(Contract!cvars)
  <2>1. PICK h \in Calls : h \in Members(queue) /\
           \A d \in Calls : d # h => disp'[d] = disp[d] /\ got'[d] = got[d]
    BY <1>7, TakeItemFacts
  <2>2. CASE disp[h] = "waiting" /\ disp'[h] = "done" /\ got'[h] # NoResult
    <3>1. Contract!Answer({h})
      BY <1>1, <2>1, <2>2, AnswerRefines DEF IInv
    <3>2. QED
      BY <3>1 DEF Contract!CNext
  <2>3. CASE disp'[h] = disp[h] /\ got'[h] = got[h]
    BY <1>1, <1>2, <2>1, <2>3
  <2>4. CASE ~(disp[h] = "waiting" /\ disp'[h] = "done" /\ got'[h] # NoResult)
             /\ ~(disp'[h] = disp[h] /\ got'[h] = got[h])
    <3>1. PICK found \in CacheGet(ContentOf[Head(queue)]) :
            \/ found # NoEntry /\ Reply(Head(queue), found)
            \/ found = NoEntry /\ UNCHANGED <<disp, got>>
      BY <1>7 DEF TakeItem
    <3>2. Head(queue) \in Calls
      BY <1>7 DEF TakeItem, IInv, TypeOK
    <3>3. found \in Outputs \cup {NoEntry}
      BY <3>2, CacheGetType, EngineAssumption DEF IInv
    <3>4. found # NoEntry /\ Reply(Head(queue), found) /\ found # NoResult
      BY <1>1, <2>4, <3>1, <3>3, TokensDiffer
    <3>5. h = Head(queue)
      BY <1>1, <2>1, <2>4, <3>2, <3>4 DEF Reply
    <3>6. QED
      BY <1>1, <2>4, <3>4, <3>5 DEF Reply
  <2>5. QED
    BY <2>2, <2>3, <2>4
<1>8. ASSUME NEW outs, Distribute(outs),
             \A i \in 1..Len(batch) : outs[i] # NoResult
      PROVE  [Contract!CNext]_(Contract!cvars)
  <2> DEFINE D == {d \in Calls : disp[d] = "waiting" /\ d \in Members(batch)}
  <2>1. /\ \A d \in D : disp[d] = "waiting" /\ disp'[d] = "done" /\ got'[d] # NoResult
        /\ \A d \in Calls \ D : disp'[d] = disp[d] /\ got'[d] = got[d]
    BY <1>8, DistributeFacts DEF IInv
  <2>2. Contract!Answer(D)
    BY <1>1, <2>1, AnswerRefines DEF IInv
  <2>3. D \in SUBSET Calls
    OBVIOUS
  <2>4. QED
    BY <2>2, <2>3 DEF Contract!CNext
<1>9. CASE First \/ FillWindow \/ FillDrain
  BY <1>7, <1>9 DEF First, FillWindow, FillDrain
<1>10. CASE CallSucceeds
  <2>1. PICK outs \in [1..Len(batch) -> Outputs] : Distribute(outs)
    BY <1>10 DEF CallSucceeds, ReplyAndStore
  <2>2. \A i \in 1..Len(batch) : outs[i] # NoResult
    BY <2>1, TokensDiffer
  <2>3. QED
    BY <1>8, <2>1, <2>2
<1>11. CASE CallFails
  <2>1. Distribute([i \in 1..Len(batch) |-> ErrWorker])
    BY <1>11 DEF CallFails
  <2>2. \A i \in 1..Len(batch) : [j \in 1..Len(batch) |-> ErrWorker][i] # NoResult
    BY TokensDiffer
  <2>3. QED
    BY <1>8, <2>1, <2>2
<1>12. CASE \/ Cancel \/ Shutdown \/ WindowEnds \/ DrainEnds \/ PutStarts \/ PutNext
            \/ PutEnds \/ LoopExits \/ DropRuntime \/ UNCHANGED vars
  BY <1>2, <1>12 DEF Cancel, Shutdown, WindowEnds, DrainEnds, LeaveDrain, PutStarts,
     PutNext, PutEnds, LoopExits, DropRuntime, vars
<1>13. QED
  BY <1>3, <1>4, <1>5, <1>6, <1>9, <1>10, <1>11, <1>12 DEF Next, Contract!CNext

\* Whatever happens in the channel, the batcher, the cache and the storing
\* tasks, callers of dispatch see the contract: one answer per call, for its
\* own input, and none for a call nobody waits for.
THEOREM EngineImplementsContract == Spec => ImplementsContract
<1>1. Init => Contract!CInit
  BY DEF Init, Contract!CInit, CallState
<1>2. IInv /\ IInv' /\ [Next]_vars => [Contract!CNext]_(Contract!cvars)
  BY StepRefines
<1>3. QED
  BY <1>1, <1>2, Invariance, PTL DEF Spec, ImplementsContract, Contract!CSpec
-------------------------------------------------------------------------------
(***************************************************************************)
(* Cache policies and cancellation.                                        *)
(***************************************************************************)

\* Without a cache read every answer is an output of this process.
LEMMA FreshNext == IInv /\ FreshUnlessUse /\ [Next]_vars => FreshUnlessUse'
<1> SUFFICES ASSUME IInv, FreshUnlessUse, [Next]_vars, CachePolicy # "use"
             PROVE  \A d \in Calls : got'[d] \in computed' \cup {ErrWorker, NoResult}
  BY DEF FreshUnlessUse
<1> USE DEF FreshUnlessUse
<1>1. CASE UNCHANGED <<got, computed>>
  BY <1>1
<1>2. ASSUME NEW d \in Calls, Refuse(d)
      PROVE  \A e \in Calls : got'[e] \in computed' \cup {ErrWorker, NoResult}
  BY <1>2 DEF Refuse, IInv, TypeOK
<1>3. ASSUME NEW p, NEW q, TakeItem(p, q) PROVE UNCHANGED <<got, computed>>
  <2>1. \A c \in Contents : CacheGet(c) = {NoEntry}
    BY DEF CacheGet
  <2>2. ContentOf[Head(queue)] \in Contents
    BY <1>3, EngineAssumption DEF TakeItem, IInv, TypeOK
  <2>3. QED
    BY <1>3, <2>1, <2>2 DEF TakeItem
<1>4. CASE CallSucceeds
  <2>1. PICK outs \in [1..Len(batch) -> Outputs] :
          /\ Distribute(outs)
          /\ computed' = computed \cup {outs[i] : i \in 1..Len(batch)}
    BY <1>4 DEF CallSucceeds, ReplyAndStore
  <2>2. ASSUME NEW d \in Calls
        PROVE  got'[d] = got[d] \/ \E i \in 1..Len(batch) : got'[d] = outs[i]
    BY <2>1, DistributeFacts DEF IInv
  <2>3. QED
    BY <2>1, <2>2
<1>5. CASE CallFails
  <2>1. /\ Distribute([i \in 1..Len(batch) |-> ErrWorker])
        /\ UNCHANGED computed
    BY <1>5 DEF CallFails
  <2>2. ASSUME NEW d \in Calls
        PROVE  got'[d] \in {got[d], ErrWorker}
    BY <2>1, DistributeFacts DEF IInv
  <2>3. QED
    BY <2>1, <2>2
<1>6. CASE First \/ FillWindow \/ FillDrain
  BY <1>1, <1>3, <1>6 DEF First, FillWindow, FillDrain
<1>7. CASE \/ Cancel \/ Shutdown \/ WindowEnds \/ DrainEnds \/ PutStarts \/ PutNext
           \/ PutEnds \/ LoopExits \/ DropRuntime \/ UNCHANGED vars
           \/ \E d \in Calls : Begin(d) \/ Enqueue(d) \/ Abandon(d)
  BY <1>1, <1>7 DEF Cancel, Shutdown, WindowEnds, DrainEnds, LeaveDrain, PutStarts,
     PutNext, PutEnds, LoopExits, DropRuntime, Begin, Enqueue, Abandon, vars
<1>8. QED
  BY <1>2, <1>4, <1>5, <1>6, <1>7 DEF Next

\* Under Refresh and Bypass no caller sees an entry of the environment.
THEOREM FreshAnswers == Spec => []FreshUnlessUse
<1>1. Init => FreshUnlessUse
  BY DEF Init, FreshUnlessUse
<1>2. IInv /\ FreshUnlessUse /\ [Next]_vars => FreshUnlessUse'
  BY FreshNext
<1>3. QED
  BY <1>1, <1>2, Invariance, PTL DEF Spec

\* Once cancelled, a step only takes work off the engine.
LEMMA CancelledStep ==
  IInv /\ [Next]_vars => [cancelled => Owed' \subseteq Owed]_vars
<1> SUFFICES ASSUME IInv, [Next]_vars, cancelled PROVE Owed' \subseteq Owed
  OBVIOUS
<1> USE DEF Owed
<1>1. Members(queue) \subseteq Calls /\ Members(batch) \subseteq Calls
  BY DEF IInv, TypeOK, Members
<1>2. ASSUME UNCHANGED <<queue, batch>>,
             \A d \in Calls : disp'[d] = "sending" => disp[d] = "sending"
      PROVE  Owed' \subseteq Owed
  BY <1>2
<1>3. ASSUME NEW d \in Calls, Refuse(d) \/ Abandon(d) PROVE Owed' \subseteq Owed
  BY <1>2, <1>3 DEF Refuse, Abandon, batcherVars, IInv, TypeOK
<1>4. ASSUME NEW d \in Calls, Begin(d) PROVE FALSE
  BY <1>4 DEF Begin, Admitted
<1>5. ASSUME NEW d \in Calls, Enqueue(d) PROVE Owed' \subseteq Owed
  <2>1. d \notin Members(queue)
    BY <1>5 DEF Enqueue, IInv, ItemsPending
  <2>2. Members(queue') = Members(queue) \cup {d} /\ disp[d] = "sending"
    BY <1>5, <2>1, AppendDistinct DEF Enqueue, IInv, TypeOK, NoCallStranded
  <2>3. batch' = batch /\ \A e \in Calls : disp'[e] = "sending" => disp[e] = "sending"
    BY <1>5 DEF Enqueue, batcherVars, IInv, TypeOK
  <2>4. QED
    BY <2>2, <2>3
<1>6. ASSUME NEW p, NEW q, TakeItem(p, q) PROVE Owed' \subseteq Owed
  <2>1. PICK h \in Members(queue) :
           /\ Members(queue') = Members(queue) \ {h}
           /\ Members(batch') \subseteq Members(batch) \cup {h}
           /\ \A d \in Calls : d # h => disp'[d] = disp[d]
           /\ disp'[h] \in {"done", "dropped", disp[h]}
    BY <1>6, TakeItemFacts
  <2>2. QED
    BY <1>1, <2>1
<1>7. CASE First \/ FillWindow \/ FillDrain
  BY <1>6, <1>7 DEF First, FillWindow, FillDrain
<1>8. ASSUME NEW outs, Distribute(outs), queue' = queue, batch' = <<>>
      PROVE  Owed' \subseteq Owed
  <2>1. \A d \in Calls : disp'[d] = "sending" => disp[d] = "sending"
    BY <1>8, DistributeFacts DEF IInv
  <2>2. Members(batch') = {}
    BY <1>8 DEF Members
  <2>3. QED
    BY <1>8, <2>1, <2>2
<1>9. CASE CallSucceeds \/ CallFails
  BY <1>8, <1>9 DEF CallSucceeds, ReplyAndStore, CallFails
<1>10. CASE DropRuntime
  <2>1. queue' = <<>> /\ batch' = <<>> /\ disp' = disp
    BY <1>10 DEF DropRuntime
  <2>2. Members(queue') = {} /\ Members(batch') = {}
    BY <2>1 DEF Members
  <2>3. QED
    BY <2>1, <2>2
<1>11. CASE \/ Cancel \/ Shutdown \/ WindowEnds \/ DrainEnds \/ PutStarts \/ PutNext
            \/ PutEnds \/ LoopExits \/ UNCHANGED vars
  BY <1>2, <1>11 DEF Cancel, Shutdown, WindowEnds, DrainEnds, LeaveDrain, PutStarts,
     PutNext, PutEnds, LoopExits, batcherVars, vars
<1>12. QED
  BY <1>3, <1>4, <1>5, <1>7, <1>9, <1>10, <1>11 DEF Next

\* After cancel() the engine finishes what it had accepted and takes on
\* nothing more.
THEOREM CancelDrains == Spec => CancelOnlyDrains
<1>1. IInv /\ [Next]_vars => [cancelled => Owed' \subseteq Owed]_vars
  BY CancelledStep
<1>2. QED
  BY <1>1, Invariance, PTL DEF Spec, CancelOnlyDrains
===============================================================================
