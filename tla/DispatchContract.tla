--------------------------- MODULE DispatchContract ---------------------------
(***************************************************************************)
(* What BatchalignEngine::dispatch promises its caller, with nothing of    *)
(* how it is done: every call is refused at once or accepted; an accepted  *)
(* call is answered at most once, with a result for its own content or     *)
(* with an error; an answer never changes.  The caller may abandon a call  *)
(* (drop its future) until it is answered.                                 *)
(*                                                                         *)
(* Engine.tla is shown to implement this module.                           *)
(***************************************************************************)
CONSTANTS
  Calls,      \* the calls of `dispatch`
  Contents,   \* what two inputs with the same cache key share
  ContentOf,  \* ContentOf[d]: the content of the input of call d
  Versions,   \* what two results for the same content can differ by
  ErrWorker,  \* BAError::Worker, the only error of the dispatch path
  NoResult    \* not answered yet

\* The results a backend can return for content c.
OutputsOf(c) == [of : {c}, v : Versions]
Outputs == [of : Contents, v : Versions]

VARIABLES
  call,       \* call[d]: "new", "accepted", "answered" or "abandoned"
  answer      \* answer[d]: what d's caller received

cvars == <<call, answer>>

CInit == /\ call = [d \in Calls |-> "new"]
         /\ answer = [d \in Calls |-> NoResult]

\* The engine takes the call on.
Accept(d) == /\ call[d] = "new"
             /\ call' = [call EXCEPT ![d] = "accepted"]
             /\ UNCHANGED answer

\* The engine refuses the call: cancelled, or no backend for its task.
Reject(d) == /\ call[d] = "new"
             /\ call' = [call EXCEPT ![d] = "answered"]
             /\ answer' = [answer EXCEPT ![d] = ErrWorker]

\* A group of accepted calls is answered: one call by a cache hit, all the
\* members of a batch by one backend call.
Answer(D) == /\ \A d \in D : call[d] = "accepted"
             /\ call' = [d \in Calls |-> IF d \in D THEN "answered" ELSE call[d]]
             /\ \E result \in [D -> Outputs \cup {ErrWorker}] :
                  /\ \A d \in D : result[d] \in OutputsOf(ContentOf[d]) \cup {ErrWorker}
                  /\ answer' = [d \in Calls |-> IF d \in D THEN result[d] ELSE answer[d]]

\* The caller drops its future.
Abandon(d) == /\ call[d] \in {"new", "accepted"}
              /\ call' = [call EXCEPT ![d] = "abandoned"]
              /\ UNCHANGED answer

CNext == \/ \E d \in Calls : Accept(d) \/ Reject(d) \/ Abandon(d)
         \/ \E D \in SUBSET Calls : Answer(D)

CSpec == CInit /\ [][CNext]_cvars
===============================================================================
