------------------------------- MODULE MCEngine -------------------------------
(***************************************************************************)
(* Instances of Engine for TLC.                                            *)
(***************************************************************************)
EXTENDS Engine, TLC

CONSTANTS d1, d2, d3, ca, cb

\* Two calls for one content and one for another.
Content3 == d1 :> ca @@ d2 :> ca @@ d3 :> cb
===============================================================================
