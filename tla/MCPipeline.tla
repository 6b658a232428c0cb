------------------------------ MODULE MCPipeline ------------------------------
(***************************************************************************)
(* Instances of Pipeline for TLC.                                          *)
(***************************************************************************)
EXTENDS Pipeline, TLC

CONSTANTS r1, r2

\* Two runs of two inputs each.
TwoTwo == r1 :> 2 @@ r2 :> 2

\* One run of three inputs, the other of one.
ThreeOne == r1 :> 3 @@ r2 :> 1
===============================================================================
