------------------------------ MODULE MCRecipeJob ------------------------------
(***************************************************************************)
(* Instances of RecipeJob for TLC.                                         *)
(***************************************************************************)
EXTENDS RecipeJob

CONSTANTS c1, c2, d1, d2, i1, i2
===============================================================================
