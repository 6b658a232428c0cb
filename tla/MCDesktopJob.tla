----------------------------- MODULE MCDesktopJob -----------------------------
(***************************************************************************)
(* Instances of DesktopJob for TLC, and what a test says of cancellation.  *)
(***************************************************************************)
EXTENDS DesktopJob, TLC

CONSTANTS f1, f2

\* test_desktop_process.py:167 expects the state "cancelled" once a DELETE was
\* answered: a cancelled job stays cancelled.
CancelSticks == [][jobState = "cancelled" => jobState' = "cancelled"]_vars
===============================================================================
