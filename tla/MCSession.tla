------------------------------- MODULE MCSession -------------------------------
(***************************************************************************)
(* Instances of Session for TLC: the goroutines and the lanes are          *)
(* those of the code.                                                      *)
(***************************************************************************)
EXTENDS Session

MCProcs == {"main", "recv", "beat"}

\* The third connection is the one Run authenticates when a Delete needs it.
MCLanes == {"command", "cleanup", "fresh"}

=============================================================================
