---------------------------- MODULE MCForkServer ----------------------------
(* Up to four runs: a child that stops, is woken, is killed on a timeout   *)
(* and written off, and the run after it.                                  *)
EXTENDS ForkServer
=============================================================================
