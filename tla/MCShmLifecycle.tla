--------------------------- MODULE MCShmLifecycle ---------------------------
(* Three process ids and three starts: enough for a crashed run's segment,  *)
(* two fuzzers that race to replace it, and an id that is used again.      *)
EXTENDS ShmLifecycle
=============================================================================
