------------------------------ MODULE FuzzOne -------------------------------
(***************************************************************************)
(* One call of fuzz_one from the score of the entry on: the deterministic  *)
(* stages unless they are skipped, then grad, havoc and splices.  The      *)
(* bytes of the input matter in the first part and its length in the       *)
(* second; what the second no longer looks at is forgotten between them.   *)
(***************************************************************************)
EXTENDS DetStages, HavocStages

(* afl-fuzz reads no empty test case and none longer than MAX_FILE.        *)
ASSUME InputsAssumption == \A b \in Inputs : Len(b) \in 1..MaxFile

vars == <<dvars, hvars>>

Forget ==
  /\ stage' = "over"
  /\ in_buf' = <<>> /\ out_buf' = <<>>
  /\ pos' = 0 /\ stage_cur' = 0 /\ stage_max' = 0
  /\ eff_map' = {} /\ eff_cnt' = 0
  /\ a_collect' = <<>> /\ prev_cksum' = "exec"
  /\ extras' = <<>> /\ a_extras' = <<>>
  /\ no_arith' = FALSE /\ dumb_mode' = FALSE
  /\ tried' = {} /\ lost' = {}

(* -d, an entry that went through them before, or the share of another     *)
(* instance: straight to havoc_stage.                                      *)
SkipDeterministic ==
  /\ stage = "start" /\ step = "off"
  /\ Begin(Len(in_buf), FALSE)
  /\ Forget

DetDone ==
  /\ stage = "done" /\ step = "off"
  /\ Begin(Len(in_buf), TRUE)
  /\ Forget

DetAbandoned ==
  /\ Bail /\ step' = "end"
  /\ UNCHANGED <<buffer, score, fixed, havoc_cur, splice_cycle, todo, cur_byte,
                 mutated, subseq_tmouts>>

Init == DInit /\ HInit

Next ==
  \/ SkipDeterministic \/ DetDone \/ DetAbandoned
  \/ step = "off" /\ DNext /\ UNCHANGED hvars
  \/ HNext /\ UNCHANGED dvars

Spec == Init /\ [][Next]_vars

-----------------------------------------------------------------------------
(* Every execution starts from the input: whichever stage changed it,      *)
(* whatever the dictionaries, lengths or refused changes were, what it did *)
(* was taken back.                                                         *)
StartsFromInput == Restored /\ StartsClean
=============================================================================
