------------------------------- MODULE Faults -------------------------------
(***************************************************************************)
(* What save_if_interesting does with an execution that crashed or timed   *)
(* out.  Such a trace is simplified before it is compared: each edge was   *)
(* hit or it was not, and both are features of the trace.                  *)
(***************************************************************************)
EXTENDS Integers, FiniteSets

CONSTANTS
  FaultEdges,        \* edges of the map
  KeepUniqueHang,    \* KEEP_UNIQUE_HANG (500)
  KeepUniqueCrash    \* KEEP_UNIQUE_CRASH (5000)

ASSUME KeepAssumption == KeepUniqueHang \in Nat /\ KeepUniqueCrash \in Nat

VARIABLES
  virgin_tmout, virgin_crash,     \* features not seen in a hang, in a crash
  unique_hangs, unique_crashes,
  hangs, crashes,                 \* files in hangs/ and crashes/
  reruns,                         \* exec_tmout < hang_tmout
  refuted                         \* features of timeouts that did not last

faults == <<virgin_tmout, virgin_crash, unique_hangs, unique_crashes, hangs,
            crashes, reruns, refuted>>

Features == FaultEdges \X BOOLEAN
simplify_trace(hit) == {<<e, e \in hit>> : e \in FaultEdges}

NoFaults == /\ virgin_tmout = Features /\ virgin_crash = Features
            /\ unique_hangs = 0 /\ unique_crashes = 0
            /\ hangs = {} /\ crashes = {} /\ refuted = {}
            /\ reruns \in BOOLEAN

(* A start cleans both directories up, a resume by moving them away.       *)
ForgetFaults == /\ virgin_tmout' = Features /\ virgin_crash' = Features
                /\ unique_hangs' = 0 /\ unique_crashes' = 0
                /\ hangs' = {} /\ crashes' = {} /\ refuted' = {}
                /\ reruns' \in BOOLEAN

(* Faulty variant: a file is written for every crash with new bits, but    *)
(* the limit is tested after the bits were taken.                          *)
CountedLate(hit) ==
  /\ simplify_trace(hit) \cap virgin_crash # {}
  /\ virgin_crash' = virgin_crash \ simplify_trace(hit)
  /\ IF unique_crashes >= KeepUniqueCrash THEN UNCHANGED <<unique_crashes, crashes>>
     ELSE /\ crashes' = crashes \cup {[id |-> unique_crashes, trace |-> simplify_trace(hit)]}
          /\ unique_crashes' = unique_crashes + 1

(* keep_as_crash: a crash with new bits gets a file of its own.            *)
KeepCrash(hit) ==
  /\ unique_crashes < KeepUniqueCrash
  /\ simplify_trace(hit) \cap virgin_crash # {}
  /\ virgin_crash' = virgin_crash \ simplify_trace(hit)
  /\ crashes' = crashes \cup {[id |-> unique_crashes, trace |-> simplify_trace(hit)]}
  /\ unique_crashes' = unique_crashes + 1

Crash(hit) ==
  /\ KeepCrash(hit)
  /\ UNCHANGED <<virgin_tmout, unique_hangs, hangs, reruns, refuted>>

(* A timeout whose trace is new is run again with hang_tmout, unless that  *)
(* is no longer: it may hang, crash with another trace, or end.            *)
Hang(hit) ==
  /\ hangs' = hangs \cup {[id |-> unique_hangs, trace |-> simplify_trace(hit)]}
  /\ unique_hangs' = unique_hangs + 1
  /\ UNCHANGED <<virgin_crash, unique_crashes, crashes, refuted>>

Timeout(hit) ==
  /\ unique_hangs < KeepUniqueHang
  /\ simplify_trace(hit) \cap virgin_tmout # {}
  /\ virgin_tmout' = virgin_tmout \ simplify_trace(hit)
  /\ \/ Hang(hit)
     \/ /\ reruns
        /\ refuted' = refuted \cup simplify_trace(hit)
        /\ \/ \E other \in SUBSET FaultEdges : KeepCrash(other)
           \/ UNCHANGED <<virgin_crash, unique_crashes, crashes>>
        /\ UNCHANGED <<unique_hangs, hangs>>
  /\ UNCHANGED reruns

FaultNext == \E hit \in SUBSET FaultEdges : Crash(hit) \/ Timeout(hit)

-----------------------------------------------------------------------------
Saved(files) == UNION {f.trace : f \in files}

(* What counts as seen in a crash is in a file that was kept.  What counts *)
(* as seen in a hang is too, or in a timeout whose second run, with the    *)
(* longer limit, did not hang: its bits are taken all the same, and hide a *)
(* real hang with this trace.  Without second runs there are none of       *)
(* these.  No two files have one name.                                     *)
FaultsKept ==
  /\ Features \ virgin_crash \subseteq Saved(crashes)
  /\ Features \ virgin_tmout \subseteq Saved(hangs) \cup refuted
  /\ ~reruns => refuted = {}
  /\ \A f \in crashes : f.id \in 0..(unique_crashes - 1)
  /\ \A f \in hangs : f.id \in 0..(unique_hangs - 1)
  /\ \A f, g \in crashes : f.id = g.id => f = g
  /\ \A f, g \in hangs : f.id = g.id => f = g
=============================================================================
