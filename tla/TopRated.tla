------------------------------ MODULE TopRated ------------------------------
(***************************************************************************)
(* Which queue entries afl-fuzz favors: update_bitmap_score keeps, for     *)
(* every edge of the map, the cheapest entry that has it, cull_queue marks *)
(* a set of these winners that has all edges, and fuzz_one counts down the *)
(* favored entries it has not fuzzed yet.  Both loops over the map take a  *)
(* step per edge.                                                          *)
(*                                                                         *)
(* A trace is a set of edges; trace_mini is a trace, or {} for a NULL      *)
(* pointer.  fav_factor stands for exec_us * len.                          *)
(***************************************************************************)
EXTENDS Integers, FiniteSets

CONSTANTS
  MapSize,      \* edges of the map (MAP_SIZE)
  Traces,       \* the traces an execution can leave
  Costs,        \* values of fav_factor
  MaxEntries,   \* bound on the length of the queue
  CalChances,   \* failed calibrations before an entry is given up
  Lists,        \* the sets of entries the network may list
  Unstable      \* whether runs of one entry may leave different traces

Edges == 1..MapSize
Entries == 1..MaxEntries

ASSUME MapAssumption == MapSize \in Nat \ {0}
ASSUME TracesAssumption == Traces \subseteq (SUBSET Edges) \ {{}}
ASSUME CostsAssumption == Costs \subseteq Nat
ASSUME EntriesAssumption == MaxEntries \in Nat /\ CalChances \in Nat \ {0}
ASSUME UnstableAssumption == Unstable \in BOOLEAN

None == 0

VARIABLES
  pc,           \* "dry", "top", "cull", "pick", "recal", "trim", "fuzz",
                \* "end" or, in update_bitmap_score, "score"
  back,         \* where update_bitmap_score returns to
  slot,         \* i of the loop over the map
  q,            \* update_bitmap_score's argument
  trace_bits,   \* the trace of the last execution
  queued_paths,
  queue_cur,    \* position in the queue, None for NULL
  exec_cksum, fav_factor, cal_failed, trim_done, was_fuzzed, favored,
  trace_mini, tc_ref,       \* fields of the entries
  top_rated, score_changed, temp_v,
  queued_favored, pending_favored, pending_not_fuzzed,
  backup_mode, backup_round_begin,
  backup_favored,           \* the entries read_backup found in its list
  waiting                   \* those of them the round has not fuzzed yet;
                            \* history, not in the code

loop == <<pc, back, slot, q, trace_bits>>
entry == <<exec_cksum, fav_factor, cal_failed, trim_done>>
paths == <<queued_paths, pending_not_fuzzed>>
favors == <<favored, temp_v, queued_favored>>
scores == <<trace_mini, tc_ref, top_rated>>
backup == <<backup_mode, backup_round_begin, backup_favored, waiting>>
vars == <<pc, back, slot, q, trace_bits, exec_cksum, fav_factor, cal_failed,
          trim_done, queued_paths, pending_not_fuzzed, favored, temp_v,
          queued_favored, trace_mini, tc_ref, top_rated, score_changed,
          queue_cur, was_fuzzed, pending_favored, backup_mode,
          backup_round_begin, backup_favored, waiting>>

All(x) == [e \in Entries |-> x]
Queue == 1..queued_paths

Init == /\ pc = "dry" /\ back = "dry" /\ slot = 1 /\ q = None
        /\ trace_bits = {}
        /\ queued_paths = 0 /\ queue_cur = None
        /\ exec_cksum = All({}) /\ fav_factor = All(0)
        /\ cal_failed = All(0) /\ trim_done = All(FALSE)
        /\ was_fuzzed = All(FALSE) /\ favored = All(FALSE)
        /\ trace_mini = All({}) /\ tc_ref = All(0)
        /\ top_rated = [i \in Edges |-> None]
        /\ score_changed = FALSE /\ temp_v = {}
        /\ queued_favored = 0 /\ pending_favored = 0
        /\ pending_not_fuzzed = 0
        /\ backup_mode = FALSE /\ backup_round_begin = FALSE
        /\ backup_favored = {} /\ waiting = {}

-----------------------------------------------------------------------------
(***************************************************************************)
(* update_bitmap_score                                                     *)
(***************************************************************************)
(* Call it for entry e whose last execution left t, then go on at to.      *)
Score(e, t, to) == /\ pc' = "score" /\ back' = to
                   /\ slot' = 1 /\ q' = e /\ trace_bits' = t

Wins == top_rated[slot] # None =>
          fav_factor[q] <= fav_factor[top_rated[slot]]

(* Faulty variant: the loser keeps its reference. *)
ReleasedNever(e) == tc_ref

(* The loser of a slot drops a reference. *)
Released(e) == IF e = None THEN tc_ref ELSE [tc_ref EXCEPT ![e] = @ - 1]

(* Faulty variant: the trace is freed with the first slot that is lost. *)
KeptUnbeaten(e) == IF e # None THEN [trace_mini EXCEPT ![e] = {}]
                   ELSE trace_mini

(* The loser's trace is freed with its last reference. *)
Kept(e) == IF e # None /\ tc_ref[e] = 1 THEN [trace_mini EXCEPT ![e] = {}]
           ELSE trace_mini

ScoreLose == /\ pc = "score" /\ slot \in Edges
             /\ slot \in trace_bits => ~Wins
             /\ slot' = slot + 1
             /\ UNCHANGED <<pc, back, q, trace_bits, entry, paths, favors,
                            scores, score_changed, queue_cur, was_fuzzed,
                            pending_favored, backup>>

(* The previous winner, which may be q itself, drops its trace with its    *)
(* last slot; q keeps the trace it has, if it has one.                     *)
ScoreWin ==
  /\ pc = "score" /\ slot \in Edges
  /\ slot \in trace_bits /\ Wins
  /\ tc_ref' = [Released(top_rated[slot]) EXCEPT ![q] = @ + 1]
  /\ trace_mini' = IF Kept(top_rated[slot])[q] = {}
                   THEN [Kept(top_rated[slot]) EXCEPT ![q] = trace_bits]
                   ELSE Kept(top_rated[slot])
  /\ top_rated' = [top_rated EXCEPT ![slot] = q]
  /\ score_changed' = TRUE
  /\ slot' = slot + 1
  /\ UNCHANGED <<pc, back, q, trace_bits, entry, paths, favors, queue_cur,
                 was_fuzzed, pending_favored, backup>>

ScoreDone == /\ pc = "score" /\ slot \notin Edges
             /\ pc' = back
             /\ slot' = 1 /\ q' = None /\ trace_bits' = {}
             /\ UNCHANGED <<back, entry, paths, favors,
                            scores, score_changed, queue_cur, was_fuzzed,
                            pending_favored, backup>>

-----------------------------------------------------------------------------
(***************************************************************************)
(* calibrate_case and add_to_queue                                         *)
(***************************************************************************)
(* The last run of a calibration may differ from the first one only when   *)
(* the program is not stable.                                              *)
LastTraces(t) == IF Unstable THEN Traces ELSE {t}

Calibrated(e, c) == /\ fav_factor' = [fav_factor EXCEPT ![e] = c]
                    /\ cal_failed' = [cal_failed EXCEPT ![e] = 0]

(* A new input of trace t: an initial seed, or a find of fuzz_one or of    *)
(* another fuzzer.                                                         *)
AddEntry(t) == /\ pc \in {"dry", "fuzz"} /\ queued_paths < MaxEntries
               /\ queued_paths' = queued_paths + 1
               /\ pending_not_fuzzed' = pending_not_fuzzed + 1
               /\ exec_cksum' = [exec_cksum EXCEPT ![queued_paths + 1] = t]
               /\ UNCHANGED <<favors, scores, score_changed, queue_cur,
                              trim_done, was_fuzzed, pending_favored, backup>>

AddGood(t) == /\ AddEntry(t)
              /\ \E c \in Costs : Calibrated(queued_paths + 1, c)
              /\ \E u \in LastTraces(t) : Score(queued_paths + 1, u, pc)

(* A calibration that fails; the dry run gives such a seed up at once.     *)
AddBad(t) == /\ AddEntry(t)
             /\ cal_failed' = [cal_failed EXCEPT ![queued_paths + 1] =
                                 IF pc = "dry" THEN CalChances ELSE 1]
             /\ UNCHANGED <<loop, fav_factor>>

DryRunDone == /\ pc = "dry" /\ \E e \in Queue : cal_failed[e] = 0
              /\ pc' = "top"
              /\ UNCHANGED <<back, slot, q, trace_bits, entry, paths, favors,
                             scores, score_changed, queue_cur, was_fuzzed,
                             pending_favored, backup>>

-----------------------------------------------------------------------------
(***************************************************************************)
(* cull_queue, at the top of the main loop, and the walk                   *)
(***************************************************************************)
(* The walk enters fuzz_one.  The end of the queue ends a backup round; it *)
(* and a round that begins send the walk back to the first entry.  The     *)
(* list is read anew by each round; here it ends with the round.           *)
InRound(on) == /\ backup_mode' = on
               /\ backup_favored' = IF on THEN backup_favored ELSE {}
               /\ waiting' = IF on THEN waiting ELSE {}

(* Faulty variant: the walk goes on where the round began. *)
EnterOn == /\ queue_cur' = IF queue_cur = None THEN 1 ELSE queue_cur
           /\ backup_round_begin' = FALSE
           /\ InRound(backup_mode /\ queue_cur # None)

Enter == /\ queue_cur' = IF queue_cur = None \/ backup_round_begin THEN 1
                         ELSE queue_cur
         /\ backup_round_begin' = FALSE
         /\ InRound(backup_mode /\ queue_cur # None)

NoCull == /\ pc = "top" /\ ~score_changed
          /\ pc' = "pick"
          /\ Enter
          /\ UNCHANGED <<back, slot, q, trace_bits, entry, paths, favors,
                         scores, score_changed, was_fuzzed, pending_favored>>

BeginCull == /\ pc = "top" /\ score_changed
             /\ pc' = "cull" /\ slot' = 1
             /\ score_changed' = FALSE
             /\ temp_v' = Edges /\ favored' = All(FALSE)
             /\ queued_favored' = 0 /\ pending_favored' = 0
             /\ UNCHANGED <<back, q, trace_bits, entry, paths, scores,
                            queue_cur, was_fuzzed, backup>>

(* Faulty variant: whoever holds a slot is favored, needed or not. *)
UncoveredAny == top_rated[slot] # None

Uncovered == top_rated[slot] # None /\ slot \in temp_v

CullSkip == /\ pc = "cull" /\ slot \in Edges /\ ~Uncovered
            /\ slot' = slot + 1
            /\ UNCHANGED <<pc, back, q, trace_bits, entry, paths, favors,
                           scores, score_changed, queue_cur, was_fuzzed,
                           pending_favored, backup>>

CullFavor ==
  /\ pc = "cull" /\ slot \in Edges /\ Uncovered
  /\ temp_v' = temp_v \ trace_mini[top_rated[slot]]
  /\ favored' = [favored EXCEPT ![top_rated[slot]] = TRUE]
  /\ queued_favored' = queued_favored + 1
  /\ pending_favored' = IF was_fuzzed[top_rated[slot]] THEN pending_favored
                        ELSE pending_favored + 1
  /\ slot' = slot + 1
  /\ UNCHANGED <<pc, back, q, trace_bits, entry, paths, scores, score_changed,
                 queue_cur, was_fuzzed, backup>>

CullDone == /\ pc = "cull" /\ slot \notin Edges
            /\ pc' = "pick" /\ slot' = 1 /\ temp_v' = {}
            /\ Enter
            /\ UNCHANGED <<back, q, trace_bits, entry, paths, favored,
                           queued_favored, scores, score_changed, was_fuzzed,
                           pending_favored>>

-----------------------------------------------------------------------------
(***************************************************************************)
(* fuzz_one                                                                *)
(***************************************************************************)
MoveOn == queue_cur' = IF queue_cur = queued_paths THEN None ELSE queue_cur + 1

(* Faulty variant: any entry is skipped at times. *)
MaySkipAny == TRUE

(* Out of backup mode a favored entry is never skipped, unless it was      *)
(* fuzzed and others wait.                                                 *)
MaySkip == IF pending_favored > 0
           THEN was_fuzzed[queue_cur] \/ ~favored[queue_cur]
           ELSE ~favored[queue_cur]

(* In backup mode what is not listed is skipped always, favored or not, and*)
(* what is listed never.                                                   *)
Skip == /\ pc = "pick"
        /\ IF backup_mode THEN queue_cur \notin backup_favored ELSE MaySkip
        /\ pc' = "top" /\ MoveOn
        /\ UNCHANGED <<back, slot, q, trace_bits, entry, paths, favors, scores,
                       score_changed, was_fuzzed, pending_favored, backup>>

FuzzOne == /\ pc = "pick"
           /\ backup_mode => queue_cur \in backup_favored
           /\ pc' = IF cal_failed[queue_cur] > 0 THEN "recal" ELSE "trim"
           /\ waiting' = waiting \ {queue_cur}
           /\ UNCHANGED <<back, slot, q, trace_bits, entry, paths, favors,
                          scores, score_changed, queue_cur, was_fuzzed,
                          pending_favored, backup_mode, backup_round_begin,
                          backup_favored>>

(* A failed entry is calibrated from scratch, CalChances times at most.    *)
(* If its run shows no new bits (FAULT_NOBITS) the entry is abandoned, with*)
(* its calibration in order.                                               *)
RecalGood == /\ pc = "recal" /\ cal_failed[queue_cur] < CalChances
             /\ \E t \in LastTraces(exec_cksum[queue_cur]) :
                  \E u \in LastTraces(t) :
                    /\ exec_cksum' = [exec_cksum EXCEPT ![queue_cur] = t]
                    /\ \E to \in {"trim", "end"} : Score(queue_cur, u, to)
             /\ \E c \in Costs : Calibrated(queue_cur, c)
             /\ UNCHANGED <<trim_done, paths, favors, scores, score_changed,
                            queue_cur, was_fuzzed, pending_favored, backup>>

RecalBad == /\ pc = "recal"
            /\ pc' = "end"
            /\ cal_failed' = IF cal_failed[queue_cur] < CalChances
                             THEN [cal_failed EXCEPT ![queue_cur] = @ + 1]
                             ELSE cal_failed
            /\ UNCHANGED <<back, slot, q, trace_bits, exec_cksum, fav_factor,
                           trim_done, paths, favors, scores, score_changed,
                           queue_cur, was_fuzzed, pending_favored, backup>>

(* trim_case, once per entry: it keeps what leaves the trace of exec_cksum.*)
TrimNothing == /\ pc = "trim"
               /\ pc' = "fuzz"
               /\ trim_done' = [trim_done EXCEPT ![queue_cur] = TRUE]
               /\ UNCHANGED <<back, slot, q, trace_bits, exec_cksum,
                              fav_factor, cal_failed, paths, favors, scores,
                              score_changed, queue_cur, was_fuzzed,
                              pending_favored, backup>>

(* Faulty variant: the shorter file is not scored again. *)
TrimUnscored ==
  /\ pc = "trim" /\ ~trim_done[queue_cur]
  /\ pc' = "fuzz"
  /\ trim_done' = [trim_done EXCEPT ![queue_cur] = TRUE]
  /\ \E c \in Costs : /\ c <= fav_factor[queue_cur]
                      /\ fav_factor' = [fav_factor EXCEPT ![queue_cur] = c]
  /\ UNCHANGED <<back, slot, q, trace_bits, exec_cksum, cal_failed, paths,
                 favors, scores, score_changed, queue_cur, was_fuzzed,
                 pending_favored, backup>>

(* Faulty variant: scored with what the last execution left, which need    *)
(* not be one that kept the trace.                                         *)
TrimLastTrace ==
  /\ pc = "trim" /\ ~trim_done[queue_cur]
  /\ trim_done' = [trim_done EXCEPT ![queue_cur] = TRUE]
  /\ \E c \in Costs : /\ c <= fav_factor[queue_cur]
                      /\ fav_factor' = [fav_factor EXCEPT ![queue_cur] = c]
  /\ \E t \in Traces : Score(queue_cur, t, "fuzz")
  /\ UNCHANGED <<exec_cksum, cal_failed, paths, favors, scores, score_changed,
                 queue_cur, was_fuzzed, pending_favored, backup>>

TrimSome ==
  /\ pc = "trim" /\ ~trim_done[queue_cur]
  /\ trim_done' = [trim_done EXCEPT ![queue_cur] = TRUE]
  /\ \E c \in Costs : /\ c <= fav_factor[queue_cur]
                      /\ fav_factor' = [fav_factor EXCEPT ![queue_cur] = c]
  /\ Score(queue_cur, exec_cksum[queue_cur], "fuzz")
  /\ UNCHANGED <<exec_cksum, cal_failed, paths, favors, scores, score_changed,
                 queue_cur, was_fuzzed, pending_favored, backup>>

Fuzzed == /\ pc = "fuzz"
          /\ pc' = "end"
          /\ UNCHANGED <<back, slot, q, trace_bits, entry, paths, favors,
                         scores, score_changed, queue_cur, was_fuzzed,
                         pending_favored, backup>>

(* The network asks for inputs: a backup round begins, for which           *)
(* read_backup may find any entries in its list.                           *)
BeginRound == /\ pc = "fuzz" /\ ~backup_mode
              /\ backup_mode' = TRUE /\ backup_round_begin' = TRUE
              /\ \E l \in Lists : backup_favored' = l \cap Queue
              /\ waiting' = backup_favored'
              /\ UNCHANGED <<loop, entry, paths, favors, scores,
                             score_changed, queue_cur, was_fuzzed,
                             pending_favored>>

(* save_if_interesting has filled the round up. *)
RoundFull == /\ pc = "fuzz" /\ backup_mode
             /\ InRound(FALSE)
             /\ UNCHANGED <<loop, entry, paths, favors, scores, score_changed,
                            queue_cur, was_fuzzed, pending_favored,
                            backup_round_begin>>

(* abandon_entry *)
FirstTime == cal_failed[queue_cur] = 0 /\ ~was_fuzzed[queue_cur]

End == /\ pc = "end"
       /\ pc' = "top" /\ MoveOn
       /\ IF FirstTime
          THEN /\ was_fuzzed' = [was_fuzzed EXCEPT ![queue_cur] = TRUE]
               /\ pending_not_fuzzed' = pending_not_fuzzed - 1
               /\ pending_favored' = IF favored[queue_cur]
                                     THEN pending_favored - 1
                                     ELSE pending_favored
          ELSE UNCHANGED <<was_fuzzed, pending_not_fuzzed, pending_favored>>
       /\ UNCHANGED <<back, slot, q, trace_bits, entry, queued_paths, favors,
                      scores, score_changed, backup>>

Next == \/ ScoreLose \/ ScoreWin \/ ScoreDone
        \/ \E t \in Traces : AddGood(t) \/ AddBad(t)
        \/ DryRunDone
        \/ NoCull \/ BeginCull \/ CullSkip \/ CullFavor \/ CullDone
        \/ Skip \/ FuzzOne \/ RecalGood \/ RecalBad
        \/ TrimNothing \/ TrimSome \/ Fuzzed \/ End
        \/ BeginRound \/ RoundFull

Spec == Init /\ [][Next]_vars

(* afl-fuzz is one thread that keeps running; each stage of fuzz_one ends. *)
FairSpec == Spec /\ WF_vars(Next)

-----------------------------------------------------------------------------
(***************************************************************************)
(* Properties                                                              *)
(***************************************************************************)
PCs == {"dry", "top", "cull", "pick", "recal", "trim", "fuzz", "end",
        "score"}

(* Every variable stays within its type. *)
TypeOK ==
  /\ pc \in PCs /\ back \in {"dry", "trim", "fuzz", "end"}
  /\ slot \in 1..(MapSize + 1) /\ q \in 0..MaxEntries
  /\ trace_bits \in Traces \cup {{}}
  /\ queued_paths \in 0..MaxEntries /\ queue_cur \in 0..queued_paths
  /\ exec_cksum \in [Entries -> Traces \cup {{}}]
  /\ fav_factor \in [Entries -> Costs \cup {0}]
  /\ cal_failed \in [Entries -> 0..CalChances]
  /\ trim_done \in [Entries -> BOOLEAN]
  /\ was_fuzzed \in [Entries -> BOOLEAN]
  /\ favored \in [Entries -> BOOLEAN]
  /\ trace_mini \in [Entries -> Traces \cup {{}}]
  /\ tc_ref \in [Entries -> Nat]
  /\ top_rated \in [Edges -> 0..queued_paths]
  /\ score_changed \in BOOLEAN /\ temp_v \subseteq Edges
  /\ queued_favored \in Nat /\ pending_favored \in Int
  /\ pending_not_fuzzed \in 0..queued_paths
  /\ backup_mode \in BOOLEAN /\ backup_round_begin \in BOOLEAN
  /\ backup_favored \subseteq 1..queued_paths
  /\ waiting \subseteq backup_favored

(* tc_ref counts the slots an entry holds, through every exchange of       *)
(* winners: an entry that holds none has a count of zero.                  *)
RefsCounted ==
  \A e \in Entries : tc_ref[e] = Cardinality({i \in Edges : top_rated[i] = e})

(* cull_queue reads trace_mini of every winner without looking: it is      *)
(* there for every entry that holds a slot, and freed with the last one.   *)
MiniKept == \A e \in Entries :
              (trace_mini[e] # {}) <=> \E i \in Edges : top_rated[i] = e

(* Outside update_bitmap_score no calibrated entry is cheaper than the     *)
(* winner of a slot of its trace, trimmed or not.                          *)
Calibrations == {e \in Queue : cal_failed[e] = 0}
CheapestWins ==
  pc # "score" =>
    \A e \in Calibrations : \A i \in exec_cksum[e] :
      top_rated[i] # None /\ fav_factor[top_rated[i]] <= fav_factor[e]

(* Once culled, the favored entries have every edge any entry has.         *)
Favorites == {e \in Entries : favored[e]}
FavoritesCover ==
  pc \notin {"cull", "score"} /\ ~score_changed =>
    \A e \in Calibrations :
      exec_cksum[e] \subseteq UNION {exec_cksum[f] : f \in Favorites}

(* The two counters count the favored entries and those of them that were  *)
(* not fuzzed: pending_favored decides how often others are skipped.       *)
FavoritesCounted ==
  pc # "cull" =>
    /\ queued_favored = Cardinality(Favorites)
    /\ pending_favored = Cardinality({e \in Favorites : ~was_fuzzed[e]})

(* A favored entry that waits to be fuzzed is fuzzed, unless a cheaper one *)
(* takes its place or a backup round begins before the walk is there.  A   *)
(* round fuzzes only what it lists and sends the walk back to the first    *)
(* entry: while rounds follow each other quickly, the entry may wait for   *)
(* ever.                                                                   *)
PendingServed ==
  \A e \in Entries :
    (favored[e] /\ ~was_fuzzed[e]) ~>
      (was_fuzzed[e] \/ ~favored[e] \/ backup_mode)

(* A backup round that comes to the end of the queue has taken up every    *)
(* entry the network listed, wherever in the queue it began and whatever   *)
(* was added meanwhile.  The exception: a round that begins while the last *)
(* entry is fuzzed is over before it has taken up any.                     *)
RoundServes ==
  [][backup_mode /\ ~backup_mode' /\ pc # "fuzz" =>
       waiting = {} \/ backup_round_begin]_vars
=============================================================================
