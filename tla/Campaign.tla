------------------------------ MODULE Campaign ------------------------------
(***************************************************************************)
(* The main loop of afl-fuzz as far as IDFuzz changed it: the walk through *)
(* the queue, the query that may put fuzz_one into backup mode, what is    *)
(* kept of each execution in either mode, and the RETRAIN requests.        *)
(*                                                                         *)
(* The network is seen as NNService describes it: a query is answered from *)
(* the last training, or there is no answer in time.  Virgin bits, traces  *)
(* and the edges of backup_bits.txt are sets of edges.                     *)
(***************************************************************************)
EXTENDS Integers, Sequences, FiniteSets

CONSTANTS
  Edges,          \* the edges of the coverage map
  Traces,         \* the traces an execution can leave
  FirstTrace,     \* the trace of the one initial seed
  BackupLimit,    \* backup inputs that end a round (500)
  SaidRounds,     \* rounds before a pause, as a comment has it (10)
  ExecLimit,      \* bound on the executions of one fuzz_one
  MaxRounds       \* bound on gen_round

GenRounds == SaidRounds + 1  \* what c_gen_rounds is compared with (11)
Paused == 10000   \* the value of c_gen_rounds between two series of rounds

ASSUME TracesAssumption ==
  Traces \subseteq SUBSET Edges /\ FirstTrace \in Traces
ASSUME LimitsAssumption ==
  /\ BackupLimit \in Nat \ {0} /\ SaidRounds \in 0..(Paused - 2)
  /\ ExecLimit \in Nat /\ MaxRounds \in Nat

VARIABLES
  pc,                 \* "top", "fuzz", "query", "stage", "after", "stopped"
  left,               \* executions left to this fuzz_one
  queue,              \* the entries, in the order they were added
  queue_cur,          \* position in queue, or 0 for NULL
  virgin_bits,        \* edges not seen yet
  backup_mode, backup_round_begin,
  gen_round, c_gen_rounds, backup_idx,
  backup_bits1, backup_bits2,   \* edges to cover, edges to avoid
  backup_files,       \* names in cur_dom_bits_backup/ and queue_backup/
  clash,              \* a backup file was created twice
  series,             \* rounds begun since the last pause
  old_edge,           \* a RETRAIN was accepted once
  phase,              \* the channel: "free", "asked" or "training"
  request,            \* the message the network has not answered yet
  verdict,            \* outcome of the last training
  listed              \* backup_seeds.txt and backup_bits.txt

walk == <<pc, left, queue_cur>>
kept == <<queue, virgin_bits, backup_files, clash>>
round == <<backup_mode, backup_round_begin, gen_round, c_gen_rounds,
           backup_idx, series>>
bits == <<backup_bits1, backup_bits2>>
channel == <<phase, request>>
network == <<verdict, listed>>
vars == <<pc, left, queue_cur, queue, virgin_bits, backup_files, clash,
          backup_mode, backup_round_begin, gen_round, c_gen_rounds, backup_idx,
          series, backup_bits1, backup_bits2, old_edge, phase, request,
          verdict, listed>>

(* Queue entries have a path; the network lists them by file name only.    *)
Path(n) == [dir |-> "out/queue/", name |-> n]
BaseName(n) == [dir |-> "", name |-> n]
Entry(n, t) == [fname |-> Path(n), trace |-> t, backup_favored |-> FALSE]

Init == /\ pc = "top" /\ left = 0
        /\ queue = <<Entry(1, FirstTrace)>> /\ queue_cur = 0
        /\ virgin_bits = Edges \ FirstTrace
        /\ backup_mode = FALSE /\ backup_round_begin = FALSE
        /\ gen_round = 0 /\ c_gen_rounds = 0 /\ backup_idx = 0 /\ series = 0
        /\ backup_bits1 = {} /\ backup_bits2 = {}
        /\ backup_files = {} /\ clash = FALSE
        /\ old_edge = FALSE
        /\ phase = "free" /\ request = "none"
        /\ verdict = "untrained"
        /\ listed = [seeds |-> {}, cover |-> {}, avoid |-> {}]

-----------------------------------------------------------------------------
(***************************************************************************)
(* RETRAIN: dropped unless the fuzzer owns the channel.                    *)
(***************************************************************************)
SendRetrain == IF phase = "free"
               THEN /\ phase' = "asked" /\ request' = "RE"
                    /\ old_edge' = TRUE
               ELSE UNCHANGED <<channel, old_edge>>

(* Faulty variant: the next round takes the names of the last one. *)
EndRoundSameNumber == /\ backup_mode' = FALSE
                      /\ c_gen_rounds' = c_gen_rounds + 1
                      /\ backup_idx' = 0
                      /\ SendRetrain
                      /\ UNCHANGED <<gen_round, series>>

(* Faulty variant: the counter of consecutive rounds is forgotten. *)
EndRoundUncounted == /\ backup_mode' = FALSE
                     /\ gen_round' = gen_round + 1
                     /\ backup_idx' = 0
                     /\ SendRetrain
                     /\ UNCHANGED <<c_gen_rounds, series>>

(* The end of a backup round, at the end of the queue or at the limit.     *)
EndRound == /\ backup_mode' = FALSE
            /\ gen_round' = gen_round + 1
            /\ c_gen_rounds' = c_gen_rounds + 1
            /\ backup_idx' = 0
            /\ SendRetrain
            /\ UNCHANGED series

(***************************************************************************)
(* The main loop                                                           *)
(***************************************************************************)
(* Faulty variant: only the limit ends a round. *)
TopGoesOn == /\ pc = "top"
             /\ pc' = "fuzz"
             /\ queue_cur' = IF queue_cur = 0 \/ backup_round_begin THEN 1
                             ELSE queue_cur
             /\ backup_round_begin' = FALSE
             /\ UNCHANGED <<left, kept, bits, network, backup_mode, gen_round,
                            c_gen_rounds, backup_idx, series, channel,
                            old_edge>>

(* A new queue cycle ends a backup round; a round that begins restarts the *)
(* walk.                                                                   *)
Top == /\ pc = "top"
       /\ pc' = "fuzz"
       /\ queue_cur' = IF queue_cur = 0 \/ backup_round_begin THEN 1
                       ELSE queue_cur
       /\ backup_round_begin' = FALSE
       /\ IF queue_cur = 0 /\ backup_mode
          THEN EndRound
          ELSE UNCHANGED <<backup_mode, gen_round, c_gen_rounds, backup_idx,
                           series, channel, old_edge>>
       /\ UNCHANGED <<left, kept, bits, network>>

(* fuzz_one returns at once: always in backup mode when the entry is not   *)
(* listed, by chance otherwise.                                            *)
Skip == /\ pc = "fuzz"
        /\ backup_mode => ~queue[queue_cur].backup_favored
        /\ pc' = "after"
        /\ UNCHANGED <<left, queue_cur, kept, round, bits, old_edge, channel,
                       network>>

Enter == /\ pc = "fuzz"
         /\ backup_mode => queue[queue_cur].backup_favored
         /\ pc' = "stage" /\ left' = ExecLimit
         /\ UNCHANGED <<queue_cur, kept, round, bits, old_edge, channel,
                        network>>

(* The havoc stage, and every splice after it, starts with a query. *)
Havoc == /\ pc = "stage" /\ left > 0
         /\ pc' = "query" /\ left' = left - 1
         /\ UNCHANGED <<queue_cur, kept, round, bits, old_edge, channel,
                        network>>

Leave == /\ pc = "stage"
         /\ pc' = "after"
         /\ UNCHANGED <<left, queue_cur, kept, round, bits, old_edge, channel,
                        network>>

(* RETRAIN on progress, or the first one; then the next entry. *)
After == /\ pc = "after"
         /\ pc' = "top"
         /\ queue_cur' = IF queue_cur = Len(queue) THEN 0 ELSE queue_cur + 1
         /\ \/ SendRetrain
            \/ UNCHANGED <<channel, old_edge>>
         /\ UNCHANGED <<left, kept, round, bits, network>>

(* stop_soon is looked at between the RETRAIN and the next entry. *)
Stop == /\ pc = "after"
        /\ pc' = "stopped"
        /\ \/ SendRetrain
           \/ UNCHANGED <<channel, old_edge>>
        /\ UNCHANGED <<left, queue_cur, kept, round, bits, network>>

-----------------------------------------------------------------------------
(***************************************************************************)
(* The query and backup mode                                               *)
(***************************************************************************)
(* No answer, a byte, or -1: fuzz_one goes on without more ado.            *)
NoBackup == pc = "query" /\ pc' = "stage"

QueryBusy == /\ NoBackup /\ phase # "free"
             /\ UNCHANGED <<left, queue_cur, kept, round, bits, old_edge,
                            channel, network>>

QueryLate == /\ NoBackup /\ phase = "free"
             /\ phase' = "asked" /\ request' = "TA"
             /\ UNCHANGED <<left, queue_cur, kept, round, bits, old_edge,
                            network>>

QueryByte == /\ NoBackup /\ phase = "free" /\ verdict # "unbalanced"
             /\ UNCHANGED <<left, queue_cur, kept, round, bits, old_edge,
                            channel, network>>

(* read_backup compares each listed name with the whole path of an entry.  *)
ReadBackup ==
  /\ queue' = [i \in DOMAIN queue |->
                 [queue[i] EXCEPT !.backup_favored =
                    \E n \in listed.seeds : BaseName(n) = queue[i].fname]]
  /\ backup_bits1' = listed.cover
  /\ backup_bits2' = listed.avoid

Generate == pc = "query" /\ phase = "free" /\ verdict = "unbalanced"

BeginRound ==
  /\ Generate /\ ~backup_mode
  /\ c_gen_rounds < GenRounds /\ gen_round < MaxRounds
  /\ backup_mode' = TRUE /\ backup_round_begin' = TRUE
  /\ ReadBackup
  /\ series' = series + 1
  /\ pc' = "stage"
  /\ UNCHANGED <<left, queue_cur, virgin_bits, backup_files, clash, gen_round,
                 c_gen_rounds, backup_idx, old_edge, channel, network>>

BeginPause ==
  /\ Generate /\ ~backup_mode
  /\ c_gen_rounds >= GenRounds /\ c_gen_rounds < Paused
  /\ c_gen_rounds' = Paused
  /\ series' = 0
  /\ pc' = "stage"
  /\ UNCHANGED <<left, queue_cur, kept, backup_mode, backup_round_begin,
                 gen_round, backup_idx, bits, old_edge, channel, network>>

(* Five minutes later, or not yet. *)
EndPause ==
  /\ Generate /\ ~backup_mode /\ c_gen_rounds >= Paused
  /\ c_gen_rounds' \in {0, c_gen_rounds}
  /\ pc' = "stage"
  /\ UNCHANGED <<left, queue_cur, kept, backup_mode, backup_round_begin,
                 gen_round, backup_idx, series, bits, old_edge, channel,
                 network>>

(* -2 in backup mode is no offset into the input either. *)
StayInRound == /\ Generate /\ backup_mode
               /\ pc' = "stage"
               /\ UNCHANGED <<left, queue_cur, kept, round, bits, old_edge,
                              channel, network>>

-----------------------------------------------------------------------------
(***************************************************************************)
(* save_if_interesting, for an execution that neither crashed nor hung     *)
(***************************************************************************)
has_certain_bits(t) == t \cap backup_bits2 = {} /\ t \cap backup_bits1 # {}
Name(g, i) == <<g, i>>
HasNewBits(t) == t \cap virgin_bits # {}

(* Faulty variant: a round fills the queue with what it generates. *)
ToQueueAll(t) == HasNewBits(t) \/ (backup_mode /\ has_certain_bits(t))

(* New bits go to the queue, in backup mode only along with certain bits;  *)
(* certain bits without new ones go to the backup set.                     *)
ToQueue(t) == HasNewBits(t) /\ (backup_mode => has_certain_bits(t))
ToBackup(t) == ~HasNewBits(t) /\ backup_mode /\ has_certain_bits(t)

(* Faulty variant: the index is compared before it is incremented. *)
FullLate(t) == ToBackup(t) /\ backup_idx = BackupLimit

Full(t) == ToBackup(t) /\ backup_idx + 1 = BackupLimit

(* has_new_bits clears the virgin bits in any case, before the checks of   *)
(* backup mode.                                                            *)
Exec(t) ==
  /\ pc = "stage" /\ left > 0
  /\ left' = left - 1
  /\ virgin_bits' = virgin_bits \ t
  /\ queue' = IF ToQueue(t) THEN Append(queue, Entry(Len(queue) + 1, t))
              ELSE queue
  /\ IF ToBackup(t)
     THEN /\ backup_files' = backup_files \cup {Name(gen_round, backup_idx)}
          /\ clash' = (Name(gen_round, backup_idx) \in backup_files)
     ELSE UNCHANGED <<backup_files, clash>>
  /\ IF Full(t)
     THEN EndRound
     ELSE /\ backup_idx' = IF ToBackup(t) THEN backup_idx + 1 ELSE backup_idx
          /\ UNCHANGED <<backup_mode, gen_round, c_gen_rounds, series,
                         channel, old_edge>>
  /\ UNCHANGED <<pc, queue_cur, backup_round_begin, bits, network>>

-----------------------------------------------------------------------------
(***************************************************************************)
(* The network                                                             *)
(***************************************************************************)
AnswerLate == /\ phase = "asked" /\ request = "TA"
              /\ phase' = "free" /\ request' = "none"
              /\ UNCHANGED <<walk, kept, round, bits, old_edge, network>>

BeginTraining == /\ phase = "asked" /\ request = "RE"
                 /\ phase' = "training"
                 /\ UNCHANGED <<request, walk, kept, round, bits, old_edge,
                                network>>

EndTraining(v) == /\ phase = "training"
                  /\ phase' = "free" /\ request' = "none"
                  /\ verdict' = v
                  /\ UNCHANGED <<walk, kept, round, bits, old_edge>>

TrainBalanced == EndTraining("balanced") /\ UNCHANGED listed

(* init() finds too few samples of a dominator block: it lists the seeds   *)
(* that reach it, the edge c of it that new inputs should cover and, unless*)
(* the block is the deepest one, an edge a of the deepest, to be avoided.  *)
Listing(c, a) ==
  [seeds |-> {i \in DOMAIN queue :
                c \in queue[i].trace /\ a \cap queue[i].trace = {}},
   cover |-> {c}, avoid |-> a]

TrainUnbalanced ==
  /\ EndTraining("unbalanced")
  /\ \E c \in Edges \ virgin_bits :
       \E a \in {{}} \cup {{d} : d \in Edges \ (virgin_bits \cup {c})} :
         /\ Listing(c, a).seeds # {}
         /\ listed' = Listing(c, a)

FuzzerNext ==
  \/ Top \/ Skip \/ Enter \/ Havoc \/ Leave \/ After
  \/ QueryBusy \/ QueryLate \/ QueryByte
  \/ BeginRound \/ BeginPause \/ EndPause \/ StayInRound
  \/ \E t \in Traces : Exec(t)

NetworkNext == AnswerLate \/ BeginTraining \/ TrainBalanced \/ TrainUnbalanced

Next == FuzzerNext \/ NetworkNext \/ Stop

Spec == Init /\ [][Next]_vars

(* afl-fuzz keeps running; the network owes it nothing. *)
FairSpec == Spec /\ WF_vars(FuzzerNext)

-----------------------------------------------------------------------------
(***************************************************************************)
(* Properties                                                              *)
(***************************************************************************)
(* Every variable stays within its type. *)
TypeOK ==
  /\ pc \in {"top", "fuzz", "query", "stage", "after", "stopped"}
  /\ left \in 0..ExecLimit
  /\ queue \in Seq([fname : {Path(n) : n \in 1..Len(queue)}, trace : Traces,
                    backup_favored : BOOLEAN])
  /\ queue_cur \in 0..Len(queue)
  /\ virgin_bits \subseteq Edges
  /\ backup_mode \in BOOLEAN /\ backup_round_begin \in BOOLEAN
  /\ gen_round \in 0..MaxRounds /\ backup_idx \in 0..(BackupLimit - 1)
  /\ c_gen_rounds \in (0..GenRounds) \cup {Paused} /\ series \in Nat
  /\ backup_bits1 \subseteq Edges /\ backup_bits2 \subseteq Edges
  /\ backup_files \subseteq (0..MaxRounds) \X (0..(BackupLimit - 1))
  /\ clash \in BOOLEAN /\ old_edge \in BOOLEAN
  /\ phase \in {"free", "asked", "training"}
  /\ request \in {"none", "TA", "RE"}
  /\ verdict \in {"untrained", "balanced", "unbalanced"}
  /\ listed \in [seeds : SUBSET (1..Len(queue)), cover : SUBSET Edges,
                 avoid : SUBSET Edges]

(* The files of a backup input are created with O_EXCL and a clash ends    *)
(* the fuzzer: a name made of the round and the index is never used twice, *)
(* in whatever way rounds end.                                             *)
NamesFresh == ~clash

(* At most SaidRounds + 1 rounds follow each other, whichever way they end,*)
(* without the pause in which the fuzzer works for itself.  The comment    *)
(* beside the pause says SaidRounds ("after 10 consecutive rounds in       *)
(* backup mode"); the counter starts at 0 and is compared with 11.         *)
RoundsBounded == series <= SaidRounds + 1

(* Every entry beyond the initial seed brought an edge no earlier entry    *)
(* has, in backup mode too: what a round generates for the network never   *)
(* crowds the queue.                                                       *)
NoRedundantEntry ==
  \A i \in 2..Len(queue) :
    ~(queue[i].trace \subseteq UNION {queue[j].trace : j \in 1..(i - 1)})

(* Backup mode does not last: the walk comes to the end of the queue, or   *)
(* the round fills up.                                                     *)
RoundEnds == backup_mode ~> (~backup_mode \/ pc = "stopped")

(* An edge the fuzzer takes for seen is covered by an entry of the queue.  *)
SeenIsKept ==
  Edges \ virgin_bits \subseteq UNION {queue[i].trace : i \in DOMAIN queue}

(* read_backup favors the seeds the network listed. *)
ListedAreFavored ==
  [][pc = "query" /\ backup_mode' # backup_mode =>
       \A i \in DOMAIN queue' :
         queue'[i].backup_favored <=> i \in listed.seeds]_vars
=============================================================================
