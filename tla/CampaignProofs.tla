--------------------------- MODULE CampaignProofs ---------------------------
(***************************************************************************)
(* Proofs about Campaign: that no two backup inputs get the same name,     *)
(* that rounds are followed by a pause, and that the queue takes nothing   *)
(* it has already, for any map, any limits and any answers of the network. *)
(***************************************************************************)
EXTENDS Campaign, SequenceTheorems, TLAPS

(* Where fuzz_one works on the current entry, or has just returned.        *)
Place == {"fuzz", "query", "stage", "after"}

(* Away from the top of the loop there is a current entry. *)
WalkInv == /\ Len(queue) >= 1
           /\ pc \in Place => queue_cur >= 1

(* A round is begun only below both bounds, and only a round has an index. *)
RoundInv == /\ backup_mode => gen_round < MaxRounds /\ c_gen_rounds < GenRounds
            /\ ~backup_mode => backup_idx = 0

(* The rounds of the series: the finished ones and the one that runs.      *)
SeriesInv == series = IF c_gen_rounds = Paused THEN 0
                      ELSE IF backup_mode THEN c_gen_rounds + 1
                      ELSE c_gen_rounds

(* The names given so far are those of finished rounds, and those of this  *)
(* one below the index.                                                    *)
NamesInv == \A n \in backup_files : \/ n[1] < gen_round
                                    \/ n[1] = gen_round /\ n[2] < backup_idx

(* What the queue covers is no longer virgin. *)
CoveredInv == \A i \in 1..Len(queue) : queue[i].trace \cap virgin_bits = {}

(* Each entry has an edge that no earlier one has. *)
NewEdgeInv == \A i \in 2..Len(queue) : \E e \in queue[i].trace :
                \A j \in 1..(i - 1) : e \notin queue[j].trace

IInv == /\ TypeOK /\ WalkInv /\ RoundInv /\ SeriesInv
        /\ NamesInv /\ NamesFresh /\ CoveredInv /\ NewEdgeInv

-----------------------------------------------------------------------------
(* The assumptions on the constants, as the provers use them. *)
LEMMA Constants == /\ Traces \subseteq SUBSET Edges /\ FirstTrace \in Traces
                   /\ BackupLimit \in Nat \ {0} /\ GenRounds \in 1..(Paused - 1)
                   /\ ExecLimit \in Nat /\ MaxRounds \in Nat
                   /\ Paused \in Nat
BY TracesAssumption, LimitsAssumption DEF Paused, GenRounds

(* The entries a queue of length n may have. *)
Entries(n) == [fname : {Path(m) : m \in 1..n}, trace : Traces,
               backup_favored : BOOLEAN]

LEMMA EntryTyped ==
  ASSUME NEW n \in Nat \ {0}, NEW t \in Traces
  PROVE  Entry(n, t) \in Entries(n) /\ Entry(n, t).trace = t
BY DEF Entry, Entries

(* A longer queue may hold what a shorter one may. *)
LEMMA EntriesGrow ==
  ASSUME NEW n \in Nat
  PROVE  Entries(n) \subseteq Entries(n + 1)
BY DEF Entries

LEMMA EntryFavored ==
  ASSUME NEW n, NEW r \in Entries(n), NEW b \in BOOLEAN
  PROVE  /\ [r EXCEPT !.backup_favored = b] \in Entries(n)
         /\ [r EXCEPT !.backup_favored = b].trace = r.trace
BY DEF Entries

(* One entry, the trace of which is no longer virgin. *)
LEMMA InitInv == Init => IInv
<1> SUFFICES ASSUME Init PROVE IInv
  OBVIOUS
<1>1. queue = <<Entry(1, FirstTrace)>> /\ Len(queue) = 1
  BY DEF Init
<1>2. Entry(1, FirstTrace) \in Entries(1) /\ queue[1].trace = FirstTrace
  BY <1>1, EntryTyped, Constants
<1>3. queue \in Seq(Entries(Len(queue)))
  BY <1>1, <1>2
<1>4. listed \in [seeds : SUBSET (1..Len(queue)), cover : SUBSET Edges,
                  avoid : SUBSET Edges]
  BY DEF Init
<1>5. TypeOK
  <2>1. /\ queue_cur \in 0..Len(queue) /\ virgin_bits \subseteq Edges
        /\ left \in 0..ExecLimit /\ gen_round \in 0..MaxRounds
        /\ backup_idx \in 0..(BackupLimit - 1)
        /\ c_gen_rounds \in (0..GenRounds) \cup {Paused} /\ series \in Nat
    BY <1>1, Constants DEF Init
  <2>2. /\ backup_mode \in BOOLEAN /\ backup_round_begin \in BOOLEAN
        /\ clash \in BOOLEAN /\ old_edge \in BOOLEAN
    BY DEF Init
  <2> QED
    BY <1>3, <1>4, <2>1, <2>2 DEF Init, TypeOK, Entries
<1>6. WalkInv /\ RoundInv /\ SeriesInv
  BY <1>1, Constants DEF Init, WalkInv, RoundInv, SeriesInv, Place
<1>7. NamesInv /\ NamesFresh
  BY DEF Init, NamesInv, NamesFresh
<1>8. CoveredInv
  BY <1>1, <1>2 DEF Init, CoveredInv
<1>9. NewEdgeInv
  BY <1>1 DEF NewEdgeInv
<1> QED
  BY <1>5, <1>6, <1>7, <1>8, <1>9 DEF IInv

-----------------------------------------------------------------------------
(* What concerns the queue alone stays true while nothing is added to it.  *)
LEMMA QueueKept ==
  ASSUME IInv, UNCHANGED kept
  PROVE  NamesFresh' /\ CoveredInv' /\ NewEdgeInv'
<1>1. UNCHANGED <<queue, virgin_bits, clash>>
  BY DEF kept
<1> QED
  BY <1>1 DEF IInv, NamesFresh, CoveredInv, NewEdgeInv

(* What the main loop and a query that brings no round change: the walk and*)
(* the channel.                                                            *)
LEMMA WalkStep ==
  ASSUME IInv, UNCHANGED <<kept, bits, network>>,
         UNCHANGED <<backup_mode, gen_round, c_gen_rounds, backup_idx, series>>,
         backup_round_begin' \in BOOLEAN, old_edge' \in BOOLEAN,
         phase' \in {"free", "asked", "training"},
         request' \in {"none", "TA", "RE"},
         pc' \in {"top", "fuzz", "query", "stage", "after", "stopped"},
         left' \in 0..ExecLimit, queue_cur' \in 0..Len(queue),
         pc' \in Place => queue_cur' >= 1
  PROVE  IInv'
<1>1. TypeOK'
  BY DEF IInv, TypeOK, kept, bits, network
<1>2. WalkInv' /\ RoundInv' /\ SeriesInv' /\ NamesInv'
  BY DEF IInv, WalkInv, RoundInv, SeriesInv, NamesInv, kept
<1> QED
  BY <1>1, <1>2, QueueKept DEF IInv

(* Every name is a pair of numbers. *)
LEMMA NamesTyped ==
  ASSUME TypeOK
  PROVE  /\ \A n \in backup_files : n[1] \in Nat /\ n[2] \in Nat
         /\ gen_round \in Nat /\ backup_idx \in Nat
BY Constants DEF TypeOK

(* A RETRAIN leaves the channel free or asked. *)
LEMMA SendTyped ==
  ASSUME TypeOK, SendRetrain \/ UNCHANGED <<channel, old_edge>>
  PROVE  /\ phase' \in {"free", "asked", "training"}
         /\ request' \in {"none", "TA", "RE"}
         /\ old_edge' \in BOOLEAN
BY DEF TypeOK, SendRetrain, channel

(* The end of a round: it is counted, and its names are all below those of *)
(* the next one.                                                           *)
LEMMA EndRoundInv ==
  ASSUME IInv, EndRound, backup_mode
  PROVE  /\ backup_mode' \in BOOLEAN /\ series' = series
         /\ backup_idx' \in 0..(BackupLimit - 1)
         /\ gen_round' \in 0..MaxRounds /\ gen_round' = gen_round + 1
         /\ c_gen_rounds' \in (0..GenRounds) \cup {Paused}
         /\ RoundInv' /\ SeriesInv'
<1> USE Constants DEF IInv, TypeOK
<1>1. backup_mode' = FALSE
  BY DEF EndRound
<1>2. /\ backup_idx' = 0 /\ series' = series
      /\ gen_round' = gen_round + 1 /\ c_gen_rounds' = c_gen_rounds + 1
  BY DEF EndRound
<1>3. c_gen_rounds \in 0..(GenRounds - 1) /\ gen_round \in 0..(MaxRounds - 1)
  BY DEF RoundInv
<1>4. RoundInv'
  BY <1>1, <1>2 DEF RoundInv
<1>5. SeriesInv'
  BY <1>1, <1>2, <1>3 DEF SeriesInv
<1>6. backup_mode' \in BOOLEAN
  BY <1>1
<1> QED
  BY <1>2, <1>3, <1>4, <1>5, <1>6

-----------------------------------------------------------------------------
(* The main loop.  At its top there may be no current entry.               *)
LEMMA TopInv == ASSUME IInv, Top PROVE IInv'
<1>1. queue_cur' = IF queue_cur = 0 \/ backup_round_begin THEN 1 ELSE queue_cur
  BY DEF Top
<1>2. queue_cur' \in 1..Len(queue)
  BY <1>1 DEF IInv, TypeOK, WalkInv
<1>3. pc' = "fuzz" /\ UNCHANGED <<left, kept, bits, network>>
  BY DEF Top
<1>4. backup_round_begin' \in BOOLEAN
  BY DEF Top
<1>5. CASE queue_cur = 0 /\ backup_mode
  <2>1. EndRound
    BY <1>5 DEF Top
  <2>2. SendRetrain /\ backup_mode
    BY <1>5, <2>1 DEF EndRound
  <2>3. TypeOK'
    <3>1. /\ phase' \in {"free", "asked", "training"}
          /\ request' \in {"none", "TA", "RE"} /\ old_edge' \in BOOLEAN
      BY <2>2, SendTyped DEF IInv
    <3>2. /\ backup_mode' \in BOOLEAN /\ gen_round' \in 0..MaxRounds
          /\ c_gen_rounds' \in (0..GenRounds) \cup {Paused}
          /\ backup_idx' \in 0..(BackupLimit - 1) /\ series' = series
      BY <2>1, <2>2, EndRoundInv
    <3> QED
      BY <1>2, <1>3, <1>4, <3>1, <3>2, SMTT(20) DEF IInv, TypeOK, kept, bits, network
  <2>4. WalkInv'
    BY <1>2, <1>3 DEF IInv, WalkInv, kept
  <2>5. gen_round' = gen_round + 1 /\ backup_files' = backup_files
    BY <1>3, <2>1, <2>2, EndRoundInv DEF kept
  <2>6. NamesInv'
    BY <2>5, NamesTyped DEF IInv, NamesInv
  <2> QED
    BY <1>3, <2>1, <2>2, <2>3, <2>4, <2>6, EndRoundInv, QueueKept DEF IInv
<1>6. CASE ~(queue_cur = 0 /\ backup_mode)
  <2>1. UNCHANGED <<backup_mode, gen_round, c_gen_rounds, backup_idx, series,
                    channel, old_edge>>
    BY <1>6 DEF Top
  <2>2. /\ phase' \in {"free", "asked", "training"}
        /\ request' \in {"none", "TA", "RE"} /\ old_edge' \in BOOLEAN
    BY <2>1, SendTyped DEF IInv
  <2>3. left' \in 0..ExecLimit
    BY <1>3 DEF IInv, TypeOK
  <2> QED
    BY <1>2, <1>3, <1>4, <2>1, <2>2, <2>3, WalkStep
<1> QED
  BY <1>5, <1>6

LEMMA LoopInv ==
  ASSUME IInv, Skip \/ Enter \/ Havoc \/ Leave \/ After \/ Stop
  PROVE  IInv'
<1>1. /\ UNCHANGED <<kept, bits, network>>
      /\ UNCHANGED <<backup_mode, gen_round, c_gen_rounds, backup_idx, series,
                     backup_round_begin>>
      /\ SendRetrain \/ UNCHANGED <<channel, old_edge>>
  BY DEF Skip, Enter, Havoc, Leave, After, Stop, round
<1>2. /\ left' \in 0..ExecLimit
      /\ pc' \in {"top", "fuzz", "query", "stage", "after", "stopped"}
      /\ queue_cur' \in 0..Len(queue)
      /\ pc' \in Place => queue_cur' >= 1
  BY Constants, SMTT(20)
  DEF Skip, Enter, Havoc, Leave, After, Stop, IInv, TypeOK, WalkInv, Place
<1> QED
  BY <1>1, <1>2, SendTyped, WalkStep DEF IInv, TypeOK

-----------------------------------------------------------------------------
(* A query that brings no round. *)
LEMMA QueryInv ==
  ASSUME IInv, QueryBusy \/ QueryLate \/ QueryByte \/ StayInRound
  PROVE  IInv'
<1>1. /\ UNCHANGED <<kept, bits, network>>
      /\ UNCHANGED <<backup_mode, gen_round, c_gen_rounds, backup_idx, series>>
      /\ UNCHANGED <<left, queue_cur, backup_round_begin, old_edge>>
      /\ pc = "query" /\ pc' = "stage"
  BY DEF QueryBusy, QueryLate, QueryByte, StayInRound, NoBackup, Generate, round
<1>2. /\ phase' \in {"free", "asked", "training"}
      /\ request' \in {"none", "TA", "RE"}
  BY DEF QueryBusy, QueryLate, QueryByte, StayInRound, channel, IInv, TypeOK
<1>3. /\ left' \in 0..ExecLimit /\ queue_cur' \in 0..Len(queue)
      /\ queue_cur' >= 1
  BY <1>1 DEF IInv, TypeOK, WalkInv, Place
<1>4. backup_round_begin' \in BOOLEAN /\ old_edge' \in BOOLEAN
  BY <1>1 DEF IInv, TypeOK
<1> QED
  BY <1>1, <1>2, <1>3, <1>4, WalkStep

(* read_backup keeps the traces and the order of the queue.                *)
LEMMA ReadBackupQueue ==
  ASSUME TypeOK, ReadBackup
  PROVE  /\ queue' \in Seq(Entries(Len(queue))) /\ Len(queue') = Len(queue)
         /\ \A i \in 1..Len(queue) : queue'[i].trace = queue[i].trace
<1> DEFINE favored(i) == \E n \in listed.seeds : BaseName(n) = queue[i].fname
<1>1. queue \in Seq(Entries(Len(queue))) /\ Len(queue) \in Nat
      /\ DOMAIN queue = 1..Len(queue)
  BY DEF TypeOK, Entries
<1>2. queue' = [i \in 1..Len(queue) |->
                  [queue[i] EXCEPT !.backup_favored = favored(i)]]
  BY <1>1 DEF ReadBackup
<1>3. \A i : favored(i) \in BOOLEAN
  OBVIOUS
<1> HIDE DEF favored
<1>4. ASSUME NEW i \in 1..Len(queue)
      PROVE  queue'[i] \in Entries(Len(queue)) /\ queue'[i].trace = queue[i].trace
  <2>1. queue[i] \in Entries(Len(queue))
    BY <1>1
  <2>2. queue'[i] = [queue[i] EXCEPT !.backup_favored = favored(i)]
    BY <1>2
  <2> QED
    BY <2>1, <2>2, <1>3, EntryFavored
<1>5. queue' \in [1..Len(queue) -> Entries(Len(queue))]
  BY <1>2, <1>4
<1>6. queue' \in Seq(Entries(Len(queue))) /\ Len(queue') = Len(queue)
  BY <1>1, <1>5
<1> QED
  BY <1>4, <1>6

LEMMA BeginRoundInv == ASSUME IInv, BeginRound PROVE IInv'
<1>1. /\ pc = "query" /\ pc' = "stage" /\ ReadBackup
      /\ c_gen_rounds < GenRounds /\ gen_round < MaxRounds
      /\ series' = series + 1
      /\ UNCHANGED <<left, queue_cur, virgin_bits, backup_files, clash,
                     gen_round, c_gen_rounds, backup_idx, old_edge, channel,
                     network>>
  BY DEF BeginRound, Generate
<1>2. ~backup_mode /\ backup_mode' = TRUE /\ backup_round_begin' = TRUE
  BY DEF BeginRound
<1>3. /\ queue' \in Seq(Entries(Len(queue))) /\ Len(queue') = Len(queue)
      /\ \A i \in 1..Len(queue) : queue'[i].trace = queue[i].trace
  BY <1>1, ReadBackupQueue DEF IInv
<1>4. TypeOK'
  <2>1. backup_bits1' \subseteq Edges /\ backup_bits2' \subseteq Edges
    BY <1>1 DEF IInv, TypeOK, ReadBackup
  <2>2. series' \in Nat
    BY <1>1 DEF IInv, TypeOK
  <2> QED
    BY <1>1, <1>2, <1>3, <2>1, <2>2
    DEF IInv, TypeOK, Entries, channel, network
<1>5. WalkInv'
  BY <1>1, <1>3 DEF IInv, WalkInv, Place
<1>6. RoundInv' /\ SeriesInv'
  BY <1>1, <1>2, Constants DEF IInv, TypeOK, RoundInv, SeriesInv
<1>7. NamesInv' /\ NamesFresh'
  BY <1>1 DEF IInv, NamesInv, NamesFresh
<1>8. CoveredInv'
  BY <1>1, <1>3 DEF IInv, CoveredInv
<1>9. NewEdgeInv'
  <2> SUFFICES ASSUME NEW i \in 2..Len(queue)
               PROVE  \E e \in queue'[i].trace :
                        \A j \in 1..(i - 1) : e \notin queue'[j].trace
    BY <1>3 DEF NewEdgeInv
  <2>1. PICK e \in queue[i].trace : \A j \in 1..(i - 1) : e \notin queue[j].trace
    BY DEF IInv, NewEdgeInv
  <2>2. \A j \in 1..i : j \in 1..Len(queue)
    BY DEF IInv, TypeOK
  <2> QED
    BY <1>3, <2>1, <2>2
<1> QED
  BY <1>4, <1>5, <1>6, <1>7, <1>8, <1>9 DEF IInv

(* The pause begins and ends outside a round. *)
LEMMA PauseInv == ASSUME IInv, BeginPause \/ EndPause PROVE IInv'
<1>1. /\ pc = "query" /\ pc' = "stage"
      /\ UNCHANGED <<left, queue_cur, kept, backup_mode, backup_round_begin,
                     gen_round, backup_idx, bits, old_edge, channel, network>>
      /\ ~backup_mode
  BY DEF BeginPause, EndPause, Generate
<1>2. /\ c_gen_rounds' \in {0, Paused} /\ series' \in Nat
      /\ series' = 0
  BY Constants DEF BeginPause, EndPause, IInv, TypeOK, SeriesInv
<1>3. TypeOK'
  BY <1>1, <1>2, Constants DEF IInv, TypeOK, kept, bits, channel, network
<1>4. WalkInv' /\ NamesInv'
  BY <1>1 DEF IInv, WalkInv, NamesInv, kept, Place
<1>5. RoundInv' /\ SeriesInv'
  BY <1>1, <1>2, Constants DEF IInv, RoundInv, SeriesInv
<1> QED
  BY <1>1, <1>3, <1>4, <1>5, QueueKept DEF IInv

-----------------------------------------------------------------------------
(* The network changes the channel and its lists, which name entries.      *)
LEMMA NetworkInv == ASSUME IInv, NetworkNext PROVE IInv'
<1>1. UNCHANGED <<walk, kept, round, bits, old_edge>>
  BY DEF NetworkNext, AnswerLate, BeginTraining, TrainBalanced,
         TrainUnbalanced, EndTraining
<1>2. /\ phase' \in {"free", "asked", "training"}
      /\ request' \in {"none", "TA", "RE"}
      /\ verdict' \in {"untrained", "balanced", "unbalanced"}
  BY DEF NetworkNext, AnswerLate, BeginTraining, TrainBalanced,
         TrainUnbalanced, EndTraining, network, IInv, TypeOK
<1>3. listed' \in [seeds : SUBSET (1..Len(queue)), cover : SUBSET Edges,
                   avoid : SUBSET Edges]
  <2>1. CASE UNCHANGED listed
    BY <2>1 DEF IInv, TypeOK
  <2>2. CASE TrainUnbalanced
    <3>1. PICK c \in Edges \ virgin_bits :
            \E a \in {{}} \cup {{d} : d \in Edges \ (virgin_bits \cup {c})} :
              listed' = Listing(c, a)
      BY <2>2 DEF TrainUnbalanced
    <3>2. PICK a \in {{}} \cup {{d} : d \in Edges \ (virgin_bits \cup {c})} :
            listed' = Listing(c, a)
      BY <3>1
    <3>3. c \in Edges /\ a \subseteq Edges
      BY <3>2
    <3>4. DOMAIN queue = 1..Len(queue)
      BY DEF IInv, TypeOK
    <3> QED
      BY <3>2, <3>3, <3>4 DEF Listing
  <2> QED
    BY <2>1, <2>2
    DEF NetworkNext, AnswerLate, BeginTraining, TrainBalanced, network
<1>4. TypeOK'
  BY <1>1, <1>2, <1>3 DEF IInv, TypeOK, walk, kept, round, bits
<1>5. WalkInv' /\ RoundInv' /\ SeriesInv' /\ NamesInv'
  BY <1>1
  DEF IInv, WalkInv, RoundInv, SeriesInv, NamesInv, walk, kept, round
<1> QED
  BY <1>1, <1>4, <1>5, QueueKept DEF IInv

-----------------------------------------------------------------------------
(* What save_if_interesting does to the queue: an entry it adds covers an  *)
(* edge that was virgin, and so one that no entry has.                     *)
LEMMA ExecQueue ==
  ASSUME IInv, NEW t \in Traces, Exec(t)
  PROVE  /\ queue' \in Seq(Entries(Len(queue')))
         /\ Len(queue') \in Nat /\ Len(queue') >= Len(queue)
         /\ CoveredInv' /\ NewEdgeInv'
<1> DEFINE n == Len(queue)
<1>1. virgin_bits' = virgin_bits \ t
  BY DEF Exec
<1>2. queue \in Seq(Entries(n)) /\ n \in Nat /\ n >= 1
  BY DEF IInv, TypeOK, WalkInv, Entries
<1>3. CASE ~ToQueue(t)
  <2>1. queue' = queue
    BY <1>3 DEF Exec
  <2> QED
    BY <1>1, <1>2, <2>1 DEF IInv, CoveredInv, NewEdgeInv
<1>4. CASE ToQueue(t)
  <2>1. queue' = Append(queue, Entry(n + 1, t))
    BY <1>4 DEF Exec
  <2>2. queue \in Seq(Entries(n + 1))
    BY <1>2, EntriesGrow
  <2>3. Entry(n + 1, t) \in Entries(n + 1) /\ Entry(n + 1, t).trace = t
    BY <1>2, EntryTyped
  <2>4. queue' \in Seq(Entries(n + 1)) /\ Len(queue') = n + 1
    BY <2>1, <2>2, <2>3
  <2>5. \A i \in 1..n : queue'[i] = queue[i]
    BY <2>1, <2>2, <2>3
  <2>6. queue'[n + 1].trace = t
    BY <2>1, <2>2, <2>3
  <2> HIDE DEF n
  <2>7. CoveredInv'
    <3>1. \A i \in 1..n : queue[i].trace \cap virgin_bits = {}
      BY DEF IInv, CoveredInv, n
    <3> QED
      BY <1>1, <1>2, <2>4, <2>5, <2>6, <3>1 DEF CoveredInv
  <2>8. NewEdgeInv'
    <3> SUFFICES ASSUME NEW i \in 2..(n + 1)
                 PROVE  \E e \in queue'[i].trace :
                          \A j \in 1..(i - 1) : e \notin queue'[j].trace
      BY <2>4 DEF NewEdgeInv
    <3>1. CASE i <= n
      <4>1. i \in 2..n /\ (\A j \in 1..i : j \in 1..n)
        BY <1>2, <3>1
      <4>2. PICK e \in queue[i].trace : \A j \in 1..(i - 1) : e \notin queue[j].trace
        BY <4>1 DEF IInv, NewEdgeInv, n
      <4> QED
        BY <2>5, <4>1, <4>2
    <3>2. CASE i = n + 1
      <4>1. PICK e \in t : e \in virgin_bits
        BY <1>4 DEF ToQueue, HasNewBits
      <4>2. \A j \in 1..n : e \notin queue[j].trace
        BY <4>1 DEF IInv, CoveredInv, n
      <4>3. i - 1 = n
        BY <1>2, <3>2
      <4> QED
        BY <2>5, <2>6, <3>2, <4>1, <4>2, <4>3
    <3> QED
      BY <1>2, <3>1, <3>2
  <2> QED
    BY <1>2, <2>4, <2>7, <2>8 DEF n
<1> QED
  BY <1>3, <1>4

(* ... and to the backup set: the name is one above those of this round.   *)
LEMMA ExecNames ==
  ASSUME IInv, NEW t \in Traces, Exec(t)
  PROVE  /\ backup_files' \subseteq (0..MaxRounds) \X (0..(BackupLimit - 1))
         /\ clash' \in BOOLEAN /\ ~clash'
         /\ \A m \in backup_files' :
              \/ m[1] < gen_round
              \/ m[1] = gen_round /\ m[2] < backup_idx
              \/ m[1] = gen_round /\ m[2] = backup_idx /\ ToBackup(t)
<1>1. clash \in BOOLEAN /\ ~clash
  BY DEF IInv, NamesFresh, TypeOK
<1>2. CASE ~ToBackup(t)
  <2>1. UNCHANGED <<backup_files, clash>>
    BY <1>2 DEF Exec
  <2> QED
    BY <1>1, <2>1 DEF IInv, TypeOK, NamesInv
<1>3. CASE ToBackup(t)
  <2> DEFINE new == Name(gen_round, backup_idx)
  <2>1. /\ backup_files' = backup_files \cup {new}
        /\ clash' = (new \in backup_files)
    BY <1>3 DEF Exec
  <2>2. new \in (0..MaxRounds) \X (0..(BackupLimit - 1))
    BY DEF IInv, TypeOK, Name
  <2>3. new[1] = gen_round /\ new[2] = backup_idx
    BY DEF Name
  <2>4. new \notin backup_files
    BY <2>3, NamesTyped DEF IInv, NamesInv
  <2> HIDE DEF new
  <2>5. backup_files' \subseteq (0..MaxRounds) \X (0..(BackupLimit - 1))
    BY <2>1, <2>2 DEF IInv, TypeOK
  <2>6. clash' \in BOOLEAN /\ ~clash'
    <3>1. clash' = (new \in backup_files)
      BY <2>1
    <3>2. clash' = FALSE \/ clash' = TRUE
      BY <3>1
    <3> QED
      BY <2>4, <3>1, <3>2
  <2>7. NamesInv
    BY DEF IInv
  <2>8. ASSUME NEW m \in backup_files'
        PROVE  \/ m[1] < gen_round
               \/ m[1] = gen_round /\ m[2] < backup_idx
               \/ m[1] = gen_round /\ m[2] = backup_idx
    <3>1. m \in backup_files \/ m = new
      BY <2>1
    <3> QED
      BY <2>3, <2>7, <3>1 DEF NamesInv
  <2> QED
    BY <1>3, <2>5, <2>6, <2>8
<1> QED
  BY <1>2, <1>3

(* ... and to the round, which ends when the set is full.                  *)
LEMMA ExecRound ==
  ASSUME IInv, NEW t \in Traces, Exec(t)
  PROVE  /\ backup_mode' \in BOOLEAN /\ gen_round' \in 0..MaxRounds
         /\ c_gen_rounds' \in (0..GenRounds) \cup {Paused}
         /\ backup_idx' \in 0..(BackupLimit - 1) /\ series' = series
         /\ phase' \in {"free", "asked", "training"}
         /\ request' \in {"none", "TA", "RE"} /\ old_edge' \in BOOLEAN
         /\ RoundInv' /\ SeriesInv'
         /\ \/ gen_round' = gen_round + 1
            \/ /\ gen_round' = gen_round
               /\ backup_idx' = IF ToBackup(t) THEN backup_idx + 1
                                ELSE backup_idx
<1>1. CASE Full(t)
  <2>1. EndRound
    BY <1>1 DEF Exec
  <2>2. backup_mode /\ SendRetrain
    BY <1>1, <2>1 DEF Full, ToBackup, EndRound
  <2>3. /\ phase' \in {"free", "asked", "training"}
        /\ request' \in {"none", "TA", "RE"} /\ old_edge' \in BOOLEAN
    BY <2>2, SendTyped DEF IInv
  <2> QED
    BY <2>1, <2>2, <2>3, EndRoundInv
<1>2. CASE ~Full(t)
  <2>1. UNCHANGED <<backup_mode, gen_round, c_gen_rounds, series, channel,
                    old_edge>>
    BY <1>2 DEF Exec
  <2>2. backup_idx' = IF ToBackup(t) THEN backup_idx + 1 ELSE backup_idx
    BY <1>2 DEF Exec
  <2>3. backup_idx' \in 0..(BackupLimit - 1)
    <3>1. ToBackup(t) => backup_idx + 1 # BackupLimit
      BY <1>2 DEF Full
    <3> QED
      BY <2>2, <3>1, Constants DEF IInv, TypeOK
  <2>4. ~backup_mode => ~ToBackup(t)
    BY DEF ToBackup
  <2>5. RoundInv' /\ SeriesInv'
    BY <2>1, <2>2, <2>4 DEF IInv, RoundInv, SeriesInv
  <2>6. /\ phase' \in {"free", "asked", "training"}
        /\ request' \in {"none", "TA", "RE"} /\ old_edge' \in BOOLEAN
    BY <2>1, SendTyped DEF IInv
  <2>7. /\ backup_mode' \in BOOLEAN /\ gen_round' \in 0..MaxRounds
        /\ c_gen_rounds' \in (0..GenRounds) \cup {Paused}
    BY <2>1 DEF IInv, TypeOK
  <2> QED
    BY <2>1, <2>2, <2>3, <2>5, <2>6, <2>7
<1> QED
  BY <1>1, <1>2

LEMMA QueueWalked ==
  ASSUME IInv
  PROVE  /\ Len(queue) \in Nat /\ Len(queue) >= 1
         /\ queue_cur \in 0..Len(queue) /\ WalkInv
BY DEF IInv, TypeOK, WalkInv

LEMMA ExecInv ==
  ASSUME IInv, NEW t \in Traces, Exec(t)
  PROVE  IInv'
<1>1. UNCHANGED <<pc, queue_cur, backup_round_begin, bits, network>>
  BY DEF Exec
<1>2. left' \in 0..ExecLimit /\ virgin_bits' \subseteq Edges
  BY Constants DEF Exec, IInv, TypeOK
<1>3. TypeOK'
  <2>1. queue_cur' \in 0..Len(queue')
    BY <1>1, ExecQueue, QueueWalked
  <2>2. listed' \in [seeds : SUBSET (1..Len(queue')), cover : SUBSET Edges,
                     avoid : SUBSET Edges]
    <3>1. 1..Len(queue) \subseteq 1..Len(queue')
      BY ExecQueue, QueueWalked
    <3>2. listed' = listed
      BY <1>1 DEF network
    <3> QED
      BY <3>1, <3>2 DEF IInv, TypeOK
  <2>3. clash' \in BOOLEAN /\ series' \in Nat
    BY ExecNames, ExecRound DEF IInv, TypeOK
  <2>4. queue' \in Seq([fname : {Path(n) : n \in 1..Len(queue')},
                        trace : Traces, backup_favored : BOOLEAN])
    BY ExecQueue DEF Entries
  <2>5. verdict' \in {"untrained", "balanced", "unbalanced"}
    BY <1>1 DEF IInv, TypeOK, network
  <2>6. /\ pc' \in {"top", "fuzz", "query", "stage", "after", "stopped"}
        /\ backup_round_begin' \in BOOLEAN
        /\ backup_bits1' \subseteq Edges /\ backup_bits2' \subseteq Edges
    BY <1>1 DEF IInv, TypeOK, bits
  <2> QED
    BY <1>2, <2>1, <2>2, <2>3, <2>4, <2>5, <2>6, ExecNames, ExecRound
    DEF TypeOK
<1>4. WalkInv'
  BY <1>1, ExecQueue, QueueWalked DEF WalkInv
<1>5. NamesInv'
  <2> SUFFICES ASSUME NEW m \in backup_files'
               PROVE  \/ m[1] < gen_round'
                      \/ m[1] = gen_round' /\ m[2] < backup_idx'
    BY DEF NamesInv
  <2>1. /\ m[1] \in Nat /\ m[2] \in Nat
        /\ gen_round \in Nat /\ backup_idx \in Nat
    <3>1. m \in (0..MaxRounds) \X (0..(BackupLimit - 1))
      BY ExecNames
    <3> QED
      BY <3>1, NamesTyped, Constants DEF IInv
  <2>2. \/ m[1] < gen_round
        \/ m[1] = gen_round /\ m[2] < backup_idx
        \/ m[1] = gen_round /\ m[2] = backup_idx /\ ToBackup(t)
    BY ExecNames
  <2>3. \/ gen_round' = gen_round + 1
        \/ /\ gen_round' = gen_round
           /\ backup_idx' = IF ToBackup(t) THEN backup_idx + 1 ELSE backup_idx
    BY ExecRound
  <2>4. CASE gen_round' = gen_round + 1
    BY <2>1, <2>2, <2>4
  <2>5. CASE gen_round' = gen_round /\ ToBackup(t)
    BY <2>1, <2>2, <2>3, <2>5
  <2>6. CASE gen_round' = gen_round /\ ~ToBackup(t)
    BY <2>1, <2>2, <2>3, <2>6
  <2> QED
    BY <2>3, <2>4, <2>5, <2>6
<1>6. NamesFresh'
  BY ExecNames DEF NamesFresh
<1> QED
  BY <1>3, <1>4, <1>5, <1>6, ExecQueue, ExecRound DEF IInv

-----------------------------------------------------------------------------
LEMMA NextInv == ASSUME IInv, [Next]_vars PROVE IInv'
<1>1. CASE FuzzerNext
  BY <1>1, TopInv, LoopInv, QueryInv, BeginRoundInv, PauseInv, ExecInv
  DEF FuzzerNext
<1>2. CASE NetworkNext
  BY <1>2, NetworkInv
<1>3. CASE Stop
  BY <1>3, LoopInv
<1>4. CASE UNCHANGED vars
  BY <1>4 DEF vars, IInv, TypeOK, WalkInv, RoundInv, SeriesInv, NamesInv,
              NamesFresh, CoveredInv, NewEdgeInv
<1> QED
  BY <1>1, <1>2, <1>3, <1>4 DEF Next

(* An entry with an edge of its own is not covered by the earlier ones.    *)
LEMMA NewEdgeNotRedundant == ASSUME NewEdgeInv PROVE NoRedundantEntry
BY DEF NewEdgeInv, NoRedundantEntry

LEMMA InvSpec == Spec => []IInv
<1>1. Init => IInv
  BY InitInv
<1>2. IInv /\ [Next]_vars => IInv'
  BY NextInv
<1> QED
  BY <1>1, <1>2, PTL DEF Spec

-----------------------------------------------------------------------------
(* Every variable of the main loop stays within its type; in particular a  *)
(* number given to a backup input stays below the limit.                   *)
THEOREM CampaignTypes == Spec => []TypeOK
<1>1. IInv => TypeOK
  BY DEF IInv
<1> QED
  BY <1>1, InvSpec, PTL

(* queue_backup never has a file created twice: the O_EXCL of              *)
(* save_if_interesting does not end the fuzzer.                            *)
THEOREM BackupNamesFresh == Spec => []NamesFresh
<1>1. IInv => NamesFresh
  BY DEF IInv
<1> QED
  BY <1>1, InvSpec, PTL

(* No more than SaidRounds + 1 rounds, 11 in the code, come between two    *)
(* pauses.                                                                 *)
THEOREM PauseFollows == Spec => []RoundsBounded
<1>1. IInv => RoundsBounded
  BY Constants DEF IInv, TypeOK, RoundInv, SeriesInv, RoundsBounded,
                   GenRounds
<1> QED
  BY <1>1, InvSpec, PTL

(* The queue holds no entry that the ones before it cover. *)
THEOREM QueueNotRedundant == Spec => []NoRedundantEntry
<1>1. IInv => NoRedundantEntry
  BY NewEdgeNotRedundant DEF IInv
<1> QED
  BY <1>1, InvSpec, PTL
=============================================================================
