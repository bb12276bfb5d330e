--------------------------- MODULE TopRatedProofs ---------------------------
(***************************************************************************)
(* Proofs about TopRated: the reference counts of the winners, and that    *)
(* cull_queue never reads the trace of an entry that has none, for maps    *)
(* and queues of any size and for programs that are stable or not; and for *)
(* programs that are stable, that the winners are the cheapest and that    *)
(* the favored entries cover the map and are counted.                      *)
(***************************************************************************)
EXTENDS TopRated, FiniteSetTheorems, TLAPS

Slots(f, e) == {i \in Edges : f[i] = e}
Waiting == {e \in Queue : ~was_fuzzed[e]}

(* Where update_bitmap_score and fuzz_one are called, their arguments are  *)
(* entries of the queue, and an entry of the queue has been executed.      *)
Shape ==
  /\ pc = "score" => q \in Queue /\ trace_bits \in Traces
  /\ pc # "dry" /\ ~(pc = "score" /\ back = "dry") => 1 \in Queue
  /\ pc \in {"pick", "recal", "trim", "fuzz", "end"} => queue_cur \in Queue
  /\ pc = "score" /\ back # "dry" => queue_cur \in Queue
  /\ \A e \in Queue : exec_cksum[e] \in Traces
  /\ \A e \in Entries \ Queue : ~was_fuzzed[e]

MiniCounted == \A e \in Entries : (trace_mini[e] # {}) <=> tc_ref[e] # 0
NotFuzzedCounted == pending_not_fuzzed = Cardinality(Waiting)

IInv == /\ TypeOK /\ Shape /\ RefsCounted /\ MiniCounted
        /\ NotFuzzedCounted

(***************************************************************************)
(* What holds besides while the program is stable.                         *)
(***************************************************************************)
(* The winner of a slot was calibrated, and has the edge. *)
WinnersFit ==
  \A i \in Edges : top_rated[i] # None =>
    cal_failed[top_rated[i]] = 0 /\ i \in exec_cksum[top_rated[i]]

(* The trace that is kept is the one of the entry. *)
MiniExact == \A e \in Entries :
               trace_mini[e] # {} => trace_mini[e] = exec_cksum[e]

(* What is scored was calibrated, and has just been run. *)
ScoredFits ==
  /\ pc = "score" => trace_bits = exec_cksum[q] /\ cal_failed[q] = 0
  /\ pc = "trim" \/ (pc = "score" /\ back = "trim") =>
       cal_failed[queue_cur] = 0
  /\ pc = "recal" => cal_failed[queue_cur] # 0

(* CheapestWins, but for the slots that q has still to compete for.        *)
CheapSoFar ==
  \A e \in Calibrations : \A i \in exec_cksum[e] :
    \/ pc = "score" /\ e = q /\ i >= slot
    \/ top_rated[i] # None /\ fav_factor[top_rated[i]] <= fav_factor[e]

(* temp_v holds the edges that no favored entry has, and the slots behind  *)
(* the one cull_queue is at are served.                                    *)
Favored(i) == \E f \in Favorites : i \in exec_cksum[f]
CoverSoFar ==
  /\ Favorites \subseteq Queue
  /\ pc = "cull" =>
       \A i \in Edges : /\ i \notin temp_v <=> Favored(i)
                        /\ i < slot /\ top_rated[i] # None => Favored(i)
  /\ pc # "cull" /\ ~score_changed =>
       \A i \in Edges : top_rated[i] # None => Favored(i)

Pending == {e \in Favorites : ~was_fuzzed[e]}
CountedSoFar == /\ queued_favored = Cardinality(Favorites)
                /\ pending_favored = Cardinality(Pending)

SInv == /\ WinnersFit /\ MiniExact /\ ScoredFits /\ CheapSoFar
        /\ CoverSoFar /\ CountedSoFar

-----------------------------------------------------------------------------
(* The assumptions on the constants, as the provers use them. *)
LEMMA Constants == /\ MapSize \in Nat \ {0} /\ MaxEntries \in Nat
                   /\ CalChances \in Nat \ {0}
                   /\ Traces \subseteq (SUBSET Edges) \ {{}}
                   /\ Costs \subseteq Nat /\ Unstable \in BOOLEAN
BY MapAssumption, EntriesAssumption, TracesAssumption, CostsAssumption,
   UnstableAssumption

LEMMA SlotsFinite == ASSUME NEW f, NEW e
                     PROVE  /\ IsFiniteSet(Slots(f, e))
                            /\ Cardinality(Slots(f, e)) \in Nat
<1>1. IsFiniteSet(Edges)
  BY FS_Interval, Constants DEF Edges
<1>2. IsFiniteSet(Slots(f, e))
  BY <1>1, FS_Subset DEF Slots
<1> QED
  BY <1>2, FS_CardinalityType

(* An entry that takes a slot from another one holds one slot more, the    *)
(* other one slot less.                                                    *)
LEMMA SlotTaken ==
  ASSUME NEW f \in [Edges -> 0..MaxEntries], NEW s \in Edges,
         NEW e \in Entries, f[s] # e,
         NEW g \in [Edges -> 0..MaxEntries], g[s] = e,
         \A i \in Edges \ {s} : g[i] = f[i]
  PROVE  /\ Cardinality(Slots(g, e)) = Cardinality(Slots(f, e)) + 1
         /\ Cardinality(Slots(g, f[s])) = Cardinality(Slots(f, f[s])) - 1
<1>1. Slots(g, e) = Slots(f, e) \cup {s} /\ s \notin Slots(f, e)
  BY DEF Slots
<1>2. Slots(g, f[s]) = Slots(f, f[s]) \ {s} /\ s \in Slots(f, f[s])
  BY DEF Slots
<1>4. Cardinality(Slots(g, e)) = Cardinality(Slots(f, e)) + 1
  BY <1>1, SlotsFinite, FS_AddElement
<1>5. Cardinality(Slots(g, f[s])) = Cardinality(Slots(f, f[s])) - 1
  <2> DEFINE S == Slots(f, f[s])
  <2>1. IsFiniteSet(S)
    BY SlotsFinite
  <2> HIDE DEF S
  <2>2. Cardinality(S \ {s}) = IF s \in S THEN Cardinality(S) - 1
                              ELSE Cardinality(S)
    BY <2>1, FS_RemoveElement
  <2> QED
    BY <1>2, <2>2 DEF S
<1> QED
  BY <1>4, <1>5

(* The count of an entry that holds a slot is not zero.                    *)
LEMMA Holds ==
  ASSUME RefsCounted, NEW e \in Entries
  PROVE  /\ tc_ref[e] = Cardinality(Slots(top_rated, e))
         /\ tc_ref[e] \in Nat
         /\ tc_ref[e] # 0 <=> \E i \in Edges : top_rated[i] = e
<1>1. tc_ref[e] = Cardinality(Slots(top_rated, e))
  BY DEF RefsCounted, Slots
<1>2. Cardinality(Slots(top_rated, e)) # 0 <=> Slots(top_rated, e) # {}
  BY SlotsFinite, FS_EmptySet
<1>3. Slots(top_rated, e) # {} <=> \E i \in Edges : top_rated[i] = e
  BY DEF Slots
<1> QED
  BY <1>1, <1>2, <1>3, SlotsFinite

-----------------------------------------------------------------------------
LEMMA InitInv == Init => IInv
<1> SUFFICES ASSUME Init PROVE IInv
  OBVIOUS
<1>1. TypeOK
  <2>1. 1 \in 1..(MapSize + 1) /\ 0 \in 0..MaxEntries /\ 0 \in 0..CalChances
    BY Constants
  <2>2. \A x, S : x \in S => All(x) \in [Entries -> S]
    BY DEF All
  <2>3. top_rated \in [Edges -> 0..0]
    BY DEF Init, None
  <2>4. /\ exec_cksum \in [Entries -> Traces \cup {{}}]
        /\ fav_factor \in [Entries -> Costs \cup {0}]
        /\ cal_failed \in [Entries -> 0..CalChances]
        /\ trim_done \in [Entries -> BOOLEAN]
        /\ was_fuzzed \in [Entries -> BOOLEAN]
        /\ favored \in [Entries -> BOOLEAN]
        /\ trace_mini \in [Entries -> Traces \cup {{}}]
        /\ tc_ref \in [Entries -> Nat]
    BY <2>1, <2>2 DEF Init
  <2>5. /\ pc \in PCs /\ back \in {"dry", "trim", "fuzz", "end"}
        /\ slot \in 1..(MapSize + 1) /\ q \in 0..MaxEntries
        /\ trace_bits \in Traces \cup {{}} /\ temp_v \subseteq Edges
        /\ queued_paths \in 0..MaxEntries /\ queue_cur \in 0..queued_paths
    BY <2>1 DEF Init, PCs, None
  <2>8. score_changed \in BOOLEAN
    BY DEF Init
  <2>6. /\ queued_favored \in Nat /\ pending_favored \in Int
        /\ pending_not_fuzzed \in 0..queued_paths
    BY DEF Init
  <2>7. top_rated \in [Edges -> 0..queued_paths]
    BY <2>3 DEF Init
  <2> QED
    BY <2>4, <2>5, <2>6, <2>7, <2>8 DEF Init, TypeOK
<1>2. Shape
  BY Constants DEF Init, Shape, Queue, All, Entries
<1>3. RefsCounted
  <2>1. \A e \in Entries : {i \in Edges : top_rated[i] = e} = {}
    BY DEF Init, None, Entries
  <2> QED
    BY <2>1, FS_EmptySet DEF Init, RefsCounted, All
<1>4. MiniCounted
  BY DEF Init, MiniCounted, All
<1>5. NotFuzzedCounted
  <2>1. Waiting = {}
    BY DEF Init, Waiting, Queue
  <2> QED
    BY <2>1, FS_EmptySet DEF Init, NotFuzzedCounted
<1> QED
  BY <1>1, <1>2, <1>3, <1>4, <1>5 DEF IInv

(* A slot is won.  Only here the counts and the traces change.             *)
LEMMA WinInv ==
  ASSUME IInv, ScoreWin
  PROVE  /\ RefsCounted' /\ MiniCounted'
         /\ tc_ref' \in [Entries -> Nat]
         /\ trace_mini' \in [Entries -> Traces \cup {{}}]
<1> DEFINE old == top_rated[slot]
<1>0. /\ q \in Entries /\ trace_bits \in Traces /\ slot \in Edges
      /\ trace_bits # {} /\ old \in 0..MaxEntries
      /\ tc_ref \in [Entries -> Nat]
      /\ trace_mini \in [Entries -> Traces \cup {{}}]
      /\ top_rated \in [Edges -> 0..MaxEntries]
  <2>1. /\ q \in Queue /\ trace_bits \in Traces /\ slot \in Edges
        /\ queued_paths \in 0..MaxEntries
        /\ top_rated \in [Edges -> 0..queued_paths]
        /\ tc_ref \in [Entries -> Nat]
        /\ trace_mini \in [Entries -> Traces \cup {{}}]
    BY DEF IInv, TypeOK, Shape, ScoreWin
  <2>2. 0..queued_paths \subseteq 0..MaxEntries /\ Queue \subseteq Entries
    BY <2>1, Constants DEF Queue, Entries
  <2>3. trace_bits # {}
    BY <2>1, Constants
  <2> QED
    BY <2>1, <2>2, <2>3
<1>1. \A e \in Entries : /\ tc_ref[e] = Cardinality(Slots(top_rated, e))
                         /\ tc_ref[e] \in Nat
                         /\ tc_ref[e] # 0 <=> \E i \in Edges : top_rated[i] = e
  BY Holds DEF IInv
<1>2. old # None => old \in Entries /\ tc_ref[old] # 0
  BY <1>0, <1>1 DEF None, Entries
<1>3. /\ top_rated' = [top_rated EXCEPT ![slot] = q]
      /\ tc_ref' = [Released(old) EXCEPT ![q] = @ + 1]
      /\ trace_mini' = IF Kept(old)[q] = {}
                       THEN [Kept(old) EXCEPT ![q] = trace_bits]
                       ELSE Kept(old)
  BY DEF ScoreWin
<1>4. tc_ref' \in [Entries -> Nat]
  BY <1>0, <1>2, <1>3 DEF Released
<1>5. trace_mini' \in [Entries -> Traces \cup {{}}]
  BY <1>0, <1>3 DEF Kept
<1>6. \A e \in Entries : tc_ref'[e] = Cardinality(Slots(top_rated', e))
  <2>1. CASE old = q
    <3>1. top_rated' = top_rated
      BY <1>0, <1>3, <2>1
    <3>2. tc_ref' = tc_ref
      BY <1>0, <1>2, <1>3, <2>1 DEF Released, None, Entries
    <3> QED
      BY <1>1, <3>1, <3>2
  <2>2. CASE old # q
    <3>1. /\ Cardinality(Slots(top_rated', q)) = Cardinality(Slots(top_rated, q)) + 1
          /\ Cardinality(Slots(top_rated', old)) = Cardinality(Slots(top_rated, old)) - 1
      <4>1. /\ top_rated' \in [Edges -> 0..MaxEntries] /\ top_rated'[slot] = q
            /\ \A i \in Edges \ {slot} : top_rated'[i] = top_rated[i]
        BY <1>0, <1>3, Constants DEF Entries
      <4> HIDE DEF old
      <4> QED
        BY <1>0, <2>2, <4>1, SlotTaken DEF old
    <3>6. \A e \in Entries : e # q /\ e # old =>
                               Slots(top_rated', e) = Slots(top_rated, e)
      BY <1>0, <1>3 DEF Slots
    <3>2. tc_ref'[q] = tc_ref[q] + 1
      <4>1. q \in DOMAIN Released(old) /\ Released(old)[q] = tc_ref[q]
        BY <1>0, <1>2, <2>2 DEF Released
      <4> QED
        BY <1>3, <4>1
    <3>3. old # None => tc_ref'[old] = tc_ref[old] - 1
      BY <1>0, <1>2, <1>3, <2>2 DEF Released
    <3>4. \A e \in Entries : e # q /\ e # old => tc_ref'[e] = tc_ref[e]
      BY <1>0, <1>3, <2>2 DEF Released
    <3>5. \A e \in Entries : e # None
      BY DEF Entries, None
    <3> QED
      BY <1>1, <3>1, <3>2, <3>3, <3>4, <3>5, <3>6
  <2> QED
    BY <2>1, <2>2
<1>7. \A e \in Entries : (trace_mini'[e] # {}) <=> tc_ref'[e] # 0
  <2>0. \A e \in Entries : (trace_mini[e] # {}) <=> tc_ref[e] # 0
    BY DEF IInv, MiniCounted
  <2>1. tc_ref'[q] # 0 /\ trace_mini'[q] # {}
    BY <1>0, <1>2, <1>3 DEF Released, Kept
  <2>2. CASE old # None /\ old # q
    <3>1. tc_ref'[old] = tc_ref[old] - 1
      BY <1>0, <1>2, <1>3, <2>2 DEF Released
    <3>2. trace_mini'[old] = IF tc_ref[old] = 1 THEN {} ELSE trace_mini[old]
      BY <1>0, <1>2, <1>3, <2>2 DEF Kept
    <3>3. \A e \in Entries \ {q, old} :
             tc_ref'[e] = tc_ref[e] /\ trace_mini'[e] = trace_mini[e]
      BY <1>0, <1>2, <1>3, <2>2 DEF Released, Kept
    <3>4. (trace_mini'[old] # {}) <=> tc_ref'[old] # 0
      BY <1>2, <1>1, <2>0, <2>2, <3>1, <3>2
    <3> QED
      BY <2>0, <2>1, <3>3, <3>4
  <2>3. CASE old = None \/ old = q
    <3>1. \A e \in Entries \ {q} :
             tc_ref'[e] = tc_ref[e] /\ trace_mini'[e] = trace_mini[e]
      BY <1>0, <1>2, <1>3, <2>3 DEF Released, Kept
    <3> QED
      BY <2>0, <2>1, <3>1
  <2> QED
    BY <2>2, <2>3
<1> QED
  BY <1>4, <1>5, <1>6, <1>7 DEF RefsCounted, MiniCounted, Slots

-----------------------------------------------------------------------------
(* Every other step leaves the counts and the traces alone.                *)
LEMMA ScoresKept ==
  ASSUME IInv, UNCHANGED scores
  PROVE  RefsCounted' /\ MiniCounted'
BY DEF IInv, scores, RefsCounted, MiniCounted

LEMMA WaitingKept ==
  ASSUME IInv, UNCHANGED <<queued_paths, was_fuzzed, pending_not_fuzzed>>
  PROVE  NotFuzzedCounted'
BY DEF IInv, NotFuzzedCounted, Waiting, Queue

LEMMA QueueInEntries == ASSUME TypeOK PROVE Queue \subseteq Entries
BY Constants DEF TypeOK, Queue, Entries

(* A loop over the map goes on to the next slot, or it is over.            *)
LEMMA NextSlot == /\ 1 \in 1..(MapSize + 1)
                  /\ \A i \in Edges : i + 1 \in 1..(MapSize + 1)
BY Constants DEF Edges

LEMMA ScoreInv ==
  ASSUME IInv, ScoreLose \/ ScoreWin \/ ScoreDone
  PROVE  IInv'
<1> USE DEF IInv, loop, entry, paths, favors, scores, backup
<1>1. CASE ScoreLose
  <2>1. TypeOK'
    BY <1>1, NextSlot DEF ScoreLose, TypeOK
  <2>2. Shape'
    BY <1>1 DEF ScoreLose, Shape, Queue
  <2> QED
    BY <1>1, <2>1, <2>2, ScoresKept, WaitingKept DEF ScoreLose
<1>2. CASE ScoreWin
  <2>1. tc_ref' \in [Entries -> Nat] /\ RefsCounted' /\ MiniCounted'
        /\ trace_mini' \in [Entries -> Traces \cup {{}}]
    BY <1>2, WinInv
  <2>2. top_rated' \in [Edges -> 0..queued_paths]
    BY <1>2 DEF ScoreWin, TypeOK, Shape, Queue
  <2>3. TypeOK'
    BY <1>2, <2>1, <2>2, NextSlot DEF ScoreWin, TypeOK
  <2>4. Shape'
    BY <1>2 DEF ScoreWin, Shape, Queue
  <2> QED
    BY <1>2, <2>1, <2>3, <2>4, WaitingKept DEF ScoreWin
<1>3. CASE ScoreDone
  <2>1. TypeOK'
    BY <1>3, NextSlot, Constants DEF ScoreDone, TypeOK, PCs, None
  <2>2. Shape'
    BY <1>3 DEF ScoreDone, Shape, Queue, TypeOK
  <2> QED
    BY <1>3, <2>1, <2>2, ScoresKept, WaitingKept DEF ScoreDone
<1> QED
  BY <1>1, <1>2, <1>3

(* What a walk that enters fuzz_one leaves of the types. *)
LEMMA EnterTypes ==
  ASSUME TypeOK, Enter, 1 \in Queue, UNCHANGED queued_paths
  PROVE  /\ queue_cur' \in 0..queued_paths
         /\ backup_mode' \in BOOLEAN /\ backup_round_begin' \in BOOLEAN
         /\ backup_favored' \subseteq 1..queued_paths
         /\ waiting' \subseteq backup_favored'
<1>1. queued_paths \in Nat /\ 1 \in 0..queued_paths
  BY DEF TypeOK, Queue
<1>2. queue_cur' \in 0..queued_paths
  BY <1>1 DEF TypeOK, Enter
<1> QED
  BY <1>2 DEF TypeOK, Enter, InRound

LEMMA CullInv ==
  ASSUME IInv, NoCull \/ BeginCull \/ CullSkip \/ CullFavor \/ CullDone
  PROVE  IInv'
<1> USE DEF IInv, loop, entry, paths, favors, scores, backup
<1>1. CASE NoCull
  <2>1. TypeOK'
    <3>1. Enter /\ 1 \in Queue /\ UNCHANGED queued_paths
      BY <1>1 DEF NoCull, Shape
    <3> QED
      BY <1>1, <3>1, EnterTypes DEF NoCull, TypeOK, PCs
  <2>2. Shape'
    BY <1>1 DEF NoCull, Enter, Shape, Queue, TypeOK, None
  <2> QED
    BY <1>1, <2>1, <2>2, ScoresKept, WaitingKept DEF NoCull
<1>2. CASE BeginCull
  <2>1. favored' \in [Entries -> BOOLEAN]
    BY <1>2 DEF BeginCull, All
  <2>4. /\ pc' \in PCs /\ slot' \in 1..(MapSize + 1)
        /\ temp_v' \subseteq Edges
        /\ queued_favored' \in Nat /\ pending_favored' \in Int
    BY <1>2, NextSlot DEF BeginCull, PCs
  <2>5. score_changed' \in BOOLEAN
    BY <1>2 DEF BeginCull
  <2>2. TypeOK'
    BY <1>2, <2>1, <2>4, <2>5 DEF BeginCull, TypeOK
  <2>3. Shape'
    BY <1>2 DEF BeginCull, Shape, Queue
  <2> QED
    BY <1>2, <2>2, <2>3, ScoresKept, WaitingKept DEF BeginCull
<1>3. CASE CullSkip
  <2>1. TypeOK'
    BY <1>3, NextSlot DEF CullSkip, TypeOK
  <2>2. Shape'
    BY <1>3 DEF CullSkip, Shape, Queue
  <2> QED
    BY <1>3, <2>1, <2>2, ScoresKept, WaitingKept DEF CullSkip
<1>4. CASE CullFavor
  <2>1. favored' \in [Entries -> BOOLEAN]
    BY <1>4 DEF CullFavor, TypeOK
  <2>2. queued_favored' \in Nat /\ pending_favored' \in Int
    BY <1>4 DEF CullFavor, TypeOK
  <2>5. temp_v' \subseteq Edges /\ slot' \in 1..(MapSize + 1)
    BY <1>4, NextSlot DEF CullFavor, TypeOK
  <2>3. TypeOK'
    BY <1>4, <2>1, <2>2, <2>5 DEF CullFavor, TypeOK
  <2>4. Shape'
    BY <1>4 DEF CullFavor, Shape, Queue
  <2> QED
    BY <1>4, <2>3, <2>4, ScoresKept, WaitingKept DEF CullFavor
<1>5. CASE CullDone
  <2>1. TypeOK'
    <3>1. Enter /\ 1 \in Queue /\ UNCHANGED queued_paths
      BY <1>5 DEF CullDone, Shape
    <3> QED
      BY <1>5, <3>1, EnterTypes, NextSlot DEF CullDone, TypeOK, PCs
  <2>2. Shape'
    BY <1>5 DEF CullDone, Enter, Shape, Queue, TypeOK, None
  <2> QED
    BY <1>5, <2>1, <2>2, ScoresKept, WaitingKept DEF CullDone
<1> QED
  BY <1>1, <1>2, <1>3, <1>4, <1>5

(* A new entry: the queue and the entries that wait grow by it.            *)
LEMMA AddInv ==
  ASSUME IInv, NEW t \in Traces, AddGood(t) \/ AddBad(t)
  PROVE  IInv'
<1> DEFINE n == queued_paths + 1
<1> USE DEF IInv, loop, favors, scores, backup
<1>1. AddEntry(t)
  BY DEF AddGood, AddBad
<1>2. n \in Entries /\ n \notin Queue /\ n \in 1..MaxEntries
      /\ Queue' = Queue \cup {n}
  <2>1. /\ queued_paths \in Nat /\ queued_paths < MaxEntries
        /\ queued_paths' = n
    BY <1>1 DEF AddEntry, TypeOK
  <2> QED
    BY <2>1, Constants DEF Queue, Entries
<1>3. /\ exec_cksum' \in [Entries -> Traces \cup {{}}]
      /\ queued_paths' \in 0..MaxEntries /\ queue_cur' \in 0..queued_paths'
      /\ top_rated' \in [Edges -> 0..queued_paths']
      /\ pending_not_fuzzed' \in 0..queued_paths'
  BY <1>1, <1>2, Constants DEF AddEntry, TypeOK
<1>4. /\ \A e \in Queue' : exec_cksum'[e] \in Traces
      /\ \A e \in Entries \ Queue' : ~was_fuzzed'[e]
  BY <1>1, <1>2, QueueInEntries DEF AddEntry, TypeOK, Shape
<1>5. NotFuzzedCounted'
  <2>1. ~was_fuzzed[n]
    BY <1>2 DEF Shape
  <2>2. Waiting' = Waiting \cup {n} /\ n \notin Waiting
    BY <1>1, <1>2, <2>1 DEF AddEntry, Waiting
  <2>3. IsFiniteSet(Queue)
    BY FS_Interval DEF TypeOK, Queue
  <2>4. IsFiniteSet(Waiting)
    BY <2>3, FS_Subset DEF Waiting
  <2>5. Cardinality(Waiting \cup {n}) = Cardinality(Waiting) + 1
    BY <2>2, <2>4, FS_AddElement
  <2> QED
    BY <1>1, <2>2, <2>5 DEF NotFuzzedCounted, AddEntry
<1>6. RefsCounted' /\ MiniCounted'
  BY <1>1, ScoresKept DEF AddEntry
<1>9. {0, 1, CalChances} \subseteq 0..CalChances
  BY Constants
<1>7. CASE AddGood(t)
  <2>1. PICK c \in Costs : Calibrated(n, c)
    BY <1>7 DEF AddGood
  <2>2. PICK u \in LastTraces(t) : Score(n, u, pc)
    BY <1>7 DEF AddGood
  <2>3. u \in Traces
    BY <2>2 DEF LastTraces
  <2>4. /\ fav_factor' \in [Entries -> Costs \cup {0}]
        /\ cal_failed' \in [Entries -> 0..CalChances]
    BY <1>9, <2>1 DEF Calibrated, TypeOK
  <2>5. /\ pc' = "score" /\ back' \in {"dry", "fuzz"} /\ slot' = 1
        /\ q' = n /\ trace_bits' \in Traces
        /\ back' = pc
    BY <1>1, <2>2, <2>3 DEF Score, AddEntry
  <2>6. TypeOK'
    BY <1>1, <1>2, <1>3, <2>4, <2>5, NextSlot DEF AddEntry, TypeOK, PCs
  <2>7. Shape'
    BY <1>1, <1>2, <1>4, <2>5 DEF AddEntry, Shape
  <2> QED
    BY <1>5, <1>6, <2>6, <2>7
<1>8. CASE AddBad(t)
  <2>1. cal_failed' \in [Entries -> 0..CalChances]
    BY <1>8, <1>9 DEF AddBad, TypeOK
  <2>2. TypeOK'
    BY <1>1, <1>3, <1>8, <2>1 DEF AddBad, AddEntry, TypeOK
  <2>3. Shape'
    BY <1>1, <1>2, <1>4, <1>8 DEF AddBad, AddEntry, Shape
  <2> QED
    BY <1>5, <1>6, <2>2, <2>3
<1> QED
  BY <1>7, <1>8

(* The steps of the walk and of fuzz_one that leave the fields of the      *)
(* entries alone.                                                          *)
LEMMA WalkInv ==
  ASSUME IInv,
         DryRunDone \/ Skip \/ FuzzOne \/ Fuzzed \/ BeginRound \/ RoundFull
  PROVE  IInv'
<1> USE DEF IInv, loop, entry, paths, favors, scores, backup
<1>1. CASE DryRunDone
  <2>1. TypeOK'
    BY <1>1 DEF DryRunDone, TypeOK, PCs
  <2>2. Shape'
    BY <1>1 DEF DryRunDone, Shape, Queue, TypeOK
  <2> QED
    BY <1>1, <2>1, <2>2, ScoresKept, WaitingKept DEF DryRunDone
<1>2. CASE Skip
  <2>1. queue_cur' \in 0..queued_paths
    BY <1>2 DEF Skip, MoveOn, Shape, Queue, TypeOK, None
  <2>2. TypeOK'
    BY <1>2, <2>1 DEF Skip, TypeOK, PCs
  <2>3. Shape'
    BY <1>2 DEF Skip, Shape, Queue
  <2> QED
    BY <1>2, <2>2, <2>3, ScoresKept, WaitingKept DEF Skip
<1>3. CASE FuzzOne
  <2>1. TypeOK'
    BY <1>3 DEF FuzzOne, TypeOK, PCs
  <2>2. Shape'
    BY <1>3 DEF FuzzOne, Shape, Queue
  <2> QED
    BY <1>3, <2>1, <2>2, ScoresKept, WaitingKept DEF FuzzOne
<1>4. CASE Fuzzed
  <2>1. Shape'
    <3>1. queue_cur \in Queue \/ ~(pc = "fuzz")
      BY DEF Shape
    <3> QED
      BY <1>4, <3>1 DEF Fuzzed, Shape, Queue
  <2>2. TypeOK'
    BY <1>4 DEF Fuzzed, TypeOK, PCs
  <2> QED
    BY <1>4, <2>1, <2>2, ScoresKept, WaitingKept DEF Fuzzed
<1>5. CASE BeginRound
  <2>1. TypeOK'
    BY <1>5 DEF BeginRound, TypeOK, Queue
  <2>2. Shape'
    BY <1>5 DEF BeginRound, Shape, Queue
  <2> QED
    BY <1>5, <2>1, <2>2, ScoresKept, WaitingKept DEF BeginRound
<1>6. CASE RoundFull
  <2>1. TypeOK'
    BY <1>6 DEF RoundFull, InRound, TypeOK
  <2>2. Shape'
    BY <1>6 DEF RoundFull, Shape, Queue
  <2> QED
    BY <1>6, <2>1, <2>2, ScoresKept, WaitingKept DEF RoundFull
<1> QED
  BY <1>1, <1>2, <1>3, <1>4, <1>5, <1>6

(* Calibration and trimming of the current entry.                          *)
LEMMA StageInv ==
  ASSUME IInv, RecalGood \/ RecalBad \/ TrimNothing \/ TrimSome
  PROVE  IInv'
<1> USE DEF IInv, loop, entry, paths, favors, scores, backup
<1>0. /\ queue_cur \in Queue /\ queue_cur \in Entries /\ 1 \in Queue
      /\ queue_cur \in 0..MaxEntries
      /\ exec_cksum[queue_cur] \in Traces
  BY QueueInEntries, Constants
     DEF RecalGood, RecalBad, TrimNothing, TrimSome, Shape, Entries
<1>1. CASE RecalGood
  <2>1. PICK t \in LastTraces(exec_cksum[queue_cur]) :
          \E u \in LastTraces(t) :
            /\ exec_cksum' = [exec_cksum EXCEPT ![queue_cur] = t]
            /\ \E to \in {"trim", "end"} : Score(queue_cur, u, to)
    BY <1>1 DEF RecalGood
  <2>2. PICK u \in LastTraces(t), to \in {"trim", "end"} :
          Score(queue_cur, u, to)
    BY <2>1
  <2>3. t \in Traces /\ u \in Traces
    BY <1>0, <2>1, <2>2 DEF LastTraces
  <2>4. PICK c \in Costs : Calibrated(queue_cur, c)
    BY <1>1 DEF RecalGood
  <2>5. 0 \in 0..CalChances
    BY Constants
  <2>6. /\ fav_factor' \in [Entries -> Costs \cup {0}]
        /\ cal_failed' \in [Entries -> 0..CalChances]
    BY <2>4, <2>5 DEF Calibrated, TypeOK
  <2>7. /\ exec_cksum' \in [Entries -> Traces \cup {{}}]
        /\ \A e \in Queue : exec_cksum'[e] \in Traces
    BY <1>0, <2>1, <2>3, QueueInEntries DEF TypeOK, Shape
  <2>8. /\ pc' = "score" /\ back' \in {"trim", "end"} /\ slot' = 1
        /\ q' = queue_cur /\ trace_bits' \in Traces
    BY <2>2, <2>3 DEF Score
  <2>9. TypeOK'
    BY <1>0, <1>1, <2>6, <2>7, <2>8, NextSlot DEF RecalGood, TypeOK, PCs
  <2>10. Shape'
    BY <1>0, <1>1, <2>7, <2>8 DEF RecalGood, Shape, Queue
  <2> QED
    BY <1>1, <2>9, <2>10, ScoresKept, WaitingKept DEF RecalGood
<1>2. CASE RecalBad
  <2>1. cal_failed' \in [Entries -> 0..CalChances]
    <3>1. CASE cal_failed[queue_cur] < CalChances
      <4>1. cal_failed[queue_cur] + 1 \in 0..CalChances
        BY <1>0, <3>1, Constants DEF TypeOK
      <4>2. cal_failed' = [cal_failed EXCEPT ![queue_cur] = @ + 1]
        BY <1>2, <3>1 DEF RecalBad
      <4> QED
        BY <1>0, <4>1, <4>2 DEF TypeOK
    <3>2. CASE ~(cal_failed[queue_cur] < CalChances)
      BY <1>2, <3>2 DEF RecalBad, TypeOK
    <3> QED
      BY <3>1, <3>2
  <2>2. TypeOK'
    BY <1>2, <2>1 DEF RecalBad, TypeOK, PCs
  <2>3. Shape'
    BY <1>0, <1>2 DEF RecalBad, Shape, Queue
  <2> QED
    BY <1>2, <2>2, <2>3, ScoresKept, WaitingKept DEF RecalBad
<1>3. CASE TrimNothing
  <2>1. trim_done' \in [Entries -> BOOLEAN]
    BY <1>3 DEF TrimNothing, TypeOK
  <2>2. TypeOK'
    BY <1>3, <2>1 DEF TrimNothing, TypeOK, PCs
  <2>3. Shape'
    BY <1>0, <1>3 DEF TrimNothing, Shape, Queue
  <2> QED
    BY <1>3, <2>2, <2>3, ScoresKept, WaitingKept DEF TrimNothing
<1>4. CASE TrimSome
  <2>1. trim_done' \in [Entries -> BOOLEAN]
    BY <1>4 DEF TrimSome, TypeOK
  <2>2. fav_factor' \in [Entries -> Costs \cup {0}]
    BY <1>4 DEF TrimSome, TypeOK
  <2>3. /\ pc' = "score" /\ back' = "fuzz" /\ slot' = 1
        /\ q' = queue_cur /\ trace_bits' \in Traces
    BY <1>0, <1>4 DEF TrimSome, Score
  <2>4. TypeOK'
    BY <1>0, <1>4, <2>1, <2>2, <2>3, NextSlot DEF TrimSome, TypeOK, PCs
  <2>5. Shape'
    BY <1>0, <1>4, <2>3 DEF TrimSome, Shape, Queue
  <2> QED
    BY <1>4, <2>4, <2>5, ScoresKept, WaitingKept DEF TrimSome
<1> QED
  BY <1>1, <1>2, <1>3, <1>4

(* fuzz_one is done with an entry: the first time, one less waits.         *)
LEMMA EndInv == ASSUME IInv, End PROVE IInv'
<1> USE DEF IInv, loop, entry, paths, favors, scores, backup
<1>0. queue_cur \in Queue /\ queue_cur \in Entries /\ 1 \in Queue
  BY QueueInEntries DEF End, Shape
<1>1. queue_cur' \in 0..queued_paths
  BY <1>0 DEF End, MoveOn, Queue, TypeOK, None
<1>2. Shape'
  BY <1>0 DEF End, Shape, Queue, TypeOK
<1>3. CASE FirstTime
  <2>1. was_fuzzed' = [was_fuzzed EXCEPT ![queue_cur] = TRUE]
    BY <1>3 DEF End
  <2>2. Waiting' = Waiting \ {queue_cur} /\ queue_cur \in Waiting
    BY <1>0, <1>3, <2>1, QueueInEntries
       DEF End, FirstTime, Waiting, Queue, TypeOK
  <2>3. IsFiniteSet(Queue) /\ Cardinality(Queue) = queued_paths
    BY FS_Interval DEF TypeOK, Queue
  <2>4. IsFiniteSet(Waiting)
    BY <2>3, FS_Subset DEF Waiting
  <2>5. Cardinality(Waiting \ {queue_cur}) = Cardinality(Waiting) - 1
    BY <2>2, <2>4, FS_RemoveElement
  <2>6. IsFiniteSet(Waiting') /\ Cardinality(Waiting') \in Nat
    BY <2>2, <2>4, FS_RemoveElement, FS_CardinalityType
  <2>7. pending_not_fuzzed' = Cardinality(Waiting')
    BY <1>3, <2>2, <2>5 DEF End, NotFuzzedCounted
  <2>8. pending_not_fuzzed' \in 0..queued_paths
    BY <1>3, <2>6, <2>7 DEF End, TypeOK
  <2>9. was_fuzzed' \in [Entries -> BOOLEAN]
    BY <2>1 DEF TypeOK
  <2>10. pending_favored' \in Int
    BY <1>3 DEF End, TypeOK
  <2>11. TypeOK'
    BY <1>1, <2>8, <2>9, <2>10 DEF End, TypeOK, PCs
  <2> QED
    BY <1>2, <2>7, <2>11, ScoresKept DEF End, NotFuzzedCounted
<1>4. CASE ~FirstTime
  <2>1. TypeOK'
    BY <1>1, <1>4 DEF End, TypeOK, PCs
  <2> QED
    BY <1>2, <1>4, <2>1, ScoresKept, WaitingKept DEF End
<1> QED
  BY <1>3, <1>4

LEMMA NextInv == IInv /\ [Next]_vars => IInv'
<1> SUFFICES ASSUME IInv, [Next]_vars PROVE IInv'
  OBVIOUS
<1>1. CASE ScoreLose \/ ScoreWin \/ ScoreDone
  BY <1>1, ScoreInv
<1>2. CASE \E t \in Traces : AddGood(t) \/ AddBad(t)
  BY <1>2, AddInv
<1>3. CASE NoCull \/ BeginCull \/ CullSkip \/ CullFavor \/ CullDone
  BY <1>3, CullInv
<1>4. CASE \/ DryRunDone \/ Skip \/ FuzzOne \/ Fuzzed
           \/ BeginRound \/ RoundFull
  BY <1>4, WalkInv
<1>5. CASE RecalGood \/ RecalBad \/ TrimNothing \/ TrimSome
  BY <1>5, StageInv
<1>6. CASE End
  BY <1>6, EndInv
<1>7. CASE UNCHANGED vars
  <2>1. TypeOK'
    BY <1>7 DEF vars, IInv, TypeOK
  <2>2. Shape'
    BY <1>7 DEF vars, IInv, Shape, Queue
  <2> QED
    BY <1>7, <2>1, <2>2, ScoresKept, WaitingKept DEF vars, scores, IInv
<1> QED
  BY <1>1, <1>2, <1>3, <1>4, <1>5, <1>6, <1>7 DEF Next

-----------------------------------------------------------------------------
(* The strengthening is an invariant of every queue.                       *)
THEOREM Invariance == Spec => []IInv
BY InitInv, NextInv, PTL DEF Spec

(* Every variable stays within its type.                                   *)
THEOREM TypeCorrect == Spec => []TypeOK
<1>1. IInv => TypeOK
  BY DEF IInv
<1> QED
  BY <1>1, Invariance, PTL

(* update_bitmap_score keeps tc_ref equal to the slots an entry holds.     *)
THEOREM RefsExact == Spec => []RefsCounted
<1>1. IInv => RefsCounted
  BY DEF IInv
<1> QED
  BY <1>1, Invariance, PTL

(* cull_queue finds a trace wherever it follows top_rated, and no trace is *)
(* kept for an entry it cannot come to.                                    *)
THEOREM WinnersHaveTraces == Spec => []MiniKept
<1>1. IInv => MiniKept
  BY Holds DEF IInv, MiniCounted, MiniKept
<1> QED
  BY <1>1, Invariance, PTL

-----------------------------------------------------------------------------
(***************************************************************************)
(* Stable programs                                                         *)
(***************************************************************************)
(* What a step that leaves the entries, the winners or the favored ones    *)
(* alone leaves true of them.                                              *)
LEMMA LinksKept ==
  ASSUME WinnersFit, MiniExact,
         UNCHANGED <<top_rated, trace_mini, exec_cksum, cal_failed>>
  PROVE  WinnersFit' /\ MiniExact'
BY DEF WinnersFit, MiniExact

LEMMA CheapKept ==
  ASSUME CheapSoFar, pc # "score",
         UNCHANGED <<top_rated, fav_factor, exec_cksum, cal_failed, queued_paths>>
  PROVE  CheapSoFar'
BY DEF CheapSoFar, Calibrations, Queue

LEMMA CoverKept ==
  ASSUME CoverSoFar, pc # "cull", pc' # "cull",
         UNCHANGED <<top_rated, favored, exec_cksum, score_changed, queued_paths>>
  PROVE  CoverSoFar'
BY DEF CoverSoFar, Favored, Favorites, Queue

LEMMA CountKept ==
  ASSUME CountedSoFar,
         UNCHANGED <<favored, was_fuzzed, queued_favored, pending_favored>>
  PROVE  CountedSoFar'
<1>1. Favorites' = Favorites /\ Pending' = Pending
  BY DEF Favorites, Pending
<1> QED
  BY <1>1 DEF CountedSoFar

LEMMA InitStable == Init => SInv
<1> SUFFICES ASSUME Init PROVE SInv
  OBVIOUS
<1>1. Favorites = {} /\ Pending = {} /\ Queue = {}
  BY DEF Init, Favorites, Pending, Queue, All
<1>2. WinnersFit /\ MiniExact /\ ScoredFits
  BY DEF Init, WinnersFit, MiniExact, ScoredFits, All
<1>3. CheapSoFar
  BY <1>1 DEF CheapSoFar, Calibrations
<1>4. CoverSoFar
  BY <1>1 DEF Init, CoverSoFar
<1>5. CountedSoFar
  BY <1>1, FS_EmptySet DEF Init, CountedSoFar
<1> QED
  BY <1>2, <1>3, <1>4, <1>5 DEF SInv

(* Costs can be compared, and the edges of an entry are edges.             *)
LEMMA Comparable ==
  ASSUME IInv
  PROVE  /\ \A e \in Entries : fav_factor[e] \in Nat
         /\ \A e \in Queue : e \in Entries /\ e # None
         /\ \A e \in Queue : exec_cksum[e] \subseteq Edges
         /\ \A i \in Edges : top_rated[i] = None \/ top_rated[i] \in Queue
<1>1. TypeOK /\ Shape
  BY DEF IInv
<1>2. \A e \in Entries : fav_factor[e] \in Nat
  <2>1. fav_factor \in [Entries -> Costs \cup {0}] /\ Costs \subseteq Nat
    BY <1>1, Constants DEF TypeOK
  <2>2. \A e \in Entries : fav_factor[e] \in Costs \cup {0}
    BY <2>1, Zenon
  <2>3. Costs \cup {0} \subseteq Nat
    BY <2>1
  <2> QED
    BY <2>2, <2>3, Zenon
<1>3. \A e \in Queue : e \in Entries /\ e # None
  BY <1>1, QueueInEntries DEF Queue, None
<1>4. \A e \in Queue : exec_cksum[e] \subseteq Edges
  BY <1>1, Constants DEF Shape
<1>5. \A i \in Edges : top_rated[i] = None \/ top_rated[i] \in Queue
  BY <1>1 DEF TypeOK, Queue, None
<1> QED
  BY <1>2, <1>3, <1>4, <1>5

LEMMA ScoreStable ==
  ASSUME IInv, SInv, ScoreLose \/ ScoreWin \/ ScoreDone
  PROVE  SInv'
<1> USE DEF SInv, entry, paths, favors, scores
<1>0. /\ pc = "score" /\ q \in Queue /\ q \in Entries
      /\ trace_bits = exec_cksum[q] /\ cal_failed[q] = 0
      /\ slot \in 1..(MapSize + 1)
  BY Comparable DEF ScoreLose, ScoreWin, ScoreDone, IInv, Shape, ScoredFits,
                    TypeOK
<1>1. CASE ScoreLose
  <2>1. WinnersFit' /\ MiniExact' /\ CountedSoFar'
    BY <1>1, LinksKept, CountKept DEF ScoreLose
  <2>2. CoverSoFar'
    BY <1>0, <1>1, CoverKept DEF ScoreLose
  <2>3. ScoredFits'
    BY <1>1 DEF ScoreLose, ScoredFits
  <2>4. CheapSoFar'
    <3>1. UNCHANGED <<pc, q, top_rated, fav_factor, exec_cksum, cal_failed,
                      queued_paths>>
          /\ slot' = slot + 1 /\ slot \in Edges
      BY <1>1 DEF ScoreLose
    <3>2. slot \in exec_cksum[q] =>
            /\ top_rated[slot] # None
            /\ fav_factor[top_rated[slot]] <= fav_factor[q]
      <4>1. slot \in exec_cksum[q] => top_rated[slot] # None
              /\ ~(fav_factor[q] <= fav_factor[top_rated[slot]])
        BY <1>0, <1>1 DEF ScoreLose, Wins
      <4>2. top_rated[slot] # None => fav_factor[top_rated[slot]] \in Nat
        BY <3>1, Comparable
      <4>3. fav_factor[q] \in Nat
        BY <1>0, Comparable
      <4> QED
        BY <4>1, <4>2, <4>3
    <3>3. \A i \in exec_cksum[q] : i >= slot => i = slot \/ i >= slot + 1
      BY <1>0, Comparable DEF Edges
    <3> QED
      BY <3>1, <3>2, <3>3 DEF CheapSoFar, Calibrations, Queue
  <2> QED
    BY <2>1, <2>2, <2>3, <2>4
<1>2. CASE ScoreWin
  <2>0. /\ top_rated' = [top_rated EXCEPT ![slot] = q]
        /\ slot \in Edges /\ slot \in exec_cksum[q] /\ Wins
        /\ slot' = slot + 1
        /\ UNCHANGED <<pc, back, q, trace_bits, queue_cur, exec_cksum, fav_factor,
                       cal_failed, queued_paths, favored>>
    BY <1>0, <1>2 DEF ScoreWin
  <2>1. WinnersFit'
    BY <1>0, <2>0 DEF WinnersFit, IInv, TypeOK
  <2>2. MiniExact'
    <3> DEFINE old == top_rated[slot]
    <3>1. trace_mini' = IF Kept(old)[q] = {}
                        THEN [Kept(old) EXCEPT ![q] = trace_bits]
                        ELSE Kept(old)
      BY <1>2 DEF ScoreWin
    <3>2. /\ trace_mini \in [Entries -> Traces \cup {{}}]
          /\ old = None \/ old \in Entries
      BY <2>0, Comparable DEF IInv, TypeOK
    <3>3. /\ Kept(old) \in [Entries -> Traces \cup {{}}]
          /\ \A e \in Entries : Kept(old)[e] # {} => Kept(old)[e] = exec_cksum[e]
      BY <3>2 DEF Kept, MiniExact
    <3> HIDE DEF old
    <3>4. \A e \in Entries : trace_mini'[e] # {} => trace_mini'[e] = exec_cksum[e]
      BY <1>0, <3>1, <3>3
    <3> QED
      BY <2>0, <3>4 DEF MiniExact
  <2>3. ScoredFits'
    BY <2>0 DEF ScoredFits
  <2>4. CheapSoFar'
    <3> SUFFICES ASSUME NEW e \in Calibrations, NEW i \in exec_cksum[e],
                        ~(e = q /\ i >= slot + 1)
                 PROVE  top_rated'[i] # None
                        /\ fav_factor[top_rated'[i]] <= fav_factor[e]
      BY <1>0, <2>0 DEF CheapSoFar, Calibrations, Queue
    <3>1. e \in Queue /\ i \in Edges
      BY Comparable DEF Calibrations
    <3>2. /\ fav_factor[e] \in Nat /\ fav_factor[q] \in Nat /\ q # None
          /\ top_rated[slot] # None => fav_factor[top_rated[slot]] \in Nat
      BY <1>0, <2>0, <3>1, Comparable
    <3>3. CASE i = slot
      <4>1. top_rated'[i] = q
        BY <2>0, <3>3 DEF IInv, TypeOK
      <4>2. CASE e = q
        BY <3>2, <4>1, <4>2
      <4>3. CASE e # q
        <5>1. top_rated[slot] # None
              /\ fav_factor[top_rated[slot]] <= fav_factor[e]
          BY <3>3, <4>3 DEF CheapSoFar
        <5> QED
          BY <2>0, <3>2, <4>1, <5>1 DEF Wins
      <4> QED
        BY <4>2, <4>3
    <3>4. CASE i # slot
      <4>1. top_rated'[i] = top_rated[i]
        BY <2>0, <3>1, <3>4 DEF IInv, TypeOK
      <4>2. ~(e = q /\ i >= slot)
        BY <2>0, <3>1, <3>4 DEF Edges
      <4> QED
        BY <4>1, <4>2 DEF CheapSoFar
    <3> QED
      BY <3>3, <3>4
  <2>5. CoverSoFar'
    <3>1. score_changed' /\ pc' # "cull"
      BY <1>0, <1>2, <2>0 DEF ScoreWin
    <3> QED
      BY <2>0, <3>1 DEF CoverSoFar, Favorites, Queue
  <2>6. CountedSoFar'
    BY <1>2, CountKept DEF ScoreWin
  <2> QED
    BY <2>1, <2>2, <2>3, <2>4, <2>5, <2>6
<1>3. CASE ScoreDone
  <2>0. slot \notin Edges /\ pc' = back /\ back \in {"dry", "trim", "fuzz", "end"}
    BY <1>3 DEF ScoreDone, IInv, TypeOK
  <2>1. WinnersFit' /\ MiniExact' /\ CountedSoFar'
    BY <1>3, LinksKept, CountKept DEF ScoreDone
  <2>2. CoverSoFar'
    BY <1>0, <1>3, <2>0, CoverKept DEF ScoreDone
  <2>3. ScoredFits'
    BY <1>0, <1>3, <2>0 DEF ScoreDone, ScoredFits
  <2>4. CheapSoFar'
    <3>1. \A i \in exec_cksum[q] : ~(i >= slot)
      BY <1>0, <2>0, Comparable, Constants DEF Edges
    <3>2. UNCHANGED <<top_rated, fav_factor, exec_cksum, cal_failed,
                      queued_paths>>
      BY <1>3 DEF ScoreDone
    <3> QED
      BY <3>1, <3>2 DEF CheapSoFar, Calibrations, Queue
  <2> QED
    BY <2>1, <2>2, <2>3, <2>4
<1> QED
  BY <1>1, <1>2, <1>3

(* A new entry competes for no slot before it is scored.                   *)
LEMMA AddStable ==
  ASSUME IInv, SInv, ~Unstable, NEW t \in Traces, AddGood(t) \/ AddBad(t)
  PROVE  SInv'
<1> DEFINE n == queued_paths + 1
<1> USE DEF SInv
<1>1. /\ pc \in {"dry", "fuzz"} /\ queued_paths < MaxEntries
      /\ queued_paths' = queued_paths + 1
      /\ exec_cksum' = [exec_cksum EXCEPT ![n] = t]
      /\ UNCHANGED <<favored, queued_favored, trace_mini, top_rated,
                     score_changed, queue_cur, was_fuzzed, pending_favored>>
  BY DEF AddGood, AddBad, AddEntry, favors, scores
<1>2. n \in Entries /\ n \notin Queue /\ Queue' = Queue \cup {n}
  BY <1>1, Constants DEF IInv, TypeOK, Queue, Entries
<1>3. /\ exec_cksum'[n] = t
      /\ \A e \in Entries \ {n} : exec_cksum'[e] = exec_cksum[e]
  BY <1>1, <1>2 DEF IInv, TypeOK
<1>4. /\ \A e \in Entries \ {n} : fav_factor'[e] = fav_factor[e]
                                  /\ cal_failed'[e] = cal_failed[e]
      /\ \/ pc' = "score" /\ q' = n /\ slot' = 1 /\ trace_bits' = t
            /\ back' \in {"dry", "fuzz"} /\ cal_failed'[n] = 0
         \/ pc' = pc /\ cal_failed'[n] # 0
  <2>1. CASE AddGood(t)
    <3>1. PICK c \in Costs : Calibrated(n, c)
      BY <2>1 DEF AddGood
    <3>2. Score(n, t, pc)
      BY <2>1 DEF AddGood, LastTraces
    <3> QED
      BY <1>1, <1>2, <3>1, <3>2 DEF Calibrated, Score, IInv, TypeOK
  <2>2. CASE AddBad(t)
    BY <1>1, <1>2, <2>2, Constants DEF AddBad, loop, IInv, TypeOK
  <2> QED
    BY <2>1, <2>2
<1>5. \A e \in Queue : e \in Entries \ {n}
  BY <1>2, Comparable
<1>6. \A i \in Edges : top_rated[i] # None => top_rated[i] \in Entries \ {n}
  BY <1>5, Comparable
<1>7. trace_mini[n] = {}
  <2>1. \A i \in Edges : top_rated[i] # n
    <3>1. n # None
      BY <1>2 DEF Entries, None
    <3> QED
      BY <1>6, <3>1
  <2> QED
    BY <1>2, <2>1, Holds DEF IInv, MiniCounted
<1>8. WinnersFit'
  BY <1>1, <1>3, <1>4, <1>6 DEF WinnersFit
<1>9. MiniExact'
  BY <1>1, <1>3, <1>7 DEF MiniExact
<1>10. ScoredFits'
  BY <1>1, <1>3, <1>4 DEF ScoredFits
<1>11. CheapSoFar'
  <2> SUFFICES ASSUME NEW e \in Calibrations', NEW i \in exec_cksum'[e],
                      ~(pc' = "score" /\ e = q' /\ i >= slot')
               PROVE  top_rated'[i] # None
                      /\ fav_factor'[top_rated'[i]] <= fav_factor'[e]
    BY DEF CheapSoFar
  <2>1. CASE e = n
    <3>1. i \in Edges
      BY <1>3, <2>1, Constants
    <3>2. cal_failed'[n] = 0
      BY <2>1 DEF Calibrations
    <3> QED
      BY <1>4, <2>1, <3>1, <3>2 DEF Edges
  <2>2. CASE e # n
    <3>1. e \in Queue /\ e \in Entries \ {n}
      BY <1>2, <1>5, <2>2 DEF Calibrations
    <3>2. e \in Calibrations /\ i \in exec_cksum[e] /\ i \in Edges
      BY <1>3, <1>4, <3>1, Comparable DEF Calibrations
    <3>3. top_rated[i] # None /\ fav_factor[top_rated[i]] <= fav_factor[e]
      BY <1>1, <3>2 DEF CheapSoFar
    <3> QED
      BY <1>1, <1>4, <1>6, <3>1, <3>2, <3>3
  <2> QED
    BY <2>1, <2>2
<1>12. CoverSoFar'
  <2>1. pc # "cull" /\ pc' # "cull" /\ Favorites' = Favorites
    BY <1>1, <1>4 DEF Favorites
  <2>2. \A i : Favored(i) => Favored(i)'
    BY <1>3, <1>5, <2>1 DEF Favored, CoverSoFar
  <2> QED
    BY <1>1, <1>2, <2>1, <2>2 DEF CoverSoFar
<1>13. CountedSoFar'
  BY <1>1, CountKept
<1> QED
  BY <1>8, <1>9, <1>10, <1>11, <1>12, <1>13

(* cull_queue favors the winner of a slot that no favored entry has.       *)
LEMMA CullStable ==
  ASSUME IInv, SInv, NoCull \/ BeginCull \/ CullSkip \/ CullFavor \/ CullDone
  PROVE  SInv'
<1> USE DEF SInv, entry, paths, favors, scores
<1>1. /\ WinnersFit' /\ MiniExact' /\ CheapSoFar' /\ ScoredFits'
      /\ Queue' = Queue
  <2>1. /\ pc \in {"top", "cull"} /\ pc' \in {"pick", "cull"}
        /\ UNCHANGED <<top_rated, trace_mini, exec_cksum, cal_failed, fav_factor,
                       queued_paths>>
    BY DEF NoCull, BeginCull, CullSkip, CullFavor, CullDone
  <2> QED
    BY <2>1, LinksKept, CheapKept DEF ScoredFits, Queue
<1>2. CASE NoCull
  BY <1>1, <1>2, CoverKept, CountKept DEF NoCull
<1>3. CASE BeginCull
  <2>1. Favorites' = {} /\ Pending' = {}
    BY <1>3 DEF BeginCull, Favorites, Pending, All
  <2>2. CountedSoFar'
    BY <1>3, <2>1, FS_EmptySet DEF BeginCull, CountedSoFar
  <2>3. CoverSoFar'
    BY <1>3, <2>1 DEF BeginCull, CoverSoFar, Favored, Edges
  <2> QED
    BY <1>1, <2>2, <2>3
<1>4. CASE CullSkip
  <2>1. CountedSoFar'
    BY <1>4, CountKept DEF CullSkip
  <2>2. CoverSoFar'
    <3>1. /\ pc = "cull" /\ pc' = "cull" /\ slot \in Edges /\ slot' = slot + 1
          /\ UNCHANGED <<favored, temp_v, top_rated, exec_cksum>>
          /\ top_rated[slot] # None => slot \notin temp_v
      BY <1>4 DEF CullSkip, Uncovered
    <3>2. \A i \in Edges : i < slot + 1 => i < slot \/ i = slot
      BY <3>1 DEF Edges
    <3> QED
      BY <1>1, <3>1, <3>2 DEF CoverSoFar, Favored, Favorites
  <2> QED
    BY <1>1, <2>1, <2>2
<1>5. CASE CullFavor
  <2> DEFINE w == top_rated[slot]
  <2>1. /\ pc = "cull" /\ pc' = "cull" /\ slot \in Edges /\ slot' = slot + 1
        /\ w # None /\ slot \in temp_v
        /\ temp_v' = temp_v \ trace_mini[w]
        /\ favored' = [favored EXCEPT ![w] = TRUE]
        /\ queued_favored' = queued_favored + 1
        /\ pending_favored' = IF was_fuzzed[w] THEN pending_favored
                              ELSE pending_favored + 1
        /\ UNCHANGED <<top_rated, exec_cksum, was_fuzzed>>
    BY <1>5 DEF CullFavor, Uncovered
  <2>2. w \in Queue /\ w \in Entries
    BY <2>1, Comparable
  <2>3. trace_mini[w] = exec_cksum[w]
    BY <2>1, <2>2, Holds DEF IInv, MiniCounted, MiniExact
  <2>4. slot \in exec_cksum[w]
    BY <2>1 DEF WinnersFit
  <2> HIDE DEF w
  <2>5. Favorites' = Favorites \cup {w}
    BY <2>1, <2>2 DEF Favorites, IInv, TypeOK
  <2>6. w \notin Favorites
    BY <2>1, <2>4 DEF CoverSoFar, Favored
  <2>7. IsFiniteSet(Favorites) /\ IsFiniteSet(Pending)
    <3>1. IsFiniteSet(Queue)
      BY FS_Interval DEF IInv, TypeOK, Queue
    <3> QED
      BY <3>1, FS_Subset DEF CoverSoFar, Pending
  <2>8. CountedSoFar'
    <3>1. Cardinality(Favorites') = Cardinality(Favorites) + 1
      BY <2>5, <2>6, <2>7, FS_AddElement
    <3>2. CASE was_fuzzed[w]
      <4>1. Pending' = Pending
        BY <2>1, <2>5, <3>2 DEF Pending
      <4> QED
        BY <2>1, <3>1, <3>2, <4>1 DEF CountedSoFar
    <3>3. CASE ~was_fuzzed[w]
      <4>1. Pending' = Pending \cup {w} /\ w \notin Pending
        BY <2>1, <2>5, <2>6, <3>3 DEF Pending
      <4>2. Cardinality(Pending') = Cardinality(Pending) + 1
        BY <2>7, <4>1, FS_AddElement
      <4> QED
        BY <2>1, <3>1, <3>3, <4>2 DEF CountedSoFar
    <3> QED
      BY <3>2, <3>3
  <2>9. CoverSoFar'
    <3>1. \A i : Favored(i)' <=> Favored(i) \/ i \in exec_cksum[w]
      BY <2>1, <2>5 DEF Favored
    <3>2. \A i \in Edges : i \notin temp_v' <=> Favored(i)'
      BY <2>1, <2>3, <3>1 DEF CoverSoFar
    <3>3. ASSUME NEW i \in Edges, i < slot', top_rated'[i] # None
          PROVE  Favored(i)'
      <4>1. i < slot \/ i = slot
        BY <2>1, <3>3 DEF Edges
      <4> QED
        BY <2>1, <2>4, <3>1, <3>3, <4>1 DEF CoverSoFar
    <3>4. Favorites' \subseteq Queue'
      BY <1>1, <2>2, <2>5 DEF CoverSoFar
    <3> QED
      BY <2>1, <3>2, <3>3, <3>4 DEF CoverSoFar
  <2> QED
    BY <1>1, <2>8, <2>9
<1>6. CASE CullDone
  <2>1. CountedSoFar'
    BY <1>6, CountKept DEF CullDone
  <2>2. CoverSoFar'
    <3>1. /\ pc = "cull" /\ pc' = "pick" /\ slot \notin Edges
          /\ UNCHANGED <<favored, top_rated, exec_cksum>>
      BY <1>6 DEF CullDone
    <3>2. \A i \in Edges : i < slot
      BY <3>1, Constants DEF IInv, TypeOK, Edges
    <3> QED
      BY <1>1, <3>1, <3>2 DEF CoverSoFar, Favored, Favorites
  <2> QED
    BY <1>1, <2>1, <2>2
<1> QED
  BY <1>2, <1>3, <1>4, <1>5, <1>6

LEMMA WalkStable ==
  ASSUME IInv, SInv,
         \/ DryRunDone \/ Skip \/ FuzzOne \/ Fuzzed \/ TrimNothing
         \/ BeginRound \/ RoundFull
  PROVE  SInv'
<1> USE DEF SInv, loop, entry, paths, favors, scores
<1>1. /\ pc \in {"dry", "pick", "fuzz", "trim"}
      /\ pc' \in {"top", "end", "fuzz", "recal", "trim"}
      /\ UNCHANGED <<top_rated, trace_mini, exec_cksum, cal_failed, fav_factor,
                     queued_paths, favored, score_changed, was_fuzzed,
                     queued_favored, pending_favored>>
  BY DEF DryRunDone, Skip, FuzzOne, Fuzzed, TrimNothing, BeginRound, RoundFull
<1>2. WinnersFit' /\ MiniExact' /\ CheapSoFar' /\ CoverSoFar' /\ CountedSoFar'
  BY <1>1, LinksKept, CheapKept, CoverKept, CountKept
<1>3. ScoredFits'
  <2>1. CASE FuzzOne
    <3>1. cal_failed[queue_cur] \in 0..CalChances
      BY <2>1, Comparable DEF FuzzOne, IInv, Shape, TypeOK
    <3>2. /\ pc' = IF cal_failed[queue_cur] > 0 THEN "recal" ELSE "trim"
          /\ UNCHANGED <<cal_failed, queue_cur>>
      BY <2>1 DEF FuzzOne
    <3>3. cal_failed[queue_cur] > 0 <=> cal_failed[queue_cur] # 0
      BY <3>1, Constants
    <3> QED
      BY <3>2, <3>3 DEF ScoredFits
  <2>2. CASE pc' \in {"top", "end", "fuzz"}
    BY <2>2 DEF ScoredFits
  <2> QED
    BY <2>1, <2>2
    DEF DryRunDone, Skip, Fuzzed, TrimNothing, BeginRound, RoundFull
<1> QED
  BY <1>2, <1>3

(* What is calibrated again holds no slot yet; what was trimmed holds its  *)
(* slots at a lower cost.                                                  *)
LEMMA StageStable ==
  ASSUME IInv, SInv, ~Unstable, RecalGood \/ RecalBad \/ TrimSome
  PROVE  SInv'
<1> USE DEF SInv, entry, paths, favors, scores
<1>0. /\ queue_cur \in Queue /\ queue_cur \in Entries
      /\ UNCHANGED <<top_rated, trace_mini, exec_cksum, queued_paths, favored,
                     score_changed, was_fuzzed, queued_favored, queue_cur,
                     pending_favored>>
  <2>1. queue_cur \in Queue /\ queue_cur \in Entries
    BY Comparable DEF RecalGood, RecalBad, TrimSome, IInv, Shape
  <2>2. exec_cksum' = exec_cksum
    <3>1. CASE RecalGood
      BY <2>1, <3>1 DEF RecalGood, LastTraces, IInv, TypeOK
    <3> QED
      BY <3>1 DEF RecalBad, TrimSome
  <2> QED
    BY <2>1, <2>2 DEF RecalGood, RecalBad, TrimSome
<1>1. MiniExact' /\ CountedSoFar' /\ CoverSoFar'
  <2>1. pc # "cull" /\ pc' # "cull"
    BY DEF RecalGood, RecalBad, TrimSome, Score
  <2> QED
    BY <1>0, <2>1, CoverKept, CountKept DEF MiniExact
<1>2. \A e \in Calibrations : e \in Entries /\ exec_cksum[e] \subseteq Edges
  BY Comparable DEF Calibrations
<1>3. \A i \in Edges : top_rated[i] # None => top_rated[i] \in Entries
  BY Comparable
<1>4. CASE RecalGood
  <2>1. /\ pc = "recal" /\ pc' = "score" /\ back' \in {"trim", "end"}
        /\ q' = queue_cur /\ slot' = 1 /\ trace_bits' = exec_cksum[queue_cur]
    BY <1>4 DEF RecalGood, LastTraces, Score
  <2>2. cal_failed[queue_cur] # 0
    BY <2>1 DEF ScoredFits
  <2>3. /\ cal_failed'[queue_cur] = 0
        /\ \A e \in Entries \ {queue_cur} : cal_failed'[e] = cal_failed[e]
                                            /\ fav_factor'[e] = fav_factor[e]
    BY <1>0, <1>4 DEF RecalGood, Calibrated, IInv, TypeOK
  <2>4. \A i \in Edges : top_rated[i] # None =>
          top_rated[i] \in Entries \ {queue_cur}
    BY <1>3, <2>2 DEF WinnersFit
  <2>5. WinnersFit'
    BY <1>0, <2>3, <2>4 DEF WinnersFit
  <2>6. ScoredFits'
    BY <1>0, <2>1, <2>3 DEF ScoredFits
  <2>7. CheapSoFar'
    <3> SUFFICES ASSUME NEW e \in Calibrations', NEW i \in exec_cksum'[e],
                        ~(pc' = "score" /\ e = q' /\ i >= slot')
                 PROVE  top_rated'[i] # None
                        /\ fav_factor'[top_rated'[i]] <= fav_factor'[e]
      BY DEF CheapSoFar
    <3>1. e \in Queue /\ e \in Entries /\ i \in Edges
      BY <1>0, Comparable DEF Calibrations, Queue
    <3>2. e # queue_cur
      BY <2>1, <3>1 DEF Edges
    <3>3. e \in Calibrations /\ i \in exec_cksum[e]
      BY <1>0, <2>3, <3>1, <3>2 DEF Calibrations
    <3>4. top_rated[i] # None /\ fav_factor[top_rated[i]] <= fav_factor[e]
      BY <2>1, <3>3 DEF CheapSoFar
    <3> QED
      BY <1>0, <2>3, <2>4, <3>1, <3>2, <3>4
  <2> QED
    BY <1>1, <2>5, <2>6, <2>7
<1>5. CASE RecalBad
  <2>1. pc = "recal" /\ pc' = "end" /\ fav_factor' = fav_factor
    BY <1>5 DEF RecalBad
  <2>2. cal_failed[queue_cur] # 0
    BY <2>1 DEF ScoredFits
  <2>3. /\ cal_failed'[queue_cur] # 0
        /\ \A e \in Entries \ {queue_cur} : cal_failed'[e] = cal_failed[e]
    <3>1. cal_failed[queue_cur] \in 0..CalChances
          /\ cal_failed \in [Entries -> 0..CalChances]
      BY <1>0 DEF IInv, TypeOK
    <3> QED
      BY <1>0, <1>5, <2>2, <3>1, Constants DEF RecalBad
  <2>4. Calibrations' = Calibrations
    BY <1>0, <2>2, <2>3, Comparable DEF Calibrations, Queue
  <2>5. WinnersFit'
    BY <1>0, <1>3, <2>2, <2>3 DEF WinnersFit
  <2>6. ScoredFits'
    BY <2>1 DEF ScoredFits
  <2>7. CheapSoFar'
    BY <1>0, <2>1, <2>4 DEF CheapSoFar
  <2> QED
    BY <1>1, <2>5, <2>6, <2>7
<1>6. CASE TrimSome
  <2>1. /\ pc = "trim" /\ pc' = "score" /\ back' = "fuzz" /\ q' = queue_cur
        /\ slot' = 1 /\ trace_bits' = exec_cksum[queue_cur]
        /\ cal_failed' = cal_failed
    BY <1>6 DEF TrimSome, Score
  <2>2. cal_failed[queue_cur] = 0
    BY <2>1 DEF ScoredFits
  <2>3. PICK c \in Costs : /\ c <= fav_factor[queue_cur]
                           /\ fav_factor' = [fav_factor EXCEPT ![queue_cur] = c]
    BY <1>6 DEF TrimSome
  <2>4. WinnersFit'
    BY <1>0, <2>1 DEF WinnersFit
  <2>5. ScoredFits'
    BY <1>0, <2>1, <2>2 DEF ScoredFits
  <2>6. \A e \in Entries : /\ fav_factor'[e] <= fav_factor[e]
                           /\ fav_factor'[e] \in Nat /\ fav_factor[e] \in Nat
                           /\ e # queue_cur => fav_factor'[e] = fav_factor[e]
    <3>1. fav_factor \in [Entries -> Costs \cup {0}]
      BY DEF IInv, TypeOK
    <3>2. c \in Nat
      BY Constants
    <3>3. \A e \in Entries : fav_factor[e] \in Nat
      BY Comparable
    <3>4. \A e \in Entries :
            fav_factor'[e] = IF e = queue_cur THEN c ELSE fav_factor[e]
      BY <2>3, <3>1
    <3> QED
      BY <2>3, <3>2, <3>3, <3>4
  <2>7. CheapSoFar'
    <3> SUFFICES ASSUME NEW e \in Calibrations', NEW i \in exec_cksum'[e],
                        ~(pc' = "score" /\ e = q' /\ i >= slot')
                 PROVE  top_rated'[i] # None
                        /\ fav_factor'[top_rated'[i]] <= fav_factor'[e]
      BY DEF CheapSoFar
    <3>1. e \in Calibrations /\ e \in Entries /\ i \in exec_cksum[e] /\ i \in Edges
      BY <1>0, <2>1, Comparable DEF Calibrations, Queue
    <3>2. e # queue_cur
      BY <2>1, <3>1 DEF Edges
    <3>3. top_rated[i] # None /\ fav_factor[top_rated[i]] <= fav_factor[e]
      BY <2>1, <3>1 DEF CheapSoFar
    <3>4. top_rated[i] \in Entries
      BY <1>3, <3>1, <3>3
    <3>5. /\ fav_factor'[top_rated[i]] <= fav_factor[top_rated[i]]
          /\ fav_factor'[top_rated[i]] \in Nat /\ fav_factor[top_rated[i]] \in Nat
          /\ fav_factor'[e] = fav_factor[e] /\ fav_factor[e] \in Nat
      BY <2>6, <3>1, <3>2, <3>4
    <3> QED
      BY <1>0, <3>3, <3>5
  <2> QED
    BY <1>1, <2>4, <2>5, <2>7
<1> QED
  BY <1>4, <1>5, <1>6

(* A favored entry that is fuzzed for the first time waits no more.        *)
LEMMA EndStable == ASSUME IInv, SInv, End PROVE SInv'
<1> USE DEF SInv, entry, favors, scores
<1>1. /\ pc = "end" /\ pc' = "top" /\ queue_cur \in Queue
      /\ UNCHANGED <<top_rated, trace_mini, exec_cksum, cal_failed, fav_factor,
                     queued_paths, favored, score_changed, queued_favored>>
  BY DEF End, IInv, Shape
<1>2. WinnersFit' /\ MiniExact' /\ CheapSoFar' /\ CoverSoFar' /\ ScoredFits'
  BY <1>1, LinksKept, CheapKept, CoverKept DEF ScoredFits
<1>3. CountedSoFar'
  <2>1. Favorites' = Favorites
    BY <1>1 DEF Favorites
  <2>2. CASE FirstTime /\ favored[queue_cur]
    <3>1. /\ was_fuzzed' = [was_fuzzed EXCEPT ![queue_cur] = TRUE]
          /\ pending_favored' = pending_favored - 1
      BY <2>2 DEF End
    <3>2. queue_cur \in Pending /\ Pending' = Pending \ {queue_cur}
      BY <1>1, <2>1, <2>2, <3>1, Comparable
      DEF FirstTime, Pending, Favorites, IInv, TypeOK
    <3>3. IsFiniteSet(Pending)
      <4>1. IsFiniteSet(Queue)
        BY FS_Interval DEF IInv, TypeOK, Queue
      <4> QED
        BY <4>1, FS_Subset DEF CoverSoFar, Pending
    <3>4. Cardinality(Pending') = Cardinality(Pending) - 1
      BY <3>2, <3>3, FS_RemoveElement
    <3> QED
      BY <1>1, <2>1, <3>1, <3>4 DEF CountedSoFar
  <2>3. CASE ~(FirstTime /\ favored[queue_cur])
    <3>1. pending_favored' = pending_favored
      BY <2>3 DEF End
    <3>2. Pending' = Pending
      BY <1>1, <2>1, <2>3, Comparable DEF End, Pending, Favorites, IInv, TypeOK
    <3> QED
      BY <1>1, <2>1, <3>1, <3>2 DEF CountedSoFar
  <2> QED
    BY <2>2, <2>3
<1> QED
  BY <1>2, <1>3

LEMMA NextStable == IInv /\ SInv /\ ~Unstable /\ [Next]_vars => SInv'
<1> SUFFICES ASSUME IInv, SInv, ~Unstable, [Next]_vars PROVE SInv'
  OBVIOUS
<1>1. CASE ScoreLose \/ ScoreWin \/ ScoreDone
  BY <1>1, ScoreStable
<1>2. CASE \E t \in Traces : AddGood(t) \/ AddBad(t)
  BY <1>2, AddStable
<1>3. CASE NoCull \/ BeginCull \/ CullSkip \/ CullFavor \/ CullDone
  BY <1>3, CullStable
<1>4. CASE \/ DryRunDone \/ Skip \/ FuzzOne \/ Fuzzed \/ TrimNothing
           \/ BeginRound \/ RoundFull
  BY <1>4, WalkStable
<1>5. CASE RecalGood \/ RecalBad \/ TrimSome
  BY <1>5, StageStable
<1>6. CASE End
  BY <1>6, EndStable
<1>7. CASE UNCHANGED vars
  <2>1. WinnersFit' /\ MiniExact' /\ CountedSoFar'
    BY <1>7, LinksKept, CountKept DEF SInv, vars
  <2>2. ScoredFits' /\ CheapSoFar'
    BY <1>7 DEF SInv, vars, ScoredFits, CheapSoFar, Calibrations, Queue
  <2>3. CoverSoFar'
    BY <1>7 DEF SInv, vars, CoverSoFar, Favored, Favorites, Queue
  <2> QED
    BY <2>1, <2>2, <2>3 DEF SInv
<1> QED
  BY <1>1, <1>2, <1>3, <1>4, <1>5, <1>6, <1>7 DEF Next

LEMMA StableInvariance == Spec => [](~Unstable => SInv)
<1>1. Init => (~Unstable => SInv)
  BY InitStable
<1>2. IInv /\ (~Unstable => SInv) /\ [Next]_vars => (~Unstable => SInv)'
  BY NextStable
<1> QED
  BY <1>1, <1>2, Invariance, PTL DEF Spec

(* When the runs of an entry leave the same trace, update_bitmap_score     *)
(* finds the cheapest calibrated entry for every edge, also after trim_case*)
(* made one cheaper and after a calibration that failed at first.          *)
THEOREM WinnersCheapest == Spec => [](~Unstable => CheapestWins)
<1>1. SInv => CheapestWins
  BY DEF SInv, CheapSoFar, CheapestWins
<1> QED
  BY <1>1, StableInvariance, PTL

(* After cull_queue the favored entries have all edges of the calibrated   *)
(* ones, until the winners change again.                                   *)
THEOREM FavoritesCoverAll == Spec => [](~Unstable => FavoritesCover)
<1>1. ASSUME IInv, SInv PROVE FavoritesCover
  <2> SUFFICES ASSUME pc \notin {"cull", "score"}, ~score_changed,
                      NEW e \in Calibrations, NEW i \in exec_cksum[e]
               PROVE  i \in UNION {exec_cksum[f] : f \in Favorites}
    BY DEF FavoritesCover
  <2>1. i \in Edges /\ top_rated[i] # None
    BY <1>1, Comparable DEF SInv, CheapSoFar, Calibrations
  <2> QED
    BY <1>1, <2>1 DEF SInv, CoverSoFar, Favored
<1> QED
  BY <1>1, Invariance, StableInvariance, PTL

(* cull_queue counts no entry twice, and abandon_entry counts down what it *)
(* counted: pending_favored is the number of favored entries not fuzzed.   *)
THEOREM FavoritesCountExact == Spec => [](~Unstable => FavoritesCounted)
<1>1. SInv => FavoritesCounted
  BY DEF SInv, CountedSoFar, FavoritesCounted, Pending
<1> QED
  BY <1>1, StableInvariance, PTL

-----------------------------------------------------------------------------
(***************************************************************************)
(* Backup rounds                                                           *)
(***************************************************************************)
(* What a round has not fuzzed yet lies ahead of the walk, once it was sent*)
(* back to the first entry.                                                *)
Ahead(e) == IF pc \in {"top", "cull", "pick"}
            THEN queue_cur # None /\ queue_cur <= e
            ELSE queue_cur < e

RInv ==
  /\ pc = "dry" \/ (pc = "score" /\ back = "dry") => ~backup_mode
  /\ backup_mode /\ ~backup_round_begin => \A e \in waiting : Ahead(e)

(* The steps that leave the walk and the round alone. *)
LEMMA RoundKept ==
  ASSUME IInv, RInv, UNCHANGED <<queue_cur, backup>>,
         \/ UNCHANGED <<pc, back>>
         \/ pc \in {"top", "cull"} /\ pc' \in {"top", "cull"}
         \/ pc \in {"recal", "trim", "fuzz"} /\ pc' \in {"trim", "fuzz", "end"}
         \/ pc \in {"recal", "trim", "fuzz"} /\ pc' = "score" /\ back' # "dry"
         \/ pc = "score" /\ pc' = back /\ back' = back
         \/ pc = "dry" /\ pc' = "score" /\ back' = "dry"
         \/ pc = "dry" /\ pc' = "top"
  PROVE  RInv'
<1>1. back \in {"dry", "trim", "fuzz", "end"}
  BY DEF IInv, TypeOK
<1> QED
  BY <1>1 DEF RInv, Ahead, backup

(* The next entry is the first one ahead; behind the last there is none. *)
LEMMA WalkOn ==
  ASSUME IInv, RInv, MoveOn, pc' = "top", UNCHANGED <<queued_paths, backup>>,
         queue_cur \in Queue, pc \in {"pick", "end"},
         backup_mode => queue_cur \notin waiting
  PROVE  RInv'
<1>1. queued_paths \in Nat /\ queue_cur \in 1..queued_paths
      /\ waiting \subseteq 1..queued_paths
  BY DEF IInv, TypeOK, Queue
<1>2. ASSUME backup_mode, ~backup_round_begin, NEW e \in waiting
      PROVE  queue_cur < e
  BY <1>1, <1>2 DEF RInv, Ahead
<1> QED
  BY <1>1, <1>2 DEF RInv, Ahead, MoveOn, None, backup

LEMMA RoundInv == IInv /\ RInv /\ [Next]_vars => RInv'
<1> SUFFICES ASSUME IInv, RInv, [Next]_vars PROVE RInv'
  OBVIOUS
<1> USE DEF loop, favors, entry, paths, scores
<1>1. CASE ScoreLose \/ ScoreWin \/ ScoreDone
  BY <1>1, RoundKept DEF ScoreLose, ScoreWin, ScoreDone
<1>2. CASE \E t \in Traces : AddGood(t) \/ AddBad(t)
  <2>1. PICK t \in Traces : AddGood(t) \/ AddBad(t)
    BY <1>2
  <2>2. pc \in {"dry", "fuzz"} /\ UNCHANGED <<queue_cur, backup>>
    BY <2>1 DEF AddGood, AddBad, AddEntry
  <2>3. \/ UNCHANGED <<pc, back>>
        \/ pc' = "score" /\ back' = pc
    BY <2>1 DEF AddGood, AddBad, Score
  <2> QED
    BY <2>2, <2>3, RoundKept
<1>3. CASE BeginCull \/ CullSkip \/ CullFavor
  BY <1>3, RoundKept DEF BeginCull, CullSkip, CullFavor
<1>4. CASE NoCull \/ CullDone
  <2>1. pc \in {"top", "cull"} /\ pc' = "pick" /\ Enter
    BY <1>4 DEF NoCull, CullDone
  <2>2. waiting \subseteq 1..queued_paths
    BY DEF IInv, TypeOK
  <2> QED
    BY <2>1, <2>2 DEF RInv, Ahead, Enter, InRound, None, IInv, TypeOK
<1>5. CASE DryRunDone \/ RecalBad \/ TrimNothing \/ Fuzzed
  BY <1>5, RoundKept DEF DryRunDone, RecalBad, TrimNothing, Fuzzed
<1>6. CASE RecalGood \/ TrimSome
  BY <1>6, RoundKept DEF RecalGood, TrimSome, Score
<1>7. CASE Skip
  <2>1. backup_mode => queue_cur \notin waiting
    BY <1>7 DEF Skip, IInv, TypeOK
  <2>2. queue_cur \in Queue
    BY <1>7 DEF Skip, IInv, Shape
  <2> QED
    BY <1>7, <2>1, <2>2, WalkOn DEF Skip
<1>8. CASE FuzzOne
  <2>1. /\ pc = "pick" /\ pc' \in {"recal", "trim"}
        /\ waiting' = waiting \ {queue_cur}
        /\ UNCHANGED <<queue_cur, backup_mode, backup_round_begin>>
    BY <1>8 DEF FuzzOne
  <2>2. waiting \subseteq 1..queued_paths /\ queued_paths \in Nat
        /\ queue_cur \in 1..queued_paths
    BY <1>8 DEF FuzzOne, IInv, TypeOK, Shape, Queue
  <2> QED
    BY <2>1, <2>2 DEF RInv, Ahead
<1>9. CASE End
  <2>1. queue_cur \in Queue /\ pc = "end" /\ pc' = "top" /\ MoveOn
        /\ UNCHANGED <<queued_paths, backup>>
    BY <1>9 DEF End, IInv, Shape
  <2>2. queue_cur \in Nat
    BY <2>1 DEF IInv, TypeOK, Queue
  <2>3. CASE backup_mode /\ ~backup_round_begin
    BY <2>1, <2>2, <2>3, WalkOn DEF RInv, Ahead
  <2>4. CASE ~(backup_mode /\ ~backup_round_begin)
    BY <2>1, <2>4 DEF RInv, backup
  <2> QED
    BY <2>3, <2>4
<1>10. CASE BeginRound \/ RoundFull
  BY <1>10 DEF BeginRound, RoundFull, InRound, RInv
<1>11. CASE UNCHANGED vars
  BY <1>11, RoundKept DEF vars, backup
<1> QED
  BY <1>1, <1>2, <1>3, <1>4, <1>5, <1>6, <1>7, <1>8, <1>9, <1>10, <1>11 DEF Next

(* A round that the end of the queue ends, and not the limit on what it    *)
(* generates, has fuzzed all that the network listed, for queues of any    *)
(* length and lists of any entries, unless it began with the last entry.   *)
THEOREM RoundsServe == Spec => RoundServes
<1>1. Init => RInv
  BY DEF Init, RInv
<1>2. IInv /\ RInv /\ [Next]_vars =>
        [backup_mode /\ ~backup_mode' /\ pc # "fuzz" =>
           waiting = {} \/ backup_round_begin]_vars
  <2> SUFFICES ASSUME IInv, RInv, Next, backup_mode, ~backup_mode', pc # "fuzz"
               PROVE  waiting = {} \/ backup_round_begin
    OBVIOUS
  <2>1. NoCull \/ CullDone
    BY DEF Next, backup, ScoreLose, ScoreWin, ScoreDone, AddGood, AddBad,
           AddEntry, DryRunDone, BeginCull, CullSkip, CullFavor, Skip, FuzzOne,
           RecalGood, RecalBad, TrimNothing, TrimSome, Fuzzed, End, BeginRound,
           RoundFull
  <2>2. queue_cur = None /\ pc \in {"top", "cull"}
    BY <2>1 DEF NoCull, CullDone, Enter, InRound, IInv, TypeOK
  <2> QED
    BY <2>2 DEF RInv, Ahead
<1> QED
  BY <1>1, <1>2, RoundInv, Invariance, PTL DEF Spec, RoundServes
=============================================================================
