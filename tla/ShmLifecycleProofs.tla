------------------------- MODULE ShmLifecycleProofs -------------------------
(***************************************************************************)
(* No afl-fuzz loses its key to another one, however many are started with *)
(* it, whenever they are killed, and even when process ids are reused.     *)
(***************************************************************************)
EXTENDS ShmLifecycle, TLAPS, SequenceTheorems

(* The types the argument needs. *)
Typed == /\ pc \in [Pids -> PCs]
         /\ cpy_shmid \in [Pids -> Nat]
         /\ old_id \in [Pids -> Nat]
         /\ creator \in Seq(Pids)
         /\ key \in Nat

(* A fuzzer that has a segment created it, and holds the key with it.      *)
Owned == /\ key <= Len(creator)
         /\ \A p \in Pids : pc[p] \in Owning =>
              /\ cpy_shmid[p] \in 1..Len(creator)
              /\ creator[cpy_shmid[p]] = p
              /\ pc[p] # "rmid" => key = cpy_shmid[p]

(* What a fuzzer is about to remove belongs to no fuzzer that has it.      *)
Found == \A p \in Pids :
           /\ pc[p] \in {"stat", "probe", "remove"} =>
                old_id[p] \in 1..Len(creator)
           /\ pc[p] = "remove" =>
                \A q \in Pids : pc[q] \in Owning => cpy_shmid[q] # old_id[p]

IInv == Typed /\ Owned /\ Found

-----------------------------------------------------------------------------
LEMMA InitInv == Init => IInv
BY DEF Init, IInv, Typed, Owned, Found, PCs, Owning, NoSegment

(* A new segment is nobody else's, and is created under a free key.        *)
LEMMA NewSegmentInv ==
  ASSUME IInv, NEW p \in Pids, NewSegment(p), pc[p] \in {"create", "recreate"},
         GoTo(p, "shmat"), UNCHANGED old_id
  PROVE  IInv'
<1> DEFINE n == Len(creator) + 1
<1> USE DEF IInv, NewSegment, GoTo
<1>1. /\ creator' \in Seq(Pids) /\ Len(creator') = n
      /\ creator'[n] = p
      /\ \A i \in 1..Len(creator) : creator'[i] = creator[i]
  BY DEF Typed
<1>2. Typed'
  BY <1>1 DEF Typed, PCs, Owning
<1>3. \A q \in Pids \ {p} : pc[q] \in Owning => pc[q] = "rmid"
  BY DEF Typed, Owned, NoSegment, Owning
<1>4. Owned'
  BY <1>1, <1>2, <1>3 DEF Typed, Owned, Owning
<1>5. Found'
  BY <1>1, <1>2, <1>3, SMTT(20) DEF Typed, Found, Owning, Owned
<1> QED
  BY <1>2, <1>4, <1>5

(* A process that ends owns nothing and removes nothing any more.          *)
LEMMA GoneInv ==
  ASSUME IInv, NEW p \in Pids, Gone(p), creator' = creator,
         \/ key' = key
         \/ key' = NoSegment /\ \A q \in Pids \ {p} :
                                  pc[q] \in Owning => pc[q] = "rmid"
  PROVE  IInv'
BY DEF IInv, Gone, Typed, Owned, Found, PCs, Owning, NoSegment

(* Two fuzzers that both hold the key would have created one segment.      *)
LEMMA OneOwner ==
  ASSUME IInv, NEW p \in Pids, pc[p] \in Owning, key = cpy_shmid[p]
  PROVE  \A q \in Pids \ {p} : pc[q] \in Owning => pc[q] = "rmid"
BY DEF IInv, Owned

LEMMA FuzzerInv ==
  ASSUME IInv, NEW p \in Pids, FuzzerStep(p) \/ Detach(p) \/ Kill(p)
  PROVE  IInv'
<1> USE DEF IInv, kernel, nn, GoTo
<1>1. CASE Create(p)
  <2>1. CASE NewSegment(p) /\ GoTo(p, "shmat")
    BY <1>1, <2>1, NewSegmentInv DEF Create
  <2>2. CASE key # NoSegment /\ GoTo(p, "find") /\ UNCHANGED <<cpy_shmid,
                                                               kernel>>
    BY <1>1, <2>2 DEF Create, Typed, Owned, Found, PCs, Owning
  <2> QED
    BY <1>1, <2>1, <2>2 DEF Create
<1>2. CASE Find(p)
  <2>1. CASE key = NoSegment
    BY <1>2, <2>1, GoneInv DEF Find, Refuse
  <2>2. CASE key # NoSegment
    <3>1. Typed' /\ Owned'
      BY <1>2, <2>2, ZenonT(30) DEF Find, Typed, Owned, PCs, Owning
    <3>2. key \in 1..Len(creator)
      BY <2>2 DEF Typed, Owned, NoSegment
    <3>3. Found'
      BY <1>2, <2>2, <3>2 DEF Find, Typed, Found, Owning
    <3> QED
      BY <3>1, <3>3
  <2> QED
    BY <2>1, <2>2
<1>3. CASE Stat(p)
  <2>1. CASE old_id[p] \in destroyed
    BY <1>3, <2>1, GoneInv DEF Stat, Refuse
  <2>2. CASE old_id[p] \notin destroyed
    <3>1. Typed' /\ Owned'
      BY <1>3, <2>2 DEF Stat, Typed, Owned, PCs, Owning
    <3>2. Found'
      BY <1>3, <2>2 DEF Stat, Typed, Found, Owning
    <3> QED
      BY <3>1, <3>2
  <2> QED
    BY <2>1, <2>2
<1>4. CASE Probe(p)
  <2>1. CASE Alive(creator[old_id[p]])
    BY <1>4, <2>1, GoneInv DEF Probe, Refuse
  <2>2. CASE ~Alive(creator[old_id[p]])
    <3>1. \A q \in Pids : pc[q] \in Owning => cpy_shmid[q] # old_id[p]
      BY <2>2 DEF Alive, Owned, Owning
    <3>2. Typed' /\ Owned'
      BY <1>4, <2>2 DEF Probe, Typed, Owned, PCs, Owning
    <3>3. Found'
      BY <1>4, <2>2, <3>1 DEF Probe, Typed, Found, Owning
    <3> QED
      BY <3>2, <3>3
  <2> QED
    BY <2>1, <2>2
<1>5. CASE Remove(p)
  <2>1. CASE old_id[p] \in destroyed
    BY <1>5, <2>1, GoneInv DEF Remove, Refuse
  <2>2. CASE old_id[p] \notin destroyed
    <3>1. \A q \in Pids : pc[q] \in Owning => cpy_shmid[q] # old_id[p]
      BY <1>5 DEF Remove, Found
    <3>2. Typed'
      <4>1. key' \in Nat
        BY <1>5, <2>2 DEF Remove, Rmid, Typed, NoSegment
      <4> QED
        BY <1>5, <2>2, <4>1 DEF Remove, Rmid, Typed, PCs
    <3>3. Owned'
      <4>1. key' <= Len(creator')
        BY <1>5, <2>2 DEF Remove, Rmid, Typed, Owned, NoSegment
      <4>2. ASSUME NEW q \in Pids, pc'[q] \in Owning
            PROVE  q # p /\ pc'[q] = pc[q] /\ cpy_shmid[q] # old_id[p]
        BY <1>5, <2>2, <3>1, <4>2 DEF Remove, Typed, Owning
      <4> QED
        BY <1>5, <2>2, <4>1, <4>2 DEF Remove, Rmid, Owned
    <3>4. Found'
      BY <1>5, <2>2 DEF Remove, Rmid, Typed, Found, Owning
    <3> QED
      BY <3>2, <3>3, <3>4
  <2> QED
    BY <2>1, <2>2
<1>6. CASE Recreate(p)
  <2>1. CASE NewSegment(p) /\ GoTo(p, "shmat") /\ UNCHANGED old_id
    BY <1>6, <2>1, NewSegmentInv DEF Recreate
  <2>2. CASE Refuse(p)
    BY <2>2, GoneInv DEF Refuse
  <2> QED
    BY <1>6, <2>1, <2>2 DEF Recreate
<1>7. CASE Shmat(p)
  <2>1. CASE Rmid(cpy_shmid[p]) /\ Gone(p) /\ creator' = creator
    <3>1. key = cpy_shmid[p] /\ pc[p] \in Owning
      BY <1>7 DEF Shmat, Owned, Owning
    <3> QED
      BY <2>1, <3>1, OneOwner, GoneInv DEF Rmid
  <2>2. CASE GoTo(p, "clear") /\ UNCHANGED <<cpy_shmid, old_id, key, creator>>
    BY <1>7, <2>2 DEF Shmat, Typed, Owned, Found, PCs, Owning
  <2> QED
    BY <1>7, <2>1, <2>2 DEF Shmat
<1>8. CASE Clear(p)
  BY <1>8 DEF Clear, Typed, Owned, Found, PCs, Owning
<1>9. CASE Detach(p)
  BY <1>9 DEF Detach, Typed, Owned, Found, PCs, Owning
<1>10. CASE Delete(p)
  <2>1. \A q \in Pids \ {p} : pc[q] \in Owning => pc[q] = "rmid"
    BY <1>10, OneOwner DEF Delete, Owned, Owning
  <2>2. key' \in {key, NoSegment}
    BY <1>10 DEF Delete, Rmid
  <2> QED
    BY <1>10, <2>1, <2>2, SMTT(20)
    DEF Delete, Typed, Owned, Found, PCs, Owning, NoSegment
<1>11. CASE Leave(p)
  BY <1>11, GoneInv DEF Leave
<1>12. CASE Kill(p)
  BY <1>12, GoneInv DEF Kill
<1> QED
  BY <1>1, <1>2, <1>3, <1>4, <1>5, <1>6, <1>7, <1>8, <1>9, <1>10, <1>11,
     <1>12 DEF FuzzerStep

(* Other programs, and the network, leave the key and its segments alone.  *)
LEMMA OtherInv ==
  ASSUME IInv,
         \/ \E p \in Pids : StartFuzzer(p) \/ StartOther(p) \/ EndOther(p)
         \/ NNAttach \/ NNLeave \/ NNStart
  PROVE  IInv'
<1> USE DEF IInv, kernel, procs, nn
<1>1. ASSUME NEW p \in Pids, StartFuzzer(p) \/ StartOther(p) PROVE IInv'
  <2>1. PICK to \in {"create", "other"} : Launch(p, to)
    BY <1>1 DEF StartFuzzer, StartOther
  <2>2. Typed' /\ Owned'
    BY <2>1 DEF Launch, Typed, Owned, PCs, Owning
  <2>3. Found'
    BY <2>1 DEF Launch, Typed, Found, Owning
  <2> QED
    BY <2>2, <2>3
<1>2. ASSUME NEW p \in Pids, EndOther(p) PROVE IInv'
  BY <1>2, GoneInv DEF EndOther
<1>3. CASE NNAttach \/ NNLeave \/ NNStart
  BY <1>3, SMTT(20)
  DEF NNAttach, NNStart, NNFind, NNMap, NNCheck, NNLeave, NNUnmap,
              Typed, Owned, Found
<1> QED
  BY <1>1, <1>2, <1>3

LEMMA NextInv == IInv /\ [Next]_vars => IInv'
<1>1. ASSUME IInv, Next PROVE IInv'
  BY <1>1, FuzzerInv, OtherInv DEF Next
<1>2. ASSUME IInv, UNCHANGED vars PROVE IInv'
  BY <1>2 DEF vars, IInv, Typed, Owned, Found
<1> QED
  BY <1>1, <1>2

(* From the moment a fuzzer has created its segment until it removes it    *)
(* itself, the key stays bound to it.                                      *)
THEOREM KeyIsKept == Spec => []KeepsKey
<1>1. IInv => KeepsKey
  BY DEF IInv, Owned, KeepsKey, Owning
<1> QED
  BY <1>1, InitInv, NextInv, PTL DEF Spec
-----------------------------------------------------------------------------
(***************************************************************************)
(* Types, and no leak.  What was removed is never bound to the key again,  *)
(* since a new segment gets a new id; so a fuzzer that leaves, or finds    *)
(* its segment destroyed, leaves nothing bound.                            *)
(***************************************************************************)
Unbound == /\ key \notin removed /\ destroyed \subseteq removed
           /\ \A p \in Pids : pc[p] = "rmid" => key # cpy_shmid[p]

LInv == IInv /\ TypeOK /\ Unbound /\ NoLeak

LEMMA InitLInv == Init => LInv
<1> SUFFICES ASSUME Init PROVE LInv
  OBVIOUS
<1>1. TypeOK
  BY StartsAssumption DEF Init, TypeOK, PCs, Owning, Segments, NoSegment
<1>2. Unbound /\ NoLeak
  BY DEF Init, Unbound, NoLeak, NoSegment
<1> QED
  BY <1>1, <1>2, InitInv DEF LInv

(* What the kernel frees was removed.                                      *)
LEMMA FreedRemoved == \A att, ns, rem : Freed(att, ns, rem) \subseteq rem
BY DEF Freed

LEMMA SegmentsAre == ASSUME IInv PROVE Segments = 1..Len(creator)
BY DEF IInv, Typed, Segments

(* A new segment has an id that nobody knows yet.                          *)
LEMMA NewSegmentLInv ==
  ASSUME LInv, NEW p \in Pids, NewSegment(p), pc[p] \in {"create", "recreate"},
         GoTo(p, "shmat"), UNCHANGED <<old_id, starts, orphans, npc, nid, nseg>>
  PROVE  TypeOK' /\ Unbound' /\ NoLeak'
<1> DEFINE n == Len(creator)
<1> USE DEF LInv, NewSegment, GoTo
<1>1. /\ n \in Nat /\ Segments = 1..n /\ Segments' = 1..(n + 1)
      /\ creator' \in Seq(Pids)
  <2>1. creator \in Seq(Pids) /\ creator' \in Seq(Pids) /\ Len(creator') = n + 1
    BY DEF TypeOK
  <2> QED
    BY <2>1 DEF Segments
<1>2. attached' \in [Segments' -> SUBSET Pids]
  <2>1. attached \in [1..n -> SUBSET Pids]
    BY <1>1 DEF TypeOK
  <2>2. attached \in Seq(SUBSET Pids) /\ Len(attached) = n
    BY <1>1, <2>1, SeqDef, LenProperties, SMTT(20)
  <2>3. attached' \in Seq(SUBSET Pids) /\ Len(attached') = n + 1
    BY <2>2
  <2> QED
    BY <1>1, <2>3, LenProperties
<1>3. TypeOK'
  <2>1. pc' \in [Pids -> PCs] /\ old_id' \in [Pids -> Segments' \cup {NoSegment}]
    BY <1>1 DEF TypeOK, PCs, Owning
  <2>2. cpy_shmid' \in [Pids -> Segments' \cup {NoSegment}]
    BY <1>1 DEF TypeOK
  <2>3. /\ orphans' \subseteq Segments' /\ key' \in Segments' /\ starts' \in 0..MaxStarts
        /\ destroyed' \subseteq Segments' /\ removed' \subseteq Segments'
        /\ npc' \in {"open", "map", "check", "attached", "exited"}
        /\ nseg' \in Segments' \cup {NoSegment}
        /\ nid' \in Segments' \cup {NoSegment}
    BY <1>1 DEF TypeOK
  <2> QED
    BY <1>1, <1>2, <2>1, <2>2, <2>3 DEF TypeOK
<1>4. key' = n + 1 /\ n + 1 \notin Segments
  BY <1>1
<1>5. Unbound'
  BY <1>1, <1>4 DEF Unbound, TypeOK, NoSegment
<1>6. NoLeak'
  BY <1>4 DEF NoLeak, TypeOK, Owning
<1> QED
  BY <1>3, <1>5, <1>6

(* A process that ends without having a segment takes none along.          *)
LEMMA RefuseLInv ==
  ASSUME LInv, NEW p \in Pids, Refuse(p), pc[p] \notin Owning \/ pc[p] = "rmid"
  PROVE  TypeOK' /\ Unbound' /\ NoLeak'
<1> USE DEF LInv, Refuse, Gone, kernel, nn
<1>1. Segments' = Segments
  BY DEF Segments
<1>2. TypeOK'
  BY <1>1 DEF TypeOK, PCs
<1>3. Unbound'
  BY DEF Unbound, TypeOK
<1>4. NoLeak'
  BY DEF NoLeak, Unbound, TypeOK
<1> QED
  BY <1>2, <1>3, <1>4

(* So does one that only goes on from one call to the next.                *)
LEMMA GoToLInv ==
  ASSUME LInv, NEW p \in Pids, NEW to \in PCs \ {"rmid"}, GoTo(p, to),
         pc[p] \in Owning => to \in Owning,
         UNCHANGED <<cpy_shmid, starts, orphans, key, creator, removed, npc, nid, nseg>>,
         old_id' \in [Pids -> Segments \cup {NoSegment}],
         attached' \in [Segments -> SUBSET Pids],
         destroyed' \subseteq removed
  PROVE  TypeOK' /\ Unbound' /\ NoLeak'
<1> USE DEF LInv, GoTo
<1>1. Segments' = Segments
  BY DEF Segments
<1>2. TypeOK'
  BY <1>1 DEF TypeOK
<1>3. Unbound'
  BY DEF Unbound, TypeOK
<1>4. NoLeak'
  BY DEF NoLeak, TypeOK
<1> QED
  BY <1>2, <1>3, <1>4

(* The marked segment is not bound any more, and no other one is touched.  *)
LEMMA RmidFacts ==
  ASSUME LInv, NEW i \in Segments, Rmid(i)
  PROVE  /\ removed' = removed \cup {i} /\ removed' \subseteq Segments
         /\ key' \in {key, NoSegment} /\ key' # i
         /\ key' \notin removed' /\ destroyed' \subseteq removed'
         /\ attached' = attached
<1>1. Segments = 1..Len(creator) /\ i # NoSegment /\ NoSegment \notin removed'
  BY SegmentsAre DEF LInv, TypeOK, Rmid, NoSegment
<1>2. key' \in {key, NoSegment} /\ key' # i
  BY <1>1 DEF Rmid
<1> QED
  BY <1>1, <1>2, FreedRemoved DEF LInv, TypeOK, Unbound, Rmid

LEMMA FuzzerLInv ==
  ASSUME LInv, NEW p \in Pids, FuzzerStep(p) \/ Detach(p) \/ Kill(p)
  PROVE  TypeOK' /\ Unbound' /\ NoLeak'
<1> USE DEF LInv, kernel, nn
<1>0. Segments = 1..Len(creator) /\ Len(creator) \in Nat
  BY SegmentsAre DEF IInv, Typed
<1>1. CASE Create(p)
  <2>1. CASE NewSegment(p) /\ GoTo(p, "shmat")
    BY <1>1, <2>1, NewSegmentLInv DEF Create
  <2>2. CASE key # NoSegment /\ GoTo(p, "find") /\ UNCHANGED <<cpy_shmid,
                                                               kernel>>
    BY <1>1, <2>2, GoToLInv DEF Create, TypeOK, Unbound, PCs, Owning
  <2> QED
    BY <1>1, <2>1, <2>2 DEF Create
<1>2. CASE Find(p)
  <2>1. CASE key = NoSegment
    BY <1>2, <2>1, RefuseLInv DEF Find, Owning
  <2>2. CASE key # NoSegment
    BY <1>2, <2>2, GoToLInv DEF Find, TypeOK, Unbound, PCs, Owning
  <2> QED
    BY <2>1, <2>2
<1>3. CASE Stat(p)
  <2>1. CASE old_id[p] \in destroyed
    BY <1>3, <2>1, RefuseLInv DEF Stat, Owning
  <2>2. CASE old_id[p] \notin destroyed
    BY <1>3, <2>2, GoToLInv DEF Stat, TypeOK, Unbound, PCs, Owning
  <2> QED
    BY <2>1, <2>2
<1>4. CASE Probe(p)
  <2>1. CASE Alive(creator[old_id[p]])
    BY <1>4, <2>1, RefuseLInv DEF Probe, Owning
  <2>2. CASE ~Alive(creator[old_id[p]])
    BY <1>4, <2>2, GoToLInv DEF Probe, TypeOK, Unbound, PCs, Owning
  <2> QED
    BY <2>1, <2>2
<1>5. CASE Remove(p)
  <2>1. CASE old_id[p] \in destroyed
    BY <1>5, <2>1, RefuseLInv DEF Remove, Owning
  <2>2. CASE old_id[p] \notin destroyed
    <3>1. old_id[p] \in Segments /\ Rmid(old_id[p]) /\ pc[p] = "remove"
      BY <1>0, <1>5, <2>2 DEF Remove, IInv, Found
    <3>2. /\ removed' \subseteq Segments /\ attached' = attached
          /\ key' \in {key, NoSegment}
          /\ key' \notin removed' /\ destroyed' \subseteq removed'
      BY <3>1, RmidFacts
    <3>3. /\ pc' = [pc EXCEPT ![p] = "recreate"] /\ Segments' = Segments
          /\ UNCHANGED <<cpy_shmid, old_id, starts, orphans, creator, npc, nid, nseg>>
      BY <1>5, <2>2 DEF Remove, GoTo, Segments
    <3>4. TypeOK'
      BY <3>2, <3>3 DEF TypeOK, PCs, Owning
    <3>5. Unbound'
      BY <1>0, <3>2, <3>3 DEF Unbound, TypeOK, IInv, Owned, Owning, NoSegment
    <3>6. NoLeak'
      BY <3>1, <3>2, <3>3 DEF NoLeak, TypeOK, Owning
    <3> QED
      BY <3>4, <3>5, <3>6
  <2> QED
    BY <2>1, <2>2
<1>6. CASE Recreate(p)
  <2>1. CASE NewSegment(p) /\ GoTo(p, "shmat") /\ UNCHANGED <<old_id, starts, orphans, nn>>
    BY <1>6, <2>1, NewSegmentLInv DEF Recreate
  <2>2. CASE Refuse(p)
    BY <1>6, <2>2, RefuseLInv DEF Recreate, Owning
  <2> QED
    BY <1>6, <2>1, <2>2 DEF Recreate
<1>7. CASE Shmat(p)
  <2>0. cpy_shmid[p] \in Segments /\ key = cpy_shmid[p] /\ pc[p] = "shmat"
    BY <1>0, <1>7 DEF Shmat, IInv, Owned, Owning
  <2>1. CASE Rmid(cpy_shmid[p]) /\ Gone(p) /\ UNCHANGED <<starts, orphans, creator, nn>>
    <3>1. /\ removed' \subseteq Segments /\ attached' = attached
          /\ key' = NoSegment
          /\ key' \notin removed' /\ destroyed' \subseteq removed'
      BY <2>0, <2>1, RmidFacts DEF Rmid
    <3>2. Segments' = Segments
      BY <2>1 DEF Segments
    <3>3. TypeOK'
      BY <2>1, <3>1, <3>2 DEF Gone, TypeOK, PCs
    <3>4. Unbound'
      BY <1>0, <2>1, <3>1 DEF Gone, Unbound, TypeOK, IInv, Owned, Owning, NoSegment
    <3>5. NoLeak'
      BY <3>1 DEF NoLeak
    <3> QED
      BY <3>3, <3>4, <3>5
  <2>2. CASE /\ attached' = [attached EXCEPT ![cpy_shmid[p]] = @ \cup {p}]
             /\ GoTo(p, "clear")
             /\ UNCHANGED <<cpy_shmid, old_id, starts, orphans, key, creator,
                            destroyed, removed, nn>>
    <3>1. attached' \in [Segments -> SUBSET Pids]
      BY <2>0, <2>2 DEF TypeOK
    <3> QED
      BY <2>0, <2>2, <3>1, GoToLInv DEF TypeOK, Unbound, PCs, Owning
  <2> QED
    BY <1>7, <2>1, <2>2 DEF Shmat
<1>8. CASE Clear(p)
  BY <1>8, GoToLInv DEF Clear, TypeOK, Unbound, PCs, Owning
<1>9. CASE Detach(p)
  <2>1. attached' \in [Segments -> SUBSET Pids]
    BY <1>9 DEF Detach, TypeOK
  <2>2. destroyed' \subseteq removed
    BY <1>9, FreedRemoved DEF Detach
  <2> QED
    BY <1>9, <2>1, <2>2, GoToLInv DEF Detach, TypeOK, PCs, Owning
<1>10. CASE Delete(p)
  <2>0. cpy_shmid[p] \in Segments /\ key = cpy_shmid[p] /\ pc[p] = "leave"
    BY <1>0, <1>10 DEF Delete, IInv, Owned, Owning
  <2>1. cpy_shmid[p] \notin destroyed
    BY <2>0 DEF Unbound
  <2>2. Rmid(cpy_shmid[p])
    BY <1>10, <2>1 DEF Delete
  <2>3. /\ removed' \subseteq Segments /\ attached' = attached
        /\ key' = NoSegment
        /\ key' \notin removed' /\ destroyed' \subseteq removed'
    BY <2>0, <2>2, RmidFacts DEF Rmid
  <2>4. /\ pc' = [pc EXCEPT ![p] = "rmid"] /\ Segments' = Segments
        /\ UNCHANGED <<cpy_shmid, old_id, starts, orphans, creator, npc, nid, nseg>>
    BY <1>10 DEF Delete, GoTo, Segments
  <2>5. TypeOK'
    BY <2>3, <2>4 DEF TypeOK, PCs, Owning
  <2>6. Unbound'
    <3>1. ASSUME NEW q \in Pids, pc'[q] = "rmid" PROVE cpy_shmid[q] # NoSegment
      <4>1. pc[q] \in Owning
        BY <2>0, <2>4, <3>1 DEF TypeOK, Owning
      <4> QED
        BY <1>0, <4>1 DEF IInv, Owned, NoSegment
    <3> QED
      BY <2>3, <2>4, <3>1 DEF Unbound
  <2>7. NoLeak'
    BY <2>3 DEF NoLeak
  <2> QED
    BY <2>5, <2>6, <2>7
<1>11. CASE Leave(p)
  BY <1>11, RefuseLInv DEF Leave, Refuse
<1>12. CASE Kill(p)
  <2>1. /\ Segments' = Segments /\ attached' \in [Segments -> SUBSET Pids]
        /\ destroyed' \subseteq removed
        /\ orphans' = orphans \cup ({cpy_shmid[p]} \ {NoSegment})
        /\ orphans' \subseteq Segments
        /\ UNCHANGED <<starts, key, creator, removed, npc, nid, nseg>>
    BY <1>12, FreedRemoved DEF Kill, TypeOK, Segments
  <2>2. TypeOK'
    BY <1>12, <2>1 DEF Kill, Gone, TypeOK, PCs
  <2>3. Unbound'
    BY <1>12, <2>1 DEF Kill, Gone, Unbound, TypeOK
  <2>4. NoLeak'
    BY <1>12, <2>1 DEF Kill, Gone, NoLeak, TypeOK
  <2> QED
    BY <2>2, <2>3, <2>4
<1> QED
  BY <1>1, <1>2, <1>3, <1>4, <1>5, <1>6, <1>7, <1>8, <1>9, <1>10, <1>11,
     <1>12 DEF FuzzerStep

LEMMA OtherLInv ==
  ASSUME LInv,
         \/ \E p \in Pids : StartFuzzer(p) \/ StartOther(p) \/ EndOther(p)
         \/ NNAttach \/ NNLeave \/ NNStart
  PROVE  TypeOK' /\ Unbound' /\ NoLeak'
<1> USE DEF LInv, kernel, procs, nn
<1>1. ASSUME NEW p \in Pids, StartFuzzer(p) \/ StartOther(p)
      PROVE  TypeOK' /\ Unbound' /\ NoLeak'
  <2>1. PICK to \in {"create", "other"} : Launch(p, to)
    BY <1>1 DEF StartFuzzer, StartOther
  <2>2. starts' \in 0..MaxStarts
    BY <2>1, StartsAssumption DEF Launch, TypeOK
  <2>3. TypeOK'
    BY <2>1, <2>2 DEF Launch, TypeOK, PCs, Segments
  <2>4. Unbound'
    BY <2>1 DEF Launch, Unbound, TypeOK
  <2>5. NoLeak'
    BY <2>1 DEF Launch, NoLeak, TypeOK, Owning
  <2> QED
    BY <2>3, <2>4, <2>5
<1>2. ASSUME NEW p \in Pids, EndOther(p) PROVE TypeOK' /\ Unbound' /\ NoLeak'
  BY <1>2, RefuseLInv DEF EndOther, Refuse, Owning
<1>3. ASSUME NNAttach \/ NNLeave \/ NNStart PROVE TypeOK' /\ Unbound' /\ NoLeak'
  <2>1. /\ UNCHANGED <<pc, cpy_shmid, old_id, orphans, key, creator, removed, attached>>
        /\ npc' \in {"open", "map", "check", "attached", "exited"}
        /\ nid' \in {nid, key, NoSegment} /\ nseg' \in {nseg, nid, NoSegment}
        /\ destroyed' \subseteq removed
    BY <1>3, FreedRemoved
    DEF NNAttach, NNStart, NNFind, NNMap, NNCheck, NNLeave, NNUnmap, TypeOK, Unbound
  <2>2. starts' \in 0..MaxStarts
    BY <1>3, StartsAssumption
    DEF NNAttach, NNStart, NNFind, NNMap, NNCheck, NNLeave, NNUnmap, TypeOK
  <2>3. TypeOK'
    BY <2>1, <2>2 DEF TypeOK, Segments
  <2> QED
    BY <2>1, <2>3 DEF Unbound, NoLeak
<1> QED
  BY <1>1, <1>2, <1>3

LEMMA NextLInv == LInv /\ [Next]_vars => LInv'
<1>1. ASSUME LInv, Next PROVE LInv'
  BY <1>1, FuzzerLInv, OtherLInv, NextInv DEF Next, LInv
<1>2. ASSUME LInv, UNCHANGED vars PROVE LInv'
  BY <1>2, NextInv DEF vars, LInv, TypeOK, Unbound, NoLeak, Segments
<1> QED
  BY <1>1, <1>2

(* Types of the processes, the segments and the network.                   *)
THEOREM TypeCorrect == Spec => []TypeOK
<1>1. LInv => TypeOK
  BY DEF LInv
<1> QED
  BY <1>1, InitLInv, NextLInv, PTL DEF Spec

(* Whatever call fails and whoever is killed, a segment that stays bound   *)
(* to the key belongs to a fuzzer that has it, or to one that was killed.  *)
THEOREM NothingLeaks == Spec => []NoLeak
<1>1. LInv => NoLeak
  BY DEF LInv
<1> QED
  BY <1>1, InitLInv, NextLInv, PTL DEF Spec
=============================================================================
