---------------------------- MODULE ShmLifecycle ----------------------------
(***************************************************************************)
(* Who creates, replaces, attaches and removes the System V segment behind *)
(* one -K key: get_shm_cpy and delete_shm_cpy of every afl-fuzz started    *)
(* with that key, and attach_shm of nn-dom.py.  Each system call is a step.*)
(* Fuzzers start in any order, may be killed anywhere, and a process id is *)
(* used again once its process has died, by another fuzzer or by a program *)
(* that has nothing to do with the key.                                    *)
(***************************************************************************)
EXTENDS Integers, Sequences

CONSTANTS Pids,         \* process ids
          MaxStarts     \* bound on the processes started

ASSUME StartsAssumption == MaxStarts \in Nat

VARIABLES
  pc,        \* pc[p]: what the process with id p is doing
  cpy_shmid, \* cpy_shmid[p]: the segment p created
  old_id,    \* old_id[p]: the segment p found under the key
  starts,    \* processes started so far
  orphans,   \* segments whose creator was killed while it had them
  key,       \* the segment bound to the key, or NoSegment
  creator,   \* creator[i]: shm_cpid of the i-th segment created
  destroyed, \* segments the kernel has freed
  removed,   \* segments marked by IPC_RMID
  attached,  \* attached[i]: the fuzzers that have segment i mapped
  npc,       \* where attach_shm of the network is
  nid,       \* the segment the network found under the key
  nseg       \* the segment the network has mapped

procs == <<pc, cpy_shmid, old_id, starts, orphans>>
kernel == <<key, creator, destroyed, removed, attached>>
nn == <<npc, nid, nseg>>
vars == <<pc, cpy_shmid, old_id, starts, orphans, key, creator, destroyed,
          removed, attached, npc, nid, nseg>>

NoSegment == 0
Segments == DOMAIN creator

Owning == {"shmat", "clear", "run", "leave", "rmid"}
PCs == {"none", "other", "create", "find", "stat", "probe", "remove",
        "recreate"} \cup Owning

Alive(p) == pc[p] # "none"

Init == /\ pc = [p \in Pids |-> "none"]
        /\ cpy_shmid = [p \in Pids |-> NoSegment]
        /\ old_id = [p \in Pids |-> NoSegment]
        /\ starts = 0 /\ orphans = {}
        /\ key = NoSegment
        /\ creator = <<>> /\ attached = <<>>
        /\ destroyed = {} /\ removed = {}
        /\ npc = "open" /\ nid = NoSegment /\ nseg = NoSegment

-----------------------------------------------------------------------------
(***************************************************************************)
(* The kernel                                                              *)
(***************************************************************************)
Mapped(i, att, ns) == att[i] # {} \/ ns = i

(* What is freed when the mappings and the removal marks are att, ns, rem. *)
Freed(att, ns, rem) == {i \in rem : ~Mapped(i, att, ns)}

(* IPC_RMID marks the segment and unbinds its key at once. *)
Rmid(i) == /\ removed' = removed \cup {i}
           /\ key' = IF key = i THEN NoSegment ELSE key
           /\ destroyed' = Freed(attached, nseg, removed')
           /\ UNCHANGED attached

(* IPC_CREAT | IPC_EXCL under an unbound key. *)
NewSegment(p) == /\ key = NoSegment
                 /\ key' = Len(creator) + 1
                 /\ creator' = Append(creator, p)
                 /\ attached' = Append(attached, {})
                 /\ cpy_shmid' = [cpy_shmid EXCEPT ![p] = Len(creator) + 1]
                 /\ UNCHANGED <<destroyed, removed>>

(* A process that ends, in whatever way, loses its mappings. *)
Gone(p) == /\ pc' = [pc EXCEPT ![p] = "none"]
           /\ cpy_shmid' = [cpy_shmid EXCEPT ![p] = NoSegment]
           /\ old_id' = [old_id EXCEPT ![p] = NoSegment]

-----------------------------------------------------------------------------
(***************************************************************************)
(* afl-fuzz                                                                *)
(***************************************************************************)
Launch(p, to) == /\ pc[p] = "none" /\ starts < MaxStarts
                 /\ starts' = starts + 1
                 /\ pc' = [pc EXCEPT ![p] = to]
                 /\ UNCHANGED <<cpy_shmid, old_id, orphans, kernel, nn>>

StartFuzzer(p) == Launch(p, "create")
StartOther(p) == Launch(p, "other")
EndOther(p) == /\ pc[p] = "other"
               /\ Gone(p)
               /\ UNCHANGED <<starts, orphans, kernel, nn>>

GoTo(p, to) == pc' = [pc EXCEPT ![p] = to]

(* exit(1) before the atexit handler is registered. *)
Refuse(p) == Gone(p) /\ UNCHANGED <<starts, orphans, kernel, nn>>

Create(p) == /\ pc[p] = "create"
             /\ \/ NewSegment(p) /\ GoTo(p, "shmat")
                \/ /\ key # NoSegment
                   /\ GoTo(p, "find")
                   /\ UNCHANGED <<cpy_shmid, kernel>>
             /\ UNCHANGED <<old_id, starts, orphans, nn>>

Find(p) == /\ pc[p] = "find"
           /\ IF key = NoSegment
              THEN Refuse(p)
              ELSE /\ old_id' = [old_id EXCEPT ![p] = key]
                   /\ GoTo(p, "stat")
                   /\ UNCHANGED <<cpy_shmid, starts, orphans, kernel, nn>>

Stat(p) == /\ pc[p] = "stat"
           /\ IF old_id[p] \in destroyed
              THEN Refuse(p)
              ELSE /\ GoTo(p, "probe")
                   /\ UNCHANGED <<cpy_shmid, old_id, starts, orphans, kernel,
                                  nn>>

(* Faulty variant: whatever is bound to the key counts as stale. *)
ProbeNobody(p) == /\ pc[p] = "probe"
                  /\ GoTo(p, "remove")
                  /\ UNCHANGED <<cpy_shmid, old_id, starts, orphans, kernel,
                                 nn>>

(* kill(shm_cpid, 0) *)
Probe(p) == /\ pc[p] = "probe"
            /\ IF Alive(creator[old_id[p]])
               THEN Refuse(p)
               ELSE /\ GoTo(p, "remove")
                    /\ UNCHANGED <<cpy_shmid, old_id, starts, orphans, kernel,
                                   nn>>

Remove(p) == /\ pc[p] = "remove"
             /\ IF old_id[p] \in destroyed
                THEN Refuse(p)
                ELSE /\ Rmid(old_id[p])
                     /\ GoTo(p, "recreate")
                     /\ UNCHANGED <<cpy_shmid, old_id, starts, orphans,
                                    creator, nn>>

(* Faulty variant: wait until the key is free again. *)
RecreateInsists(p) == /\ pc[p] = "recreate"
                      /\ NewSegment(p) /\ GoTo(p, "shmat")
                      /\ UNCHANGED <<old_id, starts, orphans, nn>>

Recreate(p) == /\ pc[p] = "recreate"
               /\ \/ /\ NewSegment(p) /\ GoTo(p, "shmat")
                     /\ UNCHANGED <<old_id, starts, orphans, nn>>
                  \/ key # NoSegment /\ Refuse(p)

(* Faulty variant: a segment that cannot be mapped is left behind. *)
ShmatLeaves(p) ==
  /\ pc[p] = "shmat"
  /\ \/ /\ attached' = [attached EXCEPT ![cpy_shmid[p]] = @ \cup {p}]
        /\ GoTo(p, "clear")
        /\ UNCHANGED <<cpy_shmid, old_id, starts, orphans, key, creator,
                       destroyed, removed, nn>>
     \/ Refuse(p)

(* shmat; when it fails the new segment is removed again. *)
Shmat(p) == /\ pc[p] = "shmat"
            /\ \/ /\ attached' = [attached EXCEPT ![cpy_shmid[p]] = @ \cup {p}]
                  /\ GoTo(p, "clear")
                  /\ UNCHANGED <<cpy_shmid, old_id, starts, orphans, key,
                                 creator, destroyed, removed, nn>>
               \/ /\ Rmid(cpy_shmid[p])
                  /\ Gone(p)
                  /\ UNCHANGED <<starts, orphans, creator, nn>>

(* memset, flag 0, cpy_owner_pid and atexit. *)
Clear(p) == /\ pc[p] = "clear"
            /\ GoTo(p, "run")
            /\ UNCHANGED <<cpy_shmid, old_id, starts, orphans, kernel, nn>>

(* delete_shm_cpy, on every exit: detach first, then remove. *)
Detach(p) == /\ pc[p] = "run"
             /\ attached' = [attached EXCEPT ![cpy_shmid[p]] = @ \ {p}]
             /\ destroyed' = Freed(attached', nseg, removed)
             /\ GoTo(p, "leave")
             /\ UNCHANGED <<cpy_shmid, old_id, starts, orphans, key, creator,
                            removed, nn>>

Delete(p) == /\ pc[p] = "leave"
             /\ IF cpy_shmid[p] \in destroyed
                THEN UNCHANGED <<key, removed, destroyed, attached>>
                ELSE Rmid(cpy_shmid[p])
             /\ GoTo(p, "rmid")
             /\ UNCHANGED <<cpy_shmid, old_id, starts, orphans, creator, nn>>

Leave(p) == /\ pc[p] = "rmid"
            /\ Gone(p)
            /\ UNCHANGED <<starts, orphans, kernel, nn>>

(* SIGKILL: no atexit handler runs, the segment stays. *)
Kill(p) == /\ pc[p] \notin {"none", "other"}
           /\ Gone(p)
           /\ attached' = [i \in Segments |-> attached[i] \ {p}]
           /\ destroyed' = Freed(attached', nseg, removed)
           /\ orphans' = orphans \cup ({cpy_shmid[p]} \ {NoSegment})
           /\ UNCHANGED <<starts, key, creator, removed, nn>>

FuzzerStep(p) == \/ Create(p) \/ Find(p) \/ Stat(p) \/ Probe(p) \/ Remove(p)
                 \/ Recreate(p) \/ Shmat(p) \/ Clear(p)
                 \/ Delete(p) \/ Leave(p)

-----------------------------------------------------------------------------
(***************************************************************************)
(* nn-dom.py                                                               *)
(***************************************************************************)
(* Look up the key; while nothing is bound to it, sleep and look again.    *)
NNFind == /\ npc = "open" /\ key # NoSegment
          /\ nid' = key
          /\ npc' = "map"
          /\ UNCHANGED <<procs, kernel, nseg>>

(* Map what was found.  If it has been freed meanwhile, shmat fails with an*)
(* error that attach_shm does not catch, and the network ends.             *)
NNMap == /\ npc = "map"
         /\ IF nid \in destroyed
            THEN npc' = "exited" /\ UNCHANGED nseg
            ELSE npc' = "check" /\ nseg' = nid
         /\ nid' = NoSegment
         /\ UNCHANGED <<procs, kernel>>

NNUnmap(to) == /\ nseg' = NoSegment
               /\ npc' = to
               /\ destroyed' = Freed(attached, NoSegment, removed)
               /\ UNCHANGED <<procs, key, creator, removed, attached, nid>>

(* Faulty variant: wait for the creator of the segment that was found. *)
NNCheckWaits == /\ npc = "check"
                /\ Alive(creator[nseg])
                /\ npc' = "attached"
                /\ UNCHANGED <<procs, kernel, nid, nseg>>

(* Keep it if its creator lives, else let go of it and look again.         *)
NNCheck == /\ npc = "check"
           /\ IF Alive(creator[nseg])
              THEN /\ npc' = "attached"
                   /\ UNCHANGED <<procs, kernel, nid, nseg>>
              ELSE NNUnmap("open")

(* wait_for_fuzzer finds its fuzzer gone. *)
NNLeave == /\ npc = "attached" /\ ~Alive(creator[nseg])
           /\ NNUnmap("exited")

(* A new campaign starts its own network. *)
NNStart == /\ npc = "exited" /\ starts < MaxStarts
           /\ starts' = starts + 1
           /\ npc' = "open"
           /\ UNCHANGED <<pc, cpy_shmid, old_id, orphans, kernel, nid, nseg>>

NNAttach == NNFind \/ NNMap \/ NNCheck

Next == \/ \E p \in Pids : \/ StartFuzzer(p) \/ StartOther(p) \/ EndOther(p)
                           \/ FuzzerStep(p) \/ Detach(p) \/ Kill(p)
        \/ NNAttach \/ NNLeave \/ NNStart

Spec == Init /\ [][Next]_vars

(* System calls that were reached are made, and attach_shm goes on until   *)
(* it has a segment; nobody has to stop or start, and nothing is said of   *)
(* when the network leaves: it does not look while it trains.              *)
FairSpec == /\ Spec
            /\ \A p \in Pids : WF_vars(FuzzerStep(p))
            /\ WF_vars(NNAttach)

-----------------------------------------------------------------------------
(***************************************************************************)
(* Properties                                                              *)
(***************************************************************************)
(* Every variable stays within its type. *)
TypeOK == /\ pc \in [Pids -> PCs]
          /\ cpy_shmid \in [Pids -> Segments \cup {NoSegment}]
          /\ old_id \in [Pids -> Segments \cup {NoSegment}]
          /\ starts \in 0..MaxStarts /\ orphans \subseteq Segments
          /\ key \in Segments \cup {NoSegment}
          /\ creator \in Seq(Pids)
          /\ destroyed \subseteq Segments /\ removed \subseteq Segments
          /\ attached \in [Segments -> SUBSET Pids]
          /\ npc \in {"open", "map", "check", "attached", "exited"}
          /\ nid \in Segments \cup {NoSegment}
          /\ nseg \in Segments \cup {NoSegment}

(* A campaign keeps its key: from the moment a fuzzer has created its      *)
(* segment until it removes it itself, no other fuzzer that was started    *)
(* with the same key, however their calls interleave, takes it away.       *)
KeepsKey == \A p \in Pids :
              pc[p] \in {"shmat", "clear", "run", "leave"} =>
                key = cpy_shmid[p]

(* No leak: a segment that stays bound to the key belongs to a fuzzer that *)
(* still has it or was killed; one that exits leaves nothing behind.       *)
NoLeak == key # NoSegment =>
            \/ key \in orphans
            \/ \E p \in Pids : pc[p] \in Owning /\ cpy_shmid[p] = key

(* A fuzzer that is started does not hang on the key: it runs or gives up. *)
Settles == \A p \in Pids : (pc[p] = "create") ~> (pc[p] \in {"run", "none"})

(* A network that looks at the key while a campaign runs on it ends up on  *)
(* the segment of this campaign.  One that had looked before, and found an *)
(* older segment, lets go of it and comes to that of the campaign as well, *)
(* but for two cases: the segment was freed before it was mapped, which    *)
(* ends the network, or the process id of its creator is in use, by the    *)
(* creator on its way out or by whoever was given the id of a dead one.    *)
OnSegmentOf(p) == npc = "attached" /\ nseg = cpy_shmid[p]
FindsFuzzer ==
  \A p \in Pids :
    /\ (pc[p] = "run" /\ npc = "open") ~> (pc[p] # "run" \/ OnSegmentOf(p))
    /\ (pc[p] = "run" /\ npc \in {"map", "check"}) ~>
         (pc[p] # "run" \/ npc \in {"attached", "exited"})
=============================================================================
