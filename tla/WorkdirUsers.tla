---------------------------- MODULE WorkdirUsers ----------------------------
(***************************************************************************)
(* The two other processes that look into the output directory while its   *)
(* owner works on it: a second fuzzer that takes over what is new in       *)
(* queue/, and the network that reads its training set.  Neither writes.   *)
(* A behaviour has one of them at most.                                    *)
(***************************************************************************)
EXTENDS Workdir, TrainSet

CONSTANTS
  Cover,         \* of each test case: [level, branch]
  BackupFiles,   \* samples of queue_backup/
  WatchedStarts  \* bound on the starts while somebody watches

ASSUME SamplesAssumption ==
  /\ IsFiniteSet(Seeds) /\ IsFiniteSet(BackupFiles)
  /\ \A s \in Seeds : Cover[s].level \in Nat /\ Cover[s].branch \in Int
  /\ \A s \in BackupFiles : s.level \in Nat /\ s.branch \in Int

VARIABLES
  watcher,       \* "nobody", "peer", "network"
  w_pc,          \* "idle", "scan", "listed", "trained"
  listing,       \* names when the directory was opened
  visited,       \* names that readdir has returned
  min_accept, next_min_accept,
  tried,         \* test cases that the peer has executed
  excused,       \* ids that it passed over for a reason named below
  training       \* what init() has returned, until it is looked at

peer == <<listing, visited, min_accept, next_min_accept, tried, excused>>
uvars == <<wvars, watcher, w_pc, listing, visited, min_accept, next_min_accept,
           tried, excused, training>>

Current == Names(queue)
Whole(name) == File(name.id, name.seed, TRUE) \in queue

-----------------------------------------------------------------------------
(***************************************************************************)
(* sync_fuzzers                                                            *)
(***************************************************************************)
ScanBegin ==
  /\ watcher = "peer" /\ w_pc = "idle" /\ "queue" \in dirs
  /\ w_pc' = "scan" /\ listing' = Current /\ visited' = {}
  /\ next_min_accept' = min_accept
  /\ UNCHANGED <<wvars, watcher, min_accept, tried, excused, training>>

(* Faulty variant: a file below one seen before in this scan is skipped.   *)
SkippedLate(name) == name.id < next_min_accept

Skipped(name) == name.id < min_accept

(* One file: the id counts as seen before the file is opened; one that is  *)
(* gone, or still empty, is not tried and not asked for again.             *)
Visit ==
  /\ w_pc = "scan"
  /\ \E name \in (listing \cup Current) \ visited :
       /\ visited' = visited \cup {name}
       /\ IF Skipped(name) THEN UNCHANGED <<next_min_accept, tried, excused>>
          ELSE /\ next_min_accept' = IF name.id >= next_min_accept THEN name.id + 1
                                     ELSE next_min_accept
               /\ IF Whole(name)
                  THEN tried' = tried \cup {name.seed} /\ UNCHANGED excused
                  ELSE excused' = excused \cup {name.id} /\ UNCHANGED tried
  /\ UNCHANGED <<wvars, watcher, w_pc, listing, min_accept, training>>

(* A file that came after the directory was opened need not be returned,   *)
(* though a later one was.                                                 *)
ScanEnd ==
  /\ w_pc = "scan" /\ listing \cap Current \subseteq visited
  /\ w_pc' = "idle" /\ listing' = {} /\ visited' = {} /\ next_min_accept' = 0
  /\ min_accept' = next_min_accept
  /\ excused' = excused \cup {id \in min_accept..(next_min_accept - 1) :
                                ~\E name \in visited : name.id = id}
  /\ UNCHANGED <<wvars, watcher, tried, training>>

(* stop_soon: the function returns without writing the id.                 *)
ScanStop ==
  /\ w_pc = "scan"
  /\ w_pc' = "idle" /\ listing' = {} /\ visited' = {} /\ next_min_accept' = 0
  /\ UNCHANGED <<wvars, watcher, min_accept, tried, excused, training>>

-----------------------------------------------------------------------------
(***************************************************************************)
(* init() of nn-dom.py                                                     *)
(***************************************************************************)
Sample(name) == [level |-> Cover[name.seed].level, branch |-> Cover[name.seed].branch,
                 backup |-> FALSE, name |-> name.seed]

TrainList ==
  /\ watcher = "network" /\ w_pc = "idle" /\ pc = "run"
  /\ w_pc' = "listed" /\ listing' = Names(bits)
  /\ UNCHANGED <<wvars, watcher, visited, min_accept, next_min_accept, tried,
                 excused, training>>

(* A name without its test case, or dominators that are not written yet,   *)
(* raise an exception; retrain catches any and calls init again.           *)
Readable(name) == /\ name \in Current
                  /\ File(name.id, name.seed, TRUE) \in bits

AllSamples == {Sample([seed |-> s]) : s \in Seeds} \cup BackupFiles
Results == UNION {{[from |-> S, out |-> r] : r \in init(S)} : S \in SUBSET AllSamples}

TrainRead ==
  /\ w_pc = "listed"
  /\ w_pc' = "trained" /\ listing' = {}
  /\ IF \A name \in listing : Readable(name)
     THEN \E r \in Results :
            /\ r.from \ BackupFiles = {Sample(name) : name \in listing}
            /\ training' = r.out
     ELSE training' = Raised
  /\ UNCHANGED <<wvars, watcher, visited, min_accept, next_min_accept, tried, excused>>

(* Nothing here reads the result: no step comes before this one.           *)
TrainLeave ==
  /\ w_pc = "trained"
  /\ w_pc' = "idle" /\ training' = Raised
  /\ UNCHANGED <<wvars, watcher, peer>>

-----------------------------------------------------------------------------
(* An import keeps the id that the entry had, if the ids before it did not *)
(* leave a gap, and if _resume is not a leftover of another campaign.      *)
Keeps == pc = "pivot" /\ ~mixed /\ entries[nth + 1].id = nth

(* Ids seen already that a step of the owner gives to another test case: a *)
(* fresh start counts from 0 again, and a resume closes the gaps.          *)
Seen(id) == id < min_accept \/ id < next_min_accept
Reused == {name.id : name \in {n \in Names(queue') \ Names(queue) : Seen(n.id) /\ ~Keeps}}

OwnerStarts ==
  /\ w_pc # "trained"
  /\ starts < (IF watcher = "nobody" THEN MaxStarts ELSE WatchedStarts)
  /\ \E again \in BOOLEAN : Start(again)
  /\ UNCHANGED <<watcher, w_pc, peer, training>>

(* A watcher sees neither crashes/, hangs/ and the flags nor fuzzer_stats:  *)
(* with one, the steps that only change these are left out.                *)
OwnerSteps ==
  /\ w_pc # "trained"
  /\ \/ RenameQueue \/ CleanState \/ Unlink \/ MakeQueue \/ MakeRest
     \/ ReadTestcases \/ BeginCopy \/ Pivot \/ PivotEnd \/ Nuke
     \/ DryRun \/ DryRunFails \/ Seek
     \/ SaveBits \/ SaveAdd \/ SaveCreate \/ SaveWrite \/ Kill \/ Tidy
     \/ watcher = "nobody" /\ (SaveFault \/ mark_as_det_done \/ WriteStats)
  /\ watcher # "nobody" => reruns' = reruns
  /\ excused' = excused \cup Reused
  /\ UNCHANGED <<watcher, w_pc, listing, visited, min_accept, next_min_accept,
                 tried, training>>

UInit ==
  /\ WInit
  /\ watcher \in {"nobody", "peer", "network"} /\ w_pc = "idle"
  /\ watcher # "nobody" => ~reruns
  /\ listing = {} /\ visited = {} /\ min_accept = 0 /\ next_min_accept = 0
  /\ tried = {} /\ excused = {} /\ training = Raised

UNext == \/ OwnerStarts \/ OwnerSteps
         \/ ScanBegin \/ Visit \/ ScanEnd \/ ScanStop
         \/ TrainList \/ TrainRead \/ TrainLeave

USpec == UInit /\ [][UNext]_uvars

-----------------------------------------------------------------------------
(***************************************************************************)
(* Properties                                                              *)
(***************************************************************************)
(* Whatever the order in which readdir returns the files of a queue that   *)
(* its owner extends, cleans up or resumes, an id below the mark in        *)
(* .synced/ was executed, or is one of the three the code gives up: empty  *)
(* or gone when it was opened, added during the scan, reused by a restart. *)
SyncSound ==
  \A f \in queue : f.whole /\ f.id < min_accept =>
                     f.seed \in tried \/ f.id \in excused

(* A training set that counts as balanced tells at least two levels apart, *)
(* and has no sample twice; otherwise there are dominators for backup mode *)
(* to reach, none of which it is also told to stay away from, and the      *)
(* seeds it starts from have reached one of them.                          *)
TrainSound ==
  /\ training.kind = "balanced" => /\ Cardinality(Levels(training.set)) > 1
                                   /\ IsInjective(training.set)
  /\ training.kind = "unbalanced" =>
       /\ training.cover # {}
       /\ training.cover \cap training.avoid = {}
       /\ \A s \in training.seeds : s.level \in training.cover
=============================================================================
