------------------------------ MODULE Workdir -------------------------------
(***************************************************************************)
(* The output directory of one fuzzer over several starts: a fresh start   *)
(* or an in-place resume (-i -), the import of the test cases, the dry     *)
(* run, saving, and being killed between any two changes of the disk.  One *)
(* other process works on the directory meanwhile: a second fuzzer that    *)
(* synchronises from queue/, or the network that picks a training set.     *)
(*                                                                         *)
(* A test case is one of Seeds.  A file is named by an id and what it was  *)
(* made from; it is whole once its content was written.                    *)
(***************************************************************************)
EXTENDS Faults, Sequences

CONSTANTS
  Seeds,         \* test cases
  FirstSeeds,    \* those in the user's input directory, in order
  MaxQueue,      \* bound on the entries of the queue
  MaxStarts      \* bound on the starts

ASSUME FirstAssumption == FirstSeeds \in Seq(Seeds)

VARIABLES
  dirs,            \* directories that exist, of those the program looks at
  queue, resume,   \* test cases in queue/ and _resume/
  done, done_r,    \* ids in deterministic_done/ below both
  bits,            \* files in cur_dom_bits/
  cur_path,        \* the position in fuzzer_stats; or Missing, or Torn
  pc,
  in_place,        \* in_place_resume
  entries,         \* the queue in memory, with passed_det
  nth,             \* entries that pivot_inputs or perform_dry_run is through with
  resuming_fuzz, seek_to,
  starts,
  valued,          \* test cases whose file was whole in this campaign
  mixed            \* _resume is not the whole queue of an aborted resume

Missing == -1
Torn == -2

memory == <<in_place, entries, nth, resuming_fuzz, seek_to>>
history == <<starts, valued, mixed>>
wvars == <<dirs, queue, resume, done, done_r, bits, cur_path, pc, in_place,
           entries, nth, resuming_fuzz, seek_to, starts, valued, mixed, faults>>

File(id, seed, whole) == [id |-> id, seed |-> seed, whole |-> whole]
Names(files) == {[id |-> f.id, seed |-> f.seed] : f \in files}
Contents(files) == {f.seed : f \in {g \in files : g.whole}}
Go(where) == pc' = where

-----------------------------------------------------------------------------
(***************************************************************************)
(* Starting                                                                *)
(***************************************************************************)
(* FATAL, or the death of the process.                                     *)
Down == /\ Go("down")
        /\ entries' = <<>> /\ nth' = 0
        /\ resuming_fuzz' = FALSE /\ seek_to' = 0
        /\ UNCHANGED <<in_place, starts, valued>>

(* maybe_delete_out_dir goes on if the lock is free, which it is after any *)
(* death, if fuzzer_stats can be read, and if a fresh start loses little.  *)
Start(again) ==
  /\ pc = "down" /\ starts < MaxStarts
  /\ again => starts > 0
  /\ cur_path # Torn
  /\ starts' = starts + 1
  /\ in_place' = again
  /\ Go(IF starts = 0 THEN "dirs" ELSE IF again THEN "rename" ELSE "clean")
  /\ valued' = IF again THEN valued ELSE {}
  /\ mixed' = IF again THEN mixed
              ELSE resume # {} \/ "_resume/.state" \in dirs
  /\ UNCHANGED <<dirs, queue, resume, done, done_r, bits, cur_path, entries, nth,
                 resuming_fuzz, seek_to, faults>>

(* Faulty variant: a _resume that is left is replaced.                     *)
Replaceable == TRUE

(* rename() replaces an empty directory and no other.                      *)
Vacant == resume = {} /\ "_resume/.state" \notin dirs

RenameQueue ==
  /\ pc = "rename"
  /\ Go("clean")
  /\ IF "queue" \in dirs /\ Vacant
     THEN /\ resume' = queue /\ done_r' = done
          /\ queue' = {} /\ done' = {}
          /\ dirs' = (dirs \ {"queue", "queue/.state"}) \cup {"_resume"}
                       \cup {d \in {"_resume/.state"} : "queue/.state" \in dirs}
     ELSE UNCHANGED <<dirs, queue, resume, done, done_r>>
  /\ UNCHANGED <<bits, cur_path, memory, history, faults>>

(* delete_files unlinks one after the other.                               *)
delete_files(files) == {files \ {f} : f \in files}

(* The rest of maybe_delete_out_dir: the flags, the files of queue/ one by *)
(* one, then crashes/ and hangs/, which a resume moves out of the way.     *)
CleanState ==
  /\ pc = "clean"
  /\ Go("unlink")
  /\ done' = {} /\ dirs' = dirs \ {"queue/.state"}
  /\ UNCHANGED <<queue, resume, done_r, bits, cur_path, memory, history, faults>>

Unlink ==
  /\ pc = "unlink"
  /\ IF queue # {}
     THEN /\ queue' \in delete_files(queue)
          /\ UNCHANGED <<pc, dirs, cur_path, faults>>
     ELSE /\ Go("dirs")
          /\ dirs' = dirs \ {"queue"}
          /\ cur_path' = IF in_place THEN cur_path ELSE Missing
          /\ ForgetFaults
          /\ UNCHANGED queue
  /\ UNCHANGED <<resume, done, done_r, bits, memory, history>>

(* Faulty variant: a cur_dom_bits that is still there is used.             *)
MakeQueueAnyway ==
  /\ pc = "dirs"
  /\ dirs' = dirs \cup {"queue"}
  /\ Go("state")
  /\ UNCHANGED <<queue, resume, done, done_r, bits, cur_path, memory, history, faults>>

(* setup_dirs_fds: mkdir of cur_dom_bits is fatal if it is still there.    *)
MakeQueue ==
  /\ pc = "dirs"
  /\ dirs' = dirs \cup {"queue"}
  /\ IF "cur_dom_bits" \in dirs THEN Down /\ UNCHANGED mixed
     ELSE Go("state") /\ UNCHANGED <<memory, history>>
  /\ UNCHANGED <<queue, resume, done, done_r, bits, cur_path, faults>>

MakeRest ==
  /\ pc = "state"
  /\ Go("read")
  /\ dirs' = dirs \cup {"cur_dom_bits", "queue/.state"}
  /\ UNCHANGED <<queue, resume, done, done_r, bits, cur_path, memory, history, faults>>

(* alphasort: the id that m - 1 others come before.                        *)
Nth(ids, m) == CHOOSE id \in ids : Cardinality({i \in ids : i < id}) = m - 1

(* read_testcases: what is empty is skipped, what has no test case fatal.  *)
Found ==
  IF in_place
  THEN LET ids == {f.id : f \in {g \in resume : g.whole}}
           At(id) == CHOOSE f \in resume : f.id = id
       IN  [m \in 1..Cardinality(ids) |->
              [seed |-> At(Nth(ids, m)).seed, id |-> Nth(ids, m),
               det |-> Nth(ids, m) \in done_r]]
  ELSE [m \in DOMAIN FirstSeeds |->
          [seed |-> FirstSeeds[m], id |-> Missing, det |-> FALSE]]

ReadTestcases ==
  /\ pc = "read"
  /\ IF Found = <<>> THEN Down /\ UNCHANGED mixed
     ELSE /\ Go("pivot") /\ entries' = Found /\ nth' = 0
          /\ UNCHANGED <<in_place, resuming_fuzz, seek_to, history>>
  /\ UNCHANGED <<dirs, queue, resume, done, done_r, bits, cur_path, faults>>

-----------------------------------------------------------------------------
(***************************************************************************)
(* Importing                                                               *)
(***************************************************************************)
Importing == pc = "pivot" /\ nth < Len(entries)
Imported(whole) == File(nth, entries[nth + 1].seed, whole)

(* link_or_copy: a copy, where links do not work, is created and filled.   *)
BeginCopy ==
  /\ Importing /\ Imported(FALSE) \notin queue
  /\ queue' = queue \cup {Imported(FALSE)}
  /\ UNCHANGED <<dirs, resume, done, done_r, bits, cur_path, pc, memory, history, faults>>

Pivot ==
  /\ Importing
  /\ LET e == entries[nth + 1]
     IN  /\ queue' = (queue \ {Imported(FALSE)}) \cup {Imported(TRUE)}
         /\ done' = IF e.det THEN done \cup {nth} ELSE done
         /\ valued' = valued \cup {e.seed}
         /\ resuming_fuzz' = (resuming_fuzz \/ e.id = nth)
  /\ nth' = nth + 1
  /\ UNCHANGED <<pc, dirs, resume, done_r, bits, cur_path, in_place, entries,
                 seek_to, starts, mixed, faults>>

PivotEnd ==
  /\ pc = "pivot" /\ nth = Len(entries)
  /\ Go(IF in_place THEN "nuke" ELSE "dry")
  /\ nth' = 0
  /\ UNCHANGED <<dirs, queue, resume, done, done_r, bits, cur_path, in_place,
                 entries, resuming_fuzz, seek_to, history, faults>>

(* nuke_resume_dir: the flags, the files one by one, the directory.        *)
Nuke ==
  /\ pc = "nuke"
  /\ IF "_resume/.state" \in dirs
     THEN /\ dirs' = dirs \ {"_resume/.state"} /\ done_r' = {}
          /\ UNCHANGED <<pc, resume>>
     ELSE IF resume # {}
     THEN /\ resume' \in delete_files(resume)
          /\ UNCHANGED <<pc, dirs, done_r>>
     ELSE /\ dirs' = dirs \ {"_resume"} /\ Go("dry")
          /\ UNCHANGED <<resume, done_r>>
  /\ UNCHANGED <<queue, done, bits, cur_path, memory, history, faults>>

(* perform_dry_run creates and writes the dominators of every entry.       *)
DryRunEntry ==
  /\ pc = "dry" /\ nth < Len(entries)
  /\ LET seed == entries[nth + 1].seed
     IN  /\ [id |-> nth, seed |-> seed] \notin Names(bits)
         /\ bits' = bits \cup {File(nth, seed, TRUE)}
  /\ UNCHANGED <<dirs, queue, resume, done, done_r, cur_path, faults>>

DryRun ==
  /\ DryRunEntry
  /\ nth' = nth + 1
  /\ UNCHANGED <<pc, in_place, entries, resuming_fuzz, seek_to, history>>

(* An entry that crashes or times out is fatal, unless it may be skipped.  *)
DryRunFails == DryRunEntry /\ Down /\ UNCHANGED mixed

(* find_start_position, then the first fuzzer_stats, of entry 0.           *)
Seek ==
  /\ pc = "dry" /\ nth = Len(entries)
  /\ Go("run")
  /\ seek_to' = IF resuming_fuzz /\ cur_path \in 0..(Len(entries) - 1)
                THEN cur_path ELSE 0
  /\ cur_path' = 0
  /\ UNCHANGED <<dirs, queue, resume, done, done_r, bits, in_place, entries, nth,
                 resuming_fuzz, history, faults>>

-----------------------------------------------------------------------------
(***************************************************************************)
(* Running                                                                 *)
(***************************************************************************)
(* save_if_interesting: the dominators are created and written, the entry  *)
(* is added and calibrated, then its file is created and written.          *)
SaveBits ==
  /\ pc = "run" /\ Len(entries) < MaxQueue
  /\ \E s \in Seeds \ {entries[m].seed : m \in DOMAIN entries} :
       /\ bits' = bits \cup {File(Len(entries), s, FALSE)}
       /\ entries' = Append(entries, [seed |-> s, id |-> Len(entries), det |-> FALSE])
  /\ Go("bits")
  /\ UNCHANGED <<dirs, queue, resume, done, done_r, cur_path, in_place, nth,
                 resuming_fuzz, seek_to, history, faults>>

top == Len(entries) - 1
Filled(files) == {File(f.id, f.seed, TRUE) : f \in files}

SaveAdd ==
  /\ pc = "bits"
  /\ bits' = Filled(bits)
  /\ Go("added")
  /\ UNCHANGED <<dirs, queue, resume, done, done_r, cur_path, memory, history, faults>>

SaveCreate ==
  /\ pc = "added"
  /\ queue' = queue \cup {File(top, entries[Len(entries)].seed, FALSE)}
  /\ Go("created")
  /\ UNCHANGED <<dirs, resume, done, done_r, bits, cur_path, memory, history, faults>>

SaveWrite ==
  /\ pc = "created"
  /\ queue' = Filled(queue)
  /\ valued' = valued \cup {entries[Len(entries)].seed}
  /\ Go("run")
  /\ UNCHANGED <<dirs, resume, done, done_r, bits, cur_path, memory, starts,
                 mixed, faults>>

SaveFault ==
  /\ pc = "run" /\ FaultNext
  /\ UNCHANGED <<dirs, queue, resume, done, done_r, bits, cur_path, pc, memory,
                 history>>

mark_as_det_done ==
  /\ pc = "run"
  /\ \E m \in DOMAIN entries :
       /\ ~entries[m].det
       /\ entries' = [entries EXCEPT ![m].det = TRUE]
       /\ done' = done \cup {m - 1}
  /\ UNCHANGED <<dirs, queue, resume, done_r, bits, cur_path, pc, in_place, nth,
                 resuming_fuzz, seek_to, history, faults>>

WriteStats ==
  /\ pc = "run"
  /\ cur_path' \in 0..top
  /\ UNCHANGED <<dirs, queue, resume, done, done_r, bits, pc, memory, history, faults>>

(* The end, wanted or not.  fuzzer_stats is truncated before it is written *)
(* again, also when Ctrl-C ends the dry run; _resume may have lost some of *)
(* its files.                                                              *)
Kill ==
  /\ pc # "down"
  /\ Down
  /\ cur_path' \in {cur_path} \cup {t \in {Torn} : pc \in {"dry", "run"}}
                             \cup {t \in {0} : pc = "dry"}
  /\ mixed' = (mixed \/ (pc = "nuke" /\ resume # {}
                           /\ ~(Contents(queue) \subseteq Contents(resume))))
  /\ UNCHANGED <<dirs, queue, resume, done, done_r, bits, faults>>

(* The user removes what a start complained about.                         *)
Tidy ==
  /\ pc = "down" /\ ("cur_dom_bits" \in dirs \/ cur_path = Torn)
  /\ dirs' = dirs \ {"cur_dom_bits"} /\ bits' = {}
  /\ cur_path' = IF cur_path = Torn THEN Missing ELSE cur_path
  /\ UNCHANGED <<queue, resume, done, done_r, pc, memory, history, faults>>

WInit == /\ dirs = {} /\ queue = {} /\ resume = {}
         /\ done = {} /\ done_r = {} /\ bits = {} /\ cur_path = Missing
         /\ pc = "down" /\ in_place = FALSE /\ entries = <<>> /\ nth = 0
         /\ resuming_fuzz = FALSE /\ seek_to = 0
         /\ starts = 0 /\ valued = {} /\ mixed = FALSE
         /\ NoFaults

WNext ==
  \/ \E again \in BOOLEAN : Start(again)
  \/ RenameQueue \/ CleanState \/ Unlink \/ MakeQueue \/ MakeRest
  \/ ReadTestcases \/ BeginCopy \/ Pivot \/ PivotEnd \/ Nuke
  \/ DryRun \/ DryRunFails \/ Seek
  \/ SaveBits \/ SaveAdd \/ SaveCreate \/ SaveWrite \/ SaveFault
  \/ mark_as_det_done \/ WriteStats \/ Kill \/ Tidy

-----------------------------------------------------------------------------
(***************************************************************************)
(* Properties                                                              *)
(***************************************************************************)
(* No test case of a campaign is lost, however often it is killed and its  *)
(* resume is begun: it is in queue/ or in _resume/.  There are two         *)
(* exceptions, both real losses (mixed): the fuzzer was killed while it    *)
(* emptied _resume/, or a fresh start left an old _resume/; then a resume  *)
(* takes what is there for the whole queue.                                *)
EntriesKept == ~mixed => valued \subseteq Contents(queue) \cup Contents(resume)

(* "seed and its cur_dom_bits file names should be the same" (nn-dom.py):  *)
(* except while one is being saved, the network finds the dominators of    *)
(* exactly the test cases in queue/, after any resume.                     *)
Paired == pc = "run" => bits = queue
=============================================================================
