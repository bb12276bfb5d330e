# A formal model of IDFuzz

IDFuzz is a directed fuzzer made of two programs: `afl-fuzz`, an AFL extended
in C, and `py/nn-dom.py`, a neural network that learns from the queue which
byte of an input to change so that the next dominator of the target is
reached. This directory models the parts of the two in which order, failure
and shared state matter, checks them with TLC and proves the most important
results with TLAPS.

## 1. The system

| Component | State | Operations | Interacts with |
| --- | --- | --- | --- |
| Channel (`shmutils.c`, `afl-fuzz.c` 479-496 and 8890-8987, `nn-dom.py` 125-170 and 698-818) | flag byte, length, text; where each side is | START FUZZ, TA (query), RETRAIN, answer, hold, unlock | the two processes share one System V segment, with no lock but the flag |
| Segment life cycle (`shmutils.c` 120-197, `nn-dom.py` 78-120) | key, segments, creators, mappings | get_shm_cpy, delete_shm_cpy, attach_shm | any fuzzer started with the same `-K` |
| Main loop and backup mode (`afl-fuzz.c` 390-448, 3424-3547, 6554-6573, 8893-9003) | queue, virgin bits, backup mode, round counters | queue cycle, query, read_backup, save_if_interesting, RETRAIN | the network's verdict and its files backup_seeds.txt and backup_bits.txt |
| Favoring (`afl-fuzz.c` 1473-1574, 2779-2951, 4859-4976, 5412-5533, 7346-7366) | top_rated, tc_ref, trace_mini, favored, pending counters | update_bitmap_score, cull_queue, calibrate_case, trim_case, skip, abandon_entry | the main loop |
| Running the target (`afl-fuzz.c` 2213-2709, 7510-7546, 9007-9016; `afl-llvm-rt.o.c` 73-234) | pids, timer, two pipes, child states | init_forkserver, run_target, SIGALRM, SIGINT, fork server loop, persistent loop | three processes, two pipes, signals |
| Stages of fuzz_one (`afl-fuzz.c` 1745-2183, 4979-5386, 5393-7338) | the input and its buffer, effector map, two dictionaries, score, stage counters | flips, arithmetic, interesting values, tokens, grad, havoc, splice | the network names the byte for grad; an execution may find new entries |
| Saving of crashes and hangs (`afl-fuzz.c` 1275-1344, 3549-3677) | virgin_crash, virgin_tmout, unique counters, files | the fault branch of save_if_interesting | every stage |
| Output directory (`afl-fuzz.c` 1642-1740, 2973-3326, 3424-3520, 3683-3847, 3892-4241, 7843-7975) | queue/, _resume/, deterministic_done/, cur_dom_bits/, fuzzer_stats | start, in-place resume, import, dry run, saving | its readers: other fuzzers, the network |
| Synchronisation (`afl-fuzz.c` 7374-7507) | .synced/: the lowest id that was not seen | sync_fuzzers | the queue/ of another fuzzer |
| Training set (`nn-dom.py` 203-445) | samples per level | init: balanced or not, what backup mode is told | queue/, cur_dom_bits/, queue_backup/ |
| Network (`nn-dom.py` train, ranking) and drop mode | model, target masks | training, ranking of bytes | |
| Tools beside the fuzzer (afl-tmin, afl-cmin, afl-showmap, afl-analyze, compiler wrappers, QEMU mode, scripts) | | | none at run time |

What is hard in it:

* concurrency without locks: the channel, and the fuzzer, the fork server and
  the child around `trace_bits` and the pipes, with signals at any point;
* failure: either side of the channel may die between two stores; a training
  may fail at any point; a fuzzer may be killed while it holds the key;
* order: late answers to queries that timed out, files rewritten while they
  are read, a trace freed while it is still the winner's;
* long chains: stacked changes to a buffer that grows and shrinks, stages that
  rely on what ten earlier stages executed, limits that are doubled;
* the disk: a kill between any two changes of it, a resume of a resume, and
  readers that see the directory half-way;
* state that goes stale: `prev_timed_out`, `trace_mini` of an unstable target,
  a process id used again, coverage that is marked as seen before it is kept.

`PROJECT.json` lists each such hazard at its line, with the properties that
would show it go wrong.

## 2. The modules

| Module | Models |
| --- | --- |
| `NNMessages` | the messages of the channel |
| `NNService` | what the channel promises, without the memory (abstract specification) |
| `NNChannel` | every load and store of the segment by either process; implements `NNService` |
| `ShmLifecycle` | the system calls around one key, fuzzers and network |
| `Campaign` | main loop, backup mode, what is kept of an execution; sees the network as `NNService` describes it |
| `TopRated` | scoring, culling, skipping, trimming, abandoning of entries |
| `ForkServer` | afl-fuzz, fork server and children as three kinds of processes |
| `Dictionary` | the user's tokens and the automatic ones: loading, sorting, eviction |
| `DetStages` | the deterministic stages, with real bytes, the effector map and the could_be_* tests |
| `HavocStages` | grad, havoc and splicing, with sizes and offsets; calculate_score |
| `FuzzOne` | one call of fuzz_one: both kinds of stages |
| `Faults` | crashes and hangs: virgin maps, limits, files |
| `Workdir` | the output directory over starts, resumes and kills; contains `Faults` |
| `TrainSet` | init() of nn-dom.py as operators on samples |
| `WorkdirUsers` | `Workdir` with a second fuzzer that synchronises, or a network that calls `TrainSet` |
| `NNChannelProofs`, `ShmLifecycleProofs`, `CampaignProofs`, `TopRatedProofs`, `ForkServerProofs`, `FuzzOneProofs`, `WorkdirProofs` | theorems about the module of that name, those of `WorkdirProofs` about `WorkdirUsers` and `TrainSet` |
| `DetStagesProofs` | extends `FuzzOneProofs`: words and bits, what the could_be_* tests suppose, and `NothingLost` |
| `MC*` | instances for TLC |

### NNChannel

`flag`, `msglen` and `payload` are byte 0, byte 1 and the text. A message is a
record; which message a length belongs to is kept in `msglen`, so that a text
read with another message's length is `Garbled`. The fuzzer's control points
are the lines between two accesses (`send` is mywrite's look at the flag,
`putlen`, `puttext`, `handover` its stores, `await` shm_check, `copy` myread's
memcpy); the network's are those of myread, the dispatch on the tag, mywrite,
shm_hold, retrain and shm_unlock. A timeout is a step that may be taken as
soon as the flag is not 0: the code waits five seconds by default, and nothing
bounds how long the network takes. `Die` ends the network anywhere, `Exit` the
fuzzer. What is trained is abstracted to `net`: nothing, a usable model, a
discarded one, or an unbalanced set.

### ShmLifecycle

Each system call is a step: `shmget`, `IPC_STAT`, `kill(pid, 0)`, `IPC_RMID`,
`shmat`, `shmdt`. The network's look-up of the key and its mapping of what it
found are two steps (`NNFind`, `NNMap`): a segment freed in between ends the
network, since attach_shm does not catch that error. A removed segment is freed when the last mapping goes. A
process id is free for any other process as soon as its owner has died, so
that `kill(pid, 0)` may speak of a stranger. The rights behind EPERM are left
out: an unrelated program counts as alive either way.

### Campaign

Traces, virgin bits and the edges listed by the network are sets of edges;
hit-count buckets are not distinguished. The probability of a query and the
wall-clock conditions are free choices. Rounds end in `Top` or in `Exec`, as
in the code; `series` counts rounds since the last pause and is not in the
code. A queue entry's name is a record with a directory, because `read_backup`
compares names. Executions that crash or hang are left out, and so is the
import of other fuzzers' entries.

### TopRated

The loops over the map take a step per edge. `fav_factor` is one number;
`trace_mini` is a set, `{}` for NULL. `Unstable` says whether two runs of one
input may leave different traces. Calibration may fail, trimming may shorten
an entry and then scores it again with the trace of `exec_cksum`. Random skips
are free choices, never for an entry the code does not skip.

A backup round may begin after any entry: `Enter` names the entries the network
listed, the walk goes back to the first entry, and while the round runs every
entry that is not listed is skipped, favored ones included. A round ends at the
end of the queue or when enough was executed (`RoundFull`). `waiting` is
history: the listed entries the round has not taken up. An entry that is
calibrated once more without new bits (FAULT_NOBITS) is abandoned before it is
trimmed.

### ForkServer

`fpc`, `spc` and `proc` are where afl-fuzz, the fork server and each child
are; `ctl` and `st` are the pipes. A write nobody can read fails, a read of an
empty pipe nobody can write is the end of the file; children hold the server's
ends until they close them. SIGALRM comes at any time while the timer is
armed, also before the handshake is disarmed and after the status was read;
SIGINT comes at any time. `how` remembers, for the properties only, what became
of the current test case. A target built with MSAN reports by its exit code,
which the fuzzer takes for a crash also while it stops. QEMU's fork server and `AFL_NO_FORKSRV` differ only
in how a child is started; the latter is the dumb mode of the model.

### Dictionary, DetStages

A byte is a number of `ByteBits` bits and a buffer a sequence of bytes; words
are little-endian and wrap at their width. A step is everything a stage
executes at one offset; `ArithTries`, `InterestTries` and the like list the
buffers in the order of the code, with the tests that decide which of them are
executed. `tried` and `lost` are history: what was executed, and what a
could_be_* test left out that was not. Whether a flip changes the checksum,
which is what fills the effector map and collects tokens, is a free choice, so
every automatic dictionary that some target could produce is covered.
`maybe_add_auto` returns the set of dictionaries it can leave, since qsort
does not order equal tokens and eviction draws a victim.

### HavocStages, FuzzOne

Bytes are left out: `temp_len` is the length of the test case, `cap` the size
of the allocation, `clean` whether the content is the input. Each change
passes the ranges it reads and writes to `Within`. Draws are existential
quantifiers over what `choose_block_len` and UR can return; whether an
execution finds a new entry, times out or asks to stop is free. `more_queued` says whether something
was found since the grad stage counted last, also in its byte and word phases:
the first chain then doubles `stage_max`. `BailOut` is
every `goto abandon_entry`. `FuzzOne` runs the deterministic stages, or skips
them, and passes the length on.

### Faults, Workdir

A trace that is simplified says of each edge whether it was hit, so a feature
is an edge with that bit. `refuted` is history: the features of timeouts that a
second, longer run did not confirm. `Workdir` has a step for each change of the disk
that another process, or a restart, can see: created and written are two steps
for a file, and `delete_files` removes one file at a time. `Kill` stops the
fuzzer at any step. `valued` is history, the test cases whose file was whole
once; `mixed` marks the two cases in which the code's own account of `_resume`
does not hold (see 5). Not modelled: `redundant_edges/`, `queue_backup/`,
`plot_data`, a full disk, the lock (two fuzzers on one directory).

### TrainSet, WorkdirUsers

A sample is its level, its branching after the last dominator and whether it
is from backup mode; `cover_num` is their sum. `init(S)` is the set of results
for the samples S: samples that tie may come in any order, `lucky` is the one
draw in ten, and an exception is the result `Raised`. Seeds without any
dominator (`poor_seeds`) are left out. In `WorkdirUsers` a behaviour has one
reader of the directory at most: the peer visits files in any order, also
files that appear during its scan; the network lists, then opens.

## 3. What is checked

| Run | Shows |
| --- | --- |
| `nn_channel` | One owner of the segment at a time (`OneOwner`); the network acts on a whole request or on none (`ActsOnRequest`); an answer is taken only by its own query (`OwnAnswer`); backup files are read whole (`BackupFilesWhole`); the fuzzer never hangs on the network (`NeverHangs`); a live network gives the segment back or says that it trains (`RequestServed`); the service is implemented (`ImplementsService`) |
| `nn_leaves` | *violated*: the network does not leave after the fuzzer while retrain() loops |
| `shm_lifecycle` | A campaign keeps its key against any race of fuzzers (`KeepsKey`); no segment outlives a fuzzer that exits (`NoLeak`); a network that looks for a running fuzzer ends up on its segment (`FindsFuzzer`); starting never hangs (`Settles`) |
| `campaign` | Backup files are never created twice (`NamesFresh`), at most one round more than the code's comment says follows another without a pause (`RoundsBounded`), rounds end (`RoundEnds`), the queue gets no redundant entry (`NoRedundantEntry`) |
| `campaign_seen` | *violated*: backup mode discards new coverage it has marked as seen |
| `campaign_listed` | *violated*: read_backup favors none of the listed seeds |
| `top_rated` | Reference counts are exact (`RefsCounted`), a trace lives as long as its entry wins a slot (`MiniKept`), winners are cheapest also after trimming (`CheapestWins`), favorites cover everything (`FavoritesCover`), the counters count (`FavoritesCounted`), a favored entry is fuzzed unless a backup round begins first (`PendingServed`), a round that reaches the end of the queue has taken up all the network listed (`RoundServes`) |
| `top_rated_unstable` | *violated*: an entry of an unstable target is counted several times |
| `fork_server` | The pipes stay in step (`InStep`), a verdict is about its own test case (`VerdictTrue`), no child writes the trace between two runs (`LoneTracer`), every child is waited for (`NoneLeft`); runs, handshakes and stops end (`RunEnds`, `HandshakeEnds`, `StopEnds`) |
| `fork_server_runner` | *violated*: Ctrl-C between fork and read of the pid leaves the child running |
| `fuzz_one` | Every stage puts back what it changed, so each execution starts from the input (`StartsFromInput`); what the could_be_* tests leave out was executed before, or is one of the named exceptions, and the counters agree (`NothingLost`); no change reaches beside its buffer (`InBounds`); finds lengthen a stage only up to a limit (`HavocBounded`) |
| `workdir` | No test case is lost over kills and resumes (`EntriesKept`); cur_dom_bits/ and queue/ pair (`Paired`); bits seen in a crash or a hang are in a file, or of a timeout that a longer run did not confirm (`FaultsKept`); an id the peer counts as seen was executed, or is one of three kinds the code gives up (`SyncSound`); a training set separates two levels, or backup mode gets dominators to reach and seeds that reached one (`TrainSound`) |

### Bounds

* `MCNNChannel`: two seeds (so that an answer can be the wrong one), two byte
  offsets, one death of the network (`MaxRestarts`): enough for a half-written
  answer to be found by the next network. Runs of any length are covered,
  since nothing else counts.
* `MCShmLifecycle`: three process ids and three starts (`MaxStarts`): a killed
  run's segment, two fuzzers that race for it, an id used again.
* `MCCampaign`: two edges, of which one may be listed and the other ruled out;
  `BackupLimit` 2 and `SaidRounds` 1 stand for the code's 500 and the 10 rounds
  of its comment (`GenRounds`, what the code does, is one more), so that a
  round ends in both ways and a pause is reached, ended and followed by
  another round; `ExecLimit` 3, a query and the two executions that fill a
  round; `MaxRounds` 3.
* `MCTopRated`: three edges, three entries (`MaxEntries`), two costs, two
  calibration chances: entries win slots of each other in any order, and one
  can be made useless by two others. The network lists the first and the last
  of them (`Lists`), so that a round may begin before, at and behind an entry it
  is about.
* `MCForkServer`: up to four runs (`MaxRuns`): a persistent child that stops,
  is woken, is killed late and written off, and the run after it. The
  violation run needs three at most.
* `MCFuzzOne`: bytes of four bits and inputs of one to four bytes, so that
  each of the length tests (2, 4) goes both ways; `ArithMax` 2; user tokens of
  two lengths, one more than `MaxDetExtras`; a saved token and one that is too
  short, next to those the first stage collects; effector cells of two bytes. In the random stages up to four stacked
  changes, blocks of one and two bytes, splices with shorter and longer
  entries, and scores from 0 to the average (`Percent`), which is here also the
  limit that doubling crosses. What happens in the first part is forgotten in the second, so its
  states add up instead of multiplying.
* `MCWorkdir`: two seeds of the user and a third that is found; three starts
  (`MaxStarts`): a start, a resume that is killed, and the resume of that
  resume; two starts while somebody watches (a third one has too many states;
  the theorems on `SyncSound` and `TrainSound` cover any number). One edge, two hangs and one
  crash, so that both limits are reached and two files of a kind meet.
  Training: two levels, two branchings, any of four samples of backup mode
  besides the queue, and small limits in place
  of 20, 200, 180 and 1000 (`Few`, `Many`, `Room` 2, `MaxTrain` 4), so that a
  level is both full and above another and what the network is told to avoid
  is not empty. 1.8 million distinct states.

`CHECK_DEADLOCK FALSE` stands where the system may stop: a fuzzer that has
exited, a campaign that was stopped or has used up its rounds, runs used up,
all starts used up, a call of fuzz_one that has returned. In `TopRated` only a dry run whose seeds all fail stops
(the code's FATAL).

### Fairness

* `NNChannel`: weak fairness of the fuzzer inside a call and of the network.
  Both are single threads that only sleep for fixed times. Nothing is assumed
  about the fuzzer asking, about deaths, or about trainings succeeding.
* `ShmLifecycle`: a system call that was reached is made, and attach_shm goes on
  until it has a segment; nobody has to start, stop or be killed, and nothing
  is assumed of when the network leaves, since it does not look while it trains.
* `Campaign`: the fuzzer goes on; the network owes it nothing, so `RoundEnds`
  holds with a network that never answers.
* `TopRated`: the single thread goes on.
* `ForkServer`: afl-fuzz, the server and an armed timer go on, and a new child
  gets as far as closing its pipes. The target itself may hang at any point,
  and start-up of the fork server may never be over.
* `FuzzOne` and `WorkdirUsers` state safety only and assume no fairness.

## 4. What is proved

Every theorem holds for all values of the constants that satisfy the ASSUMEs
of the module.

* **NNChannel** (`TypeCorrect`, `Exclusion`, `RequestsIntact`,
  `BackupFilesComplete`, `AnswersMatch`, `Implementation`). The inductive
  invariant `IInv` ties the control points to the flag: the fuzzer writes only
  under flag 0, and then the network is polling or was just started; flag 1
  means that both bytes of the message last handed over are in place, until
  the network's answer replaces first the text and then the length; flag 0
  while a query waits means that the segment has that query's answer. None of
  this is said by the properties, and none of them is inductive without it.
  `Implementation` shows that each step is a step of `NNService` or a stutter:
  Handover is Ask, AnswerFlag is Reply, Hold is BeginTraining, Release is
  EndTraining or Acknowledge, CopyAnswer is Take, StopWaiting and the
  fuzzer's Exit are GiveUp.
* **ShmLifecycle** (`KeyIsKept`, `TypeCorrect`, `NothingLeaks`). A fuzzer that has a segment is recorded as
  its creator, and what a competitor is about to remove is no fuzzer's segment.
  The second part is what makes the invariant inductive: the creator was dead
  when it was probed, and although its process id may have become a new
  fuzzer's since, a new fuzzer only ever has a segment created later. For
  `NothingLeaks` the invariant adds that the key is never bound to a segment
  that was removed (`Unbound`): ids are not used again.
* **Campaign** (`CampaignTypes`, `BackupNamesFresh`, `PauseFollows`,
  `QueueNotRedundant`). The invariant says that every name given is of a
  round that has ended or lies below the index of the one that runs, that
  `series` counts the rounds that ended since the last pause and the one that
  runs, and that what the entries of the queue cover and what virgin bits say
  agree. The network's answers, what an execution discovers and the limits are
  arbitrary; `LimitsAssumption` asks for `GenRounds`, which is
  `SaidRounds` + 1, below `Paused` (11 and 10000 in the code), without which a pause could not be told from a count.
* **TopRated** (`TypeCorrect`, `RefsExact`, `WinnersHaveTraces`, and for a
  target that is not `Unstable` `WinnersCheapest`, `FavoritesCoverAll`,
  `FavoritesCountExact`), and `RoundsServe`. The invariant says that `tc_ref` is the cardinality
  of the set of slots an entry holds and that its trace exists exactly when
  that number is positive. The lemma on `ScoreWin` distinguishes the winner
  that replaces itself, another entry, or nobody. The last three need `SInv`:
  a trace is the one of its entry, the edges that the scoring loop has passed
  have a winner that costs no more than the entry that is scored, and those
  that the culling loop has passed are covered by a favored entry, which is
  counted once. On an unstable target they are false (run
  `top_rated_unstable`), the first three are not. `RoundsServe` needs that a
  listed entry which waits lies at or behind the walk, but while the round has
  just begun and the walk is not back at the first entry.
* **ForkServer** (`ForkServerTypes`, `PipesInStep`, `NoChildLeft`,
  `TraceIsAlone`, `VerdictIsTrue`). What is in the two pipes follows from
  where the fuzzer and the server are: `PipeInv` has a case for each of asked,
  started, told of the pid, told of the status. Around it stand what is known
  of the children (`BornInv`, `DeadInv`: every child but the last was waited
  for), of the pid the fuzzer holds, and of the dumb mode. The verdict also
  needs `TimerInv` and `StoppedInv`: what a SIGALRM or a SIGINT may have
  killed, and what the fuzzer's flags say of it. Any number of runs, and all
  three modes.
* **FuzzOne** (`TypeCorrect`, `ChangesInBounds`, `ChainsStartClean`,
  `ScoredStagesBounded`, `EveryStageTakesBack`, `CountersMeet`). `FInv` says what
  holds between two changes: a chain begins with a test case as long as the
  input in a buffer that holds it, every change leaves at least one byte, and
  what a change leaves fits the buffer it leaves. That a chain begins so is
  the part that fails without ck_realloc, and needs `BlockLen`:
  choose_block_len never returns 0 nor more than it was given.
  `ChainsStartClean` adds what is clean at each step, with the one exception
  named in 5. `ScoredStagesBounded` is about entries with a score above 0; it
  rests on `InProportion`: the number of rounds and the score are doubled
  together, so the rounds stay within a fixed multiple of a score that has a
  limit. A score of 0 stays 0, and the code then has no limit (see 5).

  `EveryStageTakesBack` is about the bytes of the deterministic stages. A flip
  done twice is none, because a byte below 2^ByteBits goes through its bits
  and back; a word that arithmetic or an interesting value replaced is put
  back over exactly the bytes it wrote; and of the tokens laid over the
  input at one offset no later one is shorter, so that what the last one
  covers covers all of them. The last is the reason why both dictionaries have
  to be sorted by length where they are used, which is proved for load_extras,
  for maybe_add_auto with its evictions and for load_auto.
  `CountersMeet`: at each offset a stage counts as many executions, or takes
  as many off `stage_max`, as it announced for it. Block sizes, lengths, tokens,
  stack depth, cycles, scores and the input stay symbolic; bytes have four to
  eight bits, and tokens and interesting values are sequences of bytes and of
  numbers.
* **DetStages** (`NothingIsLost`, in `DetStagesProofs`). The claim is that the
  stages may rely on each other: each leaves out what it takes to have been
  done before, and every such guess is right but for the exceptions in 5. The
  proof has three parts.

  *Words.* A word is the sum of its bytes; writing a word writes these bytes,
  and half a word is the word at half the width (`WordAt`, `PutMod`, `Halves`).
  So a change of a word is read as a change of the buffer: the bits in which
  two words differ are those in which the buffers differ (`XorBits`,
  `ChangedInWord`).

  *What is supposed.* If could_be_bitflip says yes, the buffer is the input, a
  walking flip of bits or bytes, or the flip crosses a byte border
  (`SupposedFlip`); if could_be_arith does, it is the input or a sum over a byte,
  a half or the word at some offset, in either byte order (`SupposedSum`); if
  could_be_interest does, it is the input, a value of a narrower stage, or, where
  the other byte order is tried, a value of the same stage in the program's own
  (`SupposedValue`). A word
  whose carry stays in its lower half is a sum of the stage below
  (`SmallCarry`, `HalfSum`): this is why the code may skip it.

  *What was done.* `Walked` is the inductive invariant: at each offset that a
  stage has passed, every buffer the stage is about (`Buffers`) was executed,
  or it is excused by the effector map or by a crossing. A stage that the code
  jumps over is one for which the input is too short (`Skipped`); at an offset
  that is passed over, no cell from that of its first byte to that of its last
  is flagged, so that whatever differs there is ineffective (`CellsInOrder`,
  `PassedOver`). `LostExcused` then
  has it for what is left out. Bit and byte flips are excused by nothing
  while the map is being built, which is what makes the map usable afterwards:
  nothing that was excused by a map is looked at under another one. The only
  assumption added for this proof is `EffAssumption`: a cell of the map stands for
  at least one byte.
* **Workdir** (`CrashesKept`, `DominatorsPaired`, `TrainingSound`,
  `UnmixedCampaignKept`, `NothingOverlooked`), for
  the composition `WorkdirUsers`. `PInv` says, for every step of a start, an
  import and a save, what queue/ and cur_dom_bits/ hold of the entries in
  memory: the first `nth` of them during the import and during the dry run,
  all but the last while that one is saved. A start reaches the import only
  with an empty queue/ and without cur_dom_bits/, which is why the pair cannot
  come apart over a kill. `CrashesKept` has every feature gone from
  virgin_tmout in a file or in `refuted`. `UnmixedCampaignKept` excludes the
  two cases of `mixed` (see 5), in which test cases are lost; otherwise it
  follows the files over the steps of a resume: until the import has passed a file of `_resume/` it is there, from
  then on it is in queue/, and `_resume/` is deleted when nothing is left to
  import. `NothingOverlooked` needs that a scan of the second fuzzer holds
  names it listed before: those below its mark were executed or given up,
  also in the middle of the scan, whatever the owner does meanwhile.
  `TrainingSound` splits the sorted list of samples at the level init() works
  on: what lies ahead, at the level and below it.

The proofs found four places in which the modules were wrong or said too
little. The arms of `Outcome` in `ForkServer` overlapped, so that CASE could
take either. The bound of two watched starts hid that a resume renumbers files
after a fresh start that was killed, so that ids are used again in more ways
than `SyncSound` named; `Reused` in `WorkdirUsers` has all of them. The number
of rounds had no bound against `Paused`. And `TrainSet` has to assume, as the
constants of the script have it, that the samples taken of the top level are
fewer than those of a whole training set (200 and 1000).

Only model-checked is liveness, since its proof needs ENABLED: `NeverHangs`,
`RequestServed`, `Settles`, `FindsFuzzer`, `RoundEnds`, `PendingServed`, `RunEnds`, `HandshakeEnds` and `StopEnds`. Every other property of a passing run is a
theorem.

Where a proof needs an induction over data (the tokens load_auto adds one after
the other, the tokens laid over each other at one offset), the lemma `Upwards`
takes its place: a set of numbers that has 0, and with each of them the next,
has all of them. The ids of an import are ordered by `Rank`, the number of
files before one.

## 5. Disagreements found

Each has a run that expects the violation; `PROJECT.json` ("findings") quotes
the lines.

1. While `retrain()` retries, the network does not notice that the fuzzer has
   gone (`nn-dom.py` 625-635 against 134-135).
2. In backup mode, new coverage is consumed before the input is dropped
   (`afl-fuzz.c` 3438-3444 against 3435-3436).
3. `read_backup` compares file names with paths, so that backup mode fuzzes
   nothing (`afl-fuzz.c` 436-443 against 389, with `nn-dom.py` 343).
4. `cull_queue` counts an entry of an unstable target once per slot
   (`afl-fuzz.c` 1561-1563 against 179-182).
5. A Ctrl-C before the child's pid is read leaves the child running
   (`afl-fuzz.c` 7516 against 9007-9008).

Because of the third, every round of the `campaign` run ends with the queue,
or with inputs found by the fuzz_one that began it.

The properties of the later modules name what the code does not promise.
These are limits of the code, stated as exceptions in the properties:

* A comment says that backup mode pauses after 10 consecutive rounds (6567); the
  count starts at 0 and is compared with 11 (6562), so that 11 rounds follow
  each other. (`RoundsBounded`)
* While rounds follow each other, everything the network did not list is
  skipped, favored entries included, and each round sends the walk back to the
  first entry (5413-5416, 8949-8957): an entry far back may wait for ever.
  (`PendingServed`)
* A round that begins while the last entry is fuzzed is over before it has
  taken up anything: the end of the queue is looked at (8899) before the walk
  is sent back (8949). (`RoundServes`)
* A listed or favored entry whose calibration is repeated and finds no new bits
  is abandoned and marked as fuzzed without being fuzzed (2921, 5504, 7353).
  (`PendingServed` and `RoundServes` count it as served.)
* A network that found an old segment stays on it while the process id of its
  creator is in use by a stranger (`nn-dom.py` 82-85, 99-104). (`FindsFuzzer`)
* `could_be_bitflip` takes 1, 2 or 4 differing bits of a word for a walking
  flip also where they cross a byte border: the flips walk from the highest
  bit of each byte, so that flip was never executed (5203-5235). With
  `AFL_NO_ARITH` interesting values that arithmetic would have produced are
  left out, although no arithmetic was done. (`NothingLost`)
* A score of 0, which the power schedule can give, stays 0 when it is doubled:
  `stage_max` is then doubled with every find, without a limit (7231-7233).
  (`HavocBounded`)
* On an input of one byte the grad stage leaves the value 0xff in the byte
  before its first chain (6588-6666). `mutated` is never set back, so that
  nothing is executed after the first change that was refused (6667).
  (`StartsFromInput`)
* The bits of a timeout that a second, longer run does not confirm are taken
  from virgin_tmout all the same (3570 against 3580-3592), so that a later hang with
  only these bits is not saved: `refuted`. (`FaultsKept`)
* A kill while nuke_resume_dir deletes `_resume` (3976) makes the next resume
  import what is left of it, while queue/, which is complete, is deleted; and
  a fresh start leaves an old `_resume` in place, from which a later resume
  imports. (`EntriesKept`, under `~mixed`)
* Every in-place resume first fails at the mkdir of cur_dom_bits (7884, where
  the code has a TODO), with queue/ renamed already; and a kill while
  fuzzer_stats is truncated makes later starts fail (4050-4052). `Tidy` is the
  user who removes what was complained about.
* sync_fuzzers gives up three kinds of ids: files that were gone or empty when
  it opened them, files added during the scan below one that was seen, and ids
  that are used again: by a fresh start, or by a resume that closes a gap in
  the numbers or imports an old `_resume`. (`SyncSound`)
* `init` raises, again every five minutes, for one level with more than 200
  samples, or with one branching. (`TrainSound` says nothing of `raised`.)

## 6. Not modelled, and the plan

In the order in which they are worth doing:

1. The query handler's `bytes_to_mutate`, `last_query` and
   `seed_bytes_to_mutate`; `Campaign` taking its verdict from `TrainSet`.
2. `trim_case` and calibration on the file of an entry (hazard at 2850), which
   would join `TopRated` and `Workdir`.
3. Drop mode: the masks of reached targets.
4. afl-tmin's stages against a reference definition.

Left out for good: floating-point training, user interface, statistics,
compiler wrappers and passes, QEMU mode, the scripts that compute dominators,
and the tools that run one input and keep no state.
