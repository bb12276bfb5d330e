---------------------------- MODULE HavocStages -----------------------------
(***************************************************************************)
(* The random stages of fuzz_one: IDFuzz's grad stage around the byte the  *)
(* network names, havoc, and splicing with another entry.                  *)
(*                                                                         *)
(* Bytes are left out.  Of in_buf the length is kept, of out_buf its size, *)
(* how much of it is the test case, and whether that is still the input.   *)
(* Every read and write of out_buf goes through Within.                    *)
(***************************************************************************)
EXTENDS Integers, FiniteSets

CONSTANTS
  MaxFile,             \* MAX_FILE
  BlkSmall, BlkMedium, BlkLarge, BlkXL,  \* HAVOC_BLK_*
  StackPow2,           \* HAVOC_STACK_POW2
  HavocCyclesInit, HavocCycles, SpliceHavoc, HavocMin,
  BackupMin,           \* executions at least in backup mode (256)
  HavocMaxMult,        \* HAVOC_MAX_MULT
  Percent,             \* the score of an average entry (100)
  HavocDivs,           \* values of havoc_div
  Scores,              \* values of calculate_score
  SpliceCycles,        \* SPLICE_CYCLES
  TmoutLimit,          \* TMOUT_LIMIT
  S32Max,              \* largest value of an s32
  Lens,                \* lengths of queue entries
  TokenLens            \* lengths of the tokens of both dictionaries

ASSUME BlkAssumption ==
  /\ BlkSmall \in Nat \ {0} /\ BlkMedium \in Nat /\ BlkLarge \in Nat
  /\ BlkXL \in Nat
  /\ BlkSmall <= BlkMedium /\ BlkMedium <= BlkLarge /\ BlkLarge <= BlkXL
ASSUME LensAssumption == MaxFile \in Nat /\ Lens \subseteq 1..MaxFile
ASSUME TokenAssumption == TokenLens \subseteq Nat \ {0}
ASSUME CycleAssumption ==
  /\ HavocCyclesInit \in Nat /\ HavocCycles \in Nat /\ SpliceHavoc \in Nat
  /\ HavocMin \in Nat \ {0} /\ BackupMin \in Nat \ {0}
  /\ HavocMaxMult \in Nat \ {0} /\ Percent \in Nat \ {0}
  /\ HavocDivs \subseteq Nat \ {0}
  /\ Scores \subseteq 0..(HavocMaxMult * Percent)
ASSUME BoundAssumption ==
  /\ StackPow2 \in Nat \ {0} /\ SpliceCycles \in Nat /\ TmoutLimit \in Nat
  /\ \A n \in 0..StackPow2 : 2^n \in Nat \ {0}

VARIABLES
  step,             \* where fuzz_one is
  orig_len,         \* queue_cur->len
  len_in,           \* len: length of in_buf
  temp_len,         \* length of the test case in out_buf
  cap,              \* bytes allocated for out_buf
  clean,            \* the test case is in_buf, byte for byte
  inside,           \* no access was outside out_buf or in_buf
  havoc_cur, havoc_max,       \* stage_cur, stage_max
  perf_score, orig_perf, havoc_div,
  more_queued,      \* queued_paths # grad_queued, for the bytes and words
  doing_det, backup_mode,
  splice_cycle,
  todo,             \* changes left of use_stacking
  cur_byte,         \* stage_cur_byte
  mutated,
  subseq_tmouts

buffer == <<len_in, temp_len, cap, clean, inside>>
score == <<havoc_max, perf_score, more_queued>>
entry == <<orig_len, orig_perf, havoc_div, doing_det>>
fixed == <<entry, backup_mode>>
hvars == <<step, orig_len, len_in, temp_len, cap, clean, inside, havoc_cur,
           havoc_max, perf_score, more_queued, orig_perf, havoc_div, doing_det,
           backup_mode, splice_cycle, todo, cur_byte, mutated, subseq_tmouts>>

Lesser(a, b) == IF a < b THEN a ELSE b
Greater(a, b) == IF a > b THEN a ELSE b

(* The longest stage that calculate_score and the doubling allow fits s32. *)
Longest == Greater(Greater(HavocCyclesInit, Greater(HavocCycles, SpliceHavoc)),
                   Greater(HavocMin, BackupMin))
                * (2 * (HavocMaxMult * Percent))
ASSUME S32Assumption == S32Max \in Nat /\ Longest <= S32Max

-----------------------------------------------------------------------------
(***************************************************************************)
(* calculate_score, with each floating-point factor as a ratio that is     *)
(* truncated as the program does.  power is power_factor in 32nds, 1 to    *)
(* 1024: 2^(2 log2(MAX_FACTOR) (p - 1/2)) for p from 0 to 1.               *)
(***************************************************************************)
SpeedScore(exec_us, avg) ==
  CASE exec_us > 10 * avg -> 10
    [] exec_us <= 10 * avg /\ exec_us > 4 * avg -> 25
    [] exec_us <= 4 * avg /\ exec_us > 2 * avg -> 50
    [] exec_us <= 2 * avg /\ 3 * exec_us > 4 * avg -> 75
    [] 4 * exec_us < avg -> 300
    [] 4 * exec_us >= avg /\ 3 * exec_us < avg -> 200
    [] 3 * exec_us >= avg /\ 2 * exec_us < avg -> 150
    [] OTHER -> 100

SizeScore(s, size, avg) ==
  CASE 3 * size > 10 * avg -> s * 3
    [] 3 * size <= 10 * avg /\ size > 2 * avg -> s * 2
    [] size <= 2 * avg /\ 3 * size > 4 * avg -> (s * 3) \div 2
    [] 3 * size < avg -> s \div 4
    [] 3 * size >= avg /\ 2 * size < avg -> s \div 2
    [] 2 * size >= avg /\ 3 * size < 2 * avg -> (s * 3) \div 4
    [] OTHER -> s

HandicapScore(s, handicap) ==
  IF handicap >= 4 THEN s * 4 ELSE IF handicap > 0 THEN s * 2 ELSE s

DepthScore(s, depth) ==
  s * (CASE depth < 4 -> 1 [] depth \in 4..7 -> 2 [] depth \in 8..13 -> 3
         [] depth \in 14..25 -> 4 [] OTHER -> 5)

calculate_score(exec_us, avg_us, size, avg_size, handicap, depth, power) ==
  LET s == DepthScore(HandicapScore(SizeScore(SpeedScore(exec_us, avg_us),
                                              size, avg_size), handicap), depth)
  IN  Lesser((s * power) \div 32, HavocMaxMult * 100)

(* Block lengths choose_block_len(limit) can return, over all draws.       *)
choose_block_len(limit) ==
  UNION {LET low == IF c[1] >= limit THEN 1 ELSE c[1]
         IN  low..Lesser(c[2], limit) :
           c \in {<<1, BlkSmall>>, <<BlkSmall, BlkMedium>>,
                  <<BlkMedium, BlkLarge>>, <<BlkLarge, BlkXL>>}}

-----------------------------------------------------------------------------
(***************************************************************************)
(* One execution                                                           *)
(***************************************************************************)
Go(s) == step' = s

(* n bytes from offset at lie in a buffer of size bytes.                   *)
Within(at, n, size) == at >= 0 /\ n >= 0 /\ at + n <= size

(* common_fuzz_stuff returns 1: stop_soon, too many timeouts in a row, or  *)
(* a request to skip.                                                      *)
BailOut == /\ step' = "end"
           /\ subseq_tmouts' = 0
           /\ havoc_cur' = 0 /\ todo' = 0 /\ mutated' = FALSE
           /\ UNCHANGED <<buffer, score, fixed, splice_cycle, cur_byte>>

(* It returns 0: after a timeout, or not.                                  *)
Ran == \/ subseq_tmouts' = 0
       \/ subseq_tmouts <= TmoutLimit /\ subseq_tmouts' = subseq_tmouts + 1

Executing == {"bytes", "gexec", "exec"}
               \cup {"win1", "win2", "win3", "win4", "win5", "win6"}

Abandon == step \in Executing /\ BailOut

(* Faulty variant: a shortened buffer is not grown again.                  *)
KeptSize == cap

(* ck_realloc to len when the test case has become shorter.                *)
Regrown == IF temp_len < len_in THEN len_in ELSE cap

(* out_buf gets back its size and shape.                                   *)
Restore == /\ cap' = Regrown
           /\ temp_len' = len_in /\ clean' = TRUE
           /\ inside' = (inside /\ Within(0, len_in, cap'))
           /\ UNCHANGED len_in

Wrapped(n) == IF n > S32Max THEN n - 2 * (S32Max + 1) ELSE n

(* Faulty variant: every new entry makes the stage longer.                 *)
ExtendAlways(found) ==
  /\ IF found THEN havoc_max' = Wrapped(2 * havoc_max) /\ perf_score' = 2 * perf_score
     ELSE UNCHANGED <<havoc_max, perf_score>>
  /\ more_queued' = FALSE

(* New entries make the stage longer, limits permitting.                   *)
Extend(found) ==
  /\ IF found /\ perf_score <= HavocMaxMult * Percent
     THEN havoc_max' = Wrapped(2 * havoc_max) /\ perf_score' = 2 * perf_score
     ELSE UNCHANGED <<havoc_max, perf_score>>
  /\ more_queued' = FALSE

-----------------------------------------------------------------------------
(***************************************************************************)
(* The changes                                                             *)
(***************************************************************************)
(* A write of n bytes anywhere, if the test case has as many.              *)
Poke(n) == IF temp_len < n THEN UNCHANGED buffer
           ELSE \E at \in 0..(temp_len - n) :
                  /\ inside' = (inside /\ Within(at, n, cap))
                  /\ clean' = FALSE
                  /\ UNCHANGED <<len_in, temp_len, cap>>

Delete(from, n) ==
  /\ inside' = (inside /\ Within(from + n, temp_len - from - n, cap)
                       /\ Within(from, temp_len - from - n, cap))
  /\ temp_len' = temp_len - n
  /\ clean' = FALSE /\ UNCHANGED <<len_in, cap>>

(* n bytes, copied from an offset or all the same, go in before at; the    *)
(* new buffer is as long as the test case.                                 *)
Insertion(from, at, n) ==
  /\ inside' = (inside /\ Within(from, 0, cap) /\ Within(0, temp_len, cap)
                       /\ Within(at, temp_len - at, cap))
  /\ cap' = temp_len + n /\ temp_len' = temp_len + n
  /\ clean' = FALSE /\ UNCHANGED len_in

Move(from, to, n) ==
  /\ inside' = (inside /\ Within(from, n, cap) /\ Within(to, n, cap))
  /\ clean' = FALSE /\ UNCHANGED <<len_in, temp_len, cap>>

(* A block that begins behind the byte of the grad stage, and an overwrite *)
(* that misses it.                                                         *)
Behind(at) == at > cur_byte
Misses(to, n) == Behind(to) \/ to + n - 1 < cur_byte

(* In the grad stage (near) only changes that touch the byte are made.     *)
DeleteSome(near) ==
  IF temp_len < 2 THEN UNCHANGED buffer
  ELSE \E n \in choose_block_len(temp_len - 1) : \E from \in 0..(temp_len - n) :
         ~(near /\ Behind(from)) /\ Delete(from, n)

CloneSome(near) ==
  IF temp_len + BlkXL >= MaxFile THEN UNCHANGED buffer
  ELSE \E at \in 0..(temp_len - 1) :
         /\ ~(near /\ Behind(at))
         /\ \/ \E n \in choose_block_len(temp_len) : \E from \in 0..(temp_len - n) :
                 Insertion(from + n, at, n)
            \/ \E n \in choose_block_len(BlkXL) : Insertion(0, at, n)

MoveSome(near) ==
  IF temp_len < 2 THEN UNCHANGED buffer
  ELSE \E n \in choose_block_len(temp_len - 1) :
         \E from, to \in 0..(temp_len - n) :
           ~(near /\ Misses(to, n)) /\ Move(from, to, n)

PutToken(t) ==
  IF t > temp_len THEN UNCHANGED buffer
  ELSE \E at \in 0..(temp_len - t) : Move(0, at, t)

AddToken(t) ==
  IF temp_len + t >= MaxFile THEN UNCHANGED buffer
  ELSE \E at \in 0..temp_len : Insertion(0, at, t)

-----------------------------------------------------------------------------
(***************************************************************************)
(* havoc_stage: how long, and whether the network is asked                 *)
(***************************************************************************)
Length(perf) ==
  LET cycles == IF splice_cycle > 0 THEN SpliceHavoc
                ELSE IF doing_det THEN HavocCyclesInit ELSE HavocCycles
      n == ((cycles * perf) \div havoc_div) \div Percent
  IN  Greater(Greater(n, HavocMin), IF backup_mode THEN BackupMin ELSE 0)

Setup ==
  /\ step = "setup"
  /\ perf_score' = IF splice_cycle > 0 THEN orig_perf ELSE perf_score
  /\ havoc_max' = Length(perf_score')
  /\ UNCHANGED more_queued
  /\ temp_len' = len_in
  /\ havoc_cur' = 0 /\ cur_byte' = -1
  /\ Go("query")
  /\ UNCHANGED <<len_in, cap, clean, inside, fixed, splice_cycle, todo,
                 mutated, subseq_tmouts>>

(* No question is asked, or there is no byte to change: no answer, an      *)
(* answer that may begin backup mode, or an offset beyond the input.       *)
NoGrad ==
  /\ step = "query"
  /\ Go("havoc")
  /\ backup_mode' \in {backup_mode, TRUE}
  /\ UNCHANGED <<buffer, score, entry, havoc_cur, splice_cycle, todo,
                 cur_byte, mutated, subseq_tmouts>>

Grad ==
  /\ step = "query"
  /\ cur_byte' \in 0..(len_in - 1)
  /\ Go("bytes")
  /\ UNCHANGED <<buffer, score, fixed, havoc_cur, splice_cycle, todo,
                 mutated, subseq_tmouts>>

-----------------------------------------------------------------------------
(***************************************************************************)
(* The grad stage: all values of the byte, words and dwords over it        *)
(***************************************************************************)
GradBytes ==
  /\ step = "bytes"
  /\ inside' = (inside /\ Within(cur_byte, 1, cap))
  /\ clean' = FALSE
  /\ Ran
  /\ more_queued' \in BOOLEAN
  /\ Go("win1")
  /\ UNCHANGED <<len_in, temp_len, cap, havoc_max, perf_score, fixed, havoc_cur,
                 splice_cycle, todo, cur_byte, mutated>>

(* The six positions of a word over the byte: first offset, width, and     *)
(* the position after it.                                                  *)
Windows == [win1 |-> [at |-> cur_byte - 1, w |-> 2, next |-> "win2"],
            win2 |-> [at |-> cur_byte, w |-> 2, next |-> "win3"],
            win3 |-> [at |-> cur_byte - 3, w |-> 4, next |-> "win4"],
            win4 |-> [at |-> cur_byte - 2, w |-> 4, next |-> "win5"],
            win5 |-> [at |-> cur_byte - 1, w |-> 4, next |-> "win6"],
            win6 |-> [at |-> cur_byte, w |-> 4, next |-> "grad"]]

(* A word is written where it fits; the input is copied back in any case,  *)
(* unless the input is too short for words of this width at all.           *)
GradWindow ==
  /\ step \in DOMAIN Windows
  /\ LET x == Windows[step]
     IN  /\ IF len_in < x.w THEN UNCHANGED <<inside, clean, subseq_tmouts, more_queued>>
            ELSE /\ clean' = TRUE
                 /\ IF x.at >= 0 /\ x.at + x.w <= len_in
                    THEN /\ Ran /\ more_queued' \in {more_queued, TRUE}
                         /\ inside' = (inside /\ Within(x.at, x.w, cap)
                                              /\ Within(0, len_in, cap))
                    ELSE /\ UNCHANGED <<subseq_tmouts, more_queued>>
                         /\ inside' = (inside /\ Within(0, len_in, cap))
         /\ Go(x.next)
         /\ mutated' = (x.next = "grad")
         /\ havoc_cur' = 0
  /\ UNCHANGED <<len_in, temp_len, cap, havoc_max, perf_score, fixed,
                 splice_cycle, todo, cur_byte>>

GradBegin ==
  /\ step = "grad" /\ havoc_cur < havoc_max
  /\ \E n \in 0..(StackPow2 - 1) : todo' = 2^n
  /\ Go("gstack")
  /\ UNCHANGED <<buffer, score, fixed, havoc_cur, splice_cycle, cur_byte,
                 mutated, subseq_tmouts>>

(* A change that does not touch the byte is refused.                       *)
GradMutate ==
  /\ step = "gstack"
  /\ Go("gexec")
  /\ \/ /\ DeleteSome(TRUE) \/ CloneSome(TRUE) \/ MoveSome(TRUE)
        /\ UNCHANGED mutated
     \/ /\ \/ /\ temp_len >= 2
              /\ \E n \in choose_block_len(temp_len - 1) :
                   \E at \in 0..(temp_len - n) : Misses(at, n)
           \/ /\ temp_len + BlkXL < MaxFile
              /\ \E at \in 0..(temp_len - 1) : Behind(at)
        /\ mutated' = FALSE
        /\ UNCHANGED buffer
  /\ UNCHANGED <<score, fixed, havoc_cur, splice_cycle, todo, cur_byte,
                 subseq_tmouts>>

(* Each change is executed by itself and taken back; nothing is executed   *)
(* once a change was refused.  The finds of the bytes and words lengthen   *)
(* the stage at the first change, refused or not.                          *)
GradExec ==
  /\ step = "gexec"
  /\ IF mutated THEN Ran /\ \E found \in {more_queued, TRUE} : Extend(found)
     ELSE UNCHANGED subseq_tmouts /\ Extend(more_queued)
  /\ Restore
  /\ todo' = todo - 1
  /\ havoc_cur' = IF todo = 1 THEN havoc_cur + 1 ELSE havoc_cur
  /\ Go(IF todo = 1 THEN "grad" ELSE "gstack")
  /\ UNCHANGED <<fixed, splice_cycle, cur_byte, mutated>>

GradDone ==
  /\ step = "grad" /\ havoc_cur >= havoc_max
  /\ Go("havoc")
  /\ cur_byte' = -1 /\ havoc_cur' = 0 /\ mutated' = FALSE
  /\ UNCHANGED <<buffer, score, fixed, splice_cycle, todo, subseq_tmouts>>

-----------------------------------------------------------------------------
(***************************************************************************)
(* Havoc                                                                   *)
(***************************************************************************)
HavocBegin ==
  /\ step = "havoc" /\ havoc_cur < havoc_max
  /\ \E n \in 0..(StackPow2 - 1) : todo' = 2^(n + 1)
  /\ Go("stack")
  /\ UNCHANGED <<buffer, score, fixed, havoc_cur, splice_cycle, cur_byte,
                 mutated, subseq_tmouts>>

(* One of the seventeen changes.                                           *)
Tweak ==
  \/ \E n \in {1, 2, 4} : Poke(n)
  \/ DeleteSome(FALSE) \/ CloneSome(FALSE) \/ MoveSome(FALSE)
  \/ \E t \in TokenLens : PutToken(t) \/ AddToken(t)

HavocMutate ==
  /\ step = "stack"
  /\ Tweak
  /\ todo' = todo - 1
  /\ Go(IF todo = 1 THEN "exec" ELSE "stack")
  /\ UNCHANGED <<score, fixed, havoc_cur, splice_cycle, cur_byte, mutated,
                 subseq_tmouts>>

HavocExec ==
  /\ step = "exec"
  /\ Ran
  /\ \E found \in BOOLEAN : Extend(found)
  /\ Restore
  /\ havoc_cur' = havoc_cur + 1
  /\ Go("havoc")
  /\ UNCHANGED <<fixed, splice_cycle, todo, cur_byte, mutated>>

HavocDone ==
  /\ step = "havoc" /\ havoc_cur >= havoc_max
  /\ Go("splice")
  /\ havoc_cur' = 0
  /\ UNCHANGED <<buffer, score, fixed, splice_cycle, todo, cur_byte, mutated,
                 subseq_tmouts>>

-----------------------------------------------------------------------------
(***************************************************************************)
(* Splicing                                                                *)
(***************************************************************************)
MoreSplices == splice_cycle < SpliceCycles /\ Lens # {} /\ orig_len > 1

(* The input of the entry is taken again; there is no other entry that is  *)
(* long enough, or it differs in too little.                               *)
SpliceFails ==
  /\ step = "splice" /\ MoreSplices
  /\ splice_cycle' = splice_cycle + 1
  /\ len_in' = orig_len
  /\ clean' \in {clean, FALSE}
  /\ UNCHANGED <<step, temp_len, cap, inside, score, fixed, havoc_cur, todo,
                 cur_byte, mutated, subseq_tmouts>>

(* The buffers differ first at f and last at l; the head up to split comes *)
(* from the entry, the rest from the other one of length n.                *)
Splice ==
  /\ step = "splice" /\ MoreSplices
  /\ \E n \in Lens \ {1} : \E l \in 2..(Lesser(orig_len, n) - 1) :
       \E f \in 0..(l - 1) : \E split \in f..(l - 1) :
         /\ inside' = (inside /\ Within(0, split, orig_len) /\ Within(0, split, n))
         /\ len_in' = n /\ cap' = n
  /\ clean' = TRUE
  /\ splice_cycle' = splice_cycle + 1
  /\ Go("setup")
  /\ UNCHANGED <<temp_len, score, fixed, havoc_cur, todo, cur_byte,
                 mutated, subseq_tmouts>>

(* Also when use_splicing is not set, or the entry is the only one.        *)
SpliceDone ==
  /\ step = "splice" /\ (splice_cycle = 0 \/ ~MoreSplices)
  /\ Go("end")
  /\ UNCHANGED <<buffer, score, fixed, havoc_cur, splice_cycle, todo,
                 cur_byte, mutated, subseq_tmouts>>

(* havoc_stage is reached for an entry of n bytes.                         *)
Begin(n, det) ==
  /\ step' = "setup"
  /\ orig_len' = n /\ len_in' = n /\ temp_len' = n /\ cap' = n
  /\ clean' = TRUE /\ inside' = TRUE
  /\ perf_score' \in Scores /\ orig_perf' = perf_score'
  /\ havoc_div' \in HavocDivs /\ backup_mode' \in BOOLEAN /\ doing_det' = det
  /\ UNCHANGED <<havoc_cur, havoc_max, more_queued, splice_cycle, todo, cur_byte,
                 mutated, subseq_tmouts>>

HInit ==
  /\ step = "off"
  /\ orig_len = 0 /\ len_in = 0 /\ temp_len = 0 /\ cap = 0
  /\ clean = TRUE /\ inside = TRUE
  /\ havoc_cur = 0 /\ havoc_max = 0 /\ more_queued = FALSE
  /\ perf_score = 0 /\ orig_perf = 0 /\ havoc_div = 1
  /\ doing_det = FALSE /\ backup_mode = FALSE
  /\ splice_cycle = 0 /\ todo = 0 /\ cur_byte = -1 /\ mutated = FALSE
  /\ subseq_tmouts = 0

HNext ==
  \/ Setup \/ NoGrad \/ Grad \/ GradBytes \/ GradWindow \/ GradBegin
  \/ GradMutate \/ GradExec \/ GradDone \/ HavocBegin \/ HavocMutate
  \/ HavocExec \/ HavocDone \/ SpliceFails \/ Splice \/ SpliceDone \/ Abandon

-----------------------------------------------------------------------------
(***************************************************************************)
(* Properties                                                              *)
(***************************************************************************)
Steps == {"off", "setup", "query", "bytes", "grad", "gstack", "gexec", "havoc",
          "stack", "exec", "splice", "end"}
           \cup {"win1", "win2", "win3", "win4", "win5", "win6"}

HTypeOK ==
  /\ step \in Steps
  /\ orig_len \in 0..MaxFile /\ len_in \in 0..MaxFile
  /\ temp_len \in 0..MaxFile /\ cap \in Nat
  /\ clean \in BOOLEAN /\ inside \in BOOLEAN
  /\ havoc_cur \in Nat /\ havoc_max \in Int
  /\ perf_score \in Nat /\ orig_perf \in Nat /\ havoc_div \in Nat \ {0}
  /\ doing_det \in BOOLEAN /\ backup_mode \in BOOLEAN
  /\ splice_cycle \in 0..SpliceCycles /\ todo \in Nat
  /\ cur_byte \in -1..(MaxFile - 1)
  /\ mutated \in BOOLEAN /\ more_queued \in BOOLEAN
  /\ subseq_tmouts \in 0..(TmoutLimit + 1)

(* Whatever a chain of changes did to its length, the test case lies in    *)
(* the buffer that was allocated for it, is never empty, and no change     *)
(* reads or writes beside that buffer.                                     *)
InBounds ==
  inside /\ (orig_len # 0 /\ step # "setup" => temp_len \in 1..cap)

(* Every chain of changes starts from the input: the last one was taken    *)
(* back completely.  Only the first chain of the grad stage on an input of *)
(* one byte starts from the value 0xff that the byte loop leaves.          *)
StartsClean ==
  /\ step = "havoc" => clean
  /\ step = "grad" => clean \/ (len_in = 1 /\ havoc_cur = 0)

(* Finds make a stage longer only up to a limit, so that stage_max cannot  *)
(* leave its type.  A score of 0 stays 0 when it is doubled, and then      *)
(* there is no limit.                                                      *)
HavocBounded == orig_perf > 0 => havoc_max \in 0..Longest
=============================================================================
