--------------------------- MODULE FuzzOneProofs ---------------------------
(***************************************************************************)
(* fuzz_one for every input, every dictionary and every constant of        *)
(* config.h.  The random stages, where bytes play no part: no change       *)
(* reaches beside the buffer, every chain of changes starts from the       *)
(* input, and a stage has a longest length.  The deterministic stages:     *)
(* what is done at an offset is taken back bit by bit, word by word and    *)
(* token by token, and the progress counters meet at the end of a stage.   *)
(***************************************************************************)
EXTENDS FuzzOne, SequenceTheorems, FiniteSetTheorems, WellFoundedInduction, TLAPS

(* The random stages begin when the deterministic ones are over, and the   *)
(* input has not changed until then.                                       *)
Handed == /\ stage # "over" => in_buf \in Inputs
          /\ stage \notin {"over", "abandoned"} => step = "off"

Fitting == {"query", "bytes", "grad", "gstack", "havoc"}
             \cup {"win1", "win2", "win3", "win4", "win5", "win6"}
Starting == {"grad", "gstack", "havoc"}   \* between two chains, or two changes
Changing == {"stack", "exec", "gexec"}

(* The chain of changes: it begins with the input in a buffer that holds   *)
(* it, and never leaves the buffer.                                        *)
Shape ==
  /\ inside = TRUE
  /\ step = "off" => orig_len = 0
  /\ step \notin {"off", "end"} =>
       /\ orig_len \in 1..MaxFile /\ len_in \in 1..MaxFile
       /\ temp_len \in 1..MaxFile /\ cap \in Nat
  /\ step \in Fitting => temp_len = len_in
  /\ step = "setup" => cap >= len_in
  /\ step = "bytes" => cur_byte \in 0..(len_in - 1)
  /\ step \notin {"off", "setup", "end"} => temp_len <= cap
  /\ step = "end" => orig_len = 0 \/ temp_len \in 1..cap
  /\ step \in {"stack", "gstack", "gexec"} => todo >= 1

IInv == HTypeOK /\ Shape
FInv == IInv /\ Handed

-----------------------------------------------------------------------------
(***************************************************************************)
(* Operators                                                               *)
(***************************************************************************)
(* A block has at least one byte and at most as many as there may be.      *)
LEMMA BlockLen ==
  ASSUME NEW limit \in Nat \ {0}
  PROVE  /\ choose_block_len(limit) \subseteq 1..limit
         /\ \A n \in choose_block_len(limit) : n <= BlkXL
<1>1. choose_block_len(limit) \subseteq 1..limit
  BY BlkAssumption DEF choose_block_len, Lesser
<1>2. ASSUME NEW n \in choose_block_len(limit) PROVE n <= BlkXL
  <2>1. PICK c \in {<<1, BlkSmall>>, <<BlkSmall, BlkMedium>>,
                    <<BlkMedium, BlkLarge>>, <<BlkLarge, BlkXL>>} :
          n \in (IF c[1] >= limit THEN 1 ELSE c[1])..Lesser(c[2], limit)
    BY DEF choose_block_len
  <2>2. c[1] \in Nat /\ c[2] \in Nat /\ c[2] <= BlkXL
    BY <2>1, BlkAssumption
  <2>3. Lesser(c[2], limit) \in Nat /\ Lesser(c[2], limit) <= c[2]
    BY <2>2 DEF Lesser
  <2> QED
    BY <2>1, <2>2, <2>3, BlkAssumption
<1> QED
  BY <1>1, <1>2

(* However fast, new, deep and near an entry is, its score has a limit,    *)
(* and it is not negative.                                                 *)
LEMMA ScoreBounded ==
  ASSUME NEW e \in Nat, NEW a \in Nat, NEW s \in Nat, NEW v \in Nat,
         NEW h \in Nat, NEW d \in Nat, NEW w \in Nat
  PROVE  calculate_score(e, a, s, v, h, d, w) \in 0..(HavocMaxMult * 100)
<1>1. SpeedScore(e, a) \in Nat
  BY DEF SpeedScore
<1>2. \A x \in Nat : SizeScore(x, s, v) \in Nat
  BY DEF SizeScore
<1>3. \A x \in Nat : HandicapScore(x, h) \in Nat
  BY DEF HandicapScore
<1>4. \A x \in Nat : DepthScore(x, d) \in Nat
  BY DEF DepthScore
<1> DEFINE x == DepthScore(HandicapScore(SizeScore(SpeedScore(e, a), s, v), h), d)
<1>5. x \in Nat
  BY <1>1, <1>2, <1>3, <1>4
<1> HIDE DEF x
<1>6. x * w \in Nat
  BY <1>5
<1>7. (x * w) \div 32 \in Nat
  BY <1>6
<1>8. HavocMaxMult * 100 \in Nat
  BY CycleAssumption
<1>9. Lesser((x * w) \div 32, HavocMaxMult * 100) \in 0..(HavocMaxMult * 100)
  BY <1>7, <1>8 DEF Lesser
<1> QED
  BY <1>9 DEF calculate_score, x

-----------------------------------------------------------------------------
(***************************************************************************)
(* The changes                                                             *)
(***************************************************************************)
Sound == /\ inside = TRUE /\ clean \in BOOLEAN
         /\ len_in \in 1..MaxFile /\ temp_len \in 1..MaxFile
         /\ cap \in Nat /\ temp_len <= cap

LEMMA UnchangedSound == ASSUME Sound, UNCHANGED buffer PROVE Sound' /\ len_in' = len_in
BY DEF Sound, buffer

LEMMA PokeSound ==
  ASSUME Sound, NEW n \in Nat, Poke(n) PROVE Sound' /\ len_in' = len_in
<1>1. CASE temp_len < n
  BY <1>1, UnchangedSound DEF Poke
<1>2. CASE ~(temp_len < n)
  <2>1. PICK at \in 0..(temp_len - n) :
          /\ inside' = (inside /\ Within(at, n, cap))
          /\ clean' = FALSE /\ UNCHANGED <<len_in, temp_len, cap>>
    BY <1>2 DEF Poke
  <2>2. Within(at, n, cap) /\ inside = TRUE
    BY LensAssumption DEF Sound, Within
  <2>3. inside' = TRUE
    BY <2>1, <2>2
  <2> QED
    BY <2>1, <2>3 DEF Sound
<1> QED
  BY <1>1, <1>2

LEMMA DeleteSound ==
  ASSUME Sound, NEW n \in 1..(temp_len - 1), NEW from \in 0..(temp_len - n),
         Delete(from, n)
  PROVE  Sound' /\ len_in' = len_in
<1>1. /\ Within(from + n, temp_len - from - n, cap)
      /\ Within(from, temp_len - from - n, cap) /\ inside = TRUE
  BY LensAssumption DEF Sound, Within
<1>2. inside' = TRUE
  BY <1>1 DEF Delete
<1>3. temp_len' = temp_len - n /\ clean' = FALSE /\ UNCHANGED <<len_in, cap>>
  BY DEF Delete
<1>4. /\ len_in' \in 1..MaxFile /\ temp_len' \in 1..MaxFile
      /\ cap' \in Nat /\ temp_len' <= cap'
  BY <1>3, LensAssumption DEF Sound
<1> QED
  BY <1>2, <1>3, <1>4 DEF Sound

LEMMA InsertionSound ==
  ASSUME Sound, NEW n \in Nat, NEW from \in 0..temp_len, NEW at \in 0..temp_len,
         temp_len + n <= MaxFile, Insertion(from, at, n)
  PROVE  Sound' /\ len_in' = len_in
<1>1. /\ Within(from, 0, cap) /\ Within(0, temp_len, cap)
      /\ Within(at, temp_len - at, cap) /\ inside = TRUE
  BY LensAssumption DEF Sound, Within
<1>2. inside' = TRUE
  BY <1>1 DEF Insertion
<1>3. /\ cap' = temp_len + n /\ temp_len' = temp_len + n
      /\ clean' = FALSE /\ len_in' = len_in
  BY DEF Insertion
<1>4. /\ len_in' \in 1..MaxFile /\ temp_len' \in 1..MaxFile
      /\ cap' \in Nat /\ temp_len' <= cap'
  BY <1>3, LensAssumption DEF Sound
<1> QED
  BY <1>2, <1>3, <1>4 DEF Sound

LEMMA MoveSound ==
  ASSUME Sound, NEW n \in 0..temp_len, NEW from \in 0..(temp_len - n),
         NEW to \in 0..(temp_len - n), Move(from, to, n)
  PROVE  Sound' /\ len_in' = len_in
<1>1. Within(from, n, cap) /\ Within(to, n, cap) /\ inside = TRUE
  BY LensAssumption DEF Sound, Within
<1>2. inside' = TRUE
  BY <1>1 DEF Move
<1> QED
  BY <1>2, LensAssumption DEF Sound, Move

LEMMA DeleteSomeSound ==
  ASSUME Sound, NEW near \in BOOLEAN, DeleteSome(near)
  PROVE  Sound' /\ len_in' = len_in
<1>1. CASE temp_len < 2
  BY <1>1, UnchangedSound DEF DeleteSome
<1>2. CASE ~(temp_len < 2)
  <2>1. temp_len - 1 \in Nat \ {0}
    BY <1>2 DEF Sound
  <2>2. PICK n \in choose_block_len(temp_len - 1) :
          \E from \in 0..(temp_len - n) : Delete(from, n)
    BY <1>2 DEF DeleteSome
  <2>3. n \in 1..(temp_len - 1)
    BY <2>1, BlockLen
  <2> QED
    BY <2>2, <2>3, DeleteSound
<1> QED
  BY <1>1, <1>2

LEMMA CloneSomeSound ==
  ASSUME Sound, NEW near \in BOOLEAN, CloneSome(near)
  PROVE  Sound' /\ len_in' = len_in
<1>1. CASE temp_len + BlkXL >= MaxFile
  BY <1>1, UnchangedSound DEF CloneSome
<1>2. CASE ~(temp_len + BlkXL >= MaxFile)
  <2>1. temp_len \in Nat \ {0} /\ BlkXL \in Nat \ {0} /\ MaxFile \in Nat
    BY BlkAssumption, LensAssumption DEF Sound
  <2>2. PICK at \in 0..(temp_len - 1) :
          \/ \E n \in choose_block_len(temp_len) : \E from \in 0..(temp_len - n) :
               Insertion(from + n, at, n)
          \/ \E n \in choose_block_len(BlkXL) : Insertion(0, at, n)
    BY <1>2 DEF CloneSome
  <2>3. at \in 0..temp_len
    BY <2>1
  <2>4. ASSUME NEW n \in choose_block_len(temp_len), NEW from \in 0..(temp_len - n),
               Insertion(from + n, at, n)
        PROVE  Sound' /\ len_in' = len_in
    <3>1. n \in 1..temp_len /\ n <= BlkXL
      <4>1. n \in 1..temp_len
        BY <2>1, BlockLen
      <4>2. n <= BlkXL
        BY <2>1, BlockLen
      <4> QED
        BY <4>1, <4>2
    <3>2. from + n \in 0..temp_len /\ temp_len + n <= MaxFile /\ n \in Nat
      BY <1>2, <2>1, <3>1
    <3> QED
      BY <2>3, <2>4, <3>2, InsertionSound
  <2>5. ASSUME NEW n \in choose_block_len(BlkXL), Insertion(0, at, n)
        PROVE  Sound' /\ len_in' = len_in
    <3>1. n \in 1..BlkXL
      BY <2>1, BlockLen
    <3>2. 0 \in 0..temp_len /\ temp_len + n <= MaxFile /\ n \in Nat
      BY <1>2, <2>1, <3>1
    <3> QED
      BY <2>3, <2>5, <3>2, InsertionSound
  <2> QED
    BY <2>2, <2>4, <2>5
<1> QED
  BY <1>1, <1>2

LEMMA MoveSomeSound ==
  ASSUME Sound, NEW near \in BOOLEAN, MoveSome(near)
  PROVE  Sound' /\ len_in' = len_in
<1>1. CASE temp_len < 2
  BY <1>1, UnchangedSound DEF MoveSome
<1>2. CASE ~(temp_len < 2)
  <2>1. temp_len - 1 \in Nat \ {0}
    BY <1>2 DEF Sound
  <2>2. PICK n \in choose_block_len(temp_len - 1) :
          \E from, to \in 0..(temp_len - n) : Move(from, to, n)
    BY <1>2 DEF MoveSome
  <2>3. n \in 0..temp_len
    BY <2>1, BlockLen DEF Sound
  <2> QED
    BY <2>2, <2>3, MoveSound
<1> QED
  BY <1>1, <1>2

LEMMA TokenSound ==
  ASSUME Sound, NEW t \in TokenLens, PutToken(t) \/ AddToken(t)
  PROVE  Sound' /\ len_in' = len_in
<1>1. t \in Nat
  BY TokenAssumption
<1>2. CASE PutToken(t)
  <2>1. CASE t > temp_len
    BY <1>2, <2>1, UnchangedSound DEF PutToken
  <2>2. CASE ~(t > temp_len)
    <3>1. t \in 0..temp_len /\ 0 \in 0..(temp_len - t)
      BY <1>1, <2>2 DEF Sound
    <3> QED
      BY <1>2, <2>2, <3>1, MoveSound DEF PutToken
  <2> QED
    BY <2>1, <2>2
<1>3. CASE AddToken(t)
  <2>1. CASE temp_len + t >= MaxFile
    BY <1>3, <2>1, UnchangedSound DEF AddToken
  <2>2. CASE ~(temp_len + t >= MaxFile)
    <3>1. 0 \in 0..temp_len /\ temp_len + t <= MaxFile
      BY <1>1, <2>2, LensAssumption DEF Sound
    <3> QED
      BY <1>1, <1>3, <2>2, <3>1, InsertionSound DEF AddToken
  <2> QED
    BY <2>1, <2>2
<1> QED
  BY <1>2, <1>3

LEMMA TweakSound == ASSUME Sound, Tweak PROVE Sound' /\ len_in' = len_in
BY PokeSound, DeleteSomeSound, CloneSomeSound, MoveSomeSound, TokenSound DEF Tweak

(* What a chain did to the buffer is taken back.                           *)
LEMMA RestoreSound ==
  ASSUME Sound, Restore
  PROVE  Sound' /\ len_in' = len_in /\ temp_len' = len_in /\ clean' = TRUE
<1>1. Within(0, len_in, cap') /\ inside = TRUE
  BY LensAssumption DEF Sound, Restore, Regrown, Within
<1>2. inside' = TRUE
  BY <1>1 DEF Restore
<1> QED
  BY <1>2, LensAssumption DEF Sound, Restore, Regrown

(* A timeout is counted or not.                                            *)
LEMMA RanTyped ==
  ASSUME HTypeOK, Ran PROVE subseq_tmouts' \in 0..(TmoutLimit + 1)
BY BoundAssumption DEF HTypeOK, Ran

LEMMA ExtendTyped ==
  ASSUME HTypeOK, NEW found \in BOOLEAN, Extend(found)
  PROVE  perf_score' \in Nat /\ havoc_max' \in Int /\ more_queued' \in BOOLEAN
<1>1. more_queued' = FALSE
  BY DEF Extend
<1>2. CASE UNCHANGED <<havoc_max, perf_score>>
  BY <1>1, <1>2 DEF HTypeOK
<1>3. CASE havoc_max' = Wrapped(2 * havoc_max) /\ perf_score' = 2 * perf_score
  <2>1. perf_score' \in Nat /\ havoc_max' \in Int
    BY <1>3, S32Assumption DEF HTypeOK, Wrapped
  <2> QED
    BY <1>1, <2>1
<1> QED
  BY <1>2, <1>3 DEF Extend

LEMMA WindowsAre ==
  /\ DOMAIN Windows = {"win1", "win2", "win3", "win4", "win5", "win6"}
  /\ \A s \in DOMAIN Windows :
       Windows[s].next \in {"win2", "win3", "win4", "win5", "win6", "grad"}
BY DEF Windows

(* A stage has as many rounds as a natural number says.                    *)
LEMMA LengthTyped ==
  ASSUME HTypeOK, NEW perf \in Nat PROVE Length(perf) \in Nat \ {0}
<1> DEFINE c == IF splice_cycle > 0 THEN SpliceHavoc
                ELSE IF doing_det THEN HavocCyclesInit ELSE HavocCycles
<1>1. c \in Nat
  BY CycleAssumption
<1> HIDE DEF c
<1>2. c * perf \in Nat
  BY <1>1
<1>3. (c * perf) \div havoc_div \in Nat
  BY <1>2 DEF HTypeOK
<1>4. ((c * perf) \div havoc_div) \div Percent \in Nat
  BY <1>3, CycleAssumption
<1> DEFINE n == ((c * perf) \div havoc_div) \div Percent
<1>5. n \in Nat
  BY <1>4
<1> HIDE DEF n
<1>6. Greater(Greater(n, HavocMin), IF backup_mode THEN BackupMin ELSE 0) \in Nat \ {0}
  BY <1>5, CycleAssumption DEF Greater
<1> QED
  BY <1>6 DEF Length, n, c

-----------------------------------------------------------------------------
(***************************************************************************)
(* The invariant                                                           *)
(***************************************************************************)
LEMMA AtSound ==
  ASSUME IInv, step \notin {"off", "setup", "end"} PROVE Sound
BY DEF IInv, HTypeOK, Shape, Sound

LEMMA BeginInv ==
  ASSUME IInv, step = "off", NEW n \in 1..MaxFile, NEW det \in BOOLEAN, Begin(n, det)
  PROVE  IInv'
<1>1. HTypeOK'
  BY LensAssumption, CycleAssumption DEF IInv, HTypeOK, Begin, Steps
<1>2. Shape'
  BY LensAssumption DEF IInv, Shape, Begin, Fitting
<1> QED
  BY <1>1, <1>2 DEF IInv

LEMMA AbandonInv == ASSUME IInv, Abandon PROVE IInv'
<1>0. step' \in Steps /\ subseq_tmouts' \in 0..(TmoutLimit + 1)
  BY BoundAssumption DEF Abandon, BailOut, Steps
<1>4. mutated' \in BOOLEAN
  BY DEF Abandon, BailOut
<1>3. /\ havoc_cur' = 0 /\ todo' = 0
      /\ UNCHANGED <<buffer, score, fixed, splice_cycle, cur_byte>>
  BY DEF Abandon, BailOut
<1>1. HTypeOK'
  BY <1>0, <1>3, <1>4 DEF IInv, HTypeOK, buffer, score, fixed, entry
<1>2. Shape'
  BY DEF IInv, Shape, Abandon, BailOut, Executing, Fitting, buffer, score, fixed, entry
<1> QED
  BY <1>1, <1>2 DEF IInv

LEMMA SetupInv ==
  ASSUME IInv, Setup \/ NoGrad \/ Grad \/ GradBytes \/ GradWindow PROVE IInv'
<1> USE DEF IInv, Go, buffer, score, fixed, entry
<1>1. CASE Setup
  <2>1. perf_score' \in Nat /\ havoc_max' \in Int
    BY <1>1, LengthTyped DEF Setup, HTypeOK
  <2>2. HTypeOK'
    BY <1>1, <2>1, LensAssumption DEF Setup, HTypeOK, Steps
  <2>3. Shape'
    BY <1>1 DEF Setup, Shape, Fitting
  <2> QED
    BY <2>2, <2>3
<1>2. CASE NoGrad
  <2>1. HTypeOK'
    BY <1>2 DEF NoGrad, HTypeOK, Steps
  <2>2. Shape'
    BY <1>2 DEF NoGrad, Shape, Fitting
  <2> QED
    BY <2>1, <2>2
<1>3. CASE Grad
  <2>0. cur_byte' \in -1..(MaxFile - 1) /\ step' \in Steps
    BY <1>3, LensAssumption DEF Grad, HTypeOK, Steps
  <2>1. HTypeOK'
    BY <1>3, <2>0 DEF Grad, HTypeOK
  <2>2. Shape'
    BY <1>3 DEF Grad, Shape, Fitting
  <2> QED
    BY <2>1, <2>2
<1>4. CASE GradBytes
  <2>1. Within(cur_byte, 1, cap) /\ inside = TRUE
    <3>1. /\ len_in \in 1..MaxFile /\ cap \in Nat
          /\ temp_len = len_in /\ temp_len <= cap /\ inside = TRUE
      BY <1>4 DEF GradBytes, Shape, Fitting
    <3>2. cur_byte \in 0..(len_in - 1)
      BY <1>4 DEF GradBytes, Shape
    <3> QED
      BY <3>1, <3>2, LensAssumption DEF Within
  <2>2. inside' = TRUE
    BY <1>4, <2>1 DEF GradBytes
  <2>3. /\ step = "bytes" /\ step' = "win1" /\ clean' = FALSE
        /\ UNCHANGED <<len_in, temp_len, cap, havoc_max, perf_score, fixed, havoc_cur,
                       splice_cycle, todo, cur_byte, mutated>>
        /\ more_queued' \in BOOLEAN
    BY <1>4 DEF GradBytes
  <2>4. subseq_tmouts' \in 0..(TmoutLimit + 1)
    BY <1>4, RanTyped DEF GradBytes
  <2>5. HTypeOK'
    BY <2>2, <2>3, <2>4 DEF HTypeOK, Steps
  <2>6. Shape'
    BY <2>2, <2>3 DEF Shape, Fitting
  <2> QED
    BY <2>5, <2>6
<1>5. CASE GradWindow
  <2> DEFINE x == Windows[step]
  <2>0. /\ step \in {"win1", "win2", "win3", "win4", "win5", "win6"}
        /\ x.next \in {"win2", "win3", "win4", "win5", "win6", "grad"}
    BY <1>5, WindowsAre DEF GradWindow
  <2>1. /\ Within(0, len_in, cap) /\ inside = TRUE
        /\ x.at >= 0 /\ x.at + x.w <= len_in => Within(x.at, x.w, cap)
    <3>1. /\ cur_byte \in -1..(MaxFile - 1) /\ len_in \in 1..MaxFile /\ cap \in Nat
          /\ temp_len = len_in /\ temp_len <= cap /\ inside = TRUE
      BY <2>0 DEF HTypeOK, Shape, Fitting
    <3>2. x.at \in Int /\ x.w \in {2, 4}
      BY <2>0, <3>1, LensAssumption DEF Windows
    <3> HIDE DEF x
    <3> QED
      BY <3>1, <3>2, LensAssumption DEF Within
  <2>2. inside' = TRUE
    BY <1>5, <2>1 DEF GradWindow
  <2>3. /\ step' = x.next /\ clean' \in {clean, TRUE} /\ havoc_cur' = 0
        /\ mutated' = (x.next = "grad")
        /\ UNCHANGED <<len_in, temp_len, cap, havoc_max, perf_score, fixed,
                       splice_cycle, todo, cur_byte>>
        /\ more_queued' \in {more_queued, TRUE}
    BY <1>5 DEF GradWindow
  <2>4. subseq_tmouts' \in 0..(TmoutLimit + 1)
    BY <1>5, RanTyped DEF GradWindow, HTypeOK
  <2> HIDE DEF x
  <2>5. mutated' \in BOOLEAN
    BY <2>3
  <2>6. HTypeOK'
    BY <2>0, <2>2, <2>3, <2>4, <2>5 DEF HTypeOK, Steps
  <2>7. Shape'
    BY <2>0, <2>2, <2>3 DEF Shape, Fitting
  <2> QED
    BY <2>6, <2>7
<1> QED
  BY <1>1, <1>2, <1>3, <1>4, <1>5

(* A chain goes on or is over: the buffer is sound on either side.         *)
LEMMA ChainInv ==
  ASSUME IInv, Sound', orig_len \in 1..MaxFile, step' \in Starting \cup Changing,
         step' \in Starting => temp_len' = len_in',
         step' \in {"stack", "gstack", "gexec"} => todo' >= 1,
         havoc_cur' \in Nat, havoc_max' \in Int, perf_score' \in Nat, todo' \in Nat,
         mutated' \in BOOLEAN, more_queued' \in BOOLEAN,
         subseq_tmouts' \in 0..(TmoutLimit + 1), cur_byte' \in {cur_byte, -1},
         UNCHANGED <<fixed, splice_cycle>>
  PROVE  IInv'
<1>1. HTypeOK'
  BY LensAssumption DEF IInv, HTypeOK, Sound, Steps, Starting, Changing, fixed, entry
<1>2. Shape'
  BY LensAssumption DEF IInv, Shape, Sound, Fitting, Starting, Changing, fixed, entry
<1> QED
  BY <1>1, <1>2 DEF IInv

LEMMA LenOf == ASSUME IInv, step \notin {"off", "end"} PROVE orig_len \in 1..MaxFile
BY DEF IInv, Shape

LEMMA GradInv ==
  ASSUME IInv, GradBegin \/ GradMutate \/ GradExec \/ GradDone PROVE IInv'
<1>0. Sound /\ orig_len \in 1..MaxFile
  BY AtSound, LenOf DEF GradBegin, GradMutate, GradExec, GradDone
<1>T. HTypeOK
  BY DEF IInv
<1>1. CASE GradBegin
  <2>1. PICK n \in 0..(StackPow2 - 1) : todo' = 2^n
    BY <1>1 DEF GradBegin
  <2>2. todo' \in Nat \ {0}
    BY <2>1, BoundAssumption
  <2>3. Sound' /\ len_in' = len_in
    BY <1>0, <1>1, UnchangedSound DEF GradBegin
  <2>4. temp_len' = len_in' /\ step' = "gstack"
    BY <1>1 DEF GradBegin, Go, IInv, Shape, Fitting, buffer
  <2> QED
    BY <1>0, <1>1, <1>T, <2>2, <2>3, <2>4, ChainInv
    DEF GradBegin, HTypeOK, Starting, Changing, score
<1>2. CASE GradMutate
  <2>1. Sound' /\ len_in' = len_in /\ mutated' \in BOOLEAN
    BY <1>0, <1>2, <1>T, UnchangedSound, DeleteSomeSound, CloneSomeSound, MoveSomeSound
    DEF GradMutate, HTypeOK
  <2>2. step' = "gexec" /\ todo >= 1
    BY <1>2 DEF GradMutate, Go, IInv, Shape
  <2> QED
    BY <1>0, <1>2, <1>T, <2>1, <2>2, ChainInv
    DEF GradMutate, HTypeOK, Starting, Changing, score
<1>3. CASE GradExec
  <2>1. Sound' /\ temp_len' = len_in'
    BY <1>0, <1>3, RestoreSound DEF GradExec
  <2>2. todo' = todo - 1 /\ todo >= 1 /\ step' = (IF todo = 1 THEN "grad" ELSE "gstack")
    BY <1>3 DEF GradExec, Go, IInv, Shape
  <2>3. havoc_cur' \in Nat /\ todo' \in Nat
    BY <1>3, <1>T, <2>2 DEF GradExec, HTypeOK
  <2>4. perf_score' \in Nat /\ havoc_max' \in Int /\ more_queued' \in BOOLEAN
    BY <1>3, <1>T, ExtendTyped DEF GradExec, HTypeOK
  <2>5. subseq_tmouts' \in 0..(TmoutLimit + 1)
    BY <1>3, <1>T, RanTyped DEF GradExec, HTypeOK
  <2>6. step' \in Starting /\ (step' = "gstack" => todo' >= 1)
    BY <1>T, <2>2 DEF Starting, HTypeOK
  <2>7. mutated' \in BOOLEAN /\ cur_byte' = cur_byte /\ UNCHANGED <<fixed, splice_cycle>>
    BY <1>3, <1>T DEF GradExec, HTypeOK
  <2> QED
    BY <1>0, <2>1, <2>2, <2>3, <2>4, <2>5, <2>6, <2>7, ChainInv
<1>4. CASE GradDone
  <2>1. Sound' /\ len_in' = len_in
    BY <1>0, <1>4, UnchangedSound DEF GradDone
  <2>2. temp_len' = len_in' /\ step' = "havoc"
    BY <1>4 DEF GradDone, Go, IInv, Shape, Fitting, buffer
  <2> QED
    BY <1>0, <1>4, <1>T, <2>1, <2>2, ChainInv DEF GradDone, HTypeOK, Starting, score
<1> QED
  BY <1>1, <1>2, <1>3, <1>4

LEMMA HavocInv ==
  ASSUME IInv, HavocBegin \/ HavocMutate \/ HavocExec PROVE IInv'
<1>0. Sound /\ orig_len \in 1..MaxFile
  BY AtSound, LenOf DEF HavocBegin, HavocMutate, HavocExec
<1>T. HTypeOK
  BY DEF IInv
<1>1. CASE HavocBegin
  <2>1. PICK n \in 0..(StackPow2 - 1) : todo' = 2^(n + 1)
    BY <1>1 DEF HavocBegin
  <2>2. n + 1 \in 0..StackPow2
    BY BoundAssumption
  <2>3. todo' \in Nat \ {0}
    BY <2>1, <2>2, BoundAssumption
  <2>4. Sound'
    BY <1>0, <1>1, UnchangedSound DEF HavocBegin
  <2>5. step' = "stack"
    BY <1>1 DEF HavocBegin, Go
  <2> QED
    BY <1>0, <1>1, <1>T, <2>3, <2>4, <2>5, ChainInv
    DEF HavocBegin, HTypeOK, Starting, Changing, score
<1>2. CASE HavocMutate
  <2>1. Sound'
    BY <1>0, <1>2, TweakSound DEF HavocMutate
  <2>2. todo' = todo - 1 /\ todo >= 1 /\ step' = (IF todo = 1 THEN "exec" ELSE "stack")
    BY <1>2 DEF HavocMutate, Go, IInv, Shape
  <2>3. todo' \in Nat /\ step' \in Changing /\ (step' = "stack" => todo' >= 1)
    BY <1>T, <2>2 DEF HTypeOK, Changing
  <2> QED
    BY <1>0, <1>2, <1>T, <2>1, <2>2, <2>3, ChainInv
    DEF HavocMutate, HTypeOK, Starting, Changing, score
<1>3. CASE HavocExec
  <2>1. Sound' /\ temp_len' = len_in'
    BY <1>0, <1>3, RestoreSound DEF HavocExec
  <2>2. perf_score' \in Nat /\ havoc_max' \in Int /\ more_queued' \in BOOLEAN
    BY <1>3, <1>T, ExtendTyped DEF HavocExec
  <2>3. subseq_tmouts' \in 0..(TmoutLimit + 1)
    BY <1>3, <1>T, RanTyped DEF HavocExec
  <2>4. step' = "havoc" /\ havoc_cur' \in Nat
    BY <1>3, <1>T DEF HavocExec, Go, HTypeOK
  <2> QED
    BY <1>0, <1>3, <1>T, <2>1, <2>2, <2>3, <2>4, ChainInv DEF HavocExec, HTypeOK, Starting
<1> QED
  BY <1>1, <1>2, <1>3

LEMMA SpliceInv ==
  ASSUME IInv, HavocDone \/ SpliceFails \/ Splice \/ SpliceDone PROVE IInv'
<1> USE DEF IInv, Go, buffer, score, fixed, entry
<1>1. CASE HavocDone
  <2>1. HTypeOK'
    BY <1>1 DEF HavocDone, HTypeOK, Steps
  <2>2. Shape'
    BY <1>1 DEF HavocDone, Shape, Fitting
  <2> QED
    BY <2>1, <2>2
<1>2. CASE SpliceFails
  <2>1. HTypeOK'
    <3>1. splice_cycle' \in 0..SpliceCycles /\ len_in' \in 0..MaxFile
      BY <1>2, BoundAssumption DEF SpliceFails, MoreSplices, HTypeOK
    <3>2. clean' \in BOOLEAN
      BY <1>2 DEF SpliceFails, HTypeOK
    <3>3. UNCHANGED <<step, temp_len, cap, inside, score, fixed, havoc_cur, todo,
                      cur_byte, mutated, subseq_tmouts>>
      BY <1>2 DEF SpliceFails
    <3> QED
      BY <3>1, <3>2, <3>3, <1>2 DEF SpliceFails, HTypeOK
  <2>2. Shape'
    BY <1>2 DEF SpliceFails, Shape, Fitting
  <2> QED
    BY <2>1, <2>2
<1>3. CASE Splice
  <2>0. PICK n \in Lens \ {1} : \E l \in 2..(Lesser(orig_len, n) - 1) :
          \E f \in 0..(l - 1) : \E split \in f..(l - 1) :
            /\ inside' = (inside /\ Within(0, split, orig_len) /\ Within(0, split, n))
            /\ len_in' = n /\ cap' = n
    BY <1>3 DEF Splice
  <2>1. PICK l \in 2..(Lesser(orig_len, n) - 1) :
          \E f \in 0..(l - 1) : \E split \in f..(l - 1) :
            /\ inside' = (inside /\ Within(0, split, orig_len) /\ Within(0, split, n))
            /\ len_in' = n /\ cap' = n
    BY <2>0
  <2>f. PICK f \in 0..(l - 1) : \E split \in f..(l - 1) :
            /\ inside' = (inside /\ Within(0, split, orig_len) /\ Within(0, split, n))
            /\ len_in' = n /\ cap' = n
    BY <2>1
  <2>2. PICK split \in f..(l - 1) :
            /\ inside' = (inside /\ Within(0, split, orig_len) /\ Within(0, split, n))
            /\ len_in' = n /\ cap' = n
    BY <2>f
  <2>3. n \in 1..MaxFile /\ orig_len \in 1..MaxFile
    BY <1>3, LensAssumption DEF Splice, Shape
  <2>4. Within(0, split, orig_len) /\ Within(0, split, n) /\ inside = TRUE
    BY <2>3, LensAssumption DEF Within, Lesser, Shape
  <2>5. inside' = TRUE
    BY <2>2, <2>4
  <2>6. /\ len_in' = n /\ cap' = n /\ step' = "setup" /\ clean' = TRUE
        /\ splice_cycle' = splice_cycle + 1 /\ splice_cycle < SpliceCycles
        /\ UNCHANGED <<temp_len, score, fixed, havoc_cur, todo, cur_byte,
                       mutated, subseq_tmouts>>
    BY <1>3, <2>2 DEF Splice, MoreSplices
  <2>7. HTypeOK'
    BY <2>3, <2>5, <2>6, LensAssumption, BoundAssumption DEF HTypeOK, Steps
  <2>8. temp_len \in 1..MaxFile
    BY <1>3 DEF Splice, Shape
  <2>9. Shape'
    BY <2>3, <2>5, <2>6, <2>8, LensAssumption DEF Shape, Fitting
  <2> QED
    BY <2>7, <2>9
<1>4. CASE SpliceDone
  <2>1. HTypeOK'
    BY <1>4 DEF SpliceDone, HTypeOK, Steps
  <2>2. Shape'
    BY <1>4, LensAssumption DEF SpliceDone, Shape, Fitting
  <2> QED
    BY <2>1, <2>2
<1> QED
  BY <1>1, <1>2, <1>3, <1>4

LEMMA HNextInv == ASSUME IInv, HNext PROVE IInv'
BY AbandonInv, SetupInv, GradInv, HavocInv, SpliceInv DEF HNext

-----------------------------------------------------------------------------
(***************************************************************************)
(* The whole of fuzz_one                                                   *)
(***************************************************************************)
LEMMA InputLens == ASSUME Handed, stage # "over" PROVE Len(in_buf) \in 1..MaxFile
BY InputsAssumption DEF Handed

(* The deterministic stages leave the input alone.                         *)
LEMMA InputKept == ASSUME DNext PROVE stage \notin {"over", "abandoned"} /\ in_buf' = in_buf
<1> USE DEF mode, At, Outside
<1>1. CASE NextStage
  BY <1>1 DEF NextStage
<1>2. CASE Flip1 \/ Flip2 \/ Flip4 \/ Flip8
  BY <1>2 DEF Flip1, Flip2, Flip4, Flip8, FlipMore
<1>3. CASE Flip16 \/ Flip32
  BY <1>3 DEF Flip16, Flip32, FlipWord
<1>4. CASE Arith8 \/ Arith16 \/ Arith32
  BY <1>4 DEF Arith8, Arith16, Arith32, ArithStage, ChangeWord
<1>5. CASE Int8 \/ Int16 \/ Int32
  BY <1>5 DEF Int8, Int16, Int32, InterestStage, ChangeWord
<1>6. CASE PassOver
  BY <1>6 DEF PassOver, Gated, Arith, Interest
<1>7. CASE UserExtras \/ Insert \/ AutoExtras
  BY <1>7 DEF UserExtras, Insert, AutoExtras, Overwrite
<1> QED
  BY <1>1, <1>2, <1>3, <1>4, <1>5, <1>6, <1>7 DEF DNext

LEMMA HNextStep == ASSUME HNext PROVE step # "off" /\ step' # "off"
BY WindowsAre
DEF HNext, Setup, NoGrad, Grad, GradBytes, GradWindow, GradBegin, GradMutate, GradExec,
    GradDone, HavocBegin, HavocMutate, HavocExec, HavocDone, SpliceFails, Splice,
    SpliceDone, Abandon, BailOut, Executing, Go

LEMMA InitInv == ASSUME Init PROVE FInv
<1>4. /\ clean \in BOOLEAN /\ inside \in BOOLEAN /\ mutated \in BOOLEAN
      /\ more_queued \in BOOLEAN
      /\ doing_det \in BOOLEAN /\ backup_mode \in BOOLEAN
  BY DEF Init, HInit
<1>5. splice_cycle \in 0..SpliceCycles /\ subseq_tmouts \in 0..(TmoutLimit + 1)
  BY BoundAssumption DEF Init, HInit
<1>6. cur_byte \in -1..(MaxFile - 1) /\ 0 \in 0..MaxFile
  BY LensAssumption DEF Init, HInit
<1>1. HTypeOK
  BY <1>4, <1>5, <1>6 DEF Init, HInit, HTypeOK, Steps
<1>2. Shape
  BY DEF Init, HInit, Shape, Fitting
<1>3. Handed
  BY DEF Init, DInit, HInit, Handed
<1> QED
  BY <1>1, <1>2, <1>3 DEF FInv, IInv

LEMMA NextInv == ASSUME FInv, [Next]_vars PROVE FInv'
<1>1. CASE SkipDeterministic \/ DetDone
  <2>1. PICK det \in BOOLEAN : Begin(Len(in_buf), det)
    BY <1>1 DEF SkipDeterministic, DetDone
  <2>2. step = "off" /\ stage # "over" /\ Forget
    BY <1>1 DEF SkipDeterministic, DetDone
  <2>3. IInv'
    BY <2>1, <2>2, InputLens, BeginInv DEF FInv
  <2>4. Handed'
    BY <2>2 DEF Forget, Handed
  <2> QED
    BY <2>3, <2>4 DEF FInv
<1>2. CASE DetAbandoned
  <2>1. step = "off"
    BY <1>2 DEF DetAbandoned, Bail, Outside, FInv, Handed
  <2>2. /\ step' = "end" /\ stage' = "abandoned" /\ in_buf' = in_buf /\ stage # "over"
        /\ UNCHANGED <<buffer, score, fixed, havoc_cur, splice_cycle, todo, cur_byte,
                       mutated, subseq_tmouts>>
    BY <1>2 DEF DetAbandoned, Bail, Outside, mode
  <2>3. HTypeOK'
    BY <2>2 DEF FInv, IInv, HTypeOK, Steps, buffer, score, fixed, entry
  <2>4. Shape'
    BY <2>1, <2>2 DEF FInv, IInv, Shape, Fitting, buffer, score, fixed, entry
  <2>5. Handed'
    BY <2>2 DEF FInv, Handed
  <2> QED
    BY <2>3, <2>4, <2>5 DEF FInv, IInv
<1>3. CASE step = "off" /\ DNext /\ UNCHANGED hvars
  <2>1. IInv'
    BY <1>3 DEF FInv, IInv, HTypeOK, Shape, hvars
  <2>2. Handed'
    BY <1>3, InputKept DEF FInv, Handed, hvars
  <2> QED
    BY <2>1, <2>2 DEF FInv
<1>4. CASE HNext /\ UNCHANGED dvars
  <2>1. IInv'
    BY <1>4, HNextInv DEF FInv
  <2>2. Handed'
    BY <1>4, HNextStep DEF FInv, Handed, dvars
  <2> QED
    BY <2>1, <2>2 DEF FInv
<1>5. CASE UNCHANGED vars
  <2>1. UNCHANGED hvars /\ in_buf' = in_buf /\ stage' = stage
    BY <1>5 DEF vars, dvars
  <2>2. IInv'
    BY <2>1 DEF FInv, IInv, HTypeOK, Shape, hvars
  <2>3. Handed'
    BY <2>1 DEF FInv, Handed, hvars
  <2> QED
    BY <2>2, <2>3 DEF FInv
<1> QED
  BY <1>1, <1>2, <1>3, <1>4, <1>5 DEF Next

THEOREM Invariance == Spec => []FInv
<1> QED
  BY InitInv, NextInv, PTL DEF Spec

(* The chains of changes, the grad stage and the splices keep out_buf, the *)
(* test case and the counters of fuzz_one in shape, for every entry.       *)
THEOREM TypeCorrect == Spec => []HTypeOK
<1>1. FInv => HTypeOK
  BY DEF FInv, IInv
<1> QED
  BY <1>1, Invariance, PTL

(* No delete, clone, move, token or splice of any length, in any chain,    *)
(* reads or writes beside the buffers of fuzz_one, and no test case is     *)
(* empty or longer than the buffer that holds it.                          *)
THEOREM ChangesInBounds == Spec => []InBounds
<1>1. FInv => InBounds
  <2> SUFFICES ASSUME FInv PROVE InBounds
    OBVIOUS
  <2>1. inside
    BY DEF FInv, IInv, Shape
  <2>2. ASSUME orig_len # 0, step # "setup" PROVE temp_len \in 1..cap
    BY <2>2 DEF FInv, IInv, HTypeOK, Shape
  <2> QED
    BY <2>1, <2>2 DEF InBounds
<1> QED
  BY <1>1, Invariance, PTL

-----------------------------------------------------------------------------
(***************************************************************************)
(* Chains start from the input                                             *)
(***************************************************************************)
Rounds == {"query", "bytes", "win1", "win2", "win3", "win4", "win5", "win6"}

(* A stage has a round, so that the value that the byte loop leaves in an  *)
(* input of one byte is gone when havoc begins.                            *)
Clean ==
  /\ step \in {"setup", "query", "havoc"} => clean = TRUE
  /\ step \in Rounds => havoc_max >= 1
  /\ step \in {"win2", "win3", "win4", "win5", "win6"} => clean = TRUE \/ len_in = 1
  /\ step = "grad" => clean = TRUE \/ (len_in = 1 /\ havoc_cur = 0 /\ havoc_max >= 1)

LEMMA CleanStep == ASSUME FInv, Clean, HNext PROVE Clean'
<1> USE DEF Go, buffer, score
<1>T. HTypeOK /\ Shape
  BY DEF FInv, IInv
<1>1. CASE Setup
  <2>1. havoc_max' >= 1
    <3>1. perf_score' \in Nat
      BY <1>1, <1>T DEF Setup, HTypeOK
    <3>2. Length(perf_score') \in Nat \ {0}
      BY <1>T, <3>1, LengthTyped
    <3> QED
      BY <1>1, <3>2 DEF Setup
  <2>2. step = "setup" /\ step' = "query" /\ clean' = clean
    BY <1>1 DEF Setup
  <2> QED
    BY <2>1, <2>2 DEF Clean, Rounds
<1>2. CASE NoGrad
  BY <1>2 DEF NoGrad, Clean, Rounds
<1>3. CASE Grad
  BY <1>3 DEF Grad, Clean, Rounds
<1>4. CASE GradBytes
  BY <1>4 DEF GradBytes, Clean, Rounds
<1>5. CASE GradWindow
  <2> DEFINE x == Windows[step]
  <2>1. /\ step \in {"win1", "win2", "win3", "win4", "win5", "win6"}
        /\ x.next \in {"win2", "win3", "win4", "win5", "win6", "grad"}
    BY <1>5, WindowsAre DEF GradWindow
  <2>2. step = "win1" => x.w = 2
    BY DEF Windows
  <2>3. /\ step' = x.next /\ havoc_cur' = 0
        /\ len_in' = len_in /\ havoc_max' = havoc_max
        /\ IF len_in < x.w THEN clean' = clean ELSE clean' = TRUE
    BY <1>5 DEF GradWindow
  <2> HIDE DEF x
  <2>4. len_in \in 1..MaxFile
    BY <1>T, <2>1 DEF Shape
  <2>5. clean' = TRUE \/ len_in' = 1
    <3>1. CASE step = "win1"
      BY <2>2, <2>3, <2>4, <3>1, LensAssumption
    <3>2. CASE step # "win1"
      BY <2>1, <2>3, <3>2 DEF Clean
    <3> QED
      BY <3>1, <3>2
  <2>6. havoc_max' >= 1
    BY <2>1, <2>3 DEF Clean, Rounds
  <2> QED
    BY <2>1, <2>3, <2>5, <2>6 DEF Clean, Rounds
<1>6. CASE GradBegin \/ GradMutate
  BY <1>6 DEF GradBegin, GradMutate, Clean, Rounds
<1>7. CASE GradExec
  <2>1. clean' = TRUE
    BY <1>7 DEF GradExec, Restore
  <2>2. step' \in {"grad", "gstack"}
    BY <1>7 DEF GradExec
  <2> QED
    BY <2>1, <2>2 DEF Clean, Rounds
<1>8. CASE GradDone
  <2>1. step = "grad" /\ havoc_cur >= havoc_max /\ step' = "havoc" /\ clean' = clean
    BY <1>8 DEF GradDone
  <2>2. ~(havoc_cur = 0 /\ havoc_max >= 1)
    BY <1>T, <2>1 DEF HTypeOK
  <2> QED
    BY <2>1, <2>2 DEF Clean, Rounds
<1>9. CASE HavocBegin \/ HavocMutate \/ HavocDone
  BY <1>9 DEF HavocBegin, HavocMutate, HavocDone, Clean, Rounds
<1>10. CASE HavocExec
  <2>1. clean' = TRUE /\ step' = "havoc"
    BY <1>10 DEF HavocExec, Restore
  <2> QED
    BY <2>1 DEF Clean, Rounds
<1>11. CASE SpliceFails \/ Splice \/ SpliceDone
  BY <1>11 DEF SpliceFails, Splice, SpliceDone, Clean, Rounds
<1>12. CASE Abandon
  BY <1>12 DEF Abandon, BailOut, Clean, Rounds
<1> QED
  BY <1>1, <1>2, <1>3, <1>4, <1>5, <1>6, <1>7, <1>8, <1>9, <1>10, <1>11, <1>12 DEF HNext

LEMMA CleanNext == ASSUME FInv, Clean, [Next]_vars PROVE Clean'
<1>1. CASE SkipDeterministic \/ DetDone
  BY <1>1 DEF SkipDeterministic, DetDone, Begin, Clean, Rounds
<1>2. CASE DetAbandoned
  BY <1>2 DEF DetAbandoned, Clean, Rounds
<1>3. CASE HNext
  BY <1>3, CleanStep
<1>4. CASE UNCHANGED hvars
  BY <1>4 DEF hvars, Clean, Rounds
<1> QED
  BY <1>1, <1>2, <1>3, <1>4 DEF Next, vars

(* Whatever a chain of the grad stage or of havoc did, the next one starts *)
(* from the bytes of the input, for every length and every chain.          *)
THEOREM ChainsStartClean == Spec => []StartsClean
<1>1. Init => Clean
  BY DEF Init, HInit, Clean, Rounds
<1>2. FInv /\ Clean /\ [Next]_vars => Clean'
  BY CleanNext
<1>3. Clean => StartsClean
  BY DEF Clean, StartsClean
<1> QED
  BY <1>1, <1>2, <1>3, Invariance, PTL DEF Spec

-----------------------------------------------------------------------------
(***************************************************************************)
(* A stage has a longest length                                            *)
(***************************************************************************)
Most == HavocMaxMult * Percent

(* Rounds for a score of 1, at most.                                       *)
PerScore == Greater(Greater(HavocCyclesInit, Greater(HavocCycles, SpliceHavoc)),
                    Greater(HavocMin, BackupMin))

(* The rounds are in proportion to the score, which doubles with them, and *)
(* only up to twice the largest score of calculate_score.                  *)
InProportion ==
  /\ orig_perf \in 0..Most
  /\ step = "off" => havoc_max = 0 /\ orig_perf = 0
  /\ step = "setup" => splice_cycle > 0 \/ perf_score = orig_perf
  /\ orig_perf > 0 => /\ perf_score \in 1..(2 * Most)
                      /\ havoc_max \in 0..(PerScore * perf_score)

LEMMA MostTyped == Most \in Nat \ {0} /\ PerScore \in Nat \ {0}
<1>1. Most \in Nat \ {0}
  BY CycleAssumption DEF Most
<1>2. PerScore \in Nat \ {0}
  BY CycleAssumption DEF PerScore, Greater
<1> QED
  BY <1>1, <1>2

LEMMA Monotone ==
  ASSUME NEW a \in Nat, NEW b \in Nat, NEW c \in Nat, a <= b
  PROVE  c * a \in Nat /\ c * a <= c * b
OBVIOUS

LEMMA LengthInProportion ==
  ASSUME HTypeOK, NEW perf \in Nat \ {0} PROVE Length(perf) \in 0..(PerScore * perf)
<1> DEFINE c == IF splice_cycle > 0 THEN SpliceHavoc
                ELSE IF doing_det THEN HavocCyclesInit ELSE HavocCycles
<1>1. /\ c \in Nat /\ c <= PerScore /\ PerScore \in Nat
      /\ HavocMin \in Nat /\ HavocMin <= PerScore
      /\ BackupMin \in Nat /\ BackupMin <= PerScore
  BY CycleAssumption DEF PerScore, Greater
<1> HIDE DEF c
<1>2. perf * c \in Nat /\ perf * c <= perf * PerScore
  BY <1>1, Monotone
<1>3. PerScore * 1 <= PerScore * perf
  BY <1>1, Monotone
<1>4. PerScore <= PerScore * perf /\ PerScore * perf \in Nat /\ c * perf \in Nat
      /\ c * perf <= PerScore * perf
  BY <1>1, <1>2, <1>3
<1> DEFINE m == c * perf
<1>5. m \in Nat /\ m <= PerScore * perf
  BY <1>4
<1> HIDE DEF m
<1>6. m \div havoc_div \in Nat /\ m \div havoc_div <= m
  BY <1>5 DEF HTypeOK
<1> DEFINE d == m \div havoc_div
<1>7. d \in Nat /\ d <= m
  BY <1>6
<1> HIDE DEF d
<1>8. d \div Percent \in Nat /\ d \div Percent <= d
  BY <1>7, CycleAssumption
<1> DEFINE n == d \div Percent
           top == PerScore * perf
<1>9. n \in Nat /\ n <= top /\ top \in Nat /\ HavocMin <= top /\ BackupMin <= top
  BY <1>1, <1>4, <1>5, <1>7, <1>8
<1> HIDE DEF n, top
<1>10. Greater(Greater(n, HavocMin), IF backup_mode THEN BackupMin ELSE 0) \in 0..top
  BY <1>1, <1>9 DEF Greater
<1> QED
  BY <1>10 DEF Length, n, d, m, c, top

LEMMA ExtendInProportion ==
  ASSUME InProportion, HTypeOK, orig_perf > 0, NEW found \in BOOLEAN, Extend(found)
  PROVE  perf_score' \in 1..(2 * Most) /\ havoc_max' \in 0..(PerScore * perf_score')
<1>1. CASE found /\ perf_score <= Most
  <2>1. Extend(TRUE) /\ perf_score <= HavocMaxMult * Percent
    BY <1>1 DEF Most
  <2>2. havoc_max' = Wrapped(2 * havoc_max) /\ perf_score' = 2 * perf_score
    BY <2>1 DEF Extend
  <2>3. /\ perf_score \in Nat /\ perf_score >= 1 /\ havoc_max \in Nat
        /\ havoc_max <= PerScore * perf_score /\ PerScore * perf_score \in Nat
    BY MostTyped DEF InProportion
  <2>4. perf_score' \in 1..(2 * Most) /\ perf_score' \in Nat
    BY <1>1, <2>2, <2>3, MostTyped
  <2>5. PerScore * perf_score' = 2 * (PerScore * perf_score)
    BY <2>2, <2>3, MostTyped
  <2>6. 2 * havoc_max <= PerScore * perf_score' /\ 2 * havoc_max \in Nat
    BY <2>3, <2>5
  <2>7. PerScore * perf_score' <= PerScore * (2 * Most)
    <3> DEFINE top == 2 * Most
    <3>1. /\ top \in Nat /\ perf_score' \in Nat /\ perf_score' <= top
          /\ PerScore \in Nat
      BY <2>4, MostTyped
    <3> HIDE DEF top
    <3>2. PerScore * perf_score' <= PerScore * top
      BY <3>1, Monotone
    <3> QED
      BY <3>2 DEF top
  <2>8. PerScore * (2 * Most) <= S32Max /\ S32Max \in Nat /\ PerScore * (2 * Most) \in Nat
    BY S32Assumption, MostTyped DEF Longest, PerScore, Most
  <2>9. PerScore * perf_score' \in Nat
    BY <2>3, <2>5
  <2>10. 2 * havoc_max <= S32Max
    BY <2>6, <2>7, <2>8, <2>9
  <2>11. havoc_max' = 2 * havoc_max
    BY <2>2, <2>6, <2>8, <2>10 DEF Wrapped
  <2> QED
    BY <2>4, <2>6, <2>9, <2>11
<1>2. CASE ~(found /\ perf_score <= Most)
  <2>1. havoc_max' = havoc_max /\ perf_score' = perf_score
    BY <1>2 DEF Extend, Most, score
  <2> QED
    BY <2>1 DEF InProportion
<1> QED
  BY <1>1, <1>2

(* Only the set-up of a stage and an execution change its length.          *)
LEMMA ScoreSteps ==
  ASSUME HNext, HTypeOK
  PROVE  /\ orig_perf' = orig_perf /\ step # "off" /\ step' # "off"
         /\ \/ Setup
            \/ step' = "setup" => splice_cycle' > splice_cycle
         /\ \/ Setup
            \/ \E found \in BOOLEAN : Extend(found)
            \/ UNCHANGED <<havoc_max, perf_score>>
<1> USE DEF Go, fixed, entry, score
<1>0. step # "off" /\ step' # "off"
  BY HNextStep
<1>1. CASE Setup
  BY <1>0, <1>1 DEF Setup
<1>2. CASE NoGrad \/ Grad \/ GradBytes \/ GradBegin \/ GradMutate \/ GradDone
  BY <1>0, <1>2 DEF NoGrad, Grad, GradBytes, GradBegin, GradMutate, GradDone
<1>3. CASE GradWindow
  <2>1. Windows[step].next # "setup"
    BY <1>3, WindowsAre DEF GradWindow
  <2> QED
    BY <1>0, <1>3, <2>1 DEF GradWindow
<1>4. CASE GradExec \/ HavocExec
  <2>1. \E found \in BOOLEAN : Extend(found)
    BY <1>4 DEF GradExec, HavocExec, HTypeOK
  <2> QED
    BY <1>0, <1>4, <2>1 DEF GradExec, HavocExec
<1>5. CASE HavocBegin \/ HavocMutate \/ HavocDone
  BY <1>0, <1>5 DEF HavocBegin, HavocMutate, HavocDone
<1>6. CASE SpliceFails
  BY <1>0, <1>6 DEF SpliceFails
<1>7. CASE Splice
  BY <1>0, <1>7 DEF Splice, HTypeOK
<1>8. CASE SpliceDone \/ Abandon
  BY <1>0, <1>8 DEF SpliceDone, Abandon, BailOut
<1> QED
  BY <1>1, <1>2, <1>3, <1>4, <1>5, <1>6, <1>7, <1>8 DEF HNext

LEMMA ProportionNext == ASSUME FInv, InProportion, [Next]_vars PROVE InProportion'
<1>T. HTypeOK
  BY DEF FInv, IInv
<1>1. CASE SkipDeterministic \/ DetDone
  <2>1. PICK det \in BOOLEAN : Begin(Len(in_buf), det)
    BY <1>1 DEF SkipDeterministic, DetDone
  <2>2. step = "off"
    BY <1>1 DEF SkipDeterministic, DetDone
  <2>3. /\ step' = "setup" /\ havoc_max' = 0
        /\ perf_score' \in 0..Most /\ orig_perf' = perf_score'
    BY <2>1, <2>2, CycleAssumption DEF Begin, InProportion, Most
  <2>4. orig_perf' > 0 => perf_score' \in 1..(2 * Most)
    BY <2>3, MostTyped
  <2>5. orig_perf' > 0 => havoc_max' \in 0..(PerScore * perf_score')
    <3>1. perf_score' \in Nat /\ perf_score' <= perf_score' /\ PerScore \in Nat
      BY <2>3, MostTyped
    <3>2. PerScore * perf_score' \in Nat
      BY <3>1, Monotone
    <3> QED
      BY <2>3, <3>2
  <2> QED
    BY <2>3, <2>4, <2>5 DEF InProportion
<1>2. CASE DetAbandoned
  <2>1. step' = "end" /\ UNCHANGED <<orig_perf, perf_score, havoc_max, splice_cycle>>
    BY <1>2 DEF DetAbandoned, score, fixed, entry
  <2> QED
    BY <2>1 DEF InProportion
<1>3. CASE HNext
  <2>1. CASE Setup
    <3>1. /\ step = "setup" /\ step' = "query" /\ orig_perf' = orig_perf
          /\ perf_score' = (IF splice_cycle > 0 THEN orig_perf ELSE perf_score)
          /\ havoc_max' = Length(perf_score')
      BY <2>1 DEF Setup, Go, fixed, entry
    <3>2. perf_score' = orig_perf /\ orig_perf \in Nat
      BY <1>T, <3>1 DEF InProportion, HTypeOK
    <3>3. orig_perf > 0 => havoc_max' \in 0..(PerScore * perf_score')
      BY <1>T, <3>1, <3>2, LengthInProportion
    <3>4. orig_perf > 0 => perf_score' \in 1..(2 * Most)
      BY <3>2, MostTyped DEF InProportion
    <3> QED
      BY <3>1, <3>3, <3>4 DEF InProportion
  <2>2. CASE ~Setup
    <3>1. /\ orig_perf' = orig_perf /\ step # "off" /\ step' # "off"
          /\ step' = "setup" => splice_cycle' > splice_cycle
          /\ \/ \E found \in BOOLEAN : Extend(found)
             \/ UNCHANGED <<havoc_max, perf_score>>
      BY <1>3, <1>T, <2>2, ScoreSteps
    <3>2. step' = "setup" => splice_cycle' > 0
      <4>1. splice_cycle' \in 0..SpliceCycles
        BY NextInv DEF FInv, IInv, HTypeOK
      <4> QED
        BY <1>T, <3>1, <4>1, BoundAssumption DEF HTypeOK
    <3>3. orig_perf > 0 => /\ perf_score' \in 1..(2 * Most)
                          /\ havoc_max' \in 0..(PerScore * perf_score')
      <4>1. CASE UNCHANGED <<havoc_max, perf_score>>
        BY <4>1 DEF InProportion
      <4>2. CASE \E found \in BOOLEAN : Extend(found)
        BY <1>T, <4>2, ExtendInProportion
      <4> QED
        BY <3>1, <4>1, <4>2
    <3> QED
      BY <3>1, <3>2, <3>3 DEF InProportion
  <2> QED
    BY <2>1, <2>2
<1>4. CASE UNCHANGED hvars
  BY <1>4 DEF hvars, InProportion
<1> QED
  BY <1>1, <1>2, <1>3, <1>4 DEF Next, vars

(* With a score above 0, stage_max stays in its type however many entries  *)
(* the executions of havoc and grad find and however often it doubles.     *)
(* Nothing is claimed for a score of 0: it stays 0 when it is doubled, so  *)
(* that the limit never applies, and only the finds bound the stage.       *)
THEOREM ScoredStagesBounded == Spec => []HavocBounded
<1>1. Init => InProportion
  <2> SUFFICES ASSUME Init PROVE InProportion
    OBVIOUS
  <2> QED
    BY MostTyped DEF Init, HInit, InProportion
<1>2. FInv /\ InProportion /\ [Next]_vars => InProportion'
  BY ProportionNext
<1>3. InProportion => HavocBounded
  <2> SUFFICES ASSUME InProportion, orig_perf > 0 PROVE havoc_max \in 0..Longest
    BY DEF HavocBounded
  <2> DEFINE top == 2 * Most
  <2>1. /\ top \in Nat /\ perf_score \in Nat /\ perf_score <= top /\ PerScore \in Nat
        /\ havoc_max \in 0..(PerScore * perf_score)
    BY MostTyped DEF InProportion
  <2> HIDE DEF top
  <2>2. PerScore * perf_score \in Nat /\ PerScore * perf_score <= PerScore * top
    BY <2>1, Monotone
  <2>3. PerScore * top = Longest
    BY DEF top, PerScore, Most, Longest
  <2>4. PerScore * top \in Nat
    BY <2>1
  <2> QED
    BY <2>1, <2>2, <2>3, <2>4
<1> QED
  BY <1>1, <1>2, <1>3, Invariance, PTL DEF Spec
-----------------------------------------------------------------------------
(***************************************************************************)
(* Flips that take themselves back                                         *)
(***************************************************************************)
Weights == {1, 2, 4, 8, 16, 32, 64, 128}

LEMMA WeightOf ==
  ASSUME NEW k \in 0..7
  PROVE  /\ k = 0 => 2^k = 1
         /\ k = 1 => 2^k = 2
         /\ k = 2 => 2^k = 4
         /\ k = 3 => 2^k = 8
         /\ k = 4 => 2^k = 16
         /\ k = 5 => 2^k = 32
         /\ k = 6 => 2^k = 64
         /\ k = 7 => 2^k = 128
<1>1. /\ 2^0 = 1 /\ 2^1 = 2 /\ 2^2 = 4 /\ 2^3 = 8
      /\ 2^4 = 16 /\ 2^5 = 32 /\ 2^6 = 64 /\ 2^7 = 128
  OBVIOUS
<1>2. CASE k = 0
  BY <1>1, <1>2
<1>3. CASE k = 1
  BY <1>1, <1>3
<1>4. CASE k = 2
  BY <1>1, <1>4
<1>5. CASE k = 3
  BY <1>1, <1>5
<1>6. CASE k = 4
  BY <1>1, <1>6
<1>7. CASE k = 5
  BY <1>1, <1>7
<1>8. CASE k = 6
  BY <1>1, <1>8
<1>9. CASE k = 7
  BY <1>1, <1>9
<1> QED
  BY <1>2, <1>3, <1>4, <1>5, <1>6, <1>7, <1>8, <1>9

LEMMA WeightsDiffer ==
  ASSUME NEW j \in 0..7, NEW k \in 0..7
  PROVE  2^k \in Weights /\ (2^j = 2^k => j = k)
<1> DEFINE x == 2^j
           y == 2^k
<1>1. /\ j = 0 => x = 1
      /\ j = 1 => x = 2
      /\ j = 2 => x = 4
      /\ j = 3 => x = 8
      /\ j = 4 => x = 16
      /\ j = 5 => x = 32
      /\ j = 6 => x = 64
      /\ j = 7 => x = 128
  BY WeightOf, ZenonT(30)
<1>2. /\ k = 0 => y = 1
      /\ k = 1 => y = 2
      /\ k = 2 => y = 4
      /\ k = 3 => y = 8
      /\ k = 4 => y = 16
      /\ k = 5 => y = 32
      /\ k = 6 => y = 64
      /\ k = 7 => y = 128
  BY WeightOf
<1> HIDE DEF x, y
<1>3. y \in Weights /\ (x = y => j = k)
  BY <1>1, <1>2 DEF Weights
<1> QED
  BY <1>3 DEF x, y

(* The bit with weight x in v, the other way round.                        *)
Flipped(v, x) == IF (v \div x) % 2 = 1 THEN v - x ELSE v + x

LEMMA FlippedTwice ==
  ASSUME NEW v \in Int, NEW x \in Weights
  PROVE  Flipped(v, x) \in Int /\ Flipped(Flipped(v, x), x) = v
BY DEF Weights, Flipped

LEMMA FlippedEitherWay ==
  ASSUME NEW v \in Int, NEW x \in Weights, NEW y \in Weights, x # y
  PROVE  Flipped(Flipped(v, x), y) = Flipped(Flipped(v, y), x)
<1>1. CASE x = 1
  BY <1>1, SMTT(60) DEF Weights, Flipped
<1>2. CASE x = 2
  BY <1>2, SMTT(60) DEF Weights, Flipped
<1>3. CASE x = 4
  BY <1>3, SMTT(60) DEF Weights, Flipped
<1>4. CASE x = 8
  BY <1>4, SMTT(60) DEF Weights, Flipped
<1>5. CASE x = 16
  BY <1>5, SMTT(60) DEF Weights, Flipped
<1>6. CASE x = 32
  BY <1>6, SMTT(60) DEF Weights, Flipped
<1>7. CASE x = 64
  BY <1>7, SMTT(60) DEF Weights, Flipped
<1>8. CASE x = 128
  BY <1>8, SMTT(60) DEF Weights, Flipped
<1> QED
  BY <1>1, <1>2, <1>3, <1>4, <1>5, <1>6, <1>7, <1>8 DEF Weights

(* Quotient and remainder of a position, for bytes of n bits.              *)
LEMMA Quotient ==
  ASSUME NEW n \in 4..8, NEW p \in Nat
  PROVE  p % n \in 0..(n - 1) /\ p \div n \in Nat /\ p = n * (p \div n) + (p % n)
<1>1. n = 4 \/ n = 5 \/ n = 6 \/ n = 7 \/ n = 8
  OBVIOUS
<1>2. CASE n = 4
  BY <1>2
<1>3. CASE n = 5
  BY <1>3
<1>4. CASE n = 6
  BY <1>4
<1>5. CASE n = 7
  BY <1>5
<1>6. CASE n = 8
  BY <1>6
<1> QED
  BY <1>1, <1>2, <1>3, <1>4, <1>5, <1>6

(* Where a bit of the walk is.                                             *)
LEMMA BitPlace ==
  ASSUME NEW p \in Nat, NEW q \in Nat
  PROVE  /\ BitOf(p) \in 0..7 /\ p \div ByteBits \in Nat
         /\ p \div ByteBits = q \div ByteBits /\ BitOf(p) = BitOf(q) => p = q
<1> DEFINE r(x) == x % ByteBits
           d(x) == x \div ByteBits
<1>1. ByteBits \in 4..8
  BY BytesAssumption
<1>2. r(p) \in 0..(ByteBits - 1) /\ d(p) \in Nat /\ p = ByteBits * d(p) + r(p)
  BY <1>1, Quotient
<1>3. r(q) \in 0..(ByteBits - 1) /\ d(q) \in Nat /\ q = ByteBits * d(q) + r(q)
  BY <1>1, Quotient
<1>4. BitOf(p) = ByteBits - 1 - r(p) /\ BitOf(q) = ByteBits - 1 - r(q)
  BY DEF BitOf
<1> HIDE DEF r, d
<1>a. r(p) \in Int /\ r(q) \in Int /\ ByteBits \in Int
  BY <1>1, <1>2, <1>3
<1>5. BitOf(p) \in 0..7 /\ (BitOf(p) = BitOf(q) => r(p) = r(q))
  <2> HIDE DEF BitOf
  <2>1. BitOf(p) \in 0..7
    BY <1>1, <1>2, <1>4
  <2>2. BitOf(p) = BitOf(q) => r(p) = r(q)
    BY <1>a, <1>4
  <2> QED
    BY <2>1, <2>2
<1>6. d(p) = d(q) /\ r(p) = r(q) => p = q
  BY <1>2, <1>3, Zenon
<1> QED
  BY <1>2, <1>5, <1>6 DEF d

(* A buffer of numbers, whatever their size.                               *)
Buffer(b) == b \in [DOMAIN b -> Int]

LEMMA FlipBit ==
  ASSUME NEW b, Buffer(b), NEW p
  PROVE  FLIP_BIT(b, p) = [m \in DOMAIN b |-> IF m = p \div ByteBits + 1
                                              THEN Flipped(b[m], 2^BitOf(p)) ELSE b[m]]
BY DEF FLIP_BIT, Bit, Flipped, Buffer

LEMMA FlipBitTwice ==
  ASSUME NEW b, Buffer(b), NEW p \in Nat
  PROVE  /\ Buffer(FLIP_BIT(b, p)) /\ DOMAIN FLIP_BIT(b, p) = DOMAIN b
         /\ FLIP_BIT(FLIP_BIT(b, p), p) = b
<1> DEFINE x == 2^BitOf(p)
           at == p \div ByteBits + 1
           c == [m \in DOMAIN b |-> IF m = at THEN Flipped(b[m], x) ELSE b[m]]
           d == [m \in DOMAIN c |-> IF m = at THEN Flipped(c[m], x) ELSE c[m]]
<1>1. x \in Weights
  BY BitPlace, WeightsDiffer
<1> HIDE DEF x, at
<1>2. \A v \in Int : Flipped(v, x) \in Int /\ Flipped(Flipped(v, x), x) = v
  BY <1>1, FlippedTwice
<1>3. \A m \in DOMAIN b : b[m] \in Int
  BY DEF Buffer
<1>4. Buffer(c) /\ DOMAIN c = DOMAIN b
  BY <1>2, <1>3 DEF Buffer
<1>5. \A m \in DOMAIN b : d[m] = b[m]
  BY <1>2, <1>3
<1>6. d = b
  BY <1>5 DEF Buffer
<1>7. c = FLIP_BIT(b, p)
  BY FlipBit DEF x, at
<1> HIDE DEF c
<1>8. d = FLIP_BIT(c, p)
  BY <1>4, FlipBit DEF x, at
<1> QED
  BY <1>4, <1>6, <1>7, <1>8

LEMMA FlipBitEitherWay ==
  ASSUME NEW b, Buffer(b), NEW p \in Nat, NEW q \in Nat, p # q
  PROVE  FLIP_BIT(FLIP_BIT(b, p), q) = FLIP_BIT(FLIP_BIT(b, q), p)
<1> DEFINE x == 2^BitOf(p)
           y == 2^BitOf(q)
           i == p \div ByteBits + 1
           j == q \div ByteBits + 1
           Once(c, at, w) == [m \in DOMAIN c |-> IF m = at THEN Flipped(c[m], w) ELSE c[m]]
<1>1. x \in Weights /\ y \in Weights
  BY BitPlace, WeightsDiffer
<1>2. i = j => x # y
  <2>1. BitOf(p) \in 0..7 /\ BitOf(q) \in 0..7 /\ p \div ByteBits \in Nat
        /\ q \div ByteBits \in Nat
    BY BitPlace
  <2>2. i = j => p \div ByteBits = q \div ByteBits
    BY <2>1
  <2>3. x = y => BitOf(p) = BitOf(q)
    BY <2>1, WeightsDiffer
  <2> QED
    BY <2>2, <2>3, BitPlace
<1>3. FLIP_BIT(b, p) = Once(b, i, x) /\ FLIP_BIT(b, q) = Once(b, j, y)
  BY FlipBit
<1>4. Buffer(FLIP_BIT(b, p)) /\ Buffer(FLIP_BIT(b, q))
  BY FlipBitTwice
<1>5. /\ FLIP_BIT(FLIP_BIT(b, p), q) = Once(FLIP_BIT(b, p), j, y)
      /\ FLIP_BIT(FLIP_BIT(b, q), p) = Once(FLIP_BIT(b, q), i, x)
  BY <1>4, FlipBit
<1> HIDE DEF x, y, i, j
<1>6. \A m \in DOMAIN b : b[m] \in Int
  BY DEF Buffer
<1>7. \A m \in DOMAIN b : x # y => Flipped(Flipped(b[m], x), y) = Flipped(Flipped(b[m], y), x)
  BY <1>1, <1>6, FlippedEitherWay
<1>8. Once(Once(b, i, x), j, y) = Once(Once(b, j, y), i, x)
  BY <1>2, <1>7
<1> QED
  BY <1>3, <1>5, <1>8

LEMMA FlipPairTwice ==
  ASSUME NEW b, Buffer(b), NEW p \in Nat
  PROVE  /\ Buffer(FlipPair(b, p)) /\ DOMAIN FlipPair(b, p) = DOMAIN b
         /\ FlipPair(FlipPair(b, p), p) = b
<1> DEFINE q == p + 1
           c == FLIP_BIT(b, p)
           d == FLIP_BIT(c, q)
           e == FLIP_BIT(b, q)
<1>1. q \in Nat /\ p # q
  OBVIOUS
<1>2. Buffer(c) /\ DOMAIN c = DOMAIN b /\ Buffer(e)
  BY <1>1, FlipBitTwice
<1>3. Buffer(d) /\ DOMAIN d = DOMAIN c
  BY <1>1, <1>2, FlipBitTwice
<1>4. d = FLIP_BIT(e, p)
  BY <1>1, FlipBitEitherWay
<1>5. FLIP_BIT(FLIP_BIT(e, p), p) = e
  BY <1>2, FlipBitTwice
<1>6. FLIP_BIT(e, q) = b
  BY <1>1, FlipBitTwice
<1>7. FLIP_BIT(FLIP_BIT(d, p), q) = b
  BY <1>4, <1>5, <1>6
<1>8. FlipPair(b, p) = d /\ FlipPair(d, p) = FLIP_BIT(FLIP_BIT(d, p), q)
  BY DEF FlipPair
<1> QED
  BY <1>2, <1>3, <1>7, <1>8

LEMMA FlipPairEitherWay ==
  ASSUME NEW b, Buffer(b), NEW p \in Nat
  PROVE  FlipPair(FlipPair(b, p), p + 2) = FlipPair(FlipPair(b, p + 2), p)
<1> DEFINE F(c, n) == FLIP_BIT(c, p + n)
<1>1. \A m, n \in 0..3 : \A c : Buffer(c) =>
        Buffer(F(c, n)) /\ (m # n => F(F(c, m), n) = F(F(c, n), m))
  <2> SUFFICES ASSUME NEW m \in 0..3, NEW n \in 0..3, NEW c, Buffer(c)
               PROVE  Buffer(F(c, n)) /\ (m # n => F(F(c, m), n) = F(F(c, n), m))
    OBVIOUS
  <2>1. p + m \in Nat /\ p + n \in Nat /\ (m # n => p + m # p + n)
    OBVIOUS
  <2> QED
    BY <2>1, FlipBitTwice, FlipBitEitherWay
<1>2. /\ FlipPair(FlipPair(b, p), p + 2) = F(F(F(F(b, 0), 1), 2), 3)
      /\ FlipPair(FlipPair(b, p + 2), p) = F(F(F(F(b, 2), 3), 0), 1)
  <2>1. p + 0 = p /\ p + 2 + 1 = p + 3
    OBVIOUS
  <2> QED
    BY <2>1 DEF FlipPair
<1> HIDE DEF F
<1>3. 0 \in 0..3 /\ 1 \in 0..3 /\ 2 \in 0..3 /\ 3 \in 0..3
  OBVIOUS
<1>4. Buffer(F(b, 0)) /\ Buffer(F(b, 2)) /\ Buffer(F(F(b, 0), 2))
  BY <1>1, <1>3
<1>5. F(F(F(b, 2), 3), 0) = F(F(F(b, 2), 0), 3)
  BY <1>1, <1>3, <1>4
<1>6. F(F(b, 2), 0) = F(F(b, 0), 2)
  BY <1>1, <1>3
<1>7. F(F(F(F(b, 0), 2), 3), 1) = F(F(F(F(b, 0), 2), 1), 3)
  BY <1>1, <1>3, <1>4
<1>8. F(F(F(b, 0), 2), 1) = F(F(F(b, 0), 1), 2)
  BY <1>1, <1>3, <1>4
<1> QED
  BY <1>2, <1>5, <1>6, <1>7, <1>8

LEMMA FlipBitsTwice ==
  ASSUME NEW b, Buffer(b), NEW p \in Nat, NEW n \in {1, 2, 4}
  PROVE  /\ Buffer(FlipBits(b, p, n)) /\ DOMAIN FlipBits(b, p, n) = DOMAIN b
         /\ FlipBits(FlipBits(b, p, n), p, n) = b
<1>1. CASE n = 1
  BY <1>1, FlipBitTwice DEF FlipBits
<1>2. CASE n = 2
  BY <1>2, FlipPairTwice DEF FlipBits
<1>3. CASE n = 4
  <2> DEFINE q == p + 2
             c == FlipPair(b, p)
             d == FlipPair(c, q)
             e == FlipPair(b, q)
  <2>1. q \in Nat
    OBVIOUS
  <2>2. Buffer(c) /\ DOMAIN c = DOMAIN b /\ Buffer(e)
    BY <2>1, FlipPairTwice
  <2>3. Buffer(d) /\ DOMAIN d = DOMAIN c
    BY <2>1, <2>2, FlipPairTwice
  <2>4. d = FlipPair(e, p)
    BY FlipPairEitherWay
  <2>5. FlipPair(FlipPair(e, p), p) = e /\ FlipPair(e, q) = b
    BY <2>1, <2>2, FlipPairTwice
  <2>6. FlipPair(FlipPair(d, p), q) = b
    BY <2>4, <2>5
  <2>7. FlipBits(b, p, n) = d /\ FlipBits(d, p, n) = FlipPair(FlipPair(d, p), q)
    BY <1>3 DEF FlipBits
  <2> QED
    BY <2>2, <2>3, <2>6, <2>7
<1> QED
  BY <1>1, <1>2, <1>3

LEMMA FlipBytesTwice ==
  ASSUME NEW b, Buffer(b), NEW i, NEW n
  PROVE  FlipBytes(FlipBytes(b, i, n), i, n) = b
<1> DEFINE ones == 2^ByteBits - 1
           Inv(c) == [m \in DOMAIN c |-> IF m - 1 \in Span(i, n) THEN ones - c[m] ELSE c[m]]
<1>1. ones \in Int
  <2>1. 2^4 = 16 /\ 2^5 = 32 /\ 2^6 = 64 /\ 2^7 = 128 /\ 2^8 = 256
    OBVIOUS
  <2>2. ByteBits = 4 \/ ByteBits = 5 \/ ByteBits = 6 \/ ByteBits = 7 \/ ByteBits = 8
    BY BytesAssumption
  <2>3. CASE ByteBits = 4
    BY <2>1, <2>3
  <2>4. CASE ByteBits = 5
    BY <2>1, <2>4
  <2>5. CASE ByteBits = 6
    BY <2>1, <2>5
  <2>6. CASE ByteBits = 7
    BY <2>1, <2>6
  <2>7. CASE ByteBits = 8
    BY <2>1, <2>7
  <2> QED
    BY <2>2, <2>3, <2>4, <2>5, <2>6, <2>7
<1>2. FlipBytes(FlipBytes(b, i, n), i, n) = Inv(Inv(b))
  BY DEF FlipBytes
<1> HIDE DEF ones
<1>3. \A m \in DOMAIN b : Inv(Inv(b))[m] = b[m]
  BY <1>1 DEF Buffer
<1>4. Inv(Inv(b)) = b
  BY <1>3 DEF Buffer
<1> QED
  BY <1>2, <1>4

Flips == DOMAIN BitWalk \cup DOMAIN ByteWalk

(* FLIP_BIT is made once more, and the inversions are.                     *)
LEMMA FlipAtTwice ==
  ASSUME NEW b, Buffer(b), NEW p \in Nat, NEW s \in Flips
  PROVE  FlipAt(FlipAt(b, s, p), s, p) = b
<1>1. CASE s \in DOMAIN BitWalk
  <2>1. BitWalk[s] \in {1, 2, 4}
    BY <1>1 DEF BitWalk
  <2>2. \A c : FlipAt(c, s, p) = FlipBits(c, p, BitWalk[s])
    BY <1>1 DEF FlipAt
  <2>3. FlipBits(FlipBits(b, p, BitWalk[s]), p, BitWalk[s]) = b
    BY <2>1, FlipBitsTwice
  <2>4. FlipAt(FlipAt(b, s, p), s, p) = FlipBits(FlipAt(b, s, p), p, BitWalk[s])
    BY <2>2
  <2>5. FlipAt(b, s, p) = FlipBits(b, p, BitWalk[s])
    BY <2>2
  <2> QED
    BY <2>3, <2>4, <2>5
<1>2. CASE s \notin DOMAIN BitWalk
  <2>1. \A c : FlipAt(c, s, p) = FlipBytes(c, p, ByteWalk[s])
    BY <1>2 DEF FlipAt
  <2> QED
    BY <2>1, FlipBytesTwice
<1> QED
  BY <1>1, <1>2

-----------------------------------------------------------------------------
(***************************************************************************)
(* Words that are put back                                                 *)
(***************************************************************************)
(* Only the n bytes from i on may differ.                                  *)
Beside(b, c, i, n) ==
  /\ DOMAIN c = DOMAIN b
  /\ \A m \in DOMAIN b : m - 1 \notin Span(i, n) => c[m] = b[m]

LEMMA OffsetInside ==
  ASSUME NEW i \in Nat, NEW n \in Nat, NEW e \in Int, NEW m \in Int,
         i + n <= e, i <= m - 1, m - 1 <= i + n - 1
  PROVE  m - i \in 1..(e - (i + 1) + 1) /\ i + 1 + (m - i) - 1 = m
OBVIOUS

LEMMA PutBack ==
  ASSUME NEW b \in Seq(Int), NEW i \in Nat, NEW n \in Nat, i + n <= Len(b),
         NEW e \in Int, i + n <= e, e <= Len(b),
         NEW c, Beside(b, c, i, n)
  PROVE  Copy(c, i, SubSeq(b, i + 1, e), n) = b
<1> DEFINE t == SubSeq(b, i + 1, e)
           r == [m \in DOMAIN c |-> IF m - 1 \in Span(i, n) THEN t[m - i] ELSE c[m]]
<1>1. Len(b) \in Nat /\ DOMAIN b = 1..Len(b) /\ i + 1 \in Int
  OBVIOUS
<1>2. \A k \in (i + 1)..e : b[k] \in Int
  BY <1>1
<1>3. \A k \in 1..(e - (i + 1) + 1) : t[k] = b[i + 1 + k - 1]
  BY <1>1, <1>2, SubSeqProperties
<1> HIDE DEF t
<1>4. \A m \in DOMAIN b : m - 1 \in Span(i, n) => t[m - i] = b[m]
  <2> SUFFICES ASSUME NEW m \in DOMAIN b, m - 1 \in Span(i, n) PROVE t[m - i] = b[m]
    OBVIOUS
  <2>1. m \in Int /\ i <= m - 1 /\ m - 1 <= i + n - 1
    BY <1>1 DEF Span
  <2>2. m - i \in 1..(e - (i + 1) + 1) /\ i + 1 + (m - i) - 1 = m
    BY <2>1, OffsetInside, ZenonT(30)
  <2> QED
    BY <1>3, <2>2
<1>5. \A m \in DOMAIN b : r[m] = b[m]
  BY <1>4 DEF Beside
<1>6. r = b
  BY <1>1, <1>5 DEF Beside
<1> QED
  BY <1>6 DEF Copy, t

LEMMA PutBeside ==
  ASSUME NEW b, NEW i, NEW w, NEW v PROVE Beside(b, Put(b, i, w, v), i, w)
BY DEF Put, Beside

LEMMA CopyBeside ==
  ASSUME NEW b, NEW i, NEW t, NEW n PROVE Beside(b, Copy(b, i, t, n), i, n)
BY DEF Copy, Beside

-----------------------------------------------------------------------------
(***************************************************************************)
(* Counting upwards                                                        *)
(***************************************************************************)
(* What holds of 0 and passes from a number to the next holds up to N.     *)
LEMMA Upwards ==
  ASSUME NEW N \in Nat, NEW P, 0 \in P,
         \A n \in 0..(N - 1) : n \in P => n + 1 \in P
  PROVE  0..N \subseteq P
<1> DEFINE T == (0..N) \ P
<1> SUFFICES ASSUME T # {} PROVE FALSE
  OBVIOUS
<1>1. T \subseteq Nat
  OBVIOUS
<1>2. \E m \in T : \A k \in T : ~(<<k, m>> \in OpToRel(<, Nat))
  BY <1>1, NatLessThanWellFounded, WFMin
<1>3. PICK m \in T : \A k \in T : ~(k < m)
  BY <1>1, <1>2 DEF OpToRel
<1>4. m \in 1..N /\ m \notin P
  BY <1>3
<1>5. m - 1 \in P /\ m - 1 \in 0..(N - 1)
  BY <1>3, <1>4
<1>6. (m - 1) + 1 = m
  BY <1>4
<1> QED
  BY <1>4, <1>5, <1>6

(* A set of numbers with a bound has a greatest one.                       *)
LEMMA Greatest ==
  ASSUME NEW N \in Nat, NEW R, R \subseteq 1..N, R # {}
  PROVE  \E n \in R : \A m \in R : m <= n
<1> DEFINE P == {n \in Nat : \A m \in R : N - m >= n}
<1> SUFFICES ASSUME \A n \in R : \E m \in R : ~(m <= n) PROVE FALSE
  OBVIOUS
<1>1. 0 \in P
  OBVIOUS
<1>2. ASSUME NEW n \in 0..(N - 1), n \in P PROVE n + 1 \in P
  <2> SUFFICES ASSUME NEW m \in R PROVE N - m >= n + 1
    BY <1>2
  <2>1. PICK k \in R : ~(k <= m)
    OBVIOUS
  <2>2. N - k >= n /\ k \in 1..N /\ m \in 1..N /\ n \in Int
    BY <1>2
  <2> QED
    BY <2>1, <2>2
<1>3. 0..N \subseteq P
  <2> HIDE DEF P
  <2> QED
    BY <1>1, <1>2, Upwards
<1>4. N \in P
  BY <1>3
<1>5. PICK m \in R : TRUE
  OBVIOUS
<1> QED
  BY <1>4, <1>5

-----------------------------------------------------------------------------
(***************************************************************************)
(* Dictionaries                                                            *)
(***************************************************************************)
(* A list of tokens.                                                       *)
Tokens(d) == /\ d \in Seq(Range(d))
             /\ \A n \in DOMAIN d : Len(d[n].data) \in Nat

(* The part of the automatic dictionary that is used is sorted by size.    *)
BySize(d) == \A m, n \in DOMAIN d :
               (m < n /\ n <= UseAutoExtras) => Len(d[m].data) <= Len(d[n].data)

LEMMA OwnRange == ASSUME NEW S, NEW s \in Seq(S) PROVE s \in Seq(Range(s))
<1>1. \A n \in 1..Len(s) : s[n] \in Range(s)
  BY DEF Range
<1> QED
  BY <1>1

LEMMA RangeFinite == ASSUME NEW s, s \in Seq(Range(s)) PROVE IsFiniteSet(Range(s))
<1>1. Len(s) \in Nat /\ DOMAIN s = 1..Len(s) /\ s \in [1..Len(s) -> Range(s)]
  OBVIOUS
<1>2. IsFiniteSet(1..Len(s))
  BY <1>1, FS_Interval
<1>3. s \in Surjection(1..Len(s), Range(s))
  BY <1>1 DEF Surjection, Range
<1> QED
  BY <1>2, <1>3, FS_Surjection

(* An enumeration of a set.                                                *)
LEMMA Enumerated ==
  ASSUME NEW S, IsFiniteSet(S), NEW s \in SetToSeqs(S)
  PROVE  /\ Cardinality(S) \in Nat /\ s \in [1..Cardinality(S) -> S]
         /\ s \in Seq(S) /\ Len(s) = Cardinality(S)
         /\ \A m, n \in 1..Len(s) : m # n => s[m] # s[n]
<1>1. Cardinality(S) \in Nat
  BY FS_CardinalityType
<1>2. /\ s \in [1..Cardinality(S) -> S]
      /\ \A m, n \in 1..Cardinality(S) : m # n => s[m] # s[n]
  BY DEF SetToSeqs
<1>3. s \in Seq(S) /\ Len(s) = Cardinality(S)
  BY <1>1, <1>2
<1> QED
  BY <1>1, <1>2, <1>3

LEMMA PrefixSize ==
  ASSUME NEW S, NEW s \in Seq(S), \A m, n \in 1..Len(s) : m # n => s[m] # s[n],
         NEW c \in Nat, c <= Len(s)
  PROVE  /\ IsFiniteSet(Range(SubSeq(s, 1, c)))
         /\ Cardinality(Range(SubSeq(s, 1, c))) = c
         /\ \A x \in Range(SubSeq(s, 1, c)) : \E n \in 1..Len(s) : x = s[n]
<1> DEFINE t == SubSeq(s, 1, c)
<1>1. Len(s) \in Nat /\ \A n \in 1..Len(s) : s[n] \in S
  OBVIOUS
<1>2. t \in Seq(S) /\ Len(t) = c /\ DOMAIN t = 1..c
  BY <1>1
<1>3. \A n \in 1..c : t[n] = s[n]
  BY <1>1
<1> HIDE DEF t
<1>4. t \in [1..c -> Range(t)]
  BY <1>2 DEF Range
<1>5. t \in Surjection(1..c, Range(t))
  BY <1>2, <1>4 DEF Surjection, Range
<1>6. t \in Injection(1..c, Range(t))
  BY <1>1, <1>3, <1>4 DEF Injection, IsInjective
<1>7. IsFiniteSet(1..c) /\ Cardinality(1..c) = c
  BY FS_Interval
<1>8. IsFiniteSet(Range(t)) /\ Cardinality(Range(t)) = c
  BY <1>5, <1>6, <1>7, FS_Surjection
<1>9. \A x \in Range(t) : \E n \in 1..Len(s) : x = s[n]
  BY <1>1, <1>2, <1>3 DEF Range
<1> QED
  BY <1>8, <1>9 DEF t

LEMMA SortedTokens ==
  ASSUME NEW d, Tokens(d), NEW r \in Sorted(d) PROVE Tokens(r) /\ BySize(r)
<1> DEFINE S == Range(d)
<1>1. IsFiniteSet(S) /\ d \in Seq(S)
  BY RangeFinite DEF Tokens
<1>2. \A x \in S : Len(x.data) \in Nat
  BY DEF Tokens, Range
<1>3. \E s \in Orders(S, ByUse) :
        \E top \in Orders(Range(SubSeq(s, 1, Least(UseAutoExtras, Len(s)))), ByLen) :
          r = top \o SubSeq(s, UseAutoExtras + 1, Len(s))
  BY DEF Sorted
<1> HIDE DEF S
<1>4. PICK s \in Orders(S, ByUse) :
        \E top \in Orders(Range(SubSeq(s, 1, Least(UseAutoExtras, Len(s)))), ByLen) :
          r = top \o SubSeq(s, UseAutoExtras + 1, Len(s))
  BY <1>3
<1> DEFINE c == Least(UseAutoExtras, Len(s))
           Q == Range(SubSeq(s, 1, c))
           rest == SubSeq(s, UseAutoExtras + 1, Len(s))
<1>5. PICK top \in Orders(Q, ByLen) : r = top \o rest
  BY <1>4
<1>6. s \in SetToSeqs(S)
  BY <1>4 DEF Orders
<1>7. s \in Seq(S) /\ Len(s) \in Nat /\ \A m, n \in 1..Len(s) : m # n => s[m] # s[n]
  BY <1>1, <1>6, Enumerated
<1>8. c \in Nat /\ c <= Len(s) /\ c <= UseAutoExtras /\ (c = Len(s) \/ c = UseAutoExtras)
  BY <1>7, DictAssumption DEF Least
<1> HIDE DEF c
<1>9. IsFiniteSet(Q) /\ Cardinality(Q) = c /\ \A x \in Q : \E n \in 1..Len(s) : x = s[n]
  BY <1>7, <1>8, PrefixSize
<1>10. Q \subseteq S
  BY <1>7, <1>9
<1> HIDE DEF Q
<1>11. top \in SetToSeqs(Q) /\ \A m, n \in DOMAIN top : m < n => ByLen(top[m], top[n])
  BY <1>5 DEF Orders
<1>12. top \in [1..c -> Q] /\ Len(top) = c
  BY <1>9, <1>11, Enumerated
<1>13. top \in Seq(S) /\ DOMAIN top = 1..c
  BY <1>8, <1>10, <1>12
<1>14. rest \in Seq(S) /\ (UseAutoExtras > c => Len(rest) = 0)
  <2>1. \A k \in (UseAutoExtras + 1)..Len(s) : s[k] \in S
    BY <1>7, DictAssumption
  <2>2. UseAutoExtras + 1 \in Int
    BY DictAssumption
  <2>3. rest \in Seq(S)
    BY <1>7, <2>1, <2>2, SubSeqProperties
  <2>4. UseAutoExtras > c => Len(rest) = 0
    <3> SUFFICES ASSUME UseAutoExtras > c PROVE Len(rest) = 0
      OBVIOUS
    <3>1. UseAutoExtras + 1 > Len(s)
      BY <1>8, DictAssumption
    <3>2. Len(rest) = IF UseAutoExtras + 1 > Len(s) THEN 0
                      ELSE Len(s) - (UseAutoExtras + 1) + 1
      BY <1>7, <2>1, <2>2, SubSeqProperties
    <3> QED
      BY <3>1, <3>2
  <2> QED
    BY <2>3, <2>4
<1> HIDE DEF rest
<1>15. r \in Seq(S) /\ Len(r) = c + Len(rest) /\ \A n \in 1..c : r[n] = top[n]
  <2>1. r = top \o rest /\ Len(top) = c /\ top \in Seq(S) /\ rest \in Seq(S)
    BY <1>5, <1>12, <1>13, <1>14
  <2>2. /\ top \o rest \in Seq(S) /\ Len(top \o rest) = Len(top) + Len(rest)
        /\ \A n \in 1..Len(top) : (top \o rest)[n] = top[n]
    BY <2>1
  <2> QED
    BY <2>1, <2>2
<1>16. Tokens(r)
  <2>1. r \in Seq(Range(r))
    BY <1>15, OwnRange
  <2>2. \A n \in DOMAIN r : r[n] \in S
    BY <1>15
  <2> QED
    BY <1>2, <2>1, <2>2 DEF Tokens
<1>17. BySize(r)
  <2> SUFFICES ASSUME NEW m \in DOMAIN r, NEW n \in DOMAIN r, m < n, n <= UseAutoExtras
               PROVE  Len(r[m].data) <= Len(r[n].data)
    BY DEF BySize
  <2>1. m \in 1..Len(r) /\ n \in 1..Len(r)
    BY <1>15
  <2>2. n <= c
    BY <1>8, <1>14, <1>15, <2>1, DictAssumption
  <2>3. m \in 1..c /\ n \in 1..c
    BY <1>8, <2>1, <2>2
  <2>4. ByLen(top[m], top[n])
    BY <1>11, <1>13, <2>3
  <2> QED
    BY <1>15, <2>3, <2>4 DEF ByLen
<1> QED
  BY <1>16, <1>17

LEMMA EnteredTokens ==
  ASSUME NEW d, Tokens(d), NEW t, Len(t) \in Nat, NEW e \in Entered(d, t) PROVE Tokens(e)
<1> DEFINE new == [data |-> t, hit_cnt |-> 0]
           at == {n \in DOMAIN d : d[n].data = t}
           S == Range(e)
<1>1. d \in Seq(Range(d)) /\ Len(d) \in Nat /\ DOMAIN d = 1..Len(d)
  BY DEF Tokens
<1>2. CASE at # {}
  <2>1. e = [n \in DOMAIN d |->
               IF n \in at THEN [d[n] EXCEPT !.hit_cnt = @ + 1] ELSE d[n]]
    BY <1>2 DEF Entered
  <2>2. DOMAIN e = 1..Len(d) /\ \A n \in DOMAIN e : e[n] \in S
    BY <1>1, <2>1 DEF Range
  <2>5. e \in [1..Len(d) -> S]
    BY <1>1, <2>1, <2>2
  <2>3. e \in Seq(S)
    BY <1>1, <2>5
  <2>4. \A n \in DOMAIN e : e[n].data = d[n].data
    BY <2>1
  <2> QED
    BY <2>1, <2>3, <2>4 DEF Tokens
<1>3. CASE at = {} /\ Len(d) < MaxAutoExtras
  <2>1. e = Append(d, new)
    BY <1>3 DEF Entered
  <2>2. e \in Seq(Range(d) \cup {new})
    BY <1>1, <2>1
  <2>3. e \in Seq(S)
    BY <2>2, OwnRange
  <2>4. \A n \in DOMAIN e : e[n] = new \/ (n \in DOMAIN d /\ e[n] = d[n])
    BY <1>1, <2>1
  <2> QED
    BY <2>3, <2>4 DEF Tokens
<1>4. CASE at = {} /\ ~(Len(d) < MaxAutoExtras)
  <2>1. PICK k \in DOMAIN d : e = [d EXCEPT ![k] = new]
    BY <1>4 DEF Entered
  <2>2. DOMAIN e = 1..Len(d) /\ \A n \in DOMAIN e : e[n] \in S
    BY <1>1, <2>1 DEF Range
  <2>5. e \in [1..Len(d) -> S]
    BY <1>1, <2>1, <2>2
  <2>3. e \in Seq(S)
    BY <1>1, <2>5
  <2>4. \A n \in DOMAIN e : e[n] = new \/ (n \in DOMAIN d /\ e[n] = d[n])
    BY <2>1
  <2> QED
    BY <2>3, <2>4 DEF Tokens
<1> QED
  BY <1>2, <1>3, <1>4

LEMMA AddedTokens ==
  ASSUME NEW d, Tokens(d), BySize(d), NEW t, Len(t) \in Nat, NEW ex, NEW builtin,
         NEW e \in maybe_add_auto(d, t, ex, builtin)
  PROVE  Tokens(e) /\ BySize(e)
<1>1. e = d \/ \E m \in Entered(d, t) : e \in Sorted(m)
  BY DEF maybe_add_auto
<1> QED
  BY <1>1, EnteredTokens, SortedTokens

(* Adding token after token.                                               *)
LEMMA LoadedAutos ==
  ASSUME NEW ex, NEW builtin, NEW d \in load_auto(AutoFiles, ex, builtin)
  PROVE  Tokens(d) /\ BySize(d)
<1> DEFINE N == Len(AutoFiles)
           files == AutoFiles
           Good(n) == Len(files[n]) \in MinAutoExtra..MaxAutoExtra
           More(R, n) == UNION {maybe_add_auto(a, files[n], ex, builtin) : a \in R}
           Def(g, k) == g = [n \in 0..k |-> IF n = 0 THEN {<<>>}
                                            ELSE IF Good(n) THEN More(g[n - 1], n)
                                            ELSE g[n - 1]]
           P == {k \in Nat : \E g : Def(g, k)}
<1>1. N \in Nat
  BY FilesAssumption
<1> HIDE DEF N, Good, More
<1>2. 0..N \subseteq P
  <2>1. 0 \in P
    <3> DEFINE g == [n \in 0..0 |-> {<<>>}]
    <3>1. Def(g, 0)
      OBVIOUS
    <3> QED
      BY <3>1
  <2>2. ASSUME NEW k \in 0..(N - 1), k \in P PROVE k + 1 \in P
    <3>1. PICK g : Def(g, k)
      BY <2>2
    <3> DEFINE h == [n \in 0..(k + 1) |->
                       IF n = k + 1 THEN IF Good(k + 1) THEN More(g[k], k + 1) ELSE g[k]
                       ELSE g[n]]
    <3>2. \A n \in 0..(k + 1) :
            h[n] = IF n = 0 THEN {<<>>}
                   ELSE IF Good(n) THEN More(h[n - 1], n) ELSE h[n - 1]
      <4> SUFFICES ASSUME NEW n \in 0..(k + 1)
                   PROVE  h[n] = IF n = 0 THEN {<<>>}
                                 ELSE IF Good(n) THEN More(h[n - 1], n) ELSE h[n - 1]
        OBVIOUS
      <4>1. CASE n = 0
        <5>1. g[0] = {<<>>}
          BY <3>1
        <5> QED
          BY <4>1, <5>1
      <4>2. CASE n = k + 1
        <5>1. n - 1 = k /\ k \in 0..(k + 1) /\ k # k + 1 /\ n # 0
          BY <4>2
        <5>2. h[n - 1] = g[k]
          BY <5>1
        <5> QED
          BY <4>2, <5>1, <5>2
      <4>3. CASE n \in 1..k
        <5>1. n \in 0..k /\ n - 1 \in 0..(k + 1) /\ n - 1 # k + 1 /\ n # k + 1 /\ n # 0
          BY <4>3
        <5>2. h[n] = g[n] /\ h[n - 1] = g[n - 1]
          BY <5>1
        <5>3. g[n] = IF n = 0 THEN {<<>>}
                     ELSE IF Good(n) THEN More(g[n - 1], n) ELSE g[n - 1]
          BY <3>1, <5>1
        <5> QED
          BY <5>2, <5>3
      <4> QED
        BY <4>1, <4>2, <4>3
    <3>3. Def(h, k + 1)
      BY <3>2
    <3>4. k + 1 \in Nat
      OBVIOUS
    <3> HIDE DEF Def
    <3> QED
      BY <3>3, <3>4
  <2> HIDE DEF P
  <2> QED
    BY <1>1, <2>1, <2>2, Upwards
<1>3. \E g : Def(g, N)
  <2>1. N \in 0..N
    BY <1>1
  <2>2. N \in P
    BY <1>2, <2>1
  <2> QED
    BY <2>2
<1> DEFINE Read == CHOOSE g : Def(g, N)
<1>4. Def(Read, N)
  <2> HIDE DEF Def
  <2> QED
    BY <1>3
<1>5. d \in Read[Least(UseAutoExtras, N)]
  BY DEF load_auto, N, Good, More
<1> HIDE DEF Read
<1> DEFINE Q == {k \in 0..N : \A a \in Read[k] : Tokens(a) /\ BySize(a)}
<1>6. 0..N \subseteq Q
  <2>1. 0 \in Q
    <3>1. Read[0] = {<<>>}
      BY <1>1, <1>4
    <3>2. Tokens(<<>>) /\ BySize(<<>>)
      BY DEF Tokens, BySize
    <3> QED
      BY <1>1, <3>1, <3>2
  <2>2. ASSUME NEW k \in 0..(N - 1), k \in Q PROVE k + 1 \in Q
    <3>1. k + 1 \in 0..N /\ k + 1 # 0 /\ (k + 1) - 1 = k
      BY <1>1
    <3>2. Read[k + 1] = IF Good(k + 1) THEN More(Read[k], k + 1) ELSE Read[k]
      BY <1>4, <3>1
    <3> SUFFICES ASSUME NEW a \in Read[k + 1] PROVE Tokens(a) /\ BySize(a)
      BY <3>1
    <3>3. CASE ~Good(k + 1)
      BY <2>2, <3>2, <3>3
    <3>4. CASE Good(k + 1)
      <4>1. PICK m \in Read[k] : a \in maybe_add_auto(m, files[k + 1], ex, builtin)
        BY <3>2, <3>4 DEF More
      <4>2. Len(files[k + 1]) \in Nat
        BY <3>4, DictAssumption DEF Good
      <4>3. Tokens(m) /\ BySize(m)
        BY <2>2, <4>1
      <4> QED
        BY <4>1, <4>2, <4>3, AddedTokens
    <3> QED
      BY <3>3, <3>4
  <2> HIDE DEF Q
  <2> QED
    BY <1>1, <2>1, <2>2, Upwards
<1>7. Least(UseAutoExtras, N) \in 0..N
  BY <1>1, DictAssumption DEF Least
<1> QED
  BY <1>5, <1>6, <1>7

LEMMA LoadedExtras ==
  ASSUME NEW d \in load_extras(ExtraFiles)
  PROVE  /\ Tokens(d)
         /\ \A m, n \in DOMAIN d : m < n => Len(d[m].data) <= Len(d[n].data)
<1> DEFINE S == {f \in ExtraFiles : f.data # <<>>}
<1>1. d \in Orders(S, ByLen)
  BY DEF load_extras
<1>2. IsFiniteSet(S) /\ \A x \in S : Len(x.data) \in Nat
  BY FilesAssumption, FS_Subset
<1> HIDE DEF S
<1>3. d \in SetToSeqs(S) /\ \A m, n \in DOMAIN d : m < n => ByLen(d[m], d[n])
  BY <1>1 DEF Orders
<1>4. d \in Seq(S)
  BY <1>2, <1>3, Enumerated
<1>5. d \in Seq(Range(d))
  BY <1>4, OwnRange
<1>6. Tokens(d)
  BY <1>2, <1>4, <1>5 DEF Tokens
<1> QED
  BY <1>3, <1>6 DEF ByLen

-----------------------------------------------------------------------------
(***************************************************************************)
(* Tokens that are laid over the bytes of the input                        *)
(***************************************************************************)
LEMMA SpanGrows ==
  ASSUME NEW i \in Nat, NEW n \in Nat, NEW k \in Nat, n <= k, NEW m \in Int,
         m - 1 \notin Span(i, k)
  PROVE  m - 1 \notin Span(i, n)
BY DEF Span

(* What is left over the n first tokens: only bytes of the last one that   *)
(* was laid down differ, and no later token is shorter.                    *)
Under(p, i, toks, n) ==
  /\ p.last_len \in Nat /\ i + p.last_len <= len
  /\ Beside(in_buf, p.buf, i, p.last_len)
  /\ \A m \in (n + 1)..Len(toks) : p.last_len <= Len(toks[m])
  /\ p.tries \in Seq(Range(p.tries)) /\ Len(p.tries) = n

LEMMA LaidUnder ==
  ASSUME in_buf \in Seq(Int), NEW i \in Nat, NEW toks, Len(toks) \in Nat,
         \A n \in 1..Len(toks) : Len(toks[n]) \in Nat,
         \A m, n \in 1..Len(toks) : m < n => Len(toks[m]) <= Len(toks[n]),
         NEW n \in 1..Len(toks), NEW p, Under(p, i, toks, n - 1),
         NEW fits, fits => Fits(p.buf, i, toks[n])
  PROVE  Under(Laid(p, i, toks[n], fits), i, toks, n)
<1> DEFINE t == toks[n]
           q == Laid(p, i, t, fits)
<1>1. /\ p.last_len \in Nat /\ i + p.last_len <= len
      /\ Beside(in_buf, p.buf, i, p.last_len)
      /\ \A m \in ((n - 1) + 1)..Len(toks) : p.last_len <= Len(toks[m])
      /\ p.tries \in Seq(Range(p.tries)) /\ Len(p.tries) = n - 1
  BY DEF Under
<1>2. /\ Len(t) \in Nat /\ n \in ((n - 1) + 1)..Len(toks) /\ len \in Nat
      /\ DOMAIN in_buf = 1..len
  BY DEF len
<1>3. \A x : Append(p.tries, x) \in Seq(Range(Append(p.tries, x)))
             /\ Len(Append(p.tries, x)) = n
  <2> TAKE x
  <2>1. Append(p.tries, x) \in Seq(Range(p.tries) \cup {x})
        /\ Len(Append(p.tries, x)) = n
    BY <1>1
  <2> QED
    BY <2>1, OwnRange
<1>4. CASE fits
  <2> DEFINE c == Copy(p.buf, i, t, Len(t))
  <2>1. /\ q.buf = c /\ q.last_len = Len(t)
        /\ q.tries = Append(p.tries, [buf |-> c, run |-> TRUE])
    BY <1>4 DEF Laid
  <2>2. Len(t) <= len - i
    BY <1>4 DEF Fits
  <2>3. Beside(p.buf, c, i, Len(t))
    BY CopyBeside
  <2>4. p.last_len <= Len(t)
    BY <1>1, <1>2
  <2>5. Beside(in_buf, c, i, Len(t))
    <3>1. DOMAIN p.buf = DOMAIN in_buf /\ DOMAIN c = DOMAIN in_buf
      BY <1>1, <2>3 DEF Beside
    <3>2. ASSUME NEW m \in DOMAIN in_buf, m - 1 \notin Span(i, Len(t))
          PROVE  c[m] = in_buf[m]
      <4>1. m \in Int
        BY <1>2
      <4>2. m - 1 \notin Span(i, p.last_len)
        BY <1>1, <1>2, <2>4, <3>2, <4>1, SpanGrows
      <4> HIDE DEF c
      <4> QED
        BY <1>1, <2>3, <3>1, <3>2, <4>2 DEF Beside
    <3> HIDE DEF c
    <3> QED
      BY <3>1, <3>2 DEF Beside
  <2>6. \A m \in (n + 1)..Len(toks) : Len(t) <= Len(toks[m])
    OBVIOUS
  <2> HIDE DEF c, q
  <2>7. q.tries \in Seq(Range(q.tries)) /\ Len(q.tries) = n
    BY <1>3, <2>1
  <2>8. q.last_len \in Nat /\ i + q.last_len <= len
    BY <1>2, <2>1, <2>2
  <2>9. Under(q, i, toks, n)
    BY <2>1, <2>5, <2>6, <2>7, <2>8 DEF Under
  <2> QED
    BY <2>9 DEF q
<1>5. CASE ~fits
  <2>1. /\ q.buf = p.buf /\ q.last_len = p.last_len
        /\ q.tries = Append(p.tries, [buf |-> p.buf, run |-> FALSE])
    BY <1>5 DEF Laid
  <2>2. \A m \in (n + 1)..Len(toks) : p.last_len <= Len(toks[m])
    BY <1>1
  <2> HIDE DEF q
  <2>3. q.tries \in Seq(Range(q.tries)) /\ Len(q.tries) = n
    BY <1>3, <2>1
  <2>4. Under(q, i, toks, n)
    BY <1>1, <2>1, <2>2, <2>3 DEF Under
  <2> QED
    BY <2>4 DEF q
<1> QED
  BY <1>4, <1>5

(* The bytes of the longest token are put back, and so all of them.        *)
LEMMA TokensTakenBack ==
  ASSUME in_buf \in Seq(Int), NEW i \in Nat, i <= len, NEW toks, Len(toks) \in Nat,
         \A n \in 1..Len(toks) : Len(toks[n]) \in Nat,
         \A m, n \in 1..Len(toks) : m < n => Len(toks[m]) <= Len(toks[n]),
         NEW drop, NEW X, X = ExtraTries(in_buf, i, toks, drop)
  PROVE  /\ Copy(X.buf, i, SubSeq(in_buf, i + 1, len), X.last_len) = in_buf
         /\ X.tries \in Seq(Range(X.tries)) /\ Len(X.tries) = Len(toks)
<1> DEFINE N == Len(toks)
           base == [buf |-> in_buf, last_len |-> 0, tries |-> <<>>]
           fits(p, n) == n \notin drop /\ Fits(p.buf, i, toks[n])
           More(p, n) == Laid(p, i, toks[n], fits(p, n))
           Def(g, k) == g = [n \in 0..k |-> IF n = 0 THEN base ELSE More(g[n - 1], n)]
           P == {k \in Nat : \E g : Def(g, k)}
<1> HIDE DEF base, More
<1>1. 0..N \subseteq P
  <2>1. 0 \in P
    <3> DEFINE g == [n \in 0..0 |-> base]
    <3>1. Def(g, 0)
      OBVIOUS
    <3> QED
      BY <3>1
  <2>2. ASSUME NEW k \in 0..(N - 1), k \in P PROVE k + 1 \in P
    <3>1. PICK g : Def(g, k)
      BY <2>2
    <3> DEFINE h == [n \in 0..(k + 1) |-> IF n = k + 1 THEN More(g[k], k + 1) ELSE g[n]]
    <3>2. \A n \in 0..(k + 1) : h[n] = IF n = 0 THEN base ELSE More(h[n - 1], n)
      <4> SUFFICES ASSUME NEW n \in 0..(k + 1)
                   PROVE  h[n] = IF n = 0 THEN base ELSE More(h[n - 1], n)
        OBVIOUS
      <4>1. CASE n = 0
        <5>1. g[0] = base
          BY <3>1
        <5> QED
          BY <4>1, <5>1
      <4>2. CASE n = k + 1
        <5>1. n - 1 = k /\ k \in 0..(k + 1) /\ k # k + 1 /\ n # 0
          BY <4>2
        <5>2. h[n - 1] = g[k]
          BY <5>1
        <5> QED
          BY <4>2, <5>1, <5>2
      <4>3. CASE n \in 1..k
        <5>1. n \in 0..k /\ n - 1 \in 0..(k + 1) /\ n - 1 # k + 1 /\ n # k + 1 /\ n # 0
          BY <4>3
        <5>2. h[n] = g[n] /\ h[n - 1] = g[n - 1]
          BY <5>1
        <5>3. g[n] = IF n = 0 THEN base ELSE More(g[n - 1], n)
          BY <3>1, <5>1
        <5> QED
          BY <5>2, <5>3
      <4> QED
        BY <4>1, <4>2, <4>3
    <3>3. Def(h, k + 1)
      BY <3>2
    <3>4. k + 1 \in Nat
      OBVIOUS
    <3> HIDE DEF Def
    <3> QED
      BY <3>3, <3>4
  <2> HIDE DEF P
  <2> QED
    BY <2>1, <2>2, Upwards
<1>2. \E g : Def(g, N)
  <2>1. N \in 0..N
    OBVIOUS
  <2>2. N \in P
    BY <1>1, <2>1
  <2> QED
    BY <2>2
<1> DEFINE Upto == CHOOSE g : Def(g, N)
<1>3. Def(Upto, N)
  <2> HIDE DEF Def
  <2> QED
    BY <1>2
<1>4. X = Upto[N]
  BY DEF ExtraTries, base, More
<1> HIDE DEF Upto
<1> DEFINE Q == {k \in 0..N : Under(Upto[k], i, toks, k)}
<1>5. 0..N \subseteq Q
  <2>1. 0 \in Q
    <3>1. Upto[0] = base
      BY <1>3
    <3>2. /\ base.buf = in_buf /\ base.last_len = 0 /\ base.tries = <<>>
      BY DEF base
    <3>3. Under(base, i, toks, 0)
      BY <3>2 DEF Under, Beside, len
    <3> QED
      BY <3>1, <3>3
  <2>2. ASSUME NEW k \in 0..(N - 1), k \in Q PROVE k + 1 \in Q
    <3>1. k + 1 \in 1..N /\ k + 1 \in 0..N /\ k + 1 # 0 /\ (k + 1) - 1 = k
      OBVIOUS
    <3>2. Upto[k + 1] = More(Upto[k], k + 1)
      BY <1>3, <3>1
    <3>3. Under(Upto[k], i, toks, (k + 1) - 1)
      BY <2>2, <3>1
    <3>4. Under(Laid(Upto[k], i, toks[k + 1], fits(Upto[k], k + 1)), i, toks, k + 1)
      BY <3>1, <3>3, LaidUnder
    <3> QED
      BY <3>1, <3>2, <3>4 DEF More
  <2> HIDE DEF Q
  <2> QED
    BY <2>1, <2>2, Upwards
<1>6. Under(X, i, toks, N)
  <2>1. N \in 0..N
    OBVIOUS
  <2> QED
    BY <1>4, <1>5, <2>1
<1>7. /\ X.last_len \in Nat /\ i + X.last_len <= len /\ Beside(in_buf, X.buf, i, X.last_len)
      /\ len = Len(in_buf) /\ len \in Int
  BY <1>6 DEF Under, len
<1>8. Copy(X.buf, i, SubSeq(in_buf, i + 1, len), X.last_len) = in_buf
  BY <1>7, PutBack
<1> QED
  BY <1>6, <1>8 DEF Under

-----------------------------------------------------------------------------
(***************************************************************************)
(* What every deterministic stage takes back                               *)
(***************************************************************************)
(* The dictionaries as the stages use them.                                *)
Dicts == /\ Tokens(extras) /\ Tokens(a_extras) /\ BySize(a_extras)
         /\ \A m, n \in DOMAIN extras :
              m < n => Len(extras[m].data) <= Len(extras[n].data)

Kept == /\ pos \in Nat /\ Restored /\ Dicts
        /\ stage # "over" => in_buf \in Inputs

LEMMA InputBytes ==
  ASSUME Kept, stage # "over"
  PROVE  /\ in_buf \in Seq(Int) /\ Buffer(in_buf) /\ out_buf = in_buf
         /\ len \in Nat /\ DOMAIN in_buf = 1..len
<1>1. in_buf \in Seq(Bytes) /\ out_buf = in_buf
  BY FilesAssumption DEF Kept, Restored
<1>2. \A x \in Bytes : x \in Int
  BY DEF Bytes
<1>3. in_buf \in Seq(Int)
  BY <1>1, <1>2
<1> QED
  BY <1>1, <1>3 DEF len, Buffer

(* FLIP_BIT is made once more after the execution.                         *)
LEMMA FlipTakenBack ==
  ASSUME Kept, stage # "over", NEW s \in Flips
  PROVE  FlipAt(FlipTries(out_buf, s, pos)[1].buf, s, pos) = in_buf
<1>1. FlipTries(out_buf, s, pos)[1].buf = FlipAt(in_buf, s, pos)
  BY InputBytes DEF FlipTries
<1>2. FlipAt(FlipAt(in_buf, s, pos), s, pos) = in_buf
  BY InputBytes, FlipAtTwice DEF Kept
<1> QED
  BY <1>1, <1>2

LEMMA LastRun ==
  ASSUME NEW N \in Nat, NEW T, DOMAIN T = 1..N, Runs(T) # {}
  PROVE  (CHOOSE n \in Runs(T) : \A m \in Runs(T) : m <= n) \in DOMAIN T
<1>1. Runs(T) \subseteq 1..N
  BY DEF Runs
<1>2. \E n \in Runs(T) : \A m \in Runs(T) : m <= n
  BY <1>1, Greatest
<1> QED
  BY <1>2 DEF Runs

(* The buffer after the change that was executed last.                     *)
LeftBy(T) == IF Runs(T) = {} THEN out_buf
             ELSE T[CHOOSE n \in Runs(T) : \A m \in Runs(T) : m <= n].buf

(* The saved word is put back whichever change was executed last.          *)
LEMMA WordTakenBack ==
  ASSUME Kept, stage # "over", NEW w \in Nat, pos + w <= len,
         NEW N \in Nat, NEW T, DOMAIN T = 1..N,
         \A n \in 1..N : \E v : T[n].buf = Put(out_buf, pos, w, v)
  PROVE  Copy(LeftBy(T), pos, SubSeq(out_buf, pos + 1, pos + w), w) = in_buf
<1> DEFINE left == LeftBy(T)
<1>1. Beside(in_buf, left, pos, w)
  <2>1. CASE Runs(T) = {}
    BY <2>1, InputBytes DEF Beside, LeftBy
  <2>2. CASE Runs(T) # {}
    <3>1. PICK n \in 1..N : left = T[n].buf
      BY <2>2, LastRun DEF LeftBy
    <3>2. PICK v : left = Put(in_buf, pos, w, v)
      BY <3>1, InputBytes
    <3> QED
      BY <3>2, PutBeside
  <2> QED
    BY <2>1, <2>2
<1>2. pos \in Nat /\ in_buf \in Seq(Int) /\ len = Len(in_buf) /\ out_buf = in_buf
      /\ pos + w \in Int /\ pos + w <= Len(in_buf)
  BY InputBytes DEF Kept, len
<1> QED
  BY <1>1, <1>2, PutBack

LEMMA ArithPuts ==
  ASSUME NEW s \in DOMAIN Arith, NEW b, NEW i
  PROVE  /\ PerOffset(s) \in Nat /\ Width(s) \in Nat
         /\ DOMAIN ArithTries(b, s, i) = 1..PerOffset(s)
         /\ \A n \in 1..PerOffset(s) :
              \E v : ArithTries(b, s, i)[n].buf = Put(b, i, Width(s), v)
<1>1. PerOffset(s) \in Nat
  BY ArithAssumption DEF PerOffset, Arith
<1>2. Width(s) = Arith[s] /\ Arith[s] \in {1, 2, 4}
  <2>1. DOMAIN Arith = {"arith8", "arith16", "arith32"}
    BY DEF Arith
  <2>2. DOMAIN ByteWalk = {"flip8", "flip16", "flip32"}
    BY DEF ByteWalk
  <2>5. DOMAIN Interest = {"int8", "int16", "int32"}
    BY DEF Interest
  <2>4. s \notin DOMAIN ByteWalk /\ s \notin DOMAIN Interest
    BY <2>1, <2>2, <2>5
  <2>3. Width(s) = Arith[s]
    BY <2>4 DEF Width
  <2> QED
    BY <2>1, <2>3 DEF Arith
<1>3. DOMAIN ArithTries(b, s, i) = 1..PerOffset(s)
  BY DEF ArithTries
<1>4. \A n \in 1..PerOffset(s) :
        \E v : ArithTries(b, s, i)[n].buf = Put(b, i, Arith[s], v)
  <2> TAKE n \in 1..PerOffset(s)
  <2>1. \E v, ok : ArithTries(b, s, i)[n] = Write(b, i, Arith[s], v, ok)
    BY SMTT(60) DEF ArithTries
  <2> QED
    BY <2>1 DEF Write
<1> QED
  BY <1>1, <1>2, <1>3, <1>4

LEMMA InterestPuts ==
  ASSUME NEW s \in DOMAIN Interest, NEW b, NEW i
  PROVE  /\ PerOffset(s) \in Nat /\ Width(s) \in Nat
         /\ DOMAIN InterestTries(b, s, i) = 1..PerOffset(s)
         /\ \A n \in 1..PerOffset(s) :
              \E v : InterestTries(b, s, i)[n].buf = Put(b, i, Width(s), v)
<1>1. Width(s) = Interest[s] /\ Interest[s] \in {1, 2, 4}
  BY DEF Width, Arith, ByteWalk, Interest
<1>2. PerOffset(s) \in Nat
  <2>1. \A w \in {1, 2, 4} : Len(Interesting[w]) \in Nat
    BY InterestingAssumption
  <2> QED
    BY <1>1, <2>1 DEF PerOffset, Interest
<1>3. DOMAIN InterestTries(b, s, i) = 1..PerOffset(s)
  BY DEF InterestTries
<1>4. \A n \in 1..PerOffset(s) :
        \E v : InterestTries(b, s, i)[n].buf = Put(b, i, Interest[s], v)
  <2> TAKE n \in 1..PerOffset(s)
  <2> QED
    BY Zenon DEF InterestTries, Write
<1> QED
  BY <1>1, <1>2, <1>3, <1>4

LEMMA OfferedTokens ==
  ASSUME Dicts, NEW t, NEW e \in Offer(t) PROVE Tokens(e) /\ BySize(e)
<1>1. CASE Len(t) \in MinAutoExtra..MaxAutoExtra
  <2>1. Len(t) \in Nat
    BY <1>1, DictAssumption
  <2>2. e \in maybe_add_auto(a_extras, t, extras, BuiltinTokens)
    BY <1>1 DEF Offer
  <2> QED
    BY <2>1, <2>2, AddedTokens DEF Dicts
<1>2. CASE Len(t) \notin MinAutoExtra..MaxAutoExtra
  BY <1>2 DEF Offer, Dicts
<1> QED
  BY <1>1, <1>2

LEMMA CollectedTokens ==
  ASSUME Dicts, NEW cksum, NEW byte, Collect(cksum, byte), UNCHANGED extras PROVE Dicts'
<1>1. a_extras' = a_extras \/ \E t : a_extras' \in Offer(t)
  BY DEF Collect
<1>2. Tokens(a_extras') /\ BySize(a_extras')
  BY <1>1, OfferedTokens DEF Dicts
<1> QED
  BY <1>2 DEF Dicts

LEMMA DictsUnchanged == ASSUME Dicts, UNCHANGED <<a_extras, extras>> PROVE Dicts'
BY DEF Dicts

(* A token dictionary as the stages walk through it.                       *)
LEMMA DataTokens ==
  ASSUME NEW d, Tokens(d)
  PROVE  /\ Len(Data(d)) = Len(d) /\ Len(d) \in Nat /\ DOMAIN d = 1..Len(d)
         /\ \A n \in 1..Len(d) : Data(d)[n] = d[n].data /\ Len(Data(d)[n]) \in Nat
<1>1. Len(d) \in Nat /\ DOMAIN d = 1..Len(d)
  BY DEF Tokens
<1>2. Data(d) = [n \in 1..Len(d) |-> d[n].data]
  BY <1>1 DEF Data
<1>3. Len(Data(d)) = Len(d)
  BY <1>1, <1>2
<1> QED
  BY <1>1, <1>2, <1>3 DEF Tokens

LEMMA UsedTokens ==
  ASSUME Dicts
  PROVE  /\ Tokens(UsedAutos)
         /\ \A m, n \in 1..Len(UsedAutos) :
              m < n => Len(UsedAutos[m].data) <= Len(UsedAutos[n].data)
<1> DEFINE c == Least(UseAutoExtras, Len(a_extras))
<1>1. /\ a_extras \in Seq(Range(a_extras)) /\ Len(a_extras) \in Nat
      /\ DOMAIN a_extras = 1..Len(a_extras)
  BY DEF Dicts, Tokens
<1>2. c \in Nat /\ c <= Len(a_extras) /\ c <= UseAutoExtras
  BY <1>1, DictAssumption DEF Least
<1> HIDE DEF c
<1> DEFINE u == SubSeq(a_extras, 1, c)
<1>3. \A n \in 1..c : a_extras[n] \in Range(a_extras)
  BY <1>1, <1>2
<1>4. /\ u \in Seq(Range(a_extras)) /\ Len(u) = c /\ DOMAIN u = 1..c
      /\ \A n \in 1..c : u[n] = a_extras[n]
  BY <1>1, <1>2, <1>3
<1> HIDE DEF u
<1>5. u \in Seq(Range(u))
  BY <1>4, OwnRange
<1>6. Tokens(u)
  BY <1>1, <1>2, <1>4, <1>5 DEF Tokens, Dicts
<1>7. ASSUME NEW m \in 1..c, NEW n \in 1..c, m < n
      PROVE  Len(u[m].data) <= Len(u[n].data)
  <2>1. m \in DOMAIN a_extras /\ n \in DOMAIN a_extras /\ n <= UseAutoExtras
    BY <1>1, <1>2, DictAssumption
  <2>2. Len(a_extras[m].data) <= Len(a_extras[n].data)
    BY <1>7, <2>1 DEF Dicts, BySize
  <2> QED
    BY <1>4, <2>2
<1>8. UsedAutos = u
  BY DEF UsedAutos, u, c
<1> QED
  BY <1>4, <1>6, <1>7, <1>8

(* A step over one offset at which the buffer is put back.                 *)
LEMMA Passed ==
  ASSUME Kept, stage # "over", pos' = pos + 1, UNCHANGED <<stage, in_buf>>,
         out_buf' = in_buf, Dicts'
  PROVE  Kept'
BY DEF Kept, Restored

LEMMA FlipKept ==
  ASSUME Kept, Flip1 \/ Flip2 \/ Flip4 \/ Flip8 \/ Flip16 \/ Flip32 PROVE Kept'
<1>1. PICK s \in Flips :
        /\ stage = s /\ UNCHANGED mode /\ pos' = pos + 1 /\ UNCHANGED stage
        /\ out_buf' = FlipAt(FlipTries(out_buf, s, pos)[1].buf, s, pos)
        /\ UNCHANGED a_extras \/ \E cksum, byte : Collect(cksum, byte)
  <2> USE DEF At, Through, Flips, BitWalk, ByteWalk
  <2>1. CASE Flip1
    BY <2>1 DEF Flip1
  <2>2. CASE Flip2 \/ Flip4
    BY <2>2 DEF Flip2, Flip4, FlipMore
  <2>3. CASE Flip8
    BY <2>3 DEF Flip8
  <2>4. CASE Flip16 \/ Flip32
    BY <2>4 DEF Flip16, Flip32, FlipWord
  <2> QED
    BY <2>1, <2>2, <2>3, <2>4
<1>2. stage # "over"
  BY <1>1 DEF Flips, BitWalk, ByteWalk
<1>3. Dicts /\ UNCHANGED extras /\ UNCHANGED in_buf
  BY <1>1 DEF Kept, mode
<1>4. Dicts'
  BY <1>1, <1>3, CollectedTokens, DictsUnchanged
<1>5. out_buf' = in_buf
  BY <1>1, <1>2, FlipTakenBack
<1> QED
  BY <1>1, <1>2, <1>3, <1>4, <1>5, Passed

LEMMA WordKept ==
  ASSUME Kept, Arith8 \/ Arith16 \/ Arith32 \/ Int8 \/ Int16 \/ Int32 PROVE Kept'
<1>1. PICK s, T :
        /\ s \in DOMAIN Arith \cup DOMAIN Interest
        /\ At({s}) /\ ChangeWord(s, T)
        /\ s \in DOMAIN Arith => T = ArithTries(out_buf, s, pos)
        /\ s \in DOMAIN Interest => T = InterestTries(out_buf, s, pos)
  <2> USE DEF ArithStage, InterestStage, Arith, Interest
  <2>1. CASE Arith8
    BY <2>1 DEF Arith8
  <2>2. CASE Arith16
    BY <2>2 DEF Arith16
  <2>3. CASE Arith32
    BY <2>3 DEF Arith32
  <2>4. CASE Int8
    BY <2>4 DEF Int8
  <2>5. CASE Int16
    BY <2>5 DEF Int16
  <2>6. CASE Int32
    BY <2>6 DEF Int32
  <2> QED
    BY <2>1, <2>2, <2>3, <2>4, <2>5, <2>6
<1>2. stage = s /\ pos < Offsets(s) /\ s \notin {"over", "ext_UI"} /\ s \notin DOMAIN BitWalk
  BY <1>1 DEF At, Arith, Interest, BitWalk
<1>3. /\ PerOffset(s) \in Nat /\ Width(s) \in Nat /\ DOMAIN T = 1..PerOffset(s)
      /\ \A n \in 1..PerOffset(s) : \E v : T[n].buf = Put(out_buf, pos, Width(s), v)
  BY <1>1, ArithPuts, InterestPuts
<1>4. pos \in Nat /\ len \in Nat /\ pos + Width(s) <= len
  <2>1. Offsets(s) = len - (Width(s) - 1)
    BY <1>2 DEF Offsets
  <2>2. pos \in Nat /\ len \in Nat
    BY <1>2, InputBytes DEF Kept
  <2> QED
    BY <1>2, <1>3, <2>1, <2>2
<1>5. /\ out_buf' = Copy(LeftBy(T), pos, SubSeq(out_buf, pos + 1, pos + Width(s)), Width(s))
      /\ pos' = pos + 1 /\ UNCHANGED stage /\ UNCHANGED <<a_extras, extras, in_buf>>
  BY <1>1 DEF ChangeWord, Through, mode, LeftBy
<1>6. out_buf' = in_buf
  <2> DEFINE w == Width(s)
             N == PerOffset(s)
  <2>1. /\ stage # "over" /\ w \in Nat /\ N \in Nat /\ pos + w <= len /\ DOMAIN T = 1..N
        /\ \A n \in 1..N : \E v : T[n].buf = Put(out_buf, pos, w, v)
    BY <1>2, <1>3, <1>4
  <2>2. Copy(LeftBy(T), pos, SubSeq(out_buf, pos + 1, pos + w), w) = in_buf
    <3> HIDE DEF w, N
    <3> QED
      BY <2>1, WordTakenBack
  <2> QED
    BY <1>5, <2>2
<1>7. Dicts'
  BY <1>5, DictsUnchanged DEF Kept
<1> QED
  BY <1>2, <1>5, <1>6, <1>7, Passed

LEMMA TokenKept == ASSUME Kept, UserExtras \/ AutoExtras PROVE Kept'
<1>1. PICK toks, drop :
        /\ Overwrite(toks, drop) /\ stage \in {"ext_UO", "ext_AO"} /\ pos < Offsets(stage)
        /\ Len(toks) \in Nat /\ \A n \in 1..Len(toks) : Len(toks[n]) \in Nat
        /\ \A m, n \in 1..Len(toks) : m < n => Len(toks[m]) <= Len(toks[n])
  <2>1. CASE UserExtras
    <3>1. PICK drop : Overwrite(Data(extras), drop)
      BY <2>1 DEF UserExtras
    <3>2. stage = "ext_UO" /\ pos < Offsets(stage)
      BY <2>1 DEF UserExtras, At
    <3>3. Tokens(extras)
      BY DEF Kept, Dicts
    <3>4. /\ Len(Data(extras)) = Len(extras) /\ Len(extras) \in Nat
          /\ DOMAIN extras = 1..Len(extras)
          /\ \A n \in 1..Len(extras) : /\ Data(extras)[n] = extras[n].data
                                       /\ Len(Data(extras)[n]) \in Nat
      BY <3>3, DataTokens
    <3>5. \A m, n \in 1..Len(extras) :
            m < n => Len(Data(extras)[m]) <= Len(Data(extras)[n])
      BY <3>4 DEF Kept, Dicts
    <3> QED
      BY <3>1, <3>2, <3>4, <3>5
  <2>2. CASE AutoExtras
    <3>1. Overwrite(Data(UsedAutos), {})
      BY <2>2 DEF AutoExtras
    <3>2. stage = "ext_AO" /\ pos < Offsets(stage)
      BY <2>2 DEF AutoExtras, At
    <3>3. /\ Tokens(UsedAutos)
          /\ \A m, n \in 1..Len(UsedAutos) :
               m < n => Len(UsedAutos[m].data) <= Len(UsedAutos[n].data)
      BY UsedTokens DEF Kept
    <3>4. /\ Len(Data(UsedAutos)) = Len(UsedAutos) /\ Len(UsedAutos) \in Nat
          /\ \A n \in 1..Len(UsedAutos) : /\ Data(UsedAutos)[n] = UsedAutos[n].data
                                          /\ Len(Data(UsedAutos)[n]) \in Nat
      BY <3>3, DataTokens
    <3>5. \A m, n \in 1..Len(UsedAutos) :
            m < n => Len(Data(UsedAutos)[m]) <= Len(Data(UsedAutos)[n])
      BY <3>3, <3>4
    <3> QED
      BY <3>1, <3>2, <3>4, <3>5
  <2> QED
    BY <2>1, <2>2
<1>2. stage # "over"
  BY <1>1
<1>3. pos \in Nat /\ in_buf \in Seq(Int) /\ out_buf = in_buf /\ len \in Nat
  BY <1>2, InputBytes DEF Kept
<1>4. pos <= len
  <2>1. Offsets(stage) = len - (1 - 1)
    BY <1>1 DEF Offsets, Width, BitWalk, ByteWalk, Arith, Interest
  <2> QED
    BY <1>1, <1>3, <2>1
<1> DEFINE X == ExtraTries(out_buf, pos, toks, drop)
<1>5. /\ out_buf' = Copy(X.buf, pos, SubSeq(in_buf, pos + 1, len), X.last_len)
      /\ pos' = pos + 1 /\ UNCHANGED stage /\ UNCHANGED <<a_extras, extras, in_buf>>
  BY <1>1 DEF Overwrite, Through, mode
<1>6. X = ExtraTries(in_buf, pos, toks, drop)
  BY <1>3
<1>7. out_buf' = in_buf
  <2> HIDE DEF X
  <2>1. Copy(X.buf, pos, SubSeq(in_buf, pos + 1, len), X.last_len) = in_buf
    BY <1>1, <1>3, <1>4, <1>6, TokensTakenBack
  <2> QED
    BY <1>5, <2>1
<1>8. Dicts'
  BY <1>5, DictsUnchanged DEF Kept
<1> QED
  BY <1>2, <1>5, <1>7, <1>8, Passed

LEMMA DKept == ASSUME Kept, DNext PROVE Kept'
<1>1. CASE NextStage
  <2>1. /\ stage # "over" /\ pos' = 0
        /\ UNCHANGED <<in_buf, out_buf, extras, a_extras>>
    BY <1>1 DEF NextStage, mode, Outside
  <2> QED
    BY <2>1 DEF Kept, Restored, Dicts
<1>2. CASE PassOver \/ Insert
  <2>1. /\ stage # "over" /\ pos' = pos + 1
        /\ UNCHANGED <<stage, in_buf, out_buf, extras, a_extras>>
    BY <1>2 DEF PassOver, Insert, Through, At, Gated, Arith, Interest, mode
  <2>2. Dicts'
    BY <2>1, DictsUnchanged DEF Kept
  <2> QED
    BY <2>1, <2>2, Passed DEF Kept, Restored
<1> QED
  BY <1>1, <1>2, FlipKept, WordKept, TokenKept DEF DNext

LEMMA KeptInit == ASSUME Init PROVE Kept
<1>1. DInit
  BY DEF Init
<1>2. Tokens(<<>>) /\ \A m, n \in DOMAIN <<>> : FALSE
  BY DEF Tokens
<1>3. /\ Tokens(extras)
      /\ \A m, n \in DOMAIN extras : m < n => Len(extras[m].data) <= Len(extras[n].data)
  <2>1. CASE extras = <<>>
    BY <1>2, <2>1
  <2>2. CASE extras \in load_extras(ExtraFiles)
    BY <2>2, LoadedExtras
  <2> QED
    BY <1>1, <2>1, <2>2 DEF DInit
<1>4. Tokens(a_extras) /\ BySize(a_extras)
  BY <1>1, LoadedAutos DEF DInit
<1> QED
  BY <1>1, <1>3, <1>4 DEF DInit, Kept, Restored, Dicts

LEMMA KeptNext == ASSUME Kept, [Next]_vars PROVE Kept'
<1>1. CASE SkipDeterministic \/ DetDone
  <2>1. Forget
    BY <1>1 DEF SkipDeterministic, DetDone
  <2> QED
    BY <2>1 DEF Forget, Kept, Restored, Dicts, Tokens, BySize
<1>2. CASE DetAbandoned
  <2>1. /\ stage # "over" /\ pos' = 0 /\ out_buf' = in_buf
        /\ UNCHANGED <<in_buf, extras, a_extras>>
    BY <1>2 DEF DetAbandoned, Bail, mode, Outside
  <2> QED
    BY <2>1 DEF Kept, Restored, Dicts
<1>3. CASE step = "off" /\ DNext /\ UNCHANGED hvars
  BY <1>3, DKept
<1>4. CASE UNCHANGED dvars
  BY <1>4 DEF Kept, Restored, Dicts, dvars
<1> QED
  BY <1>1, <1>2, <1>3, <1>4 DEF Next, vars

(* Every execution of every stage starts from the input: FLIP_BIT made     *)
(* once more, the saved word, and the bytes of the last token, which is    *)
(* the longest since both dictionaries are sorted by size where they are   *)
(* used, take back what was done, for every input and all dictionaries.    *)
THEOREM EveryStageTakesBack == Spec => []StartsFromInput
<1>1. Kept => Restored
  BY DEF Kept
<1>2. Spec => []Kept
  BY KeptInit, KeptNext, PTL DEF Spec
<1>3. Restored /\ StartsClean => StartsFromInput
  BY DEF StartsFromInput
<1> QED
  BY <1>1, <1>2, <1>3, ChainsStartClean, PTL

-----------------------------------------------------------------------------
(***************************************************************************)
(* The progress counters                                                   *)
(***************************************************************************)
Words == DOMAIN Arith \cup DOMAIN Interest
Stages == Flips \cup Words \cup {"ext_UO", "ext_UI", "ext_AO"}

(* What is left of stage_max is what the offsets ahead will count.         *)
Counted ==
  /\ stage_cur \in Int /\ stage_max \in Int /\ stage \in Stages \cup Outside
  /\ stage \in Stages =>
       /\ pos <= Offsets(stage)
       /\ stage_max - stage_cur = PerOffset(stage) * (Offsets(stage) - pos)

LEMMA StageNames ==
  /\ Flips = {"flip1", "flip2", "flip4", "flip8", "flip16", "flip32"}
  /\ DOMAIN Arith = {"arith8", "arith16", "arith32"}
  /\ DOMAIN Interest = {"int8", "int16", "int32"}
  /\ Stages \cap Outside = {}
<1>1. DOMAIN BitWalk = {"flip1", "flip2", "flip4"}
  BY DEF BitWalk
<1>2. DOMAIN ByteWalk = {"flip8", "flip16", "flip32"}
  BY DEF ByteWalk
<1>3. Flips = {"flip1", "flip2", "flip4", "flip8", "flip16", "flip32"}
  BY <1>1, <1>2 DEF Flips
<1>4. DOMAIN Arith = {"arith8", "arith16", "arith32"}
  BY DEF Arith
<1>5. DOMAIN Interest = {"int8", "int16", "int32"}
  BY DEF Interest
<1>6. Stages \cap Outside = {}
  BY <1>3, <1>4, <1>5 DEF Stages, Words, Outside
<1> QED
  BY <1>3, <1>4, <1>5, <1>6

LEMMA FlipCounts == ASSUME NEW s \in Flips PROVE PerOffset(s) = 1
BY StageNames DEF PerOffset

LEMMA PerOffsetTyped ==
  ASSUME Dicts, NEW s \in Stages PROVE PerOffset(s) \in Nat
<1>1. CASE s \in Flips
  BY <1>1, FlipCounts
<1>2. CASE s \in DOMAIN Arith
  BY <1>2, ArithPuts
<1>3. CASE s \in DOMAIN Interest
  BY <1>3, InterestPuts
<1>4. CASE s \in {"ext_UO", "ext_UI", "ext_AO"}
  <2>1. Len(extras) \in Nat
    BY DEF Dicts, Tokens
  <2>2. Len(UsedAutos) \in Nat
    BY UsedTokens DEF Tokens
  <2> QED
    BY <1>4, <2>1, <2>2 DEF PerOffset
<1> QED
  BY <1>1, <1>2, <1>3, <1>4 DEF Stages, Words

LEMMA Widths ==
  ASSUME NEW s \in Stages
  PROVE  /\ s \in {"flip8", "arith8", "int8", "ext_UO", "ext_AO"} => Width(s) = 1
         /\ s \in {"flip16", "arith16", "int16"} => Width(s) = 2
         /\ s \in {"flip32", "arith32", "int32"} => Width(s) = 4
<1>1. DOMAIN ByteWalk = {"flip8", "flip16", "flip32"}
  BY DEF ByteWalk
<1>2. CASE s \in DOMAIN ByteWalk
  <2>1. Width(s) = ByteWalk[s]
    BY <1>1, <1>2, StageNames DEF Width
  <2> QED
    BY <1>1, <1>2, <2>1 DEF ByteWalk
<1>3. CASE s \in DOMAIN Arith
  <2>1. Width(s) = Arith[s]
    BY <1>1, <1>3, StageNames DEF Width
  <2> QED
    BY <1>3, <2>1, StageNames DEF Arith
<1>4. CASE s \in DOMAIN Interest
  <2>1. Width(s) = Interest[s]
    BY <1>1, <1>4, StageNames DEF Width
  <2> QED
    BY <1>4, <2>1, StageNames DEF Interest
<1>5. CASE s \notin DOMAIN ByteWalk \cup DOMAIN Arith \cup DOMAIN Interest
  <2>1. Width(s) = 1
    BY <1>5 DEF Width
  <2> QED
    BY <1>1, <1>5, <2>1, StageNames
<1> QED
  BY <1>2, <1>3, <1>4, <1>5

(* How many offsets a stage has, given the length it asks for.             *)
LEMMA OffsetsTyped ==
  ASSUME len \in Nat \ {0}, NEW s \in Stages
  PROVE  /\ Offsets(s) \in Int
         /\ s \in {"flip16", "arith16", "int16"} /\ Offsets(s) < 0 => len < 2
         /\ s \in {"flip32", "arith32", "int32"} /\ Offsets(s) < 0 => len < 4
         /\ s \notin {"flip16", "arith16", "int16", "flip32", "arith32", "int32"}
              => Offsets(s) \in Nat
<1>1. DOMAIN BitWalk = {"flip1", "flip2", "flip4"}
  BY DEF BitWalk
<1>2. CASE s \in DOMAIN BitWalk
  <2>1. BitWalk[s] \in {1, 2, 4}
    BY <1>2 DEF BitWalk
  <2>2. Offsets(s) = ByteBits * len - (BitWalk[s] - 1)
    BY <1>2 DEF Offsets
  <2>3. ByteBits * len \in Nat /\ ByteBits * len >= 4
    <3>1. /\ 4 * len \in Nat /\ 4 * len >= 4 /\ 5 * len \in Nat /\ 5 * len >= 4
          /\ 6 * len \in Nat /\ 6 * len >= 4 /\ 7 * len \in Nat /\ 7 * len >= 4
          /\ 8 * len \in Nat /\ 8 * len >= 4
      OBVIOUS
    <3>2. ByteBits \in {4, 5, 6, 7, 8}
      BY BytesAssumption
    <3> QED
      BY <3>1, <3>2
  <2> QED
    BY <1>1, <1>2, <2>1, <2>2, <2>3
<1>3. CASE s = "ext_UI"
  BY <1>1, <1>3 DEF Offsets
<1>4. CASE s \notin DOMAIN BitWalk /\ s # "ext_UI"
  <2>1. Offsets(s) = len - (Width(s) - 1)
    BY <1>4 DEF Offsets
  <2>2. s \in {"flip8", "arith8", "int8", "ext_UO", "ext_AO", "flip16", "arith16",
               "int16", "flip32", "arith32", "int32"}
    BY <1>1, <1>4, StageNames DEF Stages, Words
  <2> QED
    BY <2>1, <2>2, Widths
<1> QED
  BY <1>2, <1>3, <1>4

LEMMA InputLong ==
  ASSUME Kept, stage # "over" PROVE len \in Nat \ {0}
<1>1. in_buf \in Inputs /\ len \in Nat
  BY InputBytes DEF Kept
<1>2. Len(in_buf) \in 1..MaxFile
  BY <1>1, InputsAssumption
<1> QED
  BY <1>1, <1>2 DEF len

(* No jump reaches a stage that is too wide for the input.                 *)
LEMMA AfterFits ==
  ASSUME Kept, stage \in Stages \cup {"start"}, After(stage) # "done"
  PROVE  After(stage) \in Stages /\ Offsets(After(stage)) \in Nat
<1> DEFINE s == After(stage)
<1>1. len \in Nat \ {0}
  BY InputLong, StageNames DEF Outside
<1>2. stage \in {"start", "flip1", "flip2", "flip4", "flip8", "flip16", "flip32", "arith8",
                 "arith16", "arith32", "int8", "int16", "int32", "ext_UO", "ext_UI", "ext_AO"}
  BY StageNames DEF Stages, Words
<1>3. /\ s \in {"flip1", "flip2", "flip4", "flip8", "flip16", "flip32", "arith8",
                "arith16", "arith32", "int8", "int16", "int32", "ext_UO", "ext_UI", "ext_AO"}
      /\ s \in {"flip16", "arith16", "int16"} => len >= 2
      /\ s \in {"flip32", "arith32", "int32"} => len >= 4
  BY <1>1, <1>2 DEF After, SkipBitflip, SkipExtras, SkipInterest
<1> HIDE DEF s
<1>4. s \in Stages
  BY <1>3, StageNames DEF Stages, Words
<1>5. Offsets(s) \in Int /\ ~(Offsets(s) < 0)
  BY <1>1, <1>3, <1>4, OffsetsTyped
<1>6. Offsets(s) \in Nat
  BY <1>5
<1> QED
  BY <1>4, <1>6 DEF s

LEMMA SameCounts ==
  ASSUME UNCHANGED <<in_buf, extras>>, NEW s, s = "ext_AO" => UNCHANGED a_extras
  PROVE  (Offsets(s))' = Offsets(s) /\ (PerOffset(s))' = PerOffset(s)
<1>1. (Offsets(s))' = Offsets(s)
  BY DEF Offsets, len
<1>2. (PerOffset(s))' = PerOffset(s)
  <2>1. CASE s = "ext_AO"
    BY <2>1 DEF PerOffset, UsedAutos
  <2>2. CASE s # "ext_AO"
    BY <2>2 DEF PerOffset
  <2> QED
    BY <2>1, <2>2
<1> QED
  BY <1>1, <1>2

LEMMA Distribute ==
  ASSUME NEW p \in Nat, NEW n \in Int PROVE p * (n - 1) = p * n - p
OBVIOUS

LEMMA CountedOn ==
  ASSUME Counted, Kept, NEW s \in Stages, stage = s, pos < Offsets(s),
         pos' = pos + 1, stage' = s, UNCHANGED <<in_buf, extras>>,
         s = "ext_AO" => UNCHANGED a_extras,
         stage_cur' \in Int, stage_max' \in Int,
         stage_max' - stage_cur' = (stage_max - stage_cur) - PerOffset(s)
  PROVE  Counted'
<1>1. stage # "over"
  BY StageNames DEF Outside
<1>2. Offsets(s) \in Int /\ PerOffset(s) \in Nat /\ pos \in Nat
  BY <1>1, InputLong, OffsetsTyped, PerOffsetTyped DEF Kept
<1>3. (Offsets(s))' = Offsets(s) /\ (PerOffset(s))' = PerOffset(s)
  BY SameCounts
<1>4. pos' <= Offsets(s)
  BY <1>2
<1> DEFINE n == Offsets(s) - pos
<1>5. n \in Int /\ n - 1 = Offsets(s) - pos'
  BY <1>2
<1>6. stage_max - stage_cur = PerOffset(s) * n
  BY DEF Counted
<1>7. stage_max' - stage_cur' = PerOffset(s) * (n - 1)
  <2>1. PerOffset(s) * (n - 1) = PerOffset(s) * n - PerOffset(s)
    <3> HIDE DEF n
    <3> QED
      BY <1>2, <1>5, Distribute
  <2> QED
    BY <1>6, <2>1
<1>8. stage_max' - stage_cur' = (PerOffset(s))' * ((Offsets(s))' - pos')
  BY <1>3, <1>5, <1>7
<1>9. pos' <= (Offsets(s))'
  BY <1>3, <1>4
<1> QED
  BY <1>8, <1>9 DEF Counted

(* What is not executed is taken off stage_max.                            *)
LEMMA ThroughCounts ==
  ASSUME Counted, NEW N \in Nat, NEW T, DOMAIN T = 1..N, Len(T) = N, NEW b, Through(T, b)
  PROVE  /\ stage_cur' \in Int /\ stage_max' \in Int
         /\ stage_max' - stage_cur' = (stage_max - stage_cur) - N
<1>1. Runs(T) \in SUBSET (1..N)
  BY DEF Runs
<1>2. IsFiniteSet(1..N)
  BY FS_Interval
<1>3. Cardinality(Runs(T)) \in Nat
  BY <1>1, <1>2, FS_Subset, FS_CardinalityType
<1> DEFINE c == Cardinality(Runs(T))
<1>4. stage_cur' = stage_cur + c /\ stage_max' = stage_max - (N - c)
  BY DEF Through
<1> HIDE DEF c
<1>5. c \in Nat /\ stage_cur \in Int /\ stage_max \in Int
  BY <1>3 DEF c, Counted
<1> QED
  BY <1>4, <1>5

LEMMA StageCounted == ASSUME Counted, Kept, NextStage PROVE Counted'
<1>1. PICK s : s = After(stage)
  OBVIOUS
<1>2. /\ stage' = s /\ pos' = 0 /\ stage_cur' = 0
      /\ stage_max' = IF s = "done" THEN 0 ELSE Offsets(s) * PerOffset(s)
      /\ UNCHANGED <<in_buf, extras, a_extras>>
  BY <1>1 DEF NextStage, mode
<1>3. stage \in Stages \cup {"start"}
  BY DEF NextStage, Counted, Outside
<1>4. CASE s = "done"
  <2>1. s \in Outside
    BY <1>4 DEF Outside
  <2>2. s \notin Stages
    BY <2>1, StageNames
  <2> QED
    BY <1>2, <1>4, <2>1, <2>2 DEF Counted
<1>5. CASE s # "done"
  <2>1. s \in Stages /\ Offsets(s) \in Nat
    BY <1>1, <1>3, <1>5, AfterFits
  <2>2. PerOffset(s) \in Nat
    BY <2>1, PerOffsetTyped DEF Kept
  <2>3. (Offsets(s))' = Offsets(s) /\ (PerOffset(s))' = PerOffset(s)
    BY <1>2, SameCounts
  <2>4. /\ stage_max' \in Int /\ stage_cur' \in Int
        /\ stage_max' - stage_cur' = PerOffset(s) * (Offsets(s) - pos')
        /\ pos' <= Offsets(s)
    BY <1>2, <1>5, <2>1, <2>2
  <2> QED
    BY <1>2, <2>1, <2>3, <2>4 DEF Counted
<1> QED
  BY <1>4, <1>5

LEMMA FlipCounted ==
  ASSUME Counted, Kept, Flip1 \/ Flip2 \/ Flip4 \/ Flip8 \/ Flip16 \/ Flip32
  PROVE  Counted'
<1>1. PICK s, b :
        /\ s \in Flips /\ stage = s /\ UNCHANGED mode /\ pos < Offsets(s)
        /\ Through(FlipTries(out_buf, s, pos), b)
  <2> USE DEF At, Flips, BitWalk, ByteWalk
  <2>1. CASE Flip1
    BY <2>1 DEF Flip1
  <2>2. CASE Flip2 \/ Flip4
    BY <2>2 DEF Flip2, Flip4, FlipMore
  <2>3. CASE Flip8
    BY <2>3 DEF Flip8
  <2>4. CASE Flip16 \/ Flip32
    BY <2>4 DEF Flip16, Flip32, FlipWord
  <2> QED
    BY <2>1, <2>2, <2>3, <2>4
<1>2. s \in Stages /\ s # "ext_AO"
  BY <1>1, StageNames DEF Stages
<1>3. pos' = pos + 1 /\ stage' = s /\ UNCHANGED <<in_buf, extras>>
  BY <1>1 DEF Through, mode
<1> DEFINE T == FlipTries(out_buf, s, pos)
<1>4. DOMAIN T = 1..1 /\ Len(T) = 1
  BY DEF FlipTries
<1>5. /\ stage_cur' \in Int /\ stage_max' \in Int
      /\ stage_max' - stage_cur' = (stage_max - stage_cur) - 1
  <2> HIDE DEF T
  <2> QED
    BY <1>1, <1>4, ThroughCounts DEF T
<1> QED
  BY <1>1, <1>2, <1>3, <1>5, FlipCounts, CountedOn

LEMMA WordCounted ==
  ASSUME Counted, Kept, Arith8 \/ Arith16 \/ Arith32 \/ Int8 \/ Int16 \/ Int32
  PROVE  Counted'
<1>1. PICK s, T :
        /\ s \in Words /\ At({s}) /\ ChangeWord(s, T)
        /\ s \in DOMAIN Arith => T = ArithTries(out_buf, s, pos)
        /\ s \in DOMAIN Interest => T = InterestTries(out_buf, s, pos)
  <2> USE DEF ArithStage, InterestStage, Arith, Interest, Words
  <2>1. CASE Arith8
    BY <2>1 DEF Arith8
  <2>2. CASE Arith16
    BY <2>2 DEF Arith16
  <2>3. CASE Arith32
    BY <2>3 DEF Arith32
  <2>4. CASE Int8
    BY <2>4 DEF Int8
  <2>5. CASE Int16
    BY <2>5 DEF Int16
  <2>6. CASE Int32
    BY <2>6 DEF Int32
  <2> QED
    BY <2>1, <2>2, <2>3, <2>4, <2>5, <2>6
<1>2. s \in Stages /\ s # "ext_AO"
  BY <1>1, StageNames DEF Stages, Words
<1>3. /\ stage = s /\ pos < Offsets(s) /\ pos' = pos + 1 /\ stage' = s
      /\ UNCHANGED <<in_buf, extras>>
  BY <1>1 DEF At, ChangeWord, Through, mode
<1> DEFINE N == PerOffset(s)
<1>4. N \in Nat /\ DOMAIN T = 1..N /\ Len(T) = N
  <2>1. CASE s \in DOMAIN Arith
    <3>1. N \in Nat
      BY <2>1, ArithPuts
    <3>2. DOMAIN T = 1..N /\ Len(T) = N
      BY <1>1, <2>1, <3>1 DEF ArithTries
    <3> QED
      BY <3>1, <3>2
  <2>2. CASE s \in DOMAIN Interest
    <3>1. N \in Nat
      BY <2>2, InterestPuts
    <3>2. DOMAIN T = 1..N /\ Len(T) = N
      BY <1>1, <2>2, <3>1 DEF InterestTries
    <3> QED
      BY <3>1, <3>2
  <2> QED
    BY <1>1, <2>1, <2>2 DEF Words
<1>5. \E b : Through(T, b)
  BY <1>1 DEF ChangeWord
<1>6. /\ stage_cur' \in Int /\ stage_max' \in Int
      /\ stage_max' - stage_cur' = (stage_max - stage_cur) - N
  <2> HIDE DEF N
  <2> QED
    BY <1>4, <1>5, ThroughCounts
<1> QED
  BY <1>2, <1>3, <1>6, CountedOn

LEMMA ExtrasCounted ==
  ASSUME Counted, Kept, UserExtras \/ AutoExtras \/ Insert PROVE Counted'
<1>1. PICK s, T, b :
        /\ s \in {"ext_UO", "ext_UI", "ext_AO"} /\ stage = s /\ pos < Offsets(s)
        /\ DOMAIN T = 1..PerOffset(s) /\ Len(T) = PerOffset(s) /\ Through(T, b)
        /\ UNCHANGED <<in_buf, extras, a_extras>>
  <2>0. /\ out_buf = in_buf /\ in_buf \in Seq(Int) /\ pos \in Nat /\ len \in Nat
        \/ stage = "over"
    BY InputBytes DEF Kept
  <2>1. ASSUME NEW s \in {"ext_UO", "ext_AO"}, At({s}), NEW d, Tokens(d),
               PerOffset(s) = Len(d), NEW drop, Overwrite(Data(d), drop),
               \A m, n \in 1..Len(d) : m < n => Len(d[m].data) <= Len(d[n].data)
        PROVE  \E T, b :
                 /\ stage = s /\ pos < Offsets(s)
                 /\ DOMAIN T = 1..PerOffset(s) /\ Len(T) = PerOffset(s) /\ Through(T, b)
                 /\ UNCHANGED <<in_buf, extras, a_extras>>
    <3>1. stage = s /\ pos < Offsets(s) /\ stage # "over"
      BY <2>1 DEF At
    <3>2. pos <= len
      <4>1. Offsets(s) = len - (1 - 1)
        BY DEF Offsets, Width, BitWalk, ByteWalk, Arith, Interest
      <4> QED
        BY <2>0, <3>1, <4>1
    <3> DEFINE toks == Data(d)
               X == ExtraTries(in_buf, pos, toks, drop)
    <3>3. /\ Len(toks) = Len(d) /\ Len(d) \in Nat /\ DOMAIN d = 1..Len(d)
          /\ \A n \in 1..Len(d) : toks[n] = d[n].data /\ Len(toks[n]) \in Nat
      BY <2>1, DataTokens
    <3>4. /\ Len(toks) \in Nat /\ \A n \in 1..Len(toks) : Len(toks[n]) \in Nat
          /\ \A m, n \in 1..Len(toks) : m < n => Len(toks[m]) <= Len(toks[n])
      BY <2>1, <3>3
    <3>5. X.tries \in Seq(Range(X.tries)) /\ Len(X.tries) = Len(toks)
      <4> HIDE DEF toks, X
      <4> QED
        BY <2>0, <3>1, <3>2, <3>4, TokensTakenBack DEF X
    <3>6. \E b : Through(X.tries, b)
      <4>1. \E b : Through(ExtraTries(out_buf, pos, Data(d), drop).tries, b)
        BY <2>1 DEF Overwrite
      <4> QED
        BY <2>0, <3>1, <4>1
    <3>7. UNCHANGED <<in_buf, extras, a_extras>>
      BY <2>1 DEF Overwrite, mode
    <3> HIDE DEF X, toks
    <3>8. DOMAIN X.tries = 1..PerOffset(s) /\ Len(X.tries) = PerOffset(s)
      BY <2>1, <3>3, <3>5
    <3> QED
      BY <3>1, <3>6, <3>7, <3>8
  <2>2. CASE UserExtras
    <3>1. PICK drop : Overwrite(Data(extras), drop)
      BY <2>2 DEF UserExtras
    <3>2. At({"ext_UO"}) /\ PerOffset("ext_UO") = Len(extras)
      BY <2>2 DEF UserExtras, PerOffset
    <3>3. /\ Tokens(extras)
          /\ \A m, n \in 1..Len(extras) :
               m < n => Len(extras[m].data) <= Len(extras[n].data)
      BY DataTokens DEF Kept, Dicts
    <3> QED
      BY <2>1, <3>1, <3>2, <3>3
  <2>3. CASE AutoExtras
    <3>1. Overwrite(Data(UsedAutos), {})
      BY <2>3 DEF AutoExtras
    <3>2. At({"ext_AO"}) /\ PerOffset("ext_AO") = Len(UsedAutos)
      BY <2>3 DEF AutoExtras, PerOffset
    <3>3. /\ Tokens(UsedAutos)
          /\ \A m, n \in 1..Len(UsedAutos) :
               m < n => Len(UsedAutos[m].data) <= Len(UsedAutos[n].data)
      BY UsedTokens DEF Kept
    <3> QED
      BY <2>1, <3>1, <3>2, <3>3
  <2>4. CASE Insert
    <3>1. /\ stage = "ext_UI" /\ pos < Offsets(stage) /\ PerOffset(stage) = Len(extras)
          /\ Through(InsertTries(out_buf, pos, Data(extras)), out_buf)
          /\ UNCHANGED <<in_buf, extras, a_extras>>
      BY <2>4 DEF Insert, At, mode, PerOffset
    <3>2. Len(extras) \in Nat /\ DOMAIN Data(extras) = 1..Len(extras)
      BY DataTokens DEF Kept, Dicts, Data
    <3> DEFINE T == InsertTries(out_buf, pos, Data(extras))
    <3>3. DOMAIN T = 1..Len(extras) /\ Len(T) = Len(extras)
      BY <3>2 DEF InsertTries
    <3> HIDE DEF T
    <3> QED
      BY <3>1, <3>3 DEF T
  <2> QED
    BY <2>2, <2>3, <2>4
<1>2. s \in Stages
  BY <1>1 DEF Stages
<1>3. pos' = pos + 1 /\ stage' = s
  BY <1>1 DEF Through
<1>4. PerOffset(s) \in Nat
  BY <1>2, PerOffsetTyped DEF Kept
<1>5. /\ stage_cur' \in Int /\ stage_max' \in Int
      /\ stage_max' - stage_cur' = (stage_max - stage_cur) - PerOffset(s)
  BY <1>1, <1>4, ThroughCounts
<1> QED
  BY <1>1, <1>2, <1>3, <1>5, CountedOn

LEMMA PassCounted == ASSUME Counted, Kept, PassOver PROVE Counted'
<1>1. /\ stage \in Gated /\ pos < Offsets(stage)
      /\ stage_max' = stage_max - PerOffset(stage) /\ pos' = pos + 1
      /\ UNCHANGED <<stage, stage_cur, in_buf, extras, a_extras>>
  BY DEF PassOver, At, mode
<1>2. PICK s \in Stages : stage = s
  BY <1>1, StageNames DEF Gated, Stages, Words
<1>3. PerOffset(s) \in Nat
  BY PerOffsetTyped DEF Kept
<1>4. /\ stage_cur' \in Int /\ stage_max' \in Int
      /\ stage_max' - stage_cur' = (stage_max - stage_cur) - PerOffset(s)
  BY <1>1, <1>2, <1>3 DEF Counted
<1>5. pos < Offsets(s) /\ stage' = s /\ pos' = pos + 1 /\ UNCHANGED <<in_buf, extras, a_extras>>
  BY <1>1, <1>2
<1> QED
  BY <1>2, <1>4, <1>5, CountedOn

LEMMA CountedNext == ASSUME Counted, Kept, [Next]_vars PROVE Counted'
<1>1. CASE SkipDeterministic \/ DetDone
  <2>1. stage' = "over" /\ stage_cur' = 0 /\ stage_max' = 0
    BY <1>1 DEF SkipDeterministic, DetDone, Forget
  <2> QED
    BY <2>1, StageNames DEF Counted, Outside
<1>2. CASE DetAbandoned
  <2>1. stage' = "abandoned" /\ stage_cur' = 0 /\ stage_max' = 0
    BY <1>2 DEF DetAbandoned, Bail
  <2> QED
    BY <2>1, StageNames DEF Counted, Outside
<1>3. CASE step = "off" /\ DNext /\ UNCHANGED hvars
  BY <1>3, StageCounted, FlipCounted, WordCounted, ExtrasCounted, PassCounted DEF DNext
<1>4. CASE UNCHANGED dvars
  <2>1. UNCHANGED <<stage, pos, stage_cur, stage_max, in_buf, extras, a_extras>>
    BY <1>4 DEF dvars
  <2> QED
    BY <2>1 DEF Counted, Offsets, PerOffset, UsedAutos, len
<1> QED
  BY <1>1, <1>2, <1>3, <1>4 DEF Next, vars

(* At the end of every stage the executions counted are the executions     *)
(* announced: what the flags of the effector map, the could_be_* helpers,  *)
(* the carries, the lengths and the lots rule out was taken off stage_max  *)
(* exactly once.                                                           *)
THEOREM CountersMeet == Spec => []Accounted
<1>1. Init => Counted /\ Kept
  BY KeptInit, StageNames DEF Init, DInit, Counted, Outside
<1>2. Counted /\ Kept /\ [Next]_vars => (Counted /\ Kept)'
  BY CountedNext, KeptNext
<1>3. Counted /\ Kept => Accounted
  <2> SUFFICES ASSUME Counted, Kept, stage \notin Outside, pos >= Offsets(stage)
               PROVE  stage_cur = stage_max
    BY DEF Accounted
  <2>1. stage \in Stages /\ stage # "over"
    BY DEF Counted, Outside
  <2>2. Offsets(stage) \in Int /\ PerOffset(stage) \in Nat /\ pos \in Nat
    BY <2>1, InputLong, OffsetsTyped, PerOffsetTyped DEF Kept
  <2>3. Offsets(stage) - pos = 0
    BY <2>1, <2>2 DEF Counted
  <2>4. stage_max - stage_cur = PerOffset(stage) * 0
    BY <2>1, <2>3 DEF Counted
  <2> QED
    BY <2>2, <2>4 DEF Counted
<1> QED
  BY <1>1, <1>2, <1>3, PTL DEF Spec
=============================================================================
