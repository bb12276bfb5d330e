--------------------------- MODULE WorkdirProofs ----------------------------
(***************************************************************************)
(* The output directory, with whoever looks into it, for every number of   *)
(* test cases and starts: what counts as seen in a crash or a hang was     *)
(* kept, and the dominators in cur_dom_bits/ are those of the queue.  A    *)
(* training set tells levels apart.  What a campaign has found stays in    *)
(* queue/ or _resume/ wherever it is killed, and another fuzzer that       *)
(* synchronises meanwhile overlooks nothing but what the code gives up.    *)
(***************************************************************************)
EXTENDS WorkdirUsers, FiniteSetTheorems, SequenceTheorems, TLAPS

-----------------------------------------------------------------------------
(***************************************************************************)
(* The order of a finite set of numbers                                    *)
(***************************************************************************)
(* How many elements of I come before n.                                   *)
Place(I, n) == Cardinality({k \in I : k < n})

LEMMA PlaceFinite ==
  ASSUME NEW I, IsFiniteSet(I), NEW n
  PROVE  IsFiniteSet({k \in I : k < n}) /\ Place(I, n) \in Nat
<1>1. IsFiniteSet({k \in I : k < n})
  BY FS_Subset
<1> QED
  BY <1>1, FS_CardinalityType DEF Place

LEMMA PlaceSmaller ==
  ASSUME NEW I, IsFiniteSet(I), NEW J, J \subseteq I, NEW n
  PROVE  Place(J, n) <= Place(I, n)
<1>1. {k \in J : k < n} \in SUBSET {k \in I : k < n}
  OBVIOUS
<1>2. IsFiniteSet({k \in I : k < n})
  BY PlaceFinite
<1> QED
  BY <1>1, <1>2, FS_Subset DEF Place

LEMMA UpTo ==
  ASSUME NEW n \in Nat
  PROVE  IsFiniteSet(0..(n - 1)) /\ Cardinality(0..(n - 1)) = n
<1>1. n - 1 \in Int /\ 0 \in Int
  OBVIOUS
<1>2. IsFiniteSet(0..(n - 1))
  BY <1>1, FS_Interval
<1>3. Cardinality(0..(n - 1)) = IF 0 > n - 1 THEN 0 ELSE n - 1 - 0 + 1
  BY <1>1, FS_Interval
<1> QED
  BY <1>2, <1>3

LEMMA PlaceBound ==
  ASSUME NEW I, IsFiniteSet(I), I \subseteq Nat, NEW n \in Nat
  PROVE  Place(I, n) <= n
<1> DEFINE L == {k \in I : k < n}
           R == 0..(n - 1)
<1>1. \A k \in L : k \in R
  OBVIOUS
<1>2. IsFiniteSet(R) /\ Cardinality(R) = n
  BY UpTo
<1>3. Cardinality(L) <= Cardinality(R)
  <2> HIDE DEF L, R
  <2>1. L \subseteq R
    BY <1>1, Zenon
  <2> QED
    BY <1>2, <2>1, FS_Subset
<1> QED
  BY <1>2, <1>3 DEF Place

LEMMA PlaceGrows ==
  ASSUME NEW I, IsFiniteSet(I), I \subseteq Nat, NEW a \in I, NEW b \in Nat, a < b
  PROVE  Place(I, a) < Place(I, b)
<1> DEFINE A == {k \in I : k < a}
           B == {k \in I : k < b}
<1>1. \A k \in I : (k < a => k < b) /\ ~(a < a)
  OBVIOUS
<1>a. A \subseteq B
  BY <1>1, Zenon
<1>b. a \in B /\ a \notin A
  BY <1>1, Zenon
<1>2. A \in SUBSET B /\ a \in B /\ a \notin A
  BY <1>a, <1>b, Zenon
<1>3. IsFiniteSet(B) /\ Place(I, a) \in Nat /\ Place(I, b) \in Nat
  BY PlaceFinite
<1>4. Cardinality(A) <= Cardinality(B) /\ Cardinality(A) # Cardinality(B)
  <2> HIDE DEF A, B
  <2> QED
    BY <1>2, <1>3, FS_Subset DEF B
<1> QED
  BY <1>3, <1>4 DEF Place

(* The places of the elements are exactly the first numbers.               *)
LEMMA PlacesAll ==
  ASSUME NEW I, IsFiniteSet(I), I \subseteq Nat
  PROVE  /\ Cardinality(I) \in Nat
         /\ \A a \in I : Place(I, a) \in 0..(Cardinality(I) - 1)
         /\ \A a, b \in I : Place(I, a) = Place(I, b) => a = b
         /\ \A k \in 0..(Cardinality(I) - 1) : \E a \in I : Place(I, a) = k
<1> DEFINE n == Cardinality(I)
           F == [a \in I |-> Place(I, a)]
<1>1. n \in Nat
  BY FS_CardinalityType
<1>2. \A a \in I : Place(I, a) \in 0..(n - 1)
  <2> SUFFICES ASSUME NEW a \in I PROVE Place(I, a) \in 0..(n - 1)
    OBVIOUS
  <2>1. {k \in I : k < a} \in SUBSET I /\ a \notin {k \in I : k < a}
    OBVIOUS
  <2>2. Place(I, a) <= n /\ Place(I, a) # n
    BY <2>1, FS_Subset DEF Place
  <2>3. Place(I, a) \in Nat
    BY PlaceFinite
  <2> QED
    BY <1>1, <2>2, <2>3
<1>3. \A a, b \in I : Place(I, a) = Place(I, b) => a = b
  <2> SUFFICES ASSUME NEW a \in I, NEW b \in I, Place(I, a) = Place(I, b)
               PROVE  a = b
    OBVIOUS
  <2>1. a \in Nat /\ b \in Nat /\ Place(I, a) \in Nat
    BY PlaceFinite
  <2>2. ~(Place(I, a) < Place(I, b)) /\ ~(Place(I, b) < Place(I, a))
    BY <2>1
  <2>3. ~(a < b)
    BY <2>1, <2>2, PlaceGrows, Zenon
  <2>4. ~(b < a)
    BY <2>1, <2>2, PlaceGrows, Zenon
  <2> QED
    BY <2>1, <2>3, <2>4
<1> HIDE DEF n
<1>4. F \in Injection(I, 0..(n - 1))
  BY <1>2, <1>3 DEF Injection, IsInjective
<1>5. F \in Surjection(I, 0..(n - 1))
  BY <1>1, <1>4, UpTo, FS_Injection DEF n
<1>6. \A k \in 0..(n - 1) : \E a \in I : Place(I, a) = k
  BY <1>5 DEF Surjection
<1> QED
  BY <1>1, <1>2, <1>3, <1>6 DEF n

LEMMA PlaceChosen ==
  ASSUME NEW I, IsFiniteSet(I), I \subseteq Nat, NEW a \in I
  PROVE  (CHOOSE b \in I : Place(I, b) = Place(I, a)) = a
BY PlacesAll

-----------------------------------------------------------------------------
(***************************************************************************)
(* Crashes and hangs                                                       *)
(***************************************************************************)
(* The limits on files are tested before a trace counts as seen, and the   *)
(* names of the files are the counters.                                    *)
KInv == /\ unique_hangs \in Nat /\ unique_crashes \in Nat
        /\ FaultsKept

LEMMA ForgetKept == ASSUME ForgetFaults PROVE KInv'
BY DEF ForgetFaults, KInv, FaultsKept, Saved

LEMMA KeepCrashKept ==
  ASSUME KInv, NEW hit, KeepCrash(hit)
  PROVE  /\ unique_crashes' \in Nat
         /\ Features \ virgin_crash' \subseteq Saved(crashes')
         /\ \A f \in crashes' : f.id \in 0..(unique_crashes' - 1)
         /\ \A f, g \in crashes' : f.id = g.id => f = g
<1> DEFINE new == [id |-> unique_crashes, trace |-> simplify_trace(hit)]
<1>1. /\ virgin_crash' = virgin_crash \ simplify_trace(hit)
      /\ crashes' = crashes \cup {new}
      /\ unique_crashes' = unique_crashes + 1
  BY DEF KeepCrash
<1>2. unique_crashes \in Nat /\ new.id = unique_crashes /\ new.trace = simplify_trace(hit)
  BY DEF KInv
<1> HIDE DEF new
<1>3. Saved(crashes') = Saved(crashes) \cup simplify_trace(hit)
  BY <1>1, <1>2 DEF Saved
<1>4. Features \ virgin_crash' \subseteq Saved(crashes')
  BY <1>1, <1>3 DEF KInv, FaultsKept
<1>5. \A f \in crashes : f.id \in 0..(unique_crashes - 1)
  BY DEF KInv, FaultsKept
<1>6. \A f \in crashes' : f.id \in 0..(unique_crashes' - 1)
  BY <1>1, <1>2, <1>5
<1>7. \A f \in crashes : f.id # new.id
  BY <1>2, <1>5
<1>8. \A f, g \in crashes' : f.id = g.id => f = g
  BY <1>1, <1>7 DEF KInv, FaultsKept
<1> QED
  BY <1>1, <1>2, <1>4, <1>6, <1>8

LEMMA HangKept ==
  ASSUME KInv, NEW hit, Hang(hit), virgin_tmout' = virgin_tmout \ simplify_trace(hit)
  PROVE  /\ unique_hangs' \in Nat
         /\ Features \ virgin_tmout' \subseteq Saved(hangs') \cup refuted'
         /\ \A f \in hangs' : f.id \in 0..(unique_hangs' - 1)
         /\ \A f, g \in hangs' : f.id = g.id => f = g
<1> DEFINE new == [id |-> unique_hangs, trace |-> simplify_trace(hit)]
<1>1. hangs' = hangs \cup {new} /\ unique_hangs' = unique_hangs + 1 /\ refuted' = refuted
  BY DEF Hang
<1>2. unique_hangs \in Nat /\ new.id = unique_hangs /\ new.trace = simplify_trace(hit)
  BY DEF KInv
<1> HIDE DEF new
<1>3. Saved(hangs') = Saved(hangs) \cup simplify_trace(hit)
  BY <1>1, <1>2 DEF Saved
<1>4. Features \ virgin_tmout' \subseteq Saved(hangs') \cup refuted'
  <2>1. Features \ virgin_tmout \subseteq Saved(hangs) \cup refuted
    BY DEF KInv, FaultsKept
  <2> QED
    BY <1>1, <1>3, <2>1
<1>5. \A f \in hangs : f.id \in 0..(unique_hangs - 1)
  BY DEF KInv, FaultsKept
<1>6. \A f \in hangs' : f.id \in 0..(unique_hangs' - 1)
  BY <1>1, <1>2, <1>5
<1>7. \A f \in hangs : f.id # new.id
  BY <1>2, <1>5
<1>8. \A f, g \in hangs' : f.id = g.id => f = g
  BY <1>1, <1>7 DEF KInv, FaultsKept
<1>9. unique_hangs' \in Nat
  BY <1>1, <1>2
<1> QED
  BY <1>4, <1>6, <1>8, <1>9, Zenon

LEMMA FaultNextKept == ASSUME KInv, FaultNext PROVE KInv'
<1>1. PICK hit \in SUBSET FaultEdges : Crash(hit) \/ Timeout(hit)
  BY DEF FaultNext
<1>2. CASE Crash(hit)
  BY <1>2, KeepCrashKept DEF Crash, KInv, FaultsKept
<1>3. CASE Timeout(hit)
  <2>1. virgin_tmout' = virgin_tmout \ simplify_trace(hit) /\ reruns' = reruns
    BY <1>3 DEF Timeout
  <2>2. CASE Hang(hit)
    BY <2>1, <2>2, HangKept DEF Hang, KInv, FaultsKept
  <2>3. CASE /\ reruns
             /\ \/ \E other \in SUBSET FaultEdges : KeepCrash(other)
                \/ UNCHANGED <<virgin_crash, unique_crashes, crashes>>
             /\ UNCHANGED <<unique_hangs, hangs>>
             /\ refuted' = refuted \cup simplify_trace(hit)
    <3>1. /\ reruns' /\ UNCHANGED <<unique_hangs, hangs>>
          /\ Features \ virgin_tmout' \subseteq Saved(hangs') \cup refuted'
      BY <2>1, <2>3 DEF KInv, FaultsKept
    <3>2. CASE UNCHANGED <<virgin_crash, unique_crashes, crashes>>
      BY <3>1, <3>2 DEF KInv, FaultsKept
    <3>3. CASE \E other \in SUBSET FaultEdges : KeepCrash(other)
      BY <3>1, <3>3, KeepCrashKept DEF KInv, FaultsKept
    <3> QED
      BY <2>3, <3>2, <3>3
  <2> QED
    BY <1>3, <2>2, <2>3 DEF Timeout
<1> QED
  BY <1>1, <1>2, <1>3

LEMMA SameKept == ASSUME KInv, UNCHANGED faults PROVE KInv'
BY DEF KInv, FaultsKept, faults

LEMMA KInvNext == ASSUME KInv, [UNext]_uvars PROVE KInv'
<1>1. CASE OwnerStarts
  BY <1>1, SameKept DEF OwnerStarts, Start
<1>2. CASE SaveFault
  BY <1>2, FaultNextKept DEF SaveFault
<1>3. CASE Unlink
  BY <1>3, SameKept, ForgetKept DEF Unlink
<1>4. CASE RenameQueue \/ CleanState \/ MakeQueue \/ MakeRest \/ ReadTestcases
  BY <1>4, SameKept DEF RenameQueue, CleanState, MakeQueue, MakeRest, ReadTestcases
<1>5. CASE BeginCopy \/ Pivot \/ PivotEnd \/ Nuke \/ DryRun \/ DryRunFails \/ Seek
  BY <1>5, SameKept
  DEF BeginCopy, Pivot, PivotEnd, Nuke, DryRun, DryRunFails, DryRunEntry, Seek
<1>6. CASE SaveBits \/ SaveAdd \/ SaveCreate \/ SaveWrite \/ Kill \/ Tidy
           \/ mark_as_det_done \/ WriteStats
  BY <1>6, SameKept
  DEF SaveBits, SaveAdd, SaveCreate, SaveWrite, Kill, Tidy, mark_as_det_done, WriteStats
<1>7. CASE ScanBegin \/ Visit \/ ScanEnd \/ ScanStop \/ TrainList \/ TrainRead
           \/ TrainLeave \/ UNCHANGED uvars
  BY <1>7, SameKept
  DEF ScanBegin, Visit, ScanEnd, ScanStop, TrainList, TrainRead, TrainLeave, uvars, wvars
<1> QED
  BY <1>1, <1>2, <1>3, <1>4, <1>5, <1>6, <1>7 DEF UNext, OwnerSteps

(* Whatever order executions crash, time out and are run again in, over    *)
(* any number of starts and at any limit: every feature that counts as     *)
(* seen in a crash is in a file of crashes/; every feature that counts as  *)
(* seen in a hang is in a file of hangs/ or belongs to a timeout that a    *)
(* second run with the longer limit did not confirm; no file overwrites    *)
(* another.                                                                *)
THEOREM CrashesKept == USpec => []FaultsKept
<1>1. UInit => KInv
  BY DEF UInit, WInit, NoFaults, KInv, FaultsKept, Saved
<1>2. KInv /\ [UNext]_uvars => KInv'
  BY KInvNext
<1>3. KInv => FaultsKept
  BY DEF KInv
<1> QED
  BY <1>1, <1>2, <1>3, PTL DEF USpec

-----------------------------------------------------------------------------
(***************************************************************************)
(* Test cases and their dominators                                         *)
(***************************************************************************)
(* The files of the first n entries of e.                                  *)
Made(e, n) == {File(m - 1, e[m].seed, TRUE) : m \in 1..n}

LEMMA MadeNext ==
  ASSUME NEW e, NEW n \in Nat
  PROVE  Made(e, n + 1) = Made(e, n) \cup {File(n, e[n + 1].seed, TRUE)}
<1>1. 1..(n + 1) = 1..n \cup {n + 1}
  OBVIOUS
<1>2. Made(e, n + 1) = {File(m - 1, e[m].seed, TRUE) : m \in 1..n}
                         \cup {File((n + 1) - 1, e[n + 1].seed, TRUE)}
  BY <1>1 DEF Made
<1>3. (n + 1) - 1 = n
  OBVIOUS
<1> QED
  BY <1>2, <1>3 DEF Made

LEMMA MadeNone == ASSUME NEW e PROVE Made(e, 0) = {}
BY DEF Made

(* Only the seeds count.                                                   *)
LEMMA MadeSame ==
  ASSUME NEW e, NEW d, NEW n \in Nat, \A m \in 1..n : d[m].seed = e[m].seed
  PROVE  Made(d, n) = Made(e, n)
BY DEF Made

LEMMA MadeWhole ==
  ASSUME NEW e, NEW n \in Nat, NEW f \in Made(e, n)
  PROVE  f = File(f.id, f.seed, TRUE)
BY DEF Made, File

LEMMA HalfOutside ==
  ASSUME NEW e, NEW n \in Nat, NEW id, NEW seed
  PROVE  File(id, seed, FALSE) \notin Made(e, n)
<1> SUFFICES ASSUME File(id, seed, FALSE) \in Made(e, n) PROVE FALSE
  OBVIOUS
<1>1. PICK m \in 1..n : File(id, seed, FALSE) = File(m - 1, e[m].seed, TRUE)
  BY DEF Made
<1>2. File(id, seed, FALSE).whole = FALSE /\ File(m - 1, e[m].seed, TRUE).whole = TRUE
  BY DEF File
<1> QED
  BY <1>1, <1>2

LEMMA FilledMade ==
  ASSUME NEW e, NEW n \in Nat
  PROVE  Filled(Made(e, n) \cup {File(n, e[n + 1].seed, FALSE)}) = Made(e, n + 1)
<1> DEFINE half == File(n, e[n + 1].seed, FALSE)
           whole == File(n, e[n + 1].seed, TRUE)
<1>1. File(half.id, half.seed, TRUE) = whole
  BY DEF File
<1>2. \A f \in Made(e, n) : File(f.id, f.seed, TRUE) = f
  BY MadeWhole
<1>3. Made(e, n + 1) = Made(e, n) \cup {whole}
  BY MadeNext
<1> HIDE DEF half, whole
<1>4. Filled(Made(e, n) \cup {half}) = Made(e, n) \cup {whole}
  BY <1>1, <1>2 DEF Filled
<1> QED
  BY <1>3, <1>4 DEF half

Entry(S, I) == [seed : S, id : I, det : BOOLEAN]
Queued == \E S, I : entries \in Seq(Entry(S, I))

Filling == {"pivot", "nuke", "dry", "run", "bits", "added", "created"}

(* Where the start or the saving of an entry is tells what is in queue/    *)
(* and cur_dom_bits/: a start finds neither, or is fatal.                  *)
PInv ==
  /\ IsFiniteSet(queue) /\ IsFiniteSet(resume)
  /\ starts \in Nat /\ (starts = 0 => pc = "down" /\ queue = {})
  /\ Queued /\ nth \in 0..Len(entries)
  /\ "cur_dom_bits" \notin dirs => bits = {}
  /\ pc \in Filling \cup {"read"} => "cur_dom_bits" \in dirs
  /\ pc = "state" => "cur_dom_bits" \notin dirs
  /\ pc \in {"dirs", "state", "read"} => queue = {}
  /\ pc \in {"read", "pivot", "nuke"} => bits = {}
  /\ pc = "nuke" => nth = 0
  /\ pc = "pivot" => \/ queue = Made(entries, nth)
                     \/ Importing /\ queue = Made(entries, nth) \cup {Imported(FALSE)}
  /\ pc \in {"nuke", "dry", "run"} => queue = Made(entries, Len(entries))
  /\ pc = "dry" => bits = Made(entries, nth)
  /\ pc = "run" => bits = Made(entries, Len(entries))
  /\ pc \in {"bits", "added", "created"} => top \in Nat
  /\ pc \in {"bits", "added"} => queue = Made(entries, top)
  /\ pc = "bits" => bits = Made(entries, top)
                             \cup {File(top, entries[Len(entries)].seed, FALSE)}
  /\ pc \in {"added", "created"} => bits = Made(entries, Len(entries))
  /\ pc = "created" => queue = Made(entries, top)
                                \cup {File(top, entries[Len(entries)].seed, FALSE)}

LEMMA MadeFinite ==
  ASSUME NEW e, NEW n \in Nat PROVE IsFiniteSet(Made(e, n))
<1> DEFINE F == [m \in 1..n |-> File(m - 1, e[m].seed, TRUE)]
<1>1. F \in Surjection(1..n, Made(e, n))
  BY DEF Surjection, Made
<1>2. IsFiniteSet(1..n)
  BY FS_Interval
<1> QED
  BY <1>1, <1>2, FS_Surjection

LEMMA EntriesLen == ASSUME Queued PROVE Len(entries) \in Nat /\ DOMAIN entries = 1..Len(entries)
BY DEF Queued

(* What read_testcases returns is a sequence of entries.                   *)
LEMMA FoundQueue ==
  ASSUME IsFiniteSet(resume) PROVE \E S, I : Found \in Seq(Entry(S, I))
<1>1. CASE in_place
  <2> DEFINE W == {g \in resume : g.whole}
             ids == {f.id : f \in W}
             At(id) == CHOOSE f \in resume : f.id = id
             n == Cardinality(ids)
             S == {At(Nth(ids, m)).seed : m \in 1..n}
             I == {Nth(ids, m) : m \in 1..n}
  <2>1. IsFiniteSet(W)
    BY FS_Subset
  <2>2. [f \in W |-> f.id] \in Surjection(W, ids)
    BY DEF Surjection
  <2>3. IsFiniteSet(ids)
    BY <2>1, <2>2, FS_Surjection
  <2>4. n \in Nat
    BY <2>3, FS_CardinalityType
  <2> DEFINE e == [m \in 1..n |-> [seed |-> At(Nth(ids, m)).seed, id |-> Nth(ids, m),
                                   det |-> Nth(ids, m) \in done_r]]
  <2>5. Found = e
    BY <1>1 DEF Found
  <2>6. \A m \in 1..n : At(Nth(ids, m)).seed \in S /\ Nth(ids, m) \in I
    OBVIOUS
  <2>7. \A m \in 1..n : (Nth(ids, m) \in done_r) \in BOOLEAN
    OBVIOUS
  <2> HIDE DEF n, S, I, At, ids
  <2>8. e \in [1..n -> Entry(S, I)]
    BY <2>6, <2>7 DEF Entry
  <2>9. e \in Seq(Entry(S, I))
    BY <2>4, <2>8, SeqDef
  <2> QED
    BY <2>5, <2>9
<1>2. CASE ~in_place
  <2> DEFINE n == Len(FirstSeeds)
             e == [m \in 1..n |-> [seed |-> FirstSeeds[m], id |-> Missing, det |-> FALSE]]
  <2>1. n \in Nat /\ DOMAIN FirstSeeds = 1..n /\ \A m \in 1..n : FirstSeeds[m] \in Seeds
    BY FirstAssumption
  <2>2. Found = e
    BY <1>2, <2>1 DEF Found
  <2> HIDE DEF n
  <2>3. e \in [1..n -> Entry(Seeds, {Missing})]
    BY <2>1 DEF Entry
  <2> HIDE DEF e
  <2>4. e \in Seq(Entry(Seeds, {Missing}))
    BY <2>1, <2>3, SeqDef
  <2> QED
    BY <2>2, <2>4
<1> QED
  BY <1>1, <1>2

LEMMA StartPaired ==
  ASSUME PInv, \/ \E again \in BOOLEAN : Start(again)
               \/ RenameQueue \/ CleanState \/ Unlink \/ MakeQueue \/ MakeRest
  PROVE  PInv'
<1> USE DEF Go, memory, history, Filling
<1>1. CASE \E again \in BOOLEAN : Start(again)
  <2>1. PICK again \in BOOLEAN : Start(again)
    BY <1>1
  <2>2. /\ pc = "down" /\ starts' = starts + 1
        /\ pc' = (IF starts = 0 THEN "dirs" ELSE IF again THEN "rename" ELSE "clean")
        /\ UNCHANGED <<dirs, queue, resume, bits, entries, nth>>
    BY <2>1 DEF Start
  <2>3. starts' \in Nat /\ starts' # 0
    BY <2>2 DEF PInv
  <2> QED
    BY <2>2, <2>3 DEF PInv, Queued
<1>2. CASE RenameQueue
  <2>1. /\ pc = "rename" /\ pc' = "clean" /\ UNCHANGED <<bits, entries, nth, starts>>
        /\ \/ UNCHANGED <<dirs, queue, resume>>
           \/ /\ resume' = queue /\ queue' = {}
              /\ "cur_dom_bits" \in dirs' <=> "cur_dom_bits" \in dirs
    BY <1>2 DEF RenameQueue
  <2>2. IsFiniteSet(queue') /\ IsFiniteSet(resume')
    BY <2>1, FS_EmptySet DEF PInv
  <2> QED
    BY <2>1, <2>2 DEF PInv, Queued
<1>3. CASE CleanState
  <2>1. /\ pc = "clean" /\ pc' = "unlink"
        /\ UNCHANGED <<queue, resume, bits, entries, nth, starts>>
        /\ "cur_dom_bits" \in dirs' <=> "cur_dom_bits" \in dirs
    BY <1>3 DEF CleanState
  <2> QED
    BY <2>1 DEF PInv, Queued
<1>4. CASE Unlink
  <2>1. /\ pc = "unlink" /\ UNCHANGED <<resume, bits, entries, nth, starts>>
        /\ \/ pc' = "unlink" /\ dirs' = dirs /\ \E f \in queue : queue' = queue \ {f}
           \/ /\ queue = {} /\ queue' = queue /\ pc' = "dirs"
              /\ "cur_dom_bits" \in dirs' <=> "cur_dom_bits" \in dirs
    BY <1>4 DEF Unlink, delete_files
  <2>2. IsFiniteSet(queue')
    BY <2>1, FS_RemoveElement DEF PInv
  <2> QED
    BY <2>1, <2>2 DEF PInv, Queued
<1>5. CASE MakeQueue
  <2>1. CASE "cur_dom_bits" \in dirs
    <3>1. /\ pc' = "down" /\ entries' = <<>> /\ nth' = 0 /\ "cur_dom_bits" \in dirs'
          /\ UNCHANGED <<queue, resume, bits, starts>> /\ pc = "dirs"
      BY <1>5, <2>1 DEF MakeQueue, Down
    <3>2. Queued' /\ Len(entries') = 0
      BY <3>1 DEF Queued
    <3> QED
      BY <3>1, <3>2 DEF PInv
  <2>2. CASE "cur_dom_bits" \notin dirs
    <3>1. /\ pc = "dirs" /\ pc' = "state" /\ "cur_dom_bits" \notin dirs'
          /\ UNCHANGED <<queue, resume, bits, starts, entries, nth>>
      BY <1>5, <2>2 DEF MakeQueue
    <3> QED
      BY <2>2, <3>1 DEF PInv, Queued
  <2> QED
    BY <2>1, <2>2
<1>6. CASE MakeRest
  <2>1. /\ pc = "state" /\ pc' = "read" /\ "cur_dom_bits" \in dirs'
        /\ UNCHANGED <<queue, resume, bits, starts, entries, nth>>
    BY <1>6 DEF MakeRest
  <2> QED
    BY <2>1 DEF PInv, Queued
<1> QED
  BY <1>1, <1>2, <1>3, <1>4, <1>5, <1>6

LEMMA ImportPaired ==
  ASSUME PInv, ReadTestcases \/ BeginCopy \/ Pivot \/ PivotEnd \/ Nuke
  PROVE  PInv'
<1> USE DEF Go, memory, history, Filling
<1>1. CASE ReadTestcases
  <2>1. CASE Found = <<>>
    <3>1. /\ pc' = "down" /\ entries' = <<>> /\ nth' = 0 /\ pc = "read"
          /\ UNCHANGED <<dirs, queue, resume, bits, starts>>
      BY <1>1, <2>1 DEF ReadTestcases, Down
    <3>2. Queued' /\ Len(entries') = 0
      BY <3>1 DEF Queued
    <3> QED
      BY <3>1, <3>2 DEF PInv
  <2>2. CASE Found # <<>>
    <3>1. /\ pc = "read" /\ pc' = "pivot" /\ entries' = Found /\ nth' = 0
          /\ UNCHANGED <<dirs, queue, resume, bits, starts>>
      BY <1>1, <2>2 DEF ReadTestcases
    <3>2. Queued'
      BY <3>1, FoundQueue DEF PInv, Queued
    <3>3. Len(entries') \in Nat
      BY <3>2 DEF Queued
    <3>4. queue' = Made(entries', nth')
      BY <3>1, MadeNone DEF PInv
    <3> QED
      BY <3>1, <3>2, <3>3, <3>4 DEF PInv
  <2> QED
    BY <2>1, <2>2
<1>2. CASE BeginCopy
  <2>1. /\ Importing /\ queue' = queue \cup {Imported(FALSE)} /\ Imported(FALSE) \notin queue
        /\ UNCHANGED <<dirs, resume, bits, pc, entries, nth, starts>>
    BY <1>2 DEF BeginCopy
  <2>2. pc = "pivot" /\ queue = Made(entries, nth)
    BY <2>1 DEF PInv, Importing
  <2>3. IsFiniteSet(queue')
    BY <2>1, FS_AddElement DEF PInv
  <2>4. Importing' /\ Imported(FALSE)' = Imported(FALSE)
    BY <2>1 DEF Importing, Imported
  <2>5. queue' = Made(entries', nth') \cup {Imported(FALSE)'}
    BY <2>1, <2>2, <2>4
  <2> QED
    BY <2>1, <2>2, <2>3, <2>4, <2>5 DEF PInv, Queued
<1>3. CASE Pivot
  <2>1. /\ Importing /\ queue' = (queue \ {Imported(FALSE)}) \cup {Imported(TRUE)}
        /\ nth' = nth + 1 /\ UNCHANGED <<dirs, resume, bits, pc, entries, starts>>
    BY <1>3 DEF Pivot
  <2>2. pc = "pivot" /\ nth \in Nat /\ nth < Len(entries) /\ Len(entries) \in Nat
    BY <2>1, EntriesLen DEF PInv, Importing
  <2>3. Imported(FALSE) \notin Made(entries, nth)
    BY <2>2, HalfOutside DEF Imported
  <2>4. queue' = Made(entries, nth) \cup {Imported(TRUE)}
    BY <2>1, <2>2, <2>3 DEF PInv
  <2>5. queue' = Made(entries', nth')
    BY <2>1, <2>2, <2>4, MadeNext DEF Imported
  <2>6. nth' \in Nat /\ nth' \in 0..Len(entries')
    BY <2>1, <2>2
  <2>7. IsFiniteSet(queue')
    BY <2>5, <2>6, MadeFinite
  <2> QED
    BY <2>1, <2>2, <2>5, <2>6, <2>7 DEF PInv, Queued
<1>4. CASE PivotEnd
  <2>1. /\ pc = "pivot" /\ nth = Len(entries) /\ pc' \in {"nuke", "dry"} /\ nth' = 0
        /\ UNCHANGED <<dirs, queue, resume, bits, entries, starts>>
    BY <1>4 DEF PivotEnd
  <2>2. Len(entries) \in Nat
    BY EntriesLen DEF PInv
  <2>3. ~Importing
    BY <2>1, <2>2 DEF Importing
  <2>4. queue' = Made(entries', Len(entries')) /\ bits' = {}
    BY <2>1, <2>3 DEF PInv
  <2>5. bits' = Made(entries', nth') /\ nth' \in 0..Len(entries')
    BY <2>1, <2>2, <2>4, MadeNone
  <2> QED
    BY <2>1, <2>2, <2>4, <2>5 DEF PInv, Queued
<1>5. CASE Nuke
  <2>1. /\ pc = "nuke" /\ pc' \in {"nuke", "dry"}
        /\ "cur_dom_bits" \in dirs' <=> "cur_dom_bits" \in dirs
        /\ \/ resume' = resume
           \/ \E f \in resume : resume' = resume \ {f}
        /\ UNCHANGED <<queue, bits, entries, nth, starts>>
    BY <1>5 DEF Nuke, delete_files
  <2>2. IsFiniteSet(resume')
    BY <2>1, FS_RemoveElement DEF PInv
  <2>3. nth' = 0 /\ bits' = {} /\ bits' = Made(entries', nth')
    BY <2>1, MadeNone DEF PInv
  <2> QED
    BY <2>1, <2>2, <2>3 DEF PInv, Queued
<1> QED
  BY <1>1, <1>2, <1>3, <1>4, <1>5

LEMMA DryPaired ==
  ASSUME PInv, DryRun \/ DryRunFails \/ Seek \/ Kill \/ Tidy
  PROVE  PInv'
<1> USE DEF Go, memory, history, Filling
<1>1. CASE DryRun
  <2>1. /\ pc = "dry" /\ nth < Len(entries)
        /\ bits' = bits \cup {File(nth, entries[nth + 1].seed, TRUE)}
        /\ nth' = nth + 1 /\ UNCHANGED <<dirs, queue, resume, pc, entries, starts>>
    BY <1>1 DEF DryRun, DryRunEntry
  <2>2. nth \in Nat /\ Len(entries) \in Nat /\ bits = Made(entries, nth)
    BY <2>1, EntriesLen DEF PInv
  <2>3. bits' = Made(entries', nth')
    BY <2>1, <2>2, MadeNext
  <2>4. nth' \in 0..Len(entries')
    BY <2>1, <2>2
  <2> QED
    BY <2>1, <2>3, <2>4 DEF PInv, Queued
<1>2. CASE DryRunFails
  <2>1. /\ pc = "dry" /\ pc' = "down" /\ entries' = <<>> /\ nth' = 0
        /\ UNCHANGED <<dirs, queue, resume, starts>>
    BY <1>2 DEF DryRunFails, DryRunEntry, Down
  <2>2. Queued' /\ Len(entries') = 0
    BY <2>1 DEF Queued
  <2> QED
    BY <2>1, <2>2 DEF PInv
<1>3. CASE Seek
  <2>1. /\ pc = "dry" /\ nth = Len(entries) /\ pc' = "run"
        /\ UNCHANGED <<dirs, queue, resume, bits, entries, nth, starts>>
    BY <1>3 DEF Seek
  <2>2. bits' = Made(entries', Len(entries'))
    BY <2>1 DEF PInv
  <2> QED
    BY <2>1, <2>2 DEF PInv, Queued
<1>4. CASE Kill
  <2>1. /\ pc' = "down" /\ entries' = <<>> /\ nth' = 0 /\ pc # "down"
        /\ UNCHANGED <<dirs, queue, resume, bits, starts>>
    BY <1>4 DEF Kill, Down
  <2>2. Queued' /\ Len(entries') = 0
    BY <2>1 DEF Queued
  <2> QED
    BY <2>1, <2>2 DEF PInv
<1>5. CASE Tidy
  <2>1. /\ pc = "down" /\ bits' = {}
        /\ UNCHANGED <<pc, queue, resume, entries, nth, starts>>
    BY <1>5 DEF Tidy
  <2> QED
    BY <2>1 DEF PInv, Queued
<1> QED
  BY <1>1, <1>2, <1>3, <1>4, <1>5

LEMMA SaveBitsPaired == ASSUME PInv, SaveBits PROVE PInv'
<1> DEFINE n == Len(entries)
<1>1. PICK s \in Seeds :
        /\ bits' = bits \cup {File(n, s, FALSE)}
        /\ entries' = Append(entries, [seed |-> s, id |-> n, det |-> FALSE])
  BY DEF SaveBits
<1>2. /\ pc = "run" /\ pc' = "bits"
      /\ UNCHANGED <<dirs, queue, resume, nth, starts>>
  BY DEF SaveBits, Go, history
<1>3. PICK S, I : entries \in Seq(Entry(S, I))
  BY DEF PInv, Queued
<1>4. n \in Nat
  BY <1>3
<1>5. entries' \in Seq(Entry(S \cup {s}, I \cup {n}))
  <2>1. entries \in Seq(Entry(S \cup {s}, I \cup {n}))
    <3>1. Entry(S, I) \subseteq Entry(S \cup {s}, I \cup {n})
      BY DEF Entry
    <3>2. entries \in [1..n -> Entry(S \cup {s}, I \cup {n})]
      <4>1. entries \in [1..n -> Entry(S, I)]
        BY <1>3, LenProperties
      <4> HIDE DEF n
      <4> QED
        BY <3>1, <4>1
    <3> HIDE DEF n
    <3> QED
      BY <1>4, <3>2, SeqDef
  <2>2. [seed |-> s, id |-> n, det |-> FALSE] \in Entry(S \cup {s}, I \cup {n})
    BY DEF Entry
  <2> QED
    BY <1>1, <2>1, <2>2
<1>6. Queued'
  BY <1>5 DEF Queued
<1>7. /\ Len(entries') = n + 1 /\ entries'[n + 1].seed = s
      /\ \A m \in 1..n : entries'[m] = entries[m]
  BY <1>1, <1>3
<1>8. Made(entries', n) = Made(entries, n)
  BY <1>4, <1>7, MadeSame
<1>9. queue = Made(entries, n) /\ bits = Made(entries, n)
  BY <1>2 DEF PInv
<1>10. top' = n
  BY <1>4, <1>7 DEF top
<1>11. queue' = Made(entries', top')
  BY <1>2, <1>8, <1>9, <1>10
<1>12. bits' = Made(entries', top') \cup {File(top', entries'[Len(entries')].seed, FALSE)}
  BY <1>1, <1>7, <1>8, <1>9, <1>10
<1>13. nth' \in 0..Len(entries') /\ top' \in Nat
  BY <1>2, <1>4, <1>7, <1>10 DEF PInv
<1> HIDE DEF n
<1>14. "cur_dom_bits" \in dirs'
  BY <1>2 DEF PInv, Filling
<1> QED
  BY <1>2, <1>6, <1>11, <1>12, <1>13, <1>14 DEF PInv, Filling

LEMMA SavePaired ==
  ASSUME PInv, SaveAdd \/ SaveCreate \/ SaveWrite PROVE PInv'
<1> USE DEF Go, memory, history, Filling
<1>0. Len(entries) \in Nat
  BY EntriesLen DEF PInv
<1>6. top \in Nat
  BY DEF PInv, SaveAdd, SaveCreate, SaveWrite
<1>1. top \in Nat /\ Len(entries) = top + 1
  BY <1>0, <1>6 DEF top
<1>2. Filled(Made(entries, top) \cup {File(top, entries[Len(entries)].seed, FALSE)})
        = Made(entries, Len(entries))
  BY <1>1, FilledMade
<1>3. CASE SaveAdd
  <2>1. /\ pc = "bits" /\ pc' = "added" /\ bits' = Filled(bits)
        /\ UNCHANGED <<dirs, queue, resume, entries, nth, starts>>
    BY <1>3 DEF SaveAdd
  <2>2. bits' = Made(entries', Len(entries')) /\ top' = top
    BY <1>2, <2>1 DEF PInv, top
  <2> QED
    BY <2>1, <2>2 DEF PInv, Queued
<1>4. CASE SaveCreate
  <2>1. /\ pc = "added" /\ pc' = "created"
        /\ queue' = queue \cup {File(top, entries[Len(entries)].seed, FALSE)}
        /\ UNCHANGED <<dirs, bits, resume, entries, nth, starts>>
    BY <1>4 DEF SaveCreate
  <2>2. top' = top
    BY <2>1 DEF top
  <2>3. IsFiniteSet(queue')
    BY <2>1, FS_AddElement DEF PInv
  <2>4. queue' = Made(entries', top')
                   \cup {File(top', entries'[Len(entries')].seed, FALSE)}
    BY <2>1, <2>2 DEF PInv
  <2> QED
    BY <2>1, <2>2, <2>3, <2>4 DEF PInv, Queued
<1>5. CASE SaveWrite
  <2>1. /\ pc = "created" /\ pc' = "run" /\ queue' = Filled(queue)
        /\ UNCHANGED <<dirs, bits, resume, entries, nth, starts>>
    BY <1>5 DEF SaveWrite
  <2>2. queue' = Made(entries', Len(entries'))
    BY <1>2, <2>1 DEF PInv
  <2>3. IsFiniteSet(queue')
    BY <1>1, <2>1, <2>2, MadeFinite
  <2> QED
    BY <2>1, <2>2, <2>3 DEF PInv, Queued
<1> QED
  BY <1>3, <1>4, <1>5

LEMMA DetPaired == ASSUME PInv, mark_as_det_done PROVE PInv'
<1>1. PICK m \in DOMAIN entries : entries' = [entries EXCEPT ![m].det = TRUE]
  BY DEF mark_as_det_done
<1>2. pc = "run" /\ UNCHANGED <<dirs, queue, resume, bits, pc, nth, starts>>
  BY DEF mark_as_det_done, history
<1>3. PICK S, I : entries \in Seq(Entry(S, I))
  BY DEF PInv, Queued
<1> DEFINE n == Len(entries)
           e == [entries[m] EXCEPT !.det = TRUE]
<1>6. n \in Nat /\ entries \in [1..n -> Entry(S, I)]
  BY <1>3, LenProperties
<1> HIDE DEF n
<1>10. m \in 1..n /\ entries[m] \in Entry(S, I)
  BY <1>6
<1>11. e \in Entry(S, I) /\ e.seed = entries[m].seed
  BY <1>10 DEF Entry
<1>12. entries' = [entries EXCEPT ![m] = e]
  BY <1>1
<1> HIDE DEF e
<1>13. entries' \in [1..n -> Entry(S, I)]
  BY <1>6, <1>11, <1>12
<1>4. entries' \in Seq(Entry(S, I)) /\ Len(entries') = Len(entries)
  <2>1. entries' \in Seq(Entry(S, I))
    BY <1>6, <1>13, SeqDef
  <2>2. DOMAIN entries' = 1..n
    BY <1>13
  <2>3. Len(entries') = n
    BY <1>6, <2>1, <2>2, LenProperties
  <2> QED
    BY <2>1, <2>3 DEF n
<1>5. \A k \in 1..n : entries'[k].seed = entries[k].seed
  BY <1>6, <1>11, <1>12
<1>7. Made(entries', Len(entries')) = Made(entries, Len(entries))
  BY <1>4, <1>5, <1>6, MadeSame DEF n
<1>8. Queued'
  BY <1>4 DEF Queued
<1>9. queue' = Made(entries', Len(entries')) /\ bits' = Made(entries', Len(entries'))
  BY <1>2, <1>7 DEF PInv
<1> QED
  BY <1>2, <1>4, <1>8, <1>9 DEF PInv, Filling

LEMMA SamePaired ==
  ASSUME PInv, UNCHANGED <<dirs, queue, resume, bits, pc, entries, nth, starts>>
  PROVE  PInv'
<1>1. Importing' = Importing /\ Imported(FALSE)' = Imported(FALSE) /\ top' = top
  BY DEF Importing, Imported, top
<1> QED
  BY <1>1 DEF PInv, Queued, Filling

LEMMA PInvNext == ASSUME PInv, [UNext]_uvars PROVE PInv'
<1>1. CASE OwnerStarts
  BY <1>1, StartPaired DEF OwnerStarts
<1>2. CASE RenameQueue \/ CleanState \/ Unlink \/ MakeQueue \/ MakeRest
  BY <1>2, StartPaired
<1>3. CASE ReadTestcases \/ BeginCopy \/ Pivot \/ PivotEnd \/ Nuke
  BY <1>3, ImportPaired
<1>4. CASE DryRun \/ DryRunFails \/ Seek \/ Kill \/ Tidy
  BY <1>4, DryPaired
<1>5. CASE SaveBits \/ SaveAdd \/ SaveCreate \/ SaveWrite \/ mark_as_det_done
  BY <1>5, SaveBitsPaired, SavePaired, DetPaired
<1>6. CASE SaveFault \/ WriteStats
  BY <1>6, SamePaired DEF SaveFault, WriteStats, memory, history
<1>7. CASE ScanBegin \/ Visit \/ ScanEnd \/ ScanStop \/ TrainList \/ TrainRead
           \/ TrainLeave \/ UNCHANGED uvars
  BY <1>7, SamePaired
  DEF ScanBegin, Visit, ScanEnd, ScanStop, TrainList, TrainRead, TrainLeave, uvars, wvars
<1> QED
  BY <1>1, <1>2, <1>3, <1>4, <1>5, <1>6, <1>7 DEF UNext, OwnerSteps

LEMMA PInvInit == ASSUME UInit PROVE PInv
<1>1. entries \in Seq(Entry({}, {})) /\ Len(entries) = 0
  BY DEF UInit, WInit
<1>2. Queued
  BY <1>1 DEF Queued
<1> QED
  BY <1>1, <1>2, FS_EmptySet DEF UInit, WInit, PInv, Filling

(* Wherever earlier starts were killed, and whatever they left behind, a   *)
(* fuzzer that runs has in cur_dom_bits/ the dominators of exactly the     *)
(* test cases in queue/, under the same names.                             *)
THEOREM DominatorsPaired == USpec => []Paired
<1>1. UInit => PInv
  BY PInvInit
<1>2. PInv /\ [UNext]_uvars => PInv'
  BY PInvNext
<1>3. PInv => Paired
  BY DEF PInv, Paired
<1> QED
  BY <1>1, <1>2, <1>3, PTL DEF USpec
-----------------------------------------------------------------------------
(***************************************************************************)
(* The training set                                                        *)
(***************************************************************************)
(* A list of samples in the order of init(), none of them twice.           *)
Ordered(q, S) ==
  /\ q \in Seq(S) /\ IsInjective(q)
  /\ \A n \in 1..Len(q) : q[n].level \in Int /\ q[n].branch \in Int
  /\ \A m, n \in 1..Len(q) : m < n => Above(q[m], q[n])

(* Positions that are closed downwards are the first ones.                 *)
LEMMA FirstOnes ==
  ASSUME NEW N \in Nat, NEW D, D \subseteq 1..N,
         \A n \in D : \A m \in 1..N : m < n => m \in D
  PROVE  /\ Cardinality(D) \in 0..N
         /\ D = 1..Cardinality(D)
<1> DEFINE c == Cardinality(D)
<1>1. IsFiniteSet(1..N) /\ Cardinality(1..N) = N
  <2>1. \A a, b \in Int : IsFiniteSet(a..b)
                          /\ Cardinality(a..b) = IF a > b THEN 0 ELSE b - a + 1
    BY FS_Interval
  <2>2. IsFiniteSet(1..N) /\ Cardinality(1..N) = IF 1 > N THEN 0 ELSE N - 1 + 1
    BY <2>1
  <2> QED
    BY <2>2
<1>2. D \in SUBSET (1..N)
  OBVIOUS
<1>3. IsFiniteSet(D) /\ c <= N
  BY <1>1, <1>2, FS_Subset
<1>4. c \in Nat
  BY <1>3, FS_CardinalityType
<1>5. D \subseteq 1..c
  <2> SUFFICES ASSUME NEW n \in D PROVE n \in 1..c
    OBVIOUS
  <2>1. n \in 1..N
    OBVIOUS
  <2>2. \A m \in 1..n : m \in D
    BY <2>1
  <2>3. (1..n) \in SUBSET D
    BY <2>2
  <2>4. Cardinality(1..n) = n
    <3>1. 1 \in Int /\ n \in Int /\ n >= 1
      BY <2>1
    <3>2. Cardinality(1..n) = IF 1 > n THEN 0 ELSE n - 1 + 1
      BY <3>1, FS_Interval
    <3> QED
      BY <3>1, <3>2
  <2>5. Cardinality(1..n) <= c
    BY <1>3, <2>3, FS_Subset
  <2> QED
    BY <1>4, <2>1, <2>4, <2>5
<1>6. IsFiniteSet(1..c) /\ Cardinality(1..c) = c
  <2>1. 1 \in Int /\ c \in Int
    BY <1>4
  <2>2. IsFiniteSet(1..c) /\ Cardinality(1..c) = IF 1 > c THEN 0 ELSE c - 1 + 1
    BY <2>1, FS_Interval
  <2> QED
    BY <1>4, <2>2
<1>7. D = 1..c
  <2>1. D \in SUBSET (1..c)
    BY <1>5
  <2> QED
    BY <1>6, <2>1, FS_Subset
<1> QED
  BY <1>3, <1>4, <1>7

(* The samples above a level come first.                                   *)
LEMMA AheadFirst ==
  ASSUME NEW S, NEW q, Ordered(q, S), NEW l \in Int
  PROVE  /\ Len(q) \in Nat /\ Ahead(q, l) \in 0..Len(q)
         /\ \A n \in 1..Len(q) : q[n].level > l <=> n <= Ahead(q, l)
<1> DEFINE N == Len(q)
           D == {n \in DOMAIN q : q[n].level > l}
<1>1. N \in Nat /\ DOMAIN q = 1..N
  BY DEF Ordered
<1>2. D \subseteq 1..N
  BY <1>1
<1>3. \A n \in D : \A m \in 1..N : m < n => m \in D
  BY <1>1 DEF Ordered, Above
<1>4. Cardinality(D) \in 0..N /\ D = 1..Cardinality(D)
  <2> HIDE DEF D
  <2> QED
    BY <1>1, <1>2, <1>3, FirstOnes
<1>5. \A n \in 1..N : n \in D <=> n <= Cardinality(D)
  BY <1>4
<1>6. \A n \in 1..N : q[n].level > l <=> n <= Cardinality(D)
  BY <1>1, <1>5
<1> QED
  BY <1>1, <1>4, <1>6 DEF Ahead

LEMMA PieceOrdered ==
  ASSUME NEW S, NEW q, Ordered(q, S), NEW a \in Nat \ {0}, NEW b \in Nat, b <= Len(q)
  PROVE  /\ Ordered(SubSeq(q, a, b), S)
         /\ Len(SubSeq(q, a, b)) = IF a <= b THEN b - a + 1 ELSE 0
         /\ \A k \in 1..Len(SubSeq(q, a, b)) :
              a + k - 1 \in 1..Len(q) /\ SubSeq(q, a, b)[k] = q[a + k - 1]
<1> DEFINE p == SubSeq(q, a, b)
<1>1. Len(q) \in Nat /\ DOMAIN q = 1..Len(q) /\ a \in Int /\ b \in Int
  BY DEF Ordered
<1>2. \A i \in a..b : q[i] \in S
  BY <1>1 DEF Ordered
<1>3. /\ p \in Seq(S)
      /\ Len(p) = IF a <= b THEN b - a + 1 ELSE 0
      /\ \A k \in 1..(b - a + 1) : p[k] = q[a + k - 1]
  BY <1>1, <1>2, SubSeqProperties
<1> HIDE DEF p
<1>4. Len(p) \in Nat /\ DOMAIN p = 1..Len(p)
  BY <1>3
<1>5. \A k \in 1..Len(p) : a + k - 1 \in 1..Len(q) /\ p[k] = q[a + k - 1]
  BY <1>1, <1>3, <1>4
<1>6. IsInjective(p)
  <2> SUFFICES ASSUME NEW i \in 1..Len(p), NEW j \in 1..Len(p), p[i] = p[j]
               PROVE  i = j
    BY <1>4 DEF IsInjective
  <2>1. q[a + i - 1] = q[a + j - 1] /\ a + i - 1 \in DOMAIN q /\ a + j - 1 \in DOMAIN q
    BY <1>1, <1>5
  <2>2. a + i - 1 = a + j - 1
    BY <2>1 DEF Ordered, IsInjective
  <2> QED
    BY <2>2, <1>4
<1>7. \A n \in 1..Len(p) : p[n].level \in Int /\ p[n].branch \in Int
  BY <1>5 DEF Ordered
<1>8. \A m, n \in 1..Len(p) : m < n => Above(p[m], p[n])
  <2> SUFFICES ASSUME NEW m \in 1..Len(p), NEW n \in 1..Len(p), m < n
               PROVE  Above(p[m], p[n])
    OBVIOUS
  <2>1. a + m - 1 < a + n - 1
    BY <1>4
  <2> QED
    BY <2>1, <1>5 DEF Ordered
<1> QED
  BY <1>3, <1>5, <1>6, <1>7, <1>8 DEF Ordered, p

LEMMA PrefixOrdered ==
  ASSUME NEW S, NEW q \in Seq(S), IsInjective(q), NEW n \in Nat
  PROVE  /\ Prefix(q, n) \in Seq(S) /\ IsInjective(Prefix(q, n))
         /\ Len(Prefix(q, n)) = IF n < Len(q) THEN n ELSE Len(q)
         /\ \A k \in 1..Len(Prefix(q, n)) : Prefix(q, n)[k] = q[k]
<1> DEFINE b == IF n < Len(q) THEN n ELSE Len(q)
           p == SubSeq(q, 1, b)
<1>1. Len(q) \in Nat /\ DOMAIN q = 1..Len(q) /\ b \in Nat /\ b <= Len(q)
  OBVIOUS
<1> HIDE DEF b
<1>2. 1 \in Int /\ b \in Int /\ \A i \in 1..b : q[i] \in S
  BY <1>1
<1>3. /\ p \in Seq(S)
      /\ Len(p) = IF 1 <= b THEN b - 1 + 1 ELSE 0
      /\ \A k \in 1..(b - 1 + 1) : p[k] = q[1 + k - 1]
  BY <1>2, SubSeqProperties
<1> HIDE DEF p
<1>4. Len(p) = b /\ DOMAIN p = 1..b
  BY <1>1, <1>3
<1>5. \A k \in 1..b : p[k] = q[k] /\ k \in DOMAIN q
  BY <1>1, <1>3
<1>6. IsInjective(p)
  BY <1>4, <1>5 DEF IsInjective
<1> QED
  BY <1>3, <1>4, <1>5, <1>6 DEF Prefix, p, b

LEMMA ConcatOnce ==
  ASSUME NEW S, NEW p \in Seq(S), NEW q \in Seq(S), IsInjective(p), IsInjective(q),
         \A i \in 1..Len(p), j \in 1..Len(q) : p[i] # q[j]
  PROVE  /\ p \o q \in Seq(S) /\ IsInjective(p \o q)
         /\ Len(p \o q) = Len(p) + Len(q)
         /\ \A i \in 1..Len(p) : (p \o q)[i] = p[i]
         /\ \A j \in 1..Len(q) : (p \o q)[Len(p) + j] = q[j]
         /\ \A k \in 1..(Len(p) + Len(q)) :
              \/ k \in 1..Len(p)
              \/ k - Len(p) \in 1..Len(q) /\ (p \o q)[k] = q[k - Len(p)]
<1> DEFINE r == p \o q
<1>1. /\ r \in Seq(S) /\ Len(r) = Len(p) + Len(q)
      /\ \A i \in 1..(Len(p) + Len(q)) :
           r[i] = IF i <= Len(p) THEN p[i] ELSE q[i - Len(p)]
  BY ConcatProperties
<1>2. Len(p) \in Nat /\ Len(q) \in Nat /\ DOMAIN p = 1..Len(p) /\ DOMAIN q = 1..Len(q)
  OBVIOUS
<1> HIDE DEF r
<1>3. DOMAIN r = 1..(Len(p) + Len(q))
  BY <1>1, <1>2
<1>4. \A i \in 1..Len(p) : r[i] = p[i]
  BY <1>1, <1>2
<1>5. \A k \in 1..(Len(p) + Len(q)) :
        \/ k \in 1..Len(p)
        \/ k - Len(p) \in 1..Len(q) /\ r[k] = q[k - Len(p)]
  BY <1>1, <1>2
<1>6. \A j \in 1..Len(q) : r[Len(p) + j] = q[j]
  <2> SUFFICES ASSUME NEW j \in 1..Len(q) PROVE r[Len(p) + j] = q[j]
    OBVIOUS
  <2>1. Len(p) + j \in 1..(Len(p) + Len(q)) /\ ~(Len(p) + j <= Len(p))
        /\ Len(p) + j - Len(p) = j
    BY <1>2
  <2> QED
    BY <1>1, <2>1
<1>7. IsInjective(r)
  <2> SUFFICES ASSUME NEW i \in DOMAIN r, NEW j \in DOMAIN r, r[i] = r[j]
               PROVE  i = j
    BY DEF IsInjective
  <2>1. CASE i \in 1..Len(p) /\ j \in 1..Len(p)
    BY <1>2, <1>4, <2>1 DEF IsInjective
  <2>2. CASE i \notin 1..Len(p) /\ j \notin 1..Len(p)
    <3>1. i - Len(p) = j - Len(p)
      BY <1>2, <1>3, <1>5, <2>2 DEF IsInjective
    <3> QED
      BY <1>2, <1>3, <3>1
  <2>3. CASE i \in 1..Len(p) /\ j \notin 1..Len(p)
    BY <1>3, <1>4, <1>5, <2>3
  <2>4. CASE i \notin 1..Len(p) /\ j \in 1..Len(p)
    BY <1>3, <1>4, <1>5, <2>4
  <2> QED
    BY <2>1, <2>2, <2>3, <2>4
<1> QED
  BY <1>1, <1>4, <1>5, <1>6, <1>7 DEF r

(* A level is a piece of the list, in its order.                           *)
LEMMA LevelPiece ==
  ASSUME NEW S, NEW q, Ordered(q, S), NEW l \in Int
  PROVE  /\ Ordered(AtLevel(q, l), S)
         /\ \A k \in 1..Len(AtLevel(q, l)) : AtLevel(q, l)[k].level = l
         /\ Len(AtLevel(q, l)) = Ahead(q, l - 1) - Ahead(q, l)
         /\ l \in Levels(q) => Len(AtLevel(q, l)) >= 1
<1> DEFINE p == AtLevel(q, l)
           a == Ahead(q, l)
           b == Ahead(q, l - 1)
<1>0. l - 1 \in Int
  OBVIOUS
<1>1. /\ Len(q) \in Nat /\ a \in 0..Len(q)
      /\ \A n \in 1..Len(q) : q[n].level > l <=> n <= a
  BY AheadFirst
<1>2. /\ b \in 0..Len(q)
      /\ \A n \in 1..Len(q) : q[n].level > l - 1 <=> n <= b
  BY <1>0, AheadFirst
<1>3. \A n \in 1..Len(q) : q[n].level \in Int
  BY DEF Ordered
<1>4. p = SubSeq(q, a + 1, b)
  BY DEF AtLevel
<1> HIDE DEF p, a, b
<1>5. a <= b
  <2> SUFFICES ASSUME a > b PROVE FALSE
    BY <1>1, <1>2
  <2>1. a \in 1..Len(q)
    BY <1>1, <1>2
  <2>2. q[a].level > l /\ ~(q[a].level > l - 1)
    BY <1>1, <1>2, <2>1
  <2> QED
    BY <1>3, <2>1, <2>2
<1>6. a + 1 \in Nat \ {0} /\ b \in Nat /\ b <= Len(q)
  BY <1>1, <1>2
<1>7. /\ Ordered(p, S)
      /\ Len(p) = IF a + 1 <= b THEN b - (a + 1) + 1 ELSE 0
      /\ \A k \in 1..Len(p) : a + 1 + k - 1 \in 1..Len(q) /\ p[k] = q[a + 1 + k - 1]
  BY <1>4, <1>6, PieceOrdered
<1>8. Len(p) = b - a
  BY <1>1, <1>2, <1>5, <1>7
<1>9. \A k \in 1..Len(p) : p[k].level = l
  <2> SUFFICES ASSUME NEW k \in 1..Len(p) PROVE p[k].level = l
    OBVIOUS
  <2>1. a + k \in 1..Len(q) /\ ~(a + k <= a) /\ a + k <= b /\ a + 1 + k - 1 = a + k
    BY <1>1, <1>2, <1>5, <1>8
  <2>2. ~(q[a + k].level > l) /\ q[a + k].level > l - 1 /\ p[k] = q[a + k]
    BY <1>1, <1>2, <1>7, <2>1
  <2>3. q[a + k].level \in Int
    BY <1>3, <2>1
  <2> QED
    BY <2>2, <2>3
<1>10. l \in Levels(q) => Len(p) >= 1
  <2> SUFFICES ASSUME l \in Levels(q) PROVE Len(p) >= 1
    OBVIOUS
  <2>1. DOMAIN q = 1..Len(q)
    BY DEF Ordered
  <2>2. PICK n \in 1..Len(q) : q[n].level = l
    BY <2>1 DEF Levels
  <2>3. l > l - 1 /\ ~(l > l)
    OBVIOUS
  <2>4. ~(n <= a) /\ n <= b
    BY <1>1, <1>2, <2>2, <2>3
  <2> QED
    BY <1>1, <1>2, <1>8, <2>4
<1> QED
  BY <1>7, <1>8, <1>9, <1>10 DEF p, a, b

LEMMA BelowPiece ==
  ASSUME NEW S, NEW q, Ordered(q, S), NEW l \in Int
  PROVE  /\ Ordered(Below(q, l), S)
         /\ \A k \in 1..Len(Below(q, l)) : Below(q, l)[k].level \in Int
                                           /\ Below(q, l)[k].level < l
<1> DEFINE p == Below(q, l)
           b == Ahead(q, l - 1)
<1>0. l - 1 \in Int
  OBVIOUS
<1>2. /\ Len(q) \in Nat /\ b \in 0..Len(q)
      /\ \A n \in 1..Len(q) : q[n].level > l - 1 <=> n <= b
  BY <1>0, AheadFirst
<1>3. \A n \in 1..Len(q) : q[n].level \in Int
  BY DEF Ordered
<1>4. p = SubSeq(q, b + 1, Len(q))
  BY DEF Below
<1> HIDE DEF p, b
<1>6. b + 1 \in Nat \ {0} /\ Len(q) <= Len(q)
  BY <1>2
<1>7. /\ Ordered(p, S)
      /\ Len(p) = IF b + 1 <= Len(q) THEN Len(q) - (b + 1) + 1 ELSE 0
      /\ \A k \in 1..Len(p) : b + 1 + k - 1 \in 1..Len(q) /\ p[k] = q[b + 1 + k - 1]
  BY <1>2, <1>4, <1>6, PieceOrdered
<1>9. \A k \in 1..Len(p) : p[k].level \in Int /\ p[k].level < l
  <2> SUFFICES ASSUME NEW k \in 1..Len(p) PROVE p[k].level \in Int /\ p[k].level < l
    OBVIOUS
  <2>1. b + k \in 1..Len(q) /\ ~(b + k <= b) /\ b + 1 + k - 1 = b + k
    BY <1>2, <1>7
  <2>2. ~(q[b + k].level > l - 1) /\ p[k] = q[b + k]
    BY <1>2, <1>7, <2>1
  <2>3. q[b + k].level \in Int
    BY <1>3, <2>1
  <2> QED
    BY <2>2, <2>3
<1> QED
  BY <1>7, <1>9 DEF p, b

LEMMA HighestIs ==
  ASSUME NEW L, L \subseteq Int, NEW l \in L, \A k \in L : k <= l
  PROVE  Highest(L) = l
<1>1. \A m \in L : (\A k \in L : k <= m) => m <= l /\ l <= m
  OBVIOUS
<1>2. \A m \in L : (\A k \in L : k <= m) => m = l
  BY <1>1
<1> QED
  BY <1>2 DEF Highest

(* The first sample has the top level.                                     *)
LEMMA TopLevel ==
  ASSUME NEW S, NEW q, Ordered(q, S), Len(q) >= 1
  PROVE  /\ Levels(q) \subseteq Int
         /\ Highest(Levels(q)) \in Levels(q)
         /\ \A l \in Levels(q) : l <= Highest(Levels(q))
         /\ Ahead(q, Highest(Levels(q))) = 0
<1> DEFINE most == q[1].level
<1>1. Len(q) \in Nat /\ DOMAIN q = 1..Len(q) /\ 1 \in 1..Len(q)
  BY DEF Ordered
<1>2. \A n \in 1..Len(q) : q[n].level \in Int /\ q[n].level <= most
  <2> SUFFICES ASSUME NEW n \in 1..Len(q)
               PROVE  q[n].level \in Int /\ q[n].level <= most
    OBVIOUS
  <2>1. q[n].level \in Int /\ most \in Int
    BY <1>1 DEF Ordered
  <2>2. CASE n = 1
    BY <2>1, <2>2
  <2>3. CASE n # 1
    <3>1. 1 < n
      BY <1>1, <2>3
    <3>2. Above(q[1], q[n])
      BY <1>1, <3>1 DEF Ordered
    <3> QED
      BY <2>1, <3>2 DEF Above
  <2> QED
    BY <2>2, <2>3
<1>3. /\ Levels(q) \subseteq Int /\ most \in Levels(q)
      /\ \A l \in Levels(q) : l <= most
  BY <1>1, <1>2 DEF Levels
<1>4. Highest(Levels(q)) = most
  <2> HIDE DEF most
  <2> QED
    BY <1>3, HighestIs
<1>5. Ahead(q, most) = 0
  <2>1. most \in Int
    BY <1>1, <1>2
  <2>2. Ahead(q, most) \in 0..Len(q) /\ (q[1].level > most <=> 1 <= Ahead(q, most))
    BY <1>1, <2>1, AheadFirst
  <2> QED
    BY <1>1, <2>1, <2>2
<1> QED
  BY <1>3, <1>4, <1>5

(* With more than one level, one comes next.                               *)
LEMMA NextLevel ==
  ASSUME NEW S, NEW q, Ordered(q, S), Len(q) >= 1, Cardinality(Levels(q)) # 1
  PROVE  LET next == Highest(Levels(q) \ {Highest(Levels(q))})
         IN  next \in Levels(q) /\ next < Highest(Levels(q))
<1> DEFINE most == Highest(Levels(q))
           L == Levels(q) \ {most}
           a == Ahead(q, most - 1)
           first == q[a + 1].level
<1>1. /\ Levels(q) \subseteq Int /\ most \in Levels(q)
      /\ \A l \in Levels(q) : l <= most
  BY TopLevel
<1>2. Len(q) \in Nat /\ DOMAIN q = 1..Len(q)
  BY DEF Ordered
<1>3. PICK other \in Levels(q) : other # most
  <2> SUFFICES ASSUME \A l \in Levels(q) : l = most PROVE FALSE
    OBVIOUS
  <2>1. Levels(q) = {most}
    BY <1>1
  <2> QED
    BY <2>1, FS_Singleton
<1>4. most \in Int /\ most - 1 \in Int
  BY <1>1
<1>5. /\ a \in 0..Len(q)
      /\ \A n \in 1..Len(q) : q[n].level > most - 1 <=> n <= a
  BY <1>4, AheadFirst
<1> HIDE DEF most, a
<1>6. \A n \in 1..Len(q) : q[n].level # most => n > a
  <2> SUFFICES ASSUME NEW n \in 1..Len(q), q[n].level # most PROVE n > a
    OBVIOUS
  <2>1. q[n].level \in Levels(q)
    BY <1>2 DEF Levels
  <2>2. q[n].level \in Int /\ q[n].level <= most
    BY <1>1, <2>1
  <2>3. ~(q[n].level > most - 1)
    BY <1>4, <2>2
  <2> QED
    BY <1>2, <1>5, <2>3
<1>7. PICK n \in 1..Len(q) : q[n].level = other
  BY <1>2 DEF Levels
<1>8. a + 1 \in 1..Len(q) /\ ~(a + 1 <= a)
  BY <1>2, <1>3, <1>5, <1>6, <1>7
<1>9. first \in Levels(q) /\ first \in Int
  BY <1>1, <1>2, <1>8 DEF Levels
<1>10. ~(first > most - 1)
  BY <1>5, <1>8
<1>11. first < most
  BY <1>4, <1>9, <1>10
<1>12. \A l \in L : l <= first
  <2> SUFFICES ASSUME NEW l \in L PROVE l <= first
    OBVIOUS
  <2>1. PICK m \in 1..Len(q) : q[m].level = l
    BY <1>2 DEF Levels
  <2>2. m > a /\ l \in Int
    BY <1>1, <1>6, <2>1
  <2>3. CASE m = a + 1
    BY <1>9, <2>1, <2>3
  <2>4. CASE m # a + 1
    <3>1. a + 1 < m
      BY <1>5, <2>2, <2>4
    <3>2. Above(q[a + 1], q[m])
      BY <1>8, <3>1 DEF Ordered
    <3> QED
      BY <1>9, <2>1, <2>2, <3>2 DEF Above
  <2> QED
    BY <2>3, <2>4
<1>13. first \in L /\ L \subseteq Int
  BY <1>1, <1>4, <1>9, <1>11
<1> HIDE DEF first, L
<1>14. Highest(L) = first
  BY <1>12, <1>13, HighestIs
<1> QED
  BY <1>9, <1>11, <1>14 DEF L, most

(* What exceeds the room of the main branching is cut out of the middle.   *)
LEMMA CappedFits ==
  ASSUME NEW S, NEW q, Ordered(q, S), NEW l \in Int,
         \A k \in 1..Len(q) : q[k].level = l,
         NEW main, Share(q, main) >= Room
  PROVE  /\ Capped(q, main) \in Seq(S) /\ IsInjective(Capped(q, main))
         /\ Len(Capped(q, main)) \in 1..Many
         /\ \A k \in 1..Len(Capped(q, main)) : Capped(q, main)[k].level = l
<1> DEFINE N == Len(q)
           D == {n \in DOMAIN q : q[n].branch > main}
           E == {n \in DOMAIN q : q[n].branch = main}
           a == Cardinality(D)
           e == Cardinality(E)
           first == SubSeq(q, 1, a + Room)
           rest == SubSeq(q, a + e + 1, N)
<1>0. Room \in Nat \ {0} /\ Many \in Nat \ {0}
  BY TrainAssumption
<1>1. N \in Nat /\ DOMAIN q = 1..N
  BY DEF Ordered
<1>2. \A n \in 1..N : q[n].branch \in Int
  BY DEF Ordered
<1>3. D \subseteq 1..N /\ E \subseteq 1..N
  BY <1>1
<1>4. IsFiniteSet(1..N) /\ Cardinality(1..N) = N
  <2>1. 1 \in Int /\ N \in Int
    BY <1>1
  <2>2. IsFiniteSet(1..N) /\ Cardinality(1..N) = IF 1 > N THEN 0 ELSE N - 1 + 1
    BY <2>1, FS_Interval
  <2> QED
    BY <1>1, <2>2
<1>5. IsFiniteSet(D) /\ IsFiniteSet(E) /\ a \in Nat /\ e \in Nat
  <2>1. D \in SUBSET (1..N) /\ E \in SUBSET (1..N)
    BY <1>3
  <2>2. IsFiniteSet(D) /\ IsFiniteSet(E)
    BY <1>4, <2>1, FS_Subset
  <2> QED
    BY <2>2, FS_CardinalityType
<1>6. e >= Room
  BY DEF Share
<1>7. main \in Int
  <2>1. E # {}
    <3> SUFFICES ASSUME E = {} PROVE FALSE
      OBVIOUS
    <3>1. e = 0
      BY FS_EmptySet
    <3> QED
      BY <1>0, <1>6, <3>1
  <2> QED
    BY <1>1, <1>2, <2>1
<1>8. a + e <= N
  <2>1. D \cap E = {}
    BY <1>1, <1>2, <1>7
  <2>2. Cardinality(D \cup E) = a + e - Cardinality(D \cap E)
    BY <1>5, FS_Union
  <2>3. Cardinality(D \cap E) = 0
    BY <2>1, FS_EmptySet
  <2>4. (D \cup E) \in SUBSET (1..N)
    BY <1>3
  <2>5. Cardinality(D \cup E) <= N
    BY <1>4, <2>4, FS_Subset
  <2> QED
    BY <1>1, <1>5, <2>2, <2>3, <2>5
<1>9. Capped(q, main) = Prefix(first \o rest, Many)
  BY DEF Capped, Share
<1> HIDE DEF a, e, D, E
<1>10. /\ Ordered(first, S) /\ Len(first) = a + Room
       /\ \A k \in 1..Len(first) : k \in 1..N /\ first[k] = q[k]
  <2>1. 1 \in Nat \ {0} /\ a + Room \in Nat /\ a + Room <= N /\ 1 <= a + Room
    BY <1>0, <1>1, <1>5, <1>6, <1>8
  <2> DEFINE b == a + Room
  <2> HIDE DEF b
  <2>a. first = SubSeq(q, 1, b) /\ 1 \in Nat \ {0} /\ b \in Nat /\ b <= Len(q)
    BY <2>1 DEF b
  <2>2. /\ Ordered(first, S) /\ Len(first) = IF 1 <= b THEN b - 1 + 1 ELSE 0
        /\ \A k \in 1..Len(first) : 1 + k - 1 \in 1..N /\ first[k] = q[1 + k - 1]
    <3>1. /\ Ordered(SubSeq(q, 1, b), S)
          /\ Len(SubSeq(q, 1, b)) = IF 1 <= b THEN b - 1 + 1 ELSE 0
          /\ \A k \in 1..Len(SubSeq(q, 1, b)) :
               1 + k - 1 \in 1..Len(q) /\ SubSeq(q, 1, b)[k] = q[1 + k - 1]
      BY <2>a, PieceOrdered
    <3> QED
      BY <2>a, <3>1
  <2>3. Len(first) = a + Room
    BY <2>1, <2>2 DEF b
  <2>4. \A k \in 1..Len(first) : 1 + k - 1 = k
    BY <2>1, <2>3
  <2> QED
    BY <2>2, <2>3, <2>4
<1>11. /\ Ordered(rest, S)
       /\ \A k \in 1..Len(rest) : a + e + k \in 1..N /\ rest[k] = q[a + e + k]
  <2>1. a + e + 1 \in Nat \ {0} /\ N <= N
    BY <1>1, <1>5
  <2>2. /\ Ordered(rest, S) /\ Len(rest) = IF a + e + 1 <= N THEN N - (a + e + 1) + 1 ELSE 0
        /\ \A k \in 1..Len(rest) : a + e + 1 + k - 1 \in 1..N
                                   /\ rest[k] = q[a + e + 1 + k - 1]
    BY <1>1, <2>1, PieceOrdered
  <2>3. Len(rest) \in Nat
    BY <1>1, <1>5, <2>2
  <2>4. \A k \in 1..Len(rest) : a + e + 1 + k - 1 = a + e + k
    BY <1>5, <2>3
  <2> QED
    BY <2>2, <2>4
<1> HIDE DEF first, rest
<1>12. /\ first \in Seq(S) /\ IsInjective(first) /\ rest \in Seq(S) /\ IsInjective(rest)
  BY <1>10, <1>11 DEF Ordered
<1>13. \A i \in 1..Len(first), j \in 1..Len(rest) : first[i] # rest[j]
  <2> SUFFICES ASSUME NEW i \in 1..Len(first), NEW j \in 1..Len(rest), first[i] = rest[j]
               PROVE  FALSE
    OBVIOUS
  <2>1. i \in DOMAIN q /\ a + e + j \in DOMAIN q /\ q[i] = q[a + e + j]
    BY <1>1, <1>10, <1>11
  <2>2. i = a + e + j
    BY <2>1 DEF Ordered, IsInjective
  <2>3. i <= a + Room /\ j >= 1 /\ j \in Int
    BY <1>0, <1>5, <1>10, <1>12
  <2> QED
    BY <1>0, <1>5, <1>6, <2>2, <2>3
<1> DEFINE both == first \o rest
<1>14. /\ both \in Seq(S) /\ IsInjective(both)
       /\ Len(both) = Len(first) + Len(rest)
       /\ \A i \in 1..Len(first) : both[i] = first[i]
       /\ \A k \in 1..(Len(first) + Len(rest)) :
            \/ k \in 1..Len(first)
            \/ k - Len(first) \in 1..Len(rest) /\ both[k] = rest[k - Len(first)]
  BY <1>12, <1>13, ConcatOnce
<1> HIDE DEF both
<1>15. \A k \in 1..Len(both) : both[k].level = l
  <2> SUFFICES ASSUME NEW k \in 1..Len(both) PROVE both[k].level = l
    OBVIOUS
  <2>1. CASE k \in 1..Len(first)
    BY <1>10, <1>14, <2>1
  <2>2. CASE k \notin 1..Len(first)
    <3>1. k \in 1..(Len(first) + Len(rest))
      BY <1>14
    <3>2. PICK j \in 1..Len(rest) : both[k] = rest[j]
      BY <1>14, <2>2, <3>1
    <3>3. a + e + j \in 1..N /\ both[k] = q[a + e + j]
      BY <1>11, <3>2
    <3> QED
      BY <1>1, <3>3
  <2> QED
    BY <2>1, <2>2
<1>16. Len(both) \in Nat /\ Len(both) >= 1
  <2>1. Len(rest) \in Nat
    BY <1>12
  <2> QED
    BY <1>0, <1>5, <1>10, <1>14, <2>1
<1>17. Capped(q, main) = Prefix(both, Many)
  BY <1>9 DEF both
<1>18. /\ Prefix(both, Many) \in Seq(S) /\ IsInjective(Prefix(both, Many))
       /\ Len(Prefix(both, Many)) = IF Many < Len(both) THEN Many ELSE Len(both)
       /\ \A k \in 1..Len(Prefix(both, Many)) : Prefix(both, Many)[k] = both[k]
  BY <1>0, <1>14, PrefixOrdered
<1>19. Len(Prefix(both, Many)) \in 1..Many /\ Len(Prefix(both, Many)) <= Len(both)
  BY <1>0, <1>16, <1>18
<1>20. \A k \in 1..Len(Prefix(both, Many)) : Prefix(both, Many)[k].level = l
  BY <1>15, <1>16, <1>18, <1>19
<1> QED
  BY <1>17, <1>18, <1>19, <1>20

(* What init() takes of the top level.                                     *)
LEMMA FromTopFits ==
  ASSUME NEW S, NEW sorted, Ordered(sorted, S), Len(sorted) >= 1,
         NEW l, l = Highest(Levels(sorted)),
         NEW q, q = AtLevel(sorted, l),
         NEW main, NEW t, t = FromTop(q, sorted, main)
  PROVE  /\ t.set \in Seq(S) /\ IsInjective(t.set) /\ Len(t.set) \in 1..Many
         /\ \A k \in 1..Len(t.set) : t.set[k].level = l
         /\ \A s \in t.seeds : s.level = l
         /\ ~t.cover => t.seeds = {}
         /\ t.short => t.cover
         /\ t.second /\ Cardinality(Branches(q)) > 1 => t.cover
<1>0. Room \in Nat \ {0} /\ Many \in Nat \ {0} /\ Few \in Nat
  BY TrainAssumption
<1>1. /\ Levels(sorted) \subseteq Int /\ l \in Levels(sorted) /\ l \in Int
      /\ \A m \in Levels(sorted) : m <= l
      /\ Ahead(sorted, l) = 0
  BY TopLevel
<1>2. Len(sorted) \in Nat /\ DOMAIN sorted = 1..Len(sorted)
  BY DEF Ordered
<1>3. /\ Ordered(q, S) /\ \A k \in 1..Len(q) : q[k].level = l
      /\ Len(q) = Ahead(sorted, l - 1) - Ahead(sorted, l) /\ Len(q) >= 1
  BY <1>1, LevelPiece
<1>4. q \in Seq(S) /\ IsInjective(q) /\ Len(q) \in Nat /\ DOMAIN q = 1..Len(q)
  BY <1>3 DEF Ordered
<1>5. \A s \in FromQueue(q) : s.level = l
  BY <1>3, <1>4 DEF FromQueue
<1>6. CASE Len(q) <= Many
  <2>1. t = [set |-> q, second |-> TRUE, short |-> Len(q) < Few,
             seeds |-> FromQueue(q), cover |-> TRUE]
    BY <1>6 DEF FromTop
  <2>2. /\ t.set = q /\ t.second = TRUE /\ t.short = (Len(q) < Few)
        /\ t.seeds = FromQueue(q) /\ t.cover = TRUE
    BY <2>1
  <2>3. Len(q) \in 1..Many
    BY <1>0, <1>3, <1>4, <1>6
  <2> QED
    BY <1>3, <1>4, <1>5, <2>2, <2>3
<1>7. CASE ~(Len(q) <= Many) /\ Cardinality(Branches(q)) = 1
  <2>1. t = [set |-> Prefix(q, Many), second |-> TRUE, short |-> FALSE,
             seeds |-> {}, cover |-> FALSE]
    BY <1>7 DEF FromTop
  <2>2. /\ t.set = Prefix(q, Many) /\ t.second = TRUE /\ t.short = FALSE
        /\ t.seeds = {} /\ t.cover = FALSE
    BY <2>1
  <2>3. /\ t.set \in Seq(S) /\ IsInjective(t.set)
        /\ Len(t.set) = IF Many < Len(q) THEN Many ELSE Len(q)
        /\ \A k \in 1..Len(t.set) : t.set[k] = q[k]
    BY <1>0, <1>4, <2>2, PrefixOrdered
  <2>4. Len(t.set) \in 1..Many /\ Len(t.set) <= Len(q)
    BY <1>0, <1>4, <1>7, <2>3
  <2>5. \A k \in 1..Len(t.set) : t.set[k].level = l
    BY <1>3, <1>4, <2>3, <2>4
  <2>6. ~(Cardinality(Branches(q)) > 1)
    BY <1>7
  <2> QED
    BY <2>2, <2>3, <2>4, <2>5, <2>6
<1>8. CASE ~(Len(q) <= Many) /\ Cardinality(Branches(q)) # 1
  <2> DEFINE ruled == Share(q, main) > Len(q) - Few
             set == IF Share(q, main) < Room THEN Prefix(sorted, Many)
                    ELSE Capped(q, main)
             seeds == IF ruled THEN {s \in FromQueue(q) : s.branch # main} ELSE {}
  <2>1. t = [set |-> set, second |-> ruled, short |-> FALSE,
             seeds |-> seeds, cover |-> ruled]
    BY <1>8 DEF FromTop
  <2> HIDE DEF ruled, set, seeds
  <2>2. /\ t.set = set /\ t.second = ruled /\ t.short = FALSE
        /\ t.seeds = seeds /\ t.cover = ruled
    BY <2>1
  <2>3. \A s \in seeds : s.level = l
    BY <1>5 DEF seeds
  <2>4. ~ruled => seeds = {}
    BY DEF seeds
  <2>5. /\ set \in Seq(S) /\ IsInjective(set) /\ Len(set) \in 1..Many
        /\ \A k \in 1..Len(set) : set[k].level = l
    <3>1. CASE Share(q, main) < Room
      <4>1. set = Prefix(sorted, Many)
        BY <3>1 DEF set
      <4>2. /\ set \in Seq(S) /\ IsInjective(set)
            /\ Len(set) = IF Many < Len(sorted) THEN Many ELSE Len(sorted)
            /\ \A k \in 1..Len(set) : set[k] = sorted[k]
        BY <1>0, <4>1, PrefixOrdered DEF Ordered
      <4>3. /\ l - 1 \in Int /\ Ahead(sorted, l - 1) \in 0..Len(sorted)
            /\ \A n \in 1..Len(sorted) :
                 sorted[n].level > l - 1 <=> n <= Ahead(sorted, l - 1)
        <5>1. l - 1 \in Int
          BY <1>1
        <5> QED
          BY <5>1, AheadFirst
      <4>4. Len(q) = Ahead(sorted, l - 1)
        BY <1>1, <1>2, <1>3, <4>3
      <4>5. Many < Len(q) /\ Len(q) <= Len(sorted)
        BY <1>0, <1>2, <1>4, <1>8, <4>3, <4>4
      <4>6. Len(set) = Many
        <5>1. Many < Len(sorted)
          BY <1>0, <1>2, <1>4, <4>5
        <5> QED
          BY <4>2, <5>1
      <4>7. \A k \in 1..Len(set) : set[k].level = l
        <5> SUFFICES ASSUME NEW k \in 1..Len(set) PROVE set[k].level = l
          OBVIOUS
        <5>1. k \in 1..Len(sorted) /\ k <= Ahead(sorted, l - 1)
          BY <1>0, <1>2, <1>4, <4>4, <4>5, <4>6
        <5>2. sorted[k].level > l - 1 /\ sorted[k].level \in Levels(sorted)
          BY <1>2, <4>3, <5>1 DEF Levels
        <5>3. sorted[k].level \in Int /\ sorted[k].level <= l
          BY <1>1, <5>2
        <5>4. sorted[k].level = l
          BY <1>1, <5>2, <5>3
        <5> QED
          BY <4>2, <5>4
      <4> QED
        BY <1>0, <4>2, <4>6, <4>7
    <3>2. CASE ~(Share(q, main) < Room)
      <4>1. set = Capped(q, main)
        BY <3>2 DEF set
      <4>2. Share(q, main) >= Room
        <5>1. IsFiniteSet({n \in DOMAIN q : q[n].branch = main})
          <6>1. {n \in DOMAIN q : q[n].branch = main} \in SUBSET (1..Len(q))
            BY <1>4
          <6>2. IsFiniteSet(1..Len(q))
            BY <1>4, FS_Interval
          <6> QED
            BY <6>1, <6>2, FS_Subset
        <5>2. Share(q, main) \in Nat
          BY <5>1, FS_CardinalityType DEF Share
        <5> QED
          BY <1>0, <3>2, <5>2
      <4> QED
        BY <1>1, <1>3, <4>1, <4>2, CappedFits
    <3> QED
      BY <3>1, <3>2
  <2> QED
    BY <2>2, <2>3, <2>4, <2>5
<1> QED
  BY <1>6, <1>7, <1>8

(* What TrainSound says of a result of init().                             *)
Sound(r) ==
  /\ r.kind = "balanced" => Cardinality(Levels(r.set)) > 1 /\ IsInjective(r.set)
  /\ r.kind = "unbalanced" => /\ r.cover # {} /\ r.cover \cap r.avoid = {}
                              /\ \A s \in r.seeds : s.level \in r.cover

LEMMA TwoLevels ==
  ASSUME NEW S, NEW q \in Seq(S), NEW i \in 1..Len(q), NEW j \in 1..Len(q),
         q[i].level # q[j].level
  PROVE  Cardinality(Levels(q)) > 1
<1> DEFINE x == q[i].level
           y == q[j].level
<1>1. Len(q) \in Nat /\ DOMAIN q = 1..Len(q)
  OBVIOUS
<1>2. IsFiniteSet(DOMAIN q)
  BY <1>1, FS_Interval
<1>3. [n \in DOMAIN q |-> q[n].level] \in Surjection(DOMAIN q, Levels(q))
  BY DEF Surjection, Levels
<1>4. IsFiniteSet(Levels(q)) /\ Cardinality(Levels(q)) \in Nat
  BY <1>2, <1>3, FS_Surjection, FS_CardinalityType
<1>5. x \in Levels(q) /\ y \in Levels(q)
  BY <1>1 DEF Levels
<1> HIDE DEF x, y
<1>6. IsFiniteSet({x}) /\ Cardinality({x}) = 1
  BY FS_Singleton
<1>7. {x} \in SUBSET Levels(q) /\ {x} # Levels(q)
  <2>1. x # y
    BY DEF x, y
  <2> QED
    BY <1>5, <2>1
<1>8. 1 <= Cardinality(Levels(q)) /\ 1 # Cardinality(Levels(q))
  BY <1>4, <1>6, <1>7, FS_Subset
<1> QED
  BY <1>4, <1>8

(* The top level, the second and the rest tell two levels apart, and the   *)
(* limit on the whole set leaves something of the second.                  *)
LEMMA BalancedSet ==
  ASSUME NEW S, NEW set \in Seq(S), IsInjective(set), Len(set) \in 1..Many,
         NEW second, Ordered(second, S), Len(second) >= 1,
         NEW rest, Ordered(rest, S),
         NEW l \in Int, NEW next \in Int, next < l,
         \A k \in 1..Len(set) : set[k].level = l,
         \A k \in 1..Len(second) : second[k].level = next,
         \A k \in 1..Len(rest) : rest[k].level \in Int /\ rest[k].level < next
  PROVE  /\ Cardinality(Levels(Prefix(set \o second \o rest, MaxTrain))) > 1
         /\ IsInjective(Prefix(set \o second \o rest, MaxTrain))
<1> DEFINE upper == set \o second
           all == upper \o rest
           p == Prefix(all, MaxTrain)
<1>0. Many \in Nat \ {0} /\ MaxTrain \in Nat /\ Many < MaxTrain
  BY TrainAssumption
<1>1. /\ second \in Seq(S) /\ IsInjective(second) /\ Len(second) \in Nat
      /\ rest \in Seq(S) /\ IsInjective(rest) /\ Len(rest) \in Nat
      /\ Len(set) \in Nat
  BY DEF Ordered
<1>2. \A i \in 1..Len(set), j \in 1..Len(second) : set[i] # second[j]
  <2> SUFFICES ASSUME NEW i \in 1..Len(set), NEW j \in 1..Len(second),
                      set[i] = second[j]
               PROVE  FALSE
    OBVIOUS
  <2>1. set[i].level = l /\ second[j].level = next
    OBVIOUS
  <2> QED
    BY <2>1
<1>3. /\ upper \in Seq(S) /\ IsInjective(upper)
      /\ Len(upper) = Len(set) + Len(second)
      /\ \A i \in 1..Len(set) : upper[i] = set[i]
      /\ \A j \in 1..Len(second) : upper[Len(set) + j] = second[j]
      /\ \A k \in 1..(Len(set) + Len(second)) :
           \/ k \in 1..Len(set)
           \/ k - Len(set) \in 1..Len(second) /\ upper[k] = second[k - Len(set)]
  BY <1>1, <1>2, ConcatOnce
<1> HIDE DEF upper
<1>4. \A k \in 1..Len(upper) : upper[k].level = l \/ upper[k].level = next
  <2> SUFFICES ASSUME NEW k \in 1..Len(upper)
               PROVE  upper[k].level = l \/ upper[k].level = next
    OBVIOUS
  <2>1. CASE k \in 1..Len(set)
    BY <1>3, <2>1
  <2>2. CASE k \notin 1..Len(set)
    BY <1>3, <2>2
  <2> QED
    BY <2>1, <2>2
<1>5. \A i \in 1..Len(upper), j \in 1..Len(rest) : upper[i] # rest[j]
  <2> SUFFICES ASSUME NEW i \in 1..Len(upper), NEW j \in 1..Len(rest),
                      upper[i] = rest[j]
               PROVE  FALSE
    OBVIOUS
  <2>1. upper[i].level = l \/ upper[i].level = next
    BY <1>4
  <2>2. rest[j].level \in Int /\ rest[j].level < next /\ upper[i].level = rest[j].level
    OBVIOUS
  <2> QED
    BY <2>1, <2>2
<1>6. /\ all \in Seq(S) /\ IsInjective(all)
      /\ Len(all) = Len(upper) + Len(rest)
      /\ \A i \in 1..Len(upper) : all[i] = upper[i]
  <2>1. /\ upper \in Seq(S) /\ rest \in Seq(S)
        /\ IsInjective(upper) /\ IsInjective(rest)
    BY <1>1, <1>3
  <2> QED
    BY <2>1, <1>5, ConcatOnce
<1> HIDE DEF all
<1>7. /\ p \in Seq(S) /\ IsInjective(p)
      /\ Len(p) = IF MaxTrain < Len(all) THEN MaxTrain ELSE Len(all)
      /\ \A k \in 1..Len(p) : p[k] = all[k]
  BY <1>0, <1>6, PrefixOrdered
<1> HIDE DEF p
<1> DEFINE m == Len(set) + 1
<1>8. m \in 1..Len(upper) /\ 1 \in 1..Len(upper) /\ 1 \in 1..Len(set) /\ 1 \in 1..Len(second)
  BY <1>1, <1>3
<1>9. m <= MaxTrain /\ m <= Len(all) /\ Len(all) \in Nat
  BY <1>0, <1>1, <1>3, <1>6
<1>10. m \in 1..Len(p) /\ 1 \in 1..Len(p)
  BY <1>0, <1>1, <1>7, <1>9
<1>11. upper[1] = set[1] /\ upper[m] = second[1]
  BY <1>3, <1>8
<1>12. p[1] = upper[1] /\ p[m] = upper[m]
  BY <1>6, <1>7, <1>8, <1>10
<1>13. p[1].level = l /\ p[m].level = next
  BY <1>8, <1>11, <1>12
<1>14. p[1].level # p[m].level
  BY <1>13
<1> HIDE DEF m
<1>15. Cardinality(Levels(p)) > 1
  BY <1>7, <1>10, <1>14, TwoLevels
<1> QED
  BY <1>7, <1>15 DEF p, all, upper

LEMMA ChosenSound ==
  ASSUME NEW S, NEW sorted, Ordered(sorted, S), Len(sorted) >= 1,
         NEW main, NEW lucky \in BOOLEAN
  PROVE  Sound(Chosen(sorted, main, lucky))
<1> DEFINE most == Highest(Levels(sorted))
           q == AtLevel(sorted, most)
           t == FromTop(q, sorted, main)
           next == Highest(Levels(sorted) \ {most})
           second == AtLevel(sorted, next)
           poor == t.second /\ Len(second) < Few /\ ~lucky
           cover == IF t.cover THEN {most} ELSE {}
           r == Chosen(sorted, main, lucky)
           Result(kind, set, seeds, cov, avoid) ==
             [kind |-> kind, set |-> Prefix(set, MaxTrain), seeds |-> seeds,
              cover |-> cov, avoid |-> avoid]
<1>1. /\ Levels(sorted) \subseteq Int /\ most \in Levels(sorted)
  BY TopLevel
<1>2. /\ t.set \in Seq(S) /\ IsInjective(t.set) /\ Len(t.set) \in 1..Many
      /\ \A k \in 1..Len(t.set) : t.set[k].level = most
      /\ \A s \in t.seeds : s.level = most
      /\ ~t.cover => t.seeds = {}
      /\ t.short => t.cover
      /\ t.second /\ Cardinality(Branches(q)) > 1 => t.cover
  BY FromTopFits
<1>3. r = IF Cardinality(Levels(sorted)) = 1
          THEN IF t.second /\ Cardinality(Branches(q)) > 1
               THEN Result("unbalanced", t.set, t.seeds, cover, {})
               ELSE Raised
          ELSE IF poor
          THEN Result("unbalanced", t.set \o second, t.seeds \cup FromQueue(second),
                      cover \cup {next}, Avoided(t, most))
          ELSE IF t.short
          THEN Result("unbalanced", t.set \o second, t.seeds, cover, {})
          ELSE Result("balanced", t.set \o second \o Below(sorted, next), {}, {}, {})
  BY DEF Chosen
<1>4. Avoided(t, most) = IF t.cover THEN {} ELSE {most}
  BY DEF Avoided
<1>5. Cardinality(Levels(sorted)) # 1 => next \in Levels(sorted) /\ next < most
  BY NextLevel
<1>6. Cardinality(Levels(sorted)) # 1 =>
        /\ next \in Int /\ most \in Int /\ next < most
        /\ Ordered(second, S) /\ Len(second) >= 1
        /\ \A k \in 1..Len(second) : second[k].level = next
        /\ Ordered(Below(sorted, next), S)
        /\ \A k \in 1..Len(Below(sorted, next)) :
             Below(sorted, next)[k].level \in Int /\ Below(sorted, next)[k].level < next
  <2> SUFFICES ASSUME Cardinality(Levels(sorted)) # 1
               PROVE  /\ next \in Int /\ most \in Int /\ next < most
                      /\ Ordered(second, S) /\ Len(second) >= 1
                      /\ \A k \in 1..Len(second) : second[k].level = next
                      /\ Ordered(Below(sorted, next), S)
                      /\ \A k \in 1..Len(Below(sorted, next)) :
                           /\ Below(sorted, next)[k].level \in Int
                           /\ Below(sorted, next)[k].level < next
    OBVIOUS
  <2>1. next \in Levels(sorted) /\ next \in Int /\ most \in Int /\ next < most
    BY <1>1, <1>5
  <2> HIDE DEF next
  <2>2. /\ Ordered(second, S) /\ Len(second) >= 1
        /\ \A k \in 1..Len(second) : second[k].level = next
    BY <2>1, LevelPiece
  <2>3. /\ Ordered(Below(sorted, next), S)
        /\ \A k \in 1..Len(Below(sorted, next)) :
             /\ Below(sorted, next)[k].level \in Int
             /\ Below(sorted, next)[k].level < next
    BY <2>1, BelowPiece
  <2> QED
    BY <2>1, <2>2, <2>3
<1> HIDE DEF r, t, q, second, next, most
<1>7. CASE Cardinality(Levels(sorted)) = 1
  <2>1. CASE t.second /\ Cardinality(Branches(q)) > 1
    <3>1. r = Result("unbalanced", t.set, t.seeds, cover, {})
      BY <1>3, <1>7, <2>1
    <3>2. r.kind = "unbalanced" /\ r.seeds = t.seeds /\ r.cover = cover /\ r.avoid = {}
      BY <3>1
    <3>3. cover = {most}
      BY <1>2, <2>1
    <3> QED
      BY <1>2, <3>2, <3>3 DEF Sound, r
  <2>2. CASE ~(t.second /\ Cardinality(Branches(q)) > 1)
    <3>1. r = Raised
      BY <1>3, <1>7, <2>2, Zenon
    <3> QED
      BY <3>1 DEF Raised, Sound, r
  <2> QED
    BY <2>1, <2>2
<1>8. CASE Cardinality(Levels(sorted)) # 1 /\ poor
  <2> DEFINE seeds == t.seeds \cup FromQueue(second)
             cov == cover \cup {next}
  <2>1. r = Result("unbalanced", t.set \o second, seeds, cov, Avoided(t, most))
    BY <1>3, <1>8
  <2>2. /\ r.kind = "unbalanced" /\ r.seeds = seeds /\ r.cover = cov
        /\ r.avoid = Avoided(t, most)
    BY <2>1
  <2>3. next # most
    BY <1>6, <1>8
  <2>4. \A s \in FromQueue(second) : s.level = next
    <3>1. DOMAIN second = 1..Len(second)
      BY <1>6, <1>8 DEF Ordered
    <3> QED
      BY <1>6, <1>8, <3>1 DEF FromQueue
  <2>5. cov \cap Avoided(t, most) = {}
    BY <1>4, <2>3
  <2>6. \A s \in seeds : s.level \in cov
    BY <1>2, <2>4
  <2> QED
    BY <2>2, <2>5, <2>6 DEF Sound, r
<1>9. CASE Cardinality(Levels(sorted)) # 1 /\ ~poor /\ t.short
  <2>1. r = Result("unbalanced", t.set \o second, t.seeds, cover, {})
    BY <1>3, <1>9
  <2>2. r.kind = "unbalanced" /\ r.seeds = t.seeds /\ r.cover = cover /\ r.avoid = {}
    BY <2>1
  <2>3. cover = {most}
    BY <1>2, <1>9
  <2> QED
    BY <1>2, <2>2, <2>3 DEF Sound, r
<1>10. CASE Cardinality(Levels(sorted)) # 1 /\ ~poor /\ ~t.short
  <2> DEFINE all == t.set \o second \o Below(sorted, next)
  <2>1. r = Result("balanced", all, {}, {}, {})
    BY <1>3, <1>10
  <2>2. r.kind = "balanced" /\ r.set = Prefix(all, MaxTrain)
    BY <2>1
  <2>3. Cardinality(Levels(Prefix(all, MaxTrain))) > 1 /\ IsInjective(Prefix(all, MaxTrain))
    BY <1>2, <1>6, <1>10, BalancedSet
  <2> QED
    BY <2>2, <2>3 DEF Sound, r
<1> QED
  BY <1>7, <1>8, <1>9, <1>10 DEF r

(* Whatever samples there are, and in whatever order they are listed.      *)
LEMMA InitSound ==
  ASSUME NEW S, IsFiniteSet(S),
         \A s \in S : s.level \in Int /\ s.branch \in Int,
         NEW r \in init(S)
  PROVE  Sound(r)
<1>1. CASE S = {}
  <2>1. r = Raised \/ r = Nothing
    BY <1>1 DEF init
  <2> QED
    BY <2>1 DEF Raised, Nothing, Sound
<1>2. CASE S # {}
  <2> DEFINE mains(q) == Commonest(AtLevel(q, Highest({s.level : s \in S})))
  <2>a. r \in UNION {{Chosen(q, b, d) : b \in mains(q), d \in BOOLEAN} :
                     q \in SortedLists(S)}
    BY <1>2 DEF init
  <2> HIDE DEF mains
  <2>b. PICK sorted \in SortedLists(S) :
          r \in {Chosen(sorted, b, d) : b \in mains(sorted), d \in BOOLEAN}
    BY <2>a
  <2>1. PICK main \in mains(sorted), lucky \in BOOLEAN : r = Chosen(sorted, main, lucky)
    BY <2>b
  <2> DEFINE c == Cardinality(S)
  <2>2. c \in Nat /\ c # 0
    BY <1>2, FS_CardinalityType, FS_EmptySet
  <2>3. /\ sorted \in [1..c -> S]
        /\ \A i, j \in 1..c : i # j => sorted[i] # sorted[j]
        /\ \A m, n \in DOMAIN sorted : m < n => Above(sorted[m], sorted[n])
    BY <2>b DEF SortedLists, SetToSeqs
  <2> HIDE DEF c
  <2>4. sorted \in Seq(S) /\ Len(sorted) = c /\ DOMAIN sorted = 1..c
    BY <2>2, <2>3
  <2>5. IsInjective(sorted)
    BY <2>3, <2>4 DEF IsInjective
  <2>6. \A n \in 1..Len(sorted) : sorted[n].level \in Int /\ sorted[n].branch \in Int
    BY <2>3, <2>4
  <2>7. \A m, n \in 1..Len(sorted) : m < n => Above(sorted[m], sorted[n])
    BY <2>3, <2>4
  <2>8. Ordered(sorted, S) /\ Len(sorted) >= 1
    BY <2>2, <2>4, <2>5, <2>6, <2>7 DEF Ordered
  <2> QED
    BY <2>1, <2>8, ChosenSound
<1> QED
  BY <1>1, <1>2

LEMMA SamplesKnown ==
  /\ IsFiniteSet(AllSamples)
  /\ \A s \in AllSamples : s.level \in Int /\ s.branch \in Int
<1> DEFINE Of(s) == Sample([seed |-> s])
           Own == {Of(s) : s \in Seeds}
<1>1. [s \in Seeds |-> Of(s)] \in Surjection(Seeds, Own)
  BY DEF Surjection
<1>2. IsFiniteSet(Own)
  <2> HIDE DEF Of
  <2> QED
    BY <1>1, FS_Surjection, SamplesAssumption
<1>3. IsFiniteSet(Own \cup BackupFiles)
  BY <1>2, FS_Union, SamplesAssumption
<1>4. \A s \in Own \cup BackupFiles : s.level \in Int /\ s.branch \in Int
  BY SamplesAssumption DEF Sample
<1> QED
  BY <1>3, <1>4 DEF AllSamples

LEMMA ResultsSound == \A r \in Results : Sound(r.out)
<1> SUFFICES ASSUME NEW r \in Results PROVE Sound(r.out)
  OBVIOUS
<1>1. PICK S \in SUBSET AllSamples : \E x \in init(S) : r = [from |-> S, out |-> x]
  BY DEF Results
<1>2. PICK x \in init(S) : r = [from |-> S, out |-> x]
  BY <1>1
<1>3. IsFiniteSet(S) /\ \A s \in S : s.level \in Int /\ s.branch \in Int
  BY <1>1, SamplesKnown, FS_Subset
<1>4. Sound(x)
  BY <1>2, <1>3, InitSound
<1> QED
  BY <1>2, <1>4

(* Whatever test cases there are, in whatever state of the output          *)
(* directory they are read: a training set that counts as balanced tells   *)
(* two levels apart and has no sample twice, and one that does not gives   *)
(* backup mode something to reach that it is not told to avoid, and only   *)
(* seeds that have reached it (init in nn-dom.py).                         *)
THEOREM TrainingSound == USpec => []TrainSound
<1>1. TrainSound <=> Sound(training)
  BY DEF TrainSound, Sound
<1>2. Sound(Raised)
  BY DEF Raised, Sound
<1>3. UInit => TrainSound
  BY <1>1, <1>2 DEF UInit
<1>4. TrainSound /\ [UNext]_uvars => TrainSound'
  <2> SUFFICES ASSUME TrainSound, [UNext]_uvars PROVE TrainSound'
    OBVIOUS
  <2>1. training' = training \/ training' = Raised \/ \E r \in Results : training' = r.out
    <3>1. CASE OwnerStarts \/ OwnerSteps
      BY <3>1 DEF OwnerStarts, OwnerSteps
    <3>2. CASE ScanBegin \/ Visit \/ ScanEnd \/ ScanStop \/ TrainList
      BY <3>2 DEF ScanBegin, Visit, ScanEnd, ScanStop, TrainList
    <3>3. CASE TrainRead
      BY <3>3 DEF TrainRead
    <3>4. CASE TrainLeave
      BY <3>4 DEF TrainLeave
    <3>5. CASE UNCHANGED uvars
      BY <3>5 DEF uvars
    <3> QED
      BY <3>1, <3>2, <3>3, <3>4, <3>5 DEF UNext
  <2>2. Sound(training) /\ Sound(Raised) /\ \A r \in Results : Sound(r.out)
    BY <1>1, <1>2, ResultsSound
  <2>3. Sound(training')
    BY <2>1, <2>2
  <2> QED
    BY <2>3 DEF TrainSound, Sound
<1> QED
  BY <1>3, <1>4, PTL DEF USpec

-----------------------------------------------------------------------------
(***************************************************************************)
(* What read_testcases returns from _resume                                *)
(***************************************************************************)
OneEach(files) == /\ \A f \in files : f.id \in Nat
                  /\ \A f, g \in files : f.id = g.id => f = g

WholeIds == {f.id : f \in {g \in resume : g.whole}}
Rank(id) == Place(WholeIds, id)

LEMMA WholeIdsFinite ==
  ASSUME IsFiniteSet(resume), OneEach(resume)
  PROVE  IsFiniteSet(WholeIds) /\ WholeIds \subseteq Nat
<1> DEFINE W == {g \in resume : g.whole}
<1>1. IsFiniteSet(W)
  BY FS_Subset
<1>2. [f \in W |-> f.id] \in Surjection(W, WholeIds)
  BY DEF Surjection, WholeIds
<1>3. IsFiniteSet(WholeIds)
  BY <1>1, <1>2, FS_Surjection
<1> QED
  BY <1>3 DEF WholeIds, OneEach

(* The ranks of the ids are exactly the first numbers.                     *)
LEMMA RanksAll ==
  ASSUME IsFiniteSet(resume), OneEach(resume)
  PROVE  /\ Cardinality(WholeIds) \in Nat
         /\ \A id \in WholeIds : Rank(id) \in 0..(Cardinality(WholeIds) - 1)
         /\ \A k \in 0..(Cardinality(WholeIds) - 1) : \E id \in WholeIds : Rank(id) = k
BY WholeIdsFinite, PlacesAll DEF Rank

LEMMA NthRank ==
  ASSUME IsFiniteSet(resume), OneEach(resume), NEW id \in WholeIds
  PROVE  Nth(WholeIds, Rank(id) + 1) = id
<1>1. IsFiniteSet(WholeIds) /\ WholeIds \subseteq Nat
  BY WholeIdsFinite
<1>a. Rank(id) \in Nat
  BY <1>1, PlaceFinite DEF Rank
<1>2. (Rank(id) + 1) - 1 = Rank(id)
  BY <1>a
<1>3. Nth(WholeIds, Rank(id) + 1) = CHOOSE i \in WholeIds : Place(WholeIds, i) = Rank(id)
  BY <1>2 DEF Nth, Place
<1> QED
  BY <1>1, <1>3, PlaceChosen DEF Rank

(* Entry m is the file that m - 1 whole files come before.                 *)
LEMMA FoundEntries ==
  ASSUME in_place, IsFiniteSet(resume), OneEach(resume)
  PROVE  /\ \A m \in DOMAIN Found : \E f \in resume :
              /\ f.whole /\ Rank(f.id) = m - 1
              /\ Found[m].id = f.id /\ Found[m].seed = f.seed
         /\ \A f \in resume : f.whole =>
              /\ Rank(f.id) + 1 \in DOMAIN Found
              /\ Found[Rank(f.id) + 1].id = f.id
              /\ Found[Rank(f.id) + 1].seed = f.seed
<1> DEFINE n == Cardinality(WholeIds)
           At(id) == CHOOSE f \in resume : f.id = id
<1>1. \A f \in resume : At(f.id) = f
  BY DEF OneEach
<1>2. /\ DOMAIN Found = 1..n
      /\ \A m \in 1..n : /\ Found[m].seed = At(Nth(WholeIds, m)).seed
                         /\ Found[m].id = Nth(WholeIds, m)
  BY DEF Found, WholeIds
<1>3. n \in Nat
  BY RanksAll
<1>4. \A f \in resume : f.whole =>
        /\ Rank(f.id) + 1 \in DOMAIN Found
        /\ Found[Rank(f.id) + 1].id = f.id
        /\ Found[Rank(f.id) + 1].seed = f.seed
  <2> SUFFICES ASSUME NEW f \in resume, f.whole
               PROVE  /\ Rank(f.id) + 1 \in DOMAIN Found
                      /\ Found[Rank(f.id) + 1].id = f.id
                      /\ Found[Rank(f.id) + 1].seed = f.seed
    OBVIOUS
  <2>1. f.id \in WholeIds
    BY DEF WholeIds
  <2>2. Rank(f.id) \in 0..(n - 1)
    BY <2>1, RanksAll
  <2>3. Nth(WholeIds, Rank(f.id) + 1) = f.id
    BY <2>1, NthRank
  <2>4. Rank(f.id) + 1 \in 1..n
    BY <1>3, <2>2
  <2> HIDE DEF n, At
  <2> QED
    BY <1>1, <1>2, <2>3, <2>4
<1>5. ASSUME NEW m \in DOMAIN Found
      PROVE  \E f \in resume : /\ f.whole /\ Rank(f.id) = m - 1
                               /\ Found[m].id = f.id /\ Found[m].seed = f.seed
  <2>1. m \in Int /\ m - 1 \in 0..(n - 1)
    BY <1>2, <1>3
  <2>2. PICK id \in WholeIds : Rank(id) = m - 1
    BY <2>1, RanksAll
  <2>3. PICK f \in resume : f.whole /\ f.id = id
    BY DEF WholeIds
  <2>4. Rank(f.id) + 1 = m
    BY <2>1, <2>2, <2>3
  <2> QED
    BY <1>4, <2>2, <2>3, <2>4
<1> QED
  BY <1>4, <1>5

-----------------------------------------------------------------------------
(***************************************************************************)
(* What is in queue/                                                       *)
(***************************************************************************)
LEMMA MadeOnce ==
  ASSUME NEW e, NEW n \in Nat, NEW s, NEW w
  PROVE  OneEach(Made(e, n)) /\ OneEach(Made(e, n) \cup {File(n, s, w)})
<1>1. \A f \in Made(e, n) : f.id \in Nat /\ f.id < n
  <2> SUFFICES ASSUME NEW m \in 1..n
               PROVE  File(m - 1, e[m].seed, TRUE).id \in Nat
                        /\ File(m - 1, e[m].seed, TRUE).id < n
    BY DEF Made
  <2>1. File(m - 1, e[m].seed, TRUE).id = m - 1
    BY DEF File
  <2>2. m - 1 \in Nat /\ m - 1 < n
    OBVIOUS
  <2> QED
    BY <2>1, <2>2, Zenon
<1>2. File(n, s, w).id = n
  BY DEF File
<1>3. OneEach(Made(e, n))
  <2> SUFFICES ASSUME NEW f \in Made(e, n), NEW g \in Made(e, n), f.id = g.id
               PROVE  f = g
    BY <1>1 DEF OneEach
  <2>1. PICK k \in 1..n : f = File(k - 1, e[k].seed, TRUE)
    BY DEF Made
  <2>2. PICK m \in 1..n : g = File(m - 1, e[m].seed, TRUE)
    BY DEF Made
  <2>3. f.id = k - 1 /\ g.id = m - 1
    BY <2>1, <2>2 DEF File
  <2>4. k \in Int /\ m \in Int
    OBVIOUS
  <2>6. k - 1 = m - 1
    BY <2>3, Zenon
  <2>5. k = m
    BY <2>4, <2>6
  <2> QED
    BY <2>1, <2>2, <2>5
<1>4. \A f \in Made(e, n) : f.id # n
  BY <1>1
<1> QED
  BY <1>2, <1>3, <1>4 DEF OneEach

LEMMA QueueOnce == ASSUME PInv', pc' \in Filling PROVE OneEach(queue')
<1>1. nth' \in Nat /\ Len(entries') \in Nat
  <2>1. Len(entries') \in Nat
    BY DEF PInv, Queued
  <2> QED
    BY <2>1 DEF PInv
<1>2. CASE pc' = "pivot"
  <2>1. /\ OneEach(Made(entries', nth'))
        /\ OneEach(Made(entries', nth') \cup {Imported(FALSE)'})
    BY <1>1, MadeOnce DEF Imported
  <2> QED
    BY <1>2, <2>1 DEF PInv
<1>3. CASE pc' \in {"nuke", "dry", "run"}
  BY <1>1, <1>3, MadeOnce DEF PInv
<1>4. CASE pc' \in {"bits", "added", "created"}
  <2>1. top' \in Nat
    BY <1>4 DEF PInv
  <2>2. /\ OneEach(Made(entries', top'))
        /\ OneEach(Made(entries', top')
                     \cup {File(top', entries'[Len(entries')].seed, FALSE)})
    BY <2>1, MadeOnce
  <2> QED
    BY <1>4, <2>2 DEF PInv
<1> QED
  BY <1>2, <1>3, <1>4 DEF Filling

LEMMA OnceSubset ==
  ASSUME NEW S, NEW T, OneEach(S), T \subseteq S PROVE OneEach(T)
BY DEF OneEach

LEMMA ContentsMade ==
  ASSUME NEW e, NEW n \in Nat
  PROVE  Contents(Made(e, n)) = {e[m].seed : m \in 1..n}
<1>1. \A m \in 1..n : /\ File(m - 1, e[m].seed, TRUE).whole
                      /\ File(m - 1, e[m].seed, TRUE).seed = e[m].seed
  BY DEF File
<1>2. {f \in Made(e, n) : f.whole} = Made(e, n)
  BY <1>1 DEF Made
<1>3. Contents(Made(e, n)) = {f.seed : f \in Made(e, n)}
  BY <1>2 DEF Contents
<1>4. {f.seed : f \in Made(e, n)} = {e[m].seed : m \in 1..n}
  <2> DEFINE G(m) == File(m - 1, e[m].seed, TRUE)
  <2>1. \A m \in 1..n : G(m).seed = e[m].seed
    BY <1>1
  <2>2. Made(e, n) = {G(m) : m \in 1..n}
    BY DEF Made
  <2> HIDE DEF G
  <2> QED
    BY <2>1, <2>2
<1> QED
  BY <1>3, <1>4

LEMMA ContentsGrow ==
  ASSUME NEW S, NEW T, S \subseteq T PROVE Contents(S) \subseteq Contents(T)
BY DEF Contents

(* A file that is not whole has no contents.                               *)
LEMMA ContentsHalf ==
  ASSUME NEW S, NEW id, NEW seed
  PROVE  /\ Contents(S \cup {File(id, seed, FALSE)}) = Contents(S)
         /\ Contents(S \ {File(id, seed, FALSE)}) = Contents(S)
<1>1. ~File(id, seed, FALSE).whole
  BY DEF File
<1> QED
  BY <1>1 DEF Contents

LEMMA ContentsWhole ==
  ASSUME NEW S, NEW id, NEW seed
  PROVE  Contents(S \cup {File(id, seed, TRUE)}) = Contents(S) \cup {seed}
<1>1. File(id, seed, TRUE).whole /\ File(id, seed, TRUE).seed = seed
  BY DEF File
<1> DEFINE f == File(id, seed, TRUE)
<1> HIDE DEF f
<1>2. Contents(S \cup {f}) = Contents(S) \cup {f.seed}
  BY <1>1 DEF Contents, f
<1> QED
  BY <1>1, <1>2 DEF f

-----------------------------------------------------------------------------
(***************************************************************************)
(* Test cases are kept                                                     *)
(***************************************************************************)
Stuff == {entries[m].seed : m \in DOMAIN entries}

PcInv == pc \in {"down", "rename", "clean", "unlink", "dirs", "state", "read"} \cup Filling

FilesInv ==
  /\ OneEach(queue) /\ OneEach(resume)
  /\ "queue" \notin dirs => queue = {}
  /\ pc \in {"state", "read"} \cup Filling => "queue" \in dirs
  /\ pc = "rename" => in_place
  /\ PcInv

Cleaning == {"clean", "unlink", "dirs", "state", "read"}
Working == {"dry", "run", "bits", "added", "created"}

(* Until the import is through, a resume relies on _resume alone; after    *)
(* it, on queue/ alone.                                                    *)
LossInv ==
  ~mixed =>
    /\ pc \in {"down", "rename"} =>
         valued \subseteq IF Vacant THEN Contents(queue) ELSE Contents(resume)
    /\ pc \in Cleaning => valued \subseteq Contents(resume) /\ (in_place \/ Vacant)
    /\ pc = "pivot" =>
         IF in_place THEN valued \subseteq Contents(resume) /\ Stuff = Contents(resume)
         ELSE Vacant /\ valued \subseteq Contents(queue)
    /\ pc = "nuke" =>
         /\ valued \subseteq Contents(queue)
         /\ "_resume/.state" \in dirs => Contents(resume) = Contents(queue)
    /\ pc \in Working => Vacant /\ valued \subseteq Contents(queue)

LEMMA NoContents == Contents({}) = {}
BY DEF Contents

(* Wherever the program ends, what it relied on is there.                  *)
LEMMA DownSafe ==
  ASSUME LossInv, pc \in {"rename", "pivot", "nuke"} \cup Cleaning \cup Working,
         pc' = "down", UNCHANGED <<queue, resume, valued>>, Vacant' = Vacant,
         ~mixed' => ~mixed /\ (pc = "nuke" => \/ resume = {}
                                              \/ Contents(queue) \subseteq Contents(resume))
  PROVE  LossInv'
<1> SUFFICES ASSUME ~mixed'
             PROVE  valued \subseteq IF Vacant THEN Contents(queue) ELSE Contents(resume)
  BY DEF LossInv, Cleaning, Working
<1>1. ~mixed
  OBVIOUS
<1>2. CASE pc = "rename"
  BY <1>1, <1>2 DEF LossInv
<1>3. CASE pc \in Cleaning
  <2>1. valued \subseteq Contents(resume)
    BY <1>1, <1>3 DEF LossInv
  <2>2. Vacant => valued = {}
    BY <2>1, NoContents DEF Vacant
  <2> QED
    BY <2>1, <2>2
<1>4. CASE pc = "pivot"
  <2>1. \/ valued \subseteq Contents(resume)
        \/ Vacant /\ valued \subseteq Contents(queue)
    BY <1>1, <1>4 DEF LossInv
  <2>2. Vacant /\ valued \subseteq Contents(resume) => valued = {}
    BY NoContents DEF Vacant
  <2> QED
    BY <2>1, <2>2
<1>5. CASE pc = "nuke"
  <2>1. /\ valued \subseteq Contents(queue)
        /\ "_resume/.state" \in dirs => Contents(resume) = Contents(queue)
    BY <1>1, <1>5 DEF LossInv
  <2>2. CASE Vacant
    BY <2>1, <2>2
  <2>3. CASE ~Vacant
    <3>1. resume # {} \/ "_resume/.state" \in dirs
      BY <2>3 DEF Vacant
    <3>2. Contents(queue) \subseteq Contents(resume)
      BY <1>5, <2>1, <3>1
    <3> QED
      BY <2>1, <2>3, <3>2
  <2> QED
    BY <2>2, <2>3
<1>6. CASE pc \in Working
  BY <1>1, <1>6 DEF LossInv
<1> QED
  BY <1>2, <1>3, <1>4, <1>5, <1>6

(* A step that keeps to one directory and one part of the program.         *)
LEMMA QuietSafe ==
  ASSUME LossInv, UNCHANGED <<queue, resume, valued, mixed, in_place>>, Vacant' = Vacant,
         \/ pc \in Cleaning /\ pc' \in Cleaning
         \/ pc \in Working /\ pc' \in Working
         \/ pc = "down" /\ pc' = "down"
  PROVE  LossInv'
BY DEF LossInv, Cleaning, Working

RInv == PInv /\ FilesInv /\ LossInv

LEMMA StartSafe ==
  ASSUME RInv, PInv',
         \/ \E again \in BOOLEAN : Start(again)
         \/ RenameQueue \/ CleanState \/ Unlink \/ MakeQueue \/ MakeRest
  PROVE  FilesInv' /\ LossInv'
<1> USE DEF Go, memory, history
<1>1. CASE \E again \in BOOLEAN : Start(again)
  <2>1. PICK again \in BOOLEAN : Start(again)
    BY <1>1
  <2>2. /\ pc = "down" /\ UNCHANGED <<dirs, queue, resume>>
        /\ pc' = (IF starts = 0 THEN "dirs" ELSE IF again THEN "rename" ELSE "clean")
        /\ in_place' = again /\ (again => starts > 0)
        /\ valued' = (IF again THEN valued ELSE {})
    BY <2>1 DEF Start
  <2>3. mixed' = (IF again THEN mixed ELSE resume # {} \/ "_resume/.state" \in dirs)
    BY <2>1 DEF Start
  <2>4. FilesInv'
    BY <2>2 DEF RInv, PInv, FilesInv, PcInv, Filling
  <2>5. CASE again
    <3>1. starts # 0
      BY <2>2, <2>5 DEF RInv, PInv
    <3>2. pc' = "rename" /\ valued' = valued /\ mixed' = mixed /\ Vacant' = Vacant
      BY <2>2, <2>3, <2>5, <3>1 DEF Vacant
    <3>3. LossInv'
      BY <2>2, <3>2 DEF RInv, LossInv, Cleaning, Working
    <3> QED
      BY <2>4, <3>3
  <2>6. CASE ~again
    <3>1. pc' \in {"dirs", "clean"} /\ valued' = {} /\ Vacant' = Vacant
      BY <2>2, <2>6 DEF Vacant
    <3>2. ~mixed' => Vacant
      BY <2>3, <2>6 DEF Vacant
    <3>3. LossInv'
      BY <3>1, <3>2 DEF LossInv, Cleaning, Working
    <3> QED
      BY <2>4, <3>3
  <2> QED
    BY <2>5, <2>6
<1>2. CASE RenameQueue
  <2>1. pc = "rename" /\ pc' = "clean" /\ UNCHANGED <<in_place, valued, mixed>>
    BY <1>2 DEF RenameQueue
  <2>2. in_place
    BY <2>1 DEF RInv, FilesInv
  <2>3. CASE "queue" \in dirs /\ Vacant
    <3>1. resume' = queue /\ queue' = {}
      BY <1>2, <2>3 DEF RenameQueue
    <3>2. FilesInv'
      BY <2>1, <3>1 DEF RInv, FilesInv, PcInv, OneEach, Filling
    <3>3. LossInv'
      BY <2>1, <2>2, <2>3, <3>1 DEF RInv, LossInv, Cleaning, Working
    <3> QED
      BY <3>2, <3>3
  <2>4. CASE ~("queue" \in dirs /\ Vacant)
    <3>1. UNCHANGED <<dirs, queue, resume>>
      BY <1>2, <2>4 DEF RenameQueue
    <3>2. FilesInv'
      BY <2>1, <3>1 DEF RInv, FilesInv, PcInv, Filling
    <3>3. ~mixed => valued \subseteq Contents(resume)
      <4>1. CASE Vacant
        <5>1. queue = {} /\ resume = {}
          BY <2>4, <4>1 DEF RInv, FilesInv, Vacant
        <5> QED
          BY <2>1, <4>1, <5>1 DEF RInv, LossInv
      <4>2. CASE ~Vacant
        BY <2>1, <4>2 DEF RInv, LossInv
      <4> QED
        BY <4>1, <4>2
    <3>4. LossInv'
      BY <2>1, <2>2, <3>1, <3>3 DEF LossInv, Cleaning, Working
    <3> QED
      BY <3>2, <3>4
  <2> QED
    BY <2>3, <2>4
<1>3. CASE CleanState
  <2>1. /\ pc = "clean" /\ pc' = "unlink" /\ dirs' = dirs \ {"queue/.state"}
        /\ UNCHANGED <<queue, resume, valued, mixed, in_place>>
    BY <1>3 DEF CleanState
  <2>2. Vacant' = Vacant
    BY <2>1 DEF Vacant
  <2> QED
    BY <2>1, <2>2, QuietSafe DEF RInv, FilesInv, PcInv, Filling, Cleaning
<1>4. CASE Unlink
  <2>1. /\ pc = "unlink" /\ pc' \in {"unlink", "dirs"} /\ queue' \subseteq queue
        /\ UNCHANGED <<resume, valued, mixed, in_place>>
        /\ \/ dirs' = dirs
           \/ dirs' = dirs \ {"queue"} /\ queue' = {}
    BY <1>4 DEF Unlink, delete_files
  <2>2. Vacant' = Vacant
    BY <2>1 DEF Vacant
  <2>3. OneEach(queue')
    BY <2>1, OnceSubset DEF RInv, FilesInv
  <2>4. "queue" \notin dirs' => queue' = {}
    BY <2>1 DEF RInv, FilesInv
  <2>5. FilesInv'
    BY <2>1, <2>3, <2>4 DEF RInv, FilesInv, PcInv, Filling
  <2>6. LossInv'
    BY <2>1, <2>2 DEF RInv, LossInv, Cleaning, Working
  <2> QED
    BY <2>5, <2>6
<1>5. CASE MakeQueue
  <2>1. /\ pc = "dirs" /\ pc' \in {"down", "state"} /\ dirs' = dirs \cup {"queue"}
        /\ UNCHANGED <<queue, resume, valued, mixed, in_place>>
    BY <1>5 DEF MakeQueue, Down
  <2>2. Vacant' = Vacant
    BY <2>1 DEF Vacant
  <2>3. FilesInv'
    BY <2>1 DEF RInv, FilesInv, PcInv, Filling
  <2>4. LossInv'
    BY <2>1, <2>2, QuietSafe, DownSafe DEF RInv, Cleaning
  <2> QED
    BY <2>3, <2>4
<1>6. CASE MakeRest
  <2>1. /\ pc = "state" /\ pc' = "read" /\ dirs' = dirs \cup {"cur_dom_bits", "queue/.state"}
        /\ UNCHANGED <<queue, resume, valued, mixed, in_place>>
    BY <1>6 DEF MakeRest
  <2>2. Vacant' = Vacant
    BY <2>1 DEF Vacant
  <2>3. FilesInv'
    BY <2>1 DEF RInv, FilesInv, PcInv, Filling
  <2> QED
    BY <2>1, <2>2, <2>3, QuietSafe DEF RInv, Cleaning
<1> QED
  BY <1>1, <1>2, <1>3, <1>4, <1>5, <1>6

LEMMA FoundStuff ==
  ASSUME in_place, IsFiniteSet(resume), OneEach(resume)
  PROVE  {Found[m].seed : m \in DOMAIN Found} = Contents(resume)
<1>1. \A m \in DOMAIN Found : \E f \in resume : f.whole /\ Found[m].seed = f.seed
  BY FoundEntries
<1>2. \A f \in resume : f.whole => \E m \in DOMAIN Found : Found[m].seed = f.seed
  BY FoundEntries
<1> HIDE DEF Found
<1>3. \A m \in DOMAIN Found : Found[m].seed \in Contents(resume)
  BY <1>1 DEF Contents
<1>4. \A s \in Contents(resume) : \E m \in DOMAIN Found : Found[m].seed = s
  BY <1>2 DEF Contents
<1> QED
  BY <1>3, <1>4

LEMMA StuffLen ==
  ASSUME PInv PROVE Stuff = {entries[m].seed : m \in 1..Len(entries)}
BY EntriesLen DEF PInv, Stuff

LEMMA ReadSafe == ASSUME RInv, PInv', ReadTestcases PROVE FilesInv' /\ LossInv'
<1>1. pc = "read" /\ UNCHANGED <<dirs, queue, resume, valued, mixed, in_place>>
  BY DEF ReadTestcases, Down, history
<1>2. Vacant' = Vacant
  BY <1>1 DEF Vacant
<1>3. CASE Found = <<>>
  <2>1. pc' = "down"
    BY <1>3 DEF ReadTestcases, Down, Go
  <2>2. FilesInv'
    BY <1>1, <2>1 DEF RInv, FilesInv, PcInv, Filling
  <2> QED
    BY <1>1, <1>2, <2>1, <2>2, DownSafe DEF RInv, Cleaning
<1>4. CASE Found # <<>>
  <2>1. pc' = "pivot" /\ entries' = Found
    BY <1>4 DEF ReadTestcases, Go
  <2>2. FilesInv'
    BY <1>1, <2>1 DEF RInv, FilesInv, PcInv, Filling
  <2>3. /\ ~mixed => valued \subseteq Contents(resume) /\ (in_place \/ Vacant)
        /\ IsFiniteSet(resume) /\ OneEach(resume)
    BY <1>1 DEF RInv, LossInv, Cleaning, FilesInv, PInv
  <2>4. in_place => Stuff' = Contents(resume)
    BY <2>1, <2>3, FoundStuff DEF Stuff
  <2>5. Vacant /\ valued \subseteq Contents(resume) => valued \subseteq Contents(queue)
    BY NoContents DEF Vacant
  <2>6. LossInv'
    BY <1>1, <1>2, <2>1, <2>3, <2>4, <2>5 DEF LossInv, Cleaning, Working
  <2> QED
    BY <2>2, <2>6
<1> QED
  BY <1>3, <1>4

LEMMA CopySafe == ASSUME RInv, PInv', BeginCopy PROVE FilesInv' /\ LossInv'
<1>1. /\ pc = "pivot" /\ queue' = queue \cup {Imported(FALSE)}
      /\ UNCHANGED <<dirs, resume, valued, mixed, in_place, entries, pc>>
  BY DEF BeginCopy, Importing, memory, history
<1>2. Vacant' = Vacant /\ Stuff' = Stuff
  BY <1>1 DEF Vacant, Stuff
<1>3. Contents(queue') = Contents(queue)
  BY <1>1, ContentsHalf DEF Imported
<1>4. OneEach(queue')
  BY <1>1, QueueOnce DEF Filling
<1>5. FilesInv'
  BY <1>1, <1>4 DEF RInv, FilesInv, PcInv, Filling
<1>6. LossInv'
  BY <1>1, <1>2, <1>3 DEF RInv, LossInv, Cleaning, Working
<1> QED
  BY <1>5, <1>6

LEMMA PivotSafe == ASSUME RInv, PInv', Pivot PROVE FilesInv' /\ LossInv'
<1> DEFINE s == entries[nth + 1].seed
<1>1. /\ pc = "pivot" /\ queue' = (queue \ {Imported(FALSE)}) \cup {Imported(TRUE)}
      /\ valued' = valued \cup {s} /\ nth < Len(entries)
      /\ UNCHANGED <<dirs, resume, mixed, in_place, entries, pc>>
  BY DEF Pivot, Importing
<1>2. Vacant' = Vacant /\ Stuff' = Stuff
  BY <1>1 DEF Vacant, Stuff
<1>3. Contents(queue') = Contents(queue) \cup {s}
  <2>1. Contents(queue \ {Imported(FALSE)}) = Contents(queue)
    BY ContentsHalf DEF Imported
  <2>2. Contents((queue \ {Imported(FALSE)}) \cup {Imported(TRUE)})
          = Contents(queue \ {Imported(FALSE)}) \cup {s}
    BY ContentsWhole DEF Imported
  <2> QED
    BY <1>1, <2>1, <2>2
<1>4. OneEach(queue')
  BY <1>1, QueueOnce DEF Filling
<1>5. FilesInv'
  BY <1>1, <1>4 DEF RInv, FilesInv, PcInv, Filling
<1>6. s \in Stuff
  <2>1. nth \in Nat /\ Len(entries) \in Nat
    BY EntriesLen DEF RInv, PInv
  <2>2. nth + 1 \in 1..Len(entries)
    BY <1>1, <2>1
  <2> QED
    BY <2>2, StuffLen DEF RInv
<1> HIDE DEF s
<1>7. LossInv'
  <2> SUFFICES ASSUME ~mixed
               PROVE  IF in_place THEN valued' \subseteq Contents(resume)
                                       /\ Stuff = Contents(resume)
                      ELSE Vacant /\ valued' \subseteq Contents(queue')
    BY <1>1, <1>2 DEF LossInv, Cleaning, Working
  <2>1. IF in_place THEN valued \subseteq Contents(resume) /\ Stuff = Contents(resume)
        ELSE Vacant /\ valued \subseteq Contents(queue)
    BY <1>1 DEF RInv, LossInv
  <2>2. CASE in_place
    <3>1. valued \subseteq Contents(resume) /\ Stuff = Contents(resume)
      BY <2>1, <2>2
    <3>2. valued' \subseteq Contents(resume)
      BY <1>1, <1>6, <3>1
    <3> QED
      BY <2>2, <3>1, <3>2
  <2>3. CASE ~in_place
    <3>1. Vacant /\ valued \subseteq Contents(queue)
      BY <2>1, <2>3
    <3>2. valued' \subseteq Contents(queue')
      BY <1>1, <1>3, <3>1
    <3> QED
      BY <2>3, <3>1, <3>2
  <2> QED
    BY <2>2, <2>3
<1> QED
  BY <1>5, <1>7

LEMMA PivotEndSafe == ASSUME RInv, PInv', PivotEnd PROVE FilesInv' /\ LossInv'
<1>1. /\ pc = "pivot" /\ nth = Len(entries)
      /\ pc' = (IF in_place THEN "nuke" ELSE "dry")
      /\ UNCHANGED <<dirs, queue, resume, valued, mixed, in_place>>
  BY DEF PivotEnd, Go, history
<1>2. Vacant' = Vacant
  BY <1>1 DEF Vacant
<1>3. FilesInv'
  BY <1>1 DEF RInv, FilesInv, PcInv, Filling
<1>4. Contents(queue) = Stuff
  <2>1. Len(entries) \in Nat
    BY EntriesLen DEF RInv, PInv
  <2>2. ~Importing
    BY <1>1, <2>1 DEF Importing
  <2>3. queue = Made(entries, Len(entries))
    BY <1>1, <2>2 DEF RInv, PInv
  <2> QED
    BY <2>1, <2>3, ContentsMade, StuffLen DEF RInv
<1>5. LossInv'
  BY <1>1, <1>2, <1>4 DEF RInv, LossInv, Cleaning, Working
<1> QED
  BY <1>3, <1>5

LEMMA NukeSafe == ASSUME RInv, PInv', Nuke PROVE FilesInv' /\ LossInv'
<1>1. /\ pc = "nuke" /\ UNCHANGED <<queue, valued, mixed, in_place>>
      /\ ~mixed => valued \subseteq Contents(queue)
  BY DEF Nuke, memory, history, RInv, LossInv
<1>2. "queue" \in dirs
  BY <1>1 DEF RInv, FilesInv, PcInv, Filling
<1>3. CASE "_resume/.state" \in dirs
  <2>1. dirs' = dirs \ {"_resume/.state"} /\ pc' = pc /\ resume' = resume
    BY <1>3 DEF Nuke
  <2>2. FilesInv'
    BY <1>1, <2>1 DEF RInv, FilesInv, PcInv, Filling
  <2>3. LossInv'
    BY <1>1, <2>1 DEF LossInv, Cleaning, Working
  <2> QED
    BY <2>2, <2>3
<1>4. CASE "_resume/.state" \notin dirs /\ resume # {}
  <2>1. dirs' = dirs /\ pc' = pc /\ resume' \subseteq resume
    BY <1>4 DEF Nuke, delete_files
  <2>2. OneEach(resume')
    BY <2>1, OnceSubset DEF RInv, FilesInv
  <2>3. FilesInv'
    BY <1>1, <2>1, <2>2 DEF RInv, FilesInv, PcInv, Filling
  <2>4. LossInv'
    BY <1>1, <1>4, <2>1 DEF LossInv, Cleaning, Working
  <2> QED
    BY <2>3, <2>4
<1>5. CASE "_resume/.state" \notin dirs /\ resume = {}
  <2>1. dirs' = dirs \ {"_resume"} /\ pc' = "dry" /\ resume' = {}
    BY <1>5 DEF Nuke, Go
  <2>2. FilesInv'
    BY <1>1, <1>2, <2>1 DEF RInv, FilesInv, PcInv, OneEach, Filling
  <2>3. Vacant'
    BY <1>5, <2>1 DEF Vacant
  <2>4. LossInv'
    BY <1>1, <2>1, <2>3 DEF LossInv, Cleaning, Working
  <2> QED
    BY <2>2, <2>4
<1> QED
  BY <1>3, <1>4, <1>5

LEMMA RestSafe ==
  ASSUME RInv, PInv', DryRun \/ DryRunFails \/ Seek \/ Kill \/ Tidy
  PROVE  FilesInv' /\ LossInv'
<1> USE DEF Go, memory, history
<1>1. CASE DryRun \/ Seek
  <2>1. /\ pc = "dry" /\ pc' \in {"dry", "run"}
        /\ UNCHANGED <<dirs, queue, resume, valued, mixed, in_place>>
    BY <1>1 DEF DryRun, DryRunEntry, Seek
  <2>2. Vacant' = Vacant
    BY <2>1 DEF Vacant
  <2>3. FilesInv'
    BY <2>1 DEF RInv, FilesInv, PcInv, Filling
  <2> QED
    BY <2>1, <2>2, <2>3, QuietSafe DEF RInv, Working
<1>2. CASE DryRunFails
  <2>1. /\ pc = "dry" /\ pc' = "down"
        /\ UNCHANGED <<dirs, queue, resume, valued, mixed, in_place>>
    BY <1>2 DEF DryRunFails, DryRunEntry, Down
  <2>2. Vacant' = Vacant
    BY <2>1 DEF Vacant
  <2>3. FilesInv'
    BY <2>1 DEF RInv, FilesInv, PcInv, Filling
  <2> QED
    BY <2>1, <2>2, <2>3, DownSafe DEF RInv, Working
<1>3. CASE Kill
  <2>1. /\ pc # "down" /\ pc' = "down"
        /\ UNCHANGED <<dirs, queue, resume, valued, in_place>>
        /\ mixed' = (mixed \/ (pc = "nuke" /\ resume # {}
                                 /\ ~(Contents(queue) \subseteq Contents(resume))))
    BY <1>3 DEF Kill, Down
  <2>2. Vacant' = Vacant
    BY <2>1 DEF Vacant
  <2>3. FilesInv'
    BY <2>1 DEF RInv, FilesInv, PcInv, Filling
  <2>4. ~mixed' => ~mixed /\ (pc = "nuke" => \/ resume = {}
                                             \/ Contents(queue) \subseteq Contents(resume))
    BY <2>1
  <2>5. pc \in {"rename", "pivot", "nuke"} \cup Cleaning \cup Working
    BY <2>1 DEF RInv, FilesInv, PcInv, Filling, Cleaning, Working
  <2> QED
    BY <2>1, <2>2, <2>3, <2>4, <2>5, DownSafe DEF RInv
<1>4. CASE Tidy
  <2>1. /\ pc = "down" /\ pc' = "down" /\ dirs' = dirs \ {"cur_dom_bits"}
        /\ UNCHANGED <<queue, resume, valued, mixed, in_place>>
    BY <1>4 DEF Tidy
  <2>2. Vacant' = Vacant
    BY <2>1 DEF Vacant
  <2>3. FilesInv'
    BY <2>1 DEF RInv, FilesInv, PcInv, Filling
  <2> QED
    BY <2>1, <2>2, <2>3, QuietSafe DEF RInv
<1> QED
  BY <1>1, <1>2, <1>3, <1>4

LEMMA SaveSafe ==
  ASSUME RInv, PInv',
         SaveBits \/ SaveAdd \/ SaveFault \/ mark_as_det_done \/ WriteStats
  PROVE  FilesInv' /\ LossInv'
<1>1. /\ pc \in {"run", "bits"} /\ pc' \in {"run", "bits", "added"}
      /\ UNCHANGED <<dirs, queue, resume, valued, mixed, in_place>>
  BY DEF SaveBits, SaveAdd, SaveFault, mark_as_det_done, WriteStats, Go, memory, history
<1>2. Vacant' = Vacant
  BY <1>1 DEF Vacant
<1>3. FilesInv'
  BY <1>1 DEF RInv, FilesInv, PcInv, Filling
<1> QED
  BY <1>1, <1>2, <1>3, QuietSafe DEF RInv, Working

LEMMA CreateSafe == ASSUME RInv, PInv', SaveCreate PROVE FilesInv' /\ LossInv'
<1>1. /\ pc = "added" /\ pc' = "created"
      /\ queue' = queue \cup {File(top, entries[Len(entries)].seed, FALSE)}
      /\ UNCHANGED <<dirs, resume, valued, mixed, in_place>>
  BY DEF SaveCreate, Go, memory, history
<1>2. Vacant' = Vacant
  BY <1>1 DEF Vacant
<1>3. Contents(queue') = Contents(queue)
  BY <1>1, ContentsHalf
<1>4. OneEach(queue')
  BY <1>1, QueueOnce DEF Filling
<1>5. FilesInv'
  BY <1>1, <1>4 DEF RInv, FilesInv, PcInv, Filling
<1>6. LossInv'
  BY <1>1, <1>2, <1>3 DEF RInv, LossInv, Cleaning, Working
<1> QED
  BY <1>5, <1>6

LEMMA WriteSafe == ASSUME RInv, PInv', SaveWrite PROVE FilesInv' /\ LossInv'
<1> DEFINE s == entries[Len(entries)].seed
<1>1. /\ pc = "created" /\ pc' = "run" /\ queue' = Filled(queue)
      /\ valued' = valued \cup {s}
      /\ UNCHANGED <<dirs, resume, mixed, in_place>>
  BY DEF SaveWrite, Go, memory
<1>2. Vacant' = Vacant
  BY <1>1 DEF Vacant
<1>3. queue = Made(entries, top) \cup {File(top, s, FALSE)} /\ top \in Nat
  BY <1>1 DEF RInv, PInv
<1>4. Contents(queue') = Contents(queue) \cup {s}
  <2>1. Len(entries) = top + 1
    BY <1>3, EntriesLen DEF RInv, PInv, top
  <2>2. Filled(queue) = Made(entries, top + 1)
    BY <1>3, <2>1, FilledMade
  <2>3. Filled(queue) = Made(entries, top) \cup {File(top, s, TRUE)}
    BY <1>3, <2>1, <2>2, MadeNext
  <2>4. Contents(queue) = Contents(Made(entries, top))
    BY <1>3, ContentsHalf
  <2>5. Contents(Made(entries, top) \cup {File(top, s, TRUE)})
          = Contents(Made(entries, top)) \cup {s}
    BY ContentsWhole
  <2> QED
    BY <1>1, <2>3, <2>4, <2>5
<1>5. OneEach(queue')
  BY <1>1, QueueOnce DEF Filling
<1>6. FilesInv'
  BY <1>1, <1>5 DEF RInv, FilesInv, PcInv, Filling
<1> HIDE DEF s
<1>7. LossInv'
  BY <1>1, <1>2, <1>4 DEF RInv, LossInv, Cleaning, Working
<1> QED
  BY <1>6, <1>7

LEMMA UserSafe ==
  ASSUME RInv, UNCHANGED wvars PROVE FilesInv' /\ LossInv'
<1>1. Vacant' = Vacant /\ Stuff' = Stuff
  BY DEF wvars, Vacant, Stuff
<1>2. FilesInv'
  BY DEF RInv, FilesInv, PcInv, Filling, wvars
<1>3. LossInv'
  BY <1>1 DEF RInv, LossInv, Cleaning, Working, wvars
<1> QED
  BY <1>2, <1>3

LEMMA RInvNext == ASSUME RInv, [UNext]_uvars PROVE RInv'
<1>1. PInv'
  BY PInvNext DEF RInv
<1>2. CASE OwnerStarts
  BY <1>1, <1>2, StartSafe DEF OwnerStarts, RInv
<1>3. CASE RenameQueue \/ CleanState \/ Unlink \/ MakeQueue \/ MakeRest
  BY <1>1, <1>3, StartSafe DEF RInv
<1>4. CASE ReadTestcases \/ BeginCopy \/ Pivot \/ PivotEnd \/ Nuke
  BY <1>1, <1>4, ReadSafe, CopySafe, PivotSafe, PivotEndSafe, NukeSafe DEF RInv
<1>5. CASE DryRun \/ DryRunFails \/ Seek \/ Kill \/ Tidy
  BY <1>1, <1>5, RestSafe DEF RInv
<1>6. CASE SaveBits \/ SaveAdd \/ SaveFault \/ mark_as_det_done \/ WriteStats
  BY <1>1, <1>6, SaveSafe DEF RInv
<1>7. CASE SaveCreate \/ SaveWrite
  BY <1>1, <1>7, CreateSafe, WriteSafe DEF RInv
<1>8. CASE ScanBegin \/ Visit \/ ScanEnd \/ ScanStop \/ TrainList \/ TrainRead
           \/ TrainLeave \/ UNCHANGED uvars
  <2>1. UNCHANGED wvars
    BY <1>8 DEF ScanBegin, Visit, ScanEnd, ScanStop, TrainList, TrainRead, TrainLeave,
                uvars
  <2> QED
    BY <1>1, <2>1, UserSafe DEF RInv
<1> QED
  BY <1>2, <1>3, <1>4, <1>5, <1>6, <1>7, <1>8 DEF UNext, OwnerSteps

LEMMA RInvInit == ASSUME UInit PROVE RInv
<1>1. PInv
  BY PInvInit
<1>2. FilesInv
  BY DEF UInit, WInit, FilesInv, PcInv, OneEach, Filling
<1>3. LossInv
  BY DEF UInit, WInit, LossInv, Cleaning, Working
<1> QED
  BY <1>1, <1>2, <1>3 DEF RInv

LEMMA RInvAlways == USpec => []RInv
BY RInvInit, RInvNext, PTL DEF USpec

(* However often a campaign is killed and its resume is begun, a test case *)
(* it has found is whole in queue/ or in _resume/, with two exceptions,    *)
(* which are what mixed records and where test cases are really lost: the  *)
(* kill came while nuke_resume_dir emptied _resume/, and a later resume    *)
(* takes the rest of it for the whole queue; or a fresh start found a      *)
(* _resume/ of an older campaign, which a resume will take for its own.    *)
THEOREM UnmixedCampaignKept == USpec => []EntriesKept
<1>1. RInv => EntriesKept
  <2> SUFFICES ASSUME RInv, ~mixed
               PROVE  valued \subseteq Contents(queue) \cup Contents(resume)
    BY DEF EntriesKept
  <2>1. CASE pc \in {"down", "rename"}
    BY <2>1 DEF RInv, LossInv
  <2>2. CASE pc \in Cleaning
    BY <2>2 DEF RInv, LossInv
  <2>3. CASE pc \in {"pivot", "nuke"}
    BY <2>3 DEF RInv, LossInv
  <2>4. CASE pc \in Working
    BY <2>4 DEF RInv, LossInv
  <2>5. pc \in {"down", "rename", "pivot", "nuke"} \cup Cleaning \cup Working
    BY DEF RInv, FilesInv, PcInv, Filling, Cleaning, Working
  <2> QED
    BY <2>1, <2>2, <2>3, <2>4, <2>5
<1> QED
  BY <1>1, RInvAlways, PTL

-----------------------------------------------------------------------------
(***************************************************************************)
(* What another fuzzer takes over                                          *)
(***************************************************************************)
(* The files of _resume that keep their id when they are imported: those   *)
(* that no gap comes before.                                               *)
Aligned == {f \in resume : f.whole /\ Rank(f.id) = f.id}

LEMMA AlignedShrinks ==
  ASSUME IsFiniteSet(resume), OneEach(resume), resume' \subseteq resume
  PROVE  Aligned' \subseteq Aligned
<1> SUFFICES ASSUME NEW f \in Aligned' PROVE Rank(f.id) = f.id
  BY DEF Aligned
<1>1. f \in resume /\ Place(WholeIds', f.id) = f.id
  BY DEF Aligned, Rank
<1>2. f.id \in Nat
  BY <1>1 DEF OneEach
<1>3. IsFiniteSet(WholeIds) /\ WholeIds \subseteq Nat /\ WholeIds' \subseteq WholeIds
  BY WholeIdsFinite DEF WholeIds
<1>4. Place(WholeIds', f.id) <= Place(WholeIds, f.id)
  BY <1>3, PlaceSmaller
<1>5. Place(WholeIds, f.id) \in Nat /\ Place(WholeIds, f.id) <= f.id
  BY <1>2, <1>3, PlaceFinite, PlaceBound
<1> QED
  BY <1>1, <1>2, <1>4, <1>5 DEF Rank

(* While a resume imports, its entries tell which files are aligned.       *)
EntryInv ==
  /\ pc = "nuke" \/ (pc = "pivot" /\ in_place) =>
       \A f \in Aligned : f.id + 1 \in DOMAIN entries /\ entries[f.id + 1].seed = f.seed
  /\ pc = "pivot" =>
       \A m \in DOMAIN entries : entries[m].id = m - 1 =>
         \E f \in Aligned : f.id = m - 1 /\ f.seed = entries[m].seed

(* No id stands for one test case in queue/ and another in _resume/.       *)
TieInv == ~mixed => \A q \in queue, f \in Aligned : q.id = f.id => q.seed = f.seed

Ended == {"down", "rename"} \cup Cleaning

(* What any step of the owner does to the two directories.                 *)
LEMMA StartSteps ==
  ASSUME RInv, \/ \E again \in BOOLEAN : Start(again)
               \/ RenameQueue \/ CleanState \/ Unlink \/ MakeQueue \/ MakeRest
  PROVE  /\ resume' \subseteq resume \/ (resume' = queue /\ queue' = {})
         /\ ~mixed' => ~mixed \/ resume' = {}
         /\ queue' \subseteq queue
         /\ pc # "pivot" /\ pc' \in Ended
<1> USE DEF Go, memory, history, Ended, Cleaning
<1>1. CASE \E again \in BOOLEAN : Start(again)
  <2>1. PICK again \in BOOLEAN : Start(again)
    BY <1>1
  <2> QED
    BY <2>1 DEF Start
<1>2. CASE RenameQueue
  BY <1>2 DEF RenameQueue
<1>3. CASE CleanState \/ MakeRest
  BY <1>3 DEF CleanState, MakeRest
<1>4. CASE Unlink
  BY <1>4 DEF Unlink, delete_files
<1>5. CASE MakeQueue
  BY <1>5 DEF MakeQueue, Down
<1> QED
  BY <1>1, <1>2, <1>3, <1>4, <1>5

LEMMA ImportSteps ==
  ASSUME RInv, PivotEnd \/ Nuke
  PROVE  /\ resume' \subseteq resume
         /\ UNCHANGED <<queue, mixed, entries, in_place>>
         /\ pc \in {"pivot", "nuke"}
         /\ pc' \in {"nuke", "dry"} /\ (pc' = "nuke" => pc = "nuke" \/ in_place)
<1>1. CASE PivotEnd
  BY <1>1 DEF PivotEnd, Go, history
<1>2. CASE Nuke
  BY <1>2 DEF Nuke, Go, memory, history, delete_files
<1> QED
  BY <1>1, <1>2

LEMMA RunSteps ==
  ASSUME RInv, \/ DryRun \/ DryRunFails \/ Seek \/ Kill \/ Tidy
               \/ SaveBits \/ SaveAdd \/ SaveFault \/ mark_as_det_done \/ WriteStats
  PROVE  /\ UNCHANGED <<queue, resume>>
         /\ ~mixed' => ~mixed
         /\ pc' \in {"down"} \cup Working
<1> USE DEF Go, memory, history
<1>1. CASE DryRun \/ Seek
  <2>1. UNCHANGED <<queue, resume, mixed>> /\ pc' \in {"dry", "run"}
    BY <1>1 DEF DryRun, DryRunEntry, Seek
  <2> QED
    BY <2>1 DEF Working
<1>2. CASE DryRunFails
  BY <1>2 DEF DryRunFails, DryRunEntry, Down
<1>3. CASE Kill
  BY <1>3 DEF Kill, Down
<1>4. CASE Tidy
  BY <1>4 DEF Tidy
<1>5. CASE SaveBits \/ SaveAdd \/ SaveFault \/ mark_as_det_done \/ WriteStats
  <2>1. UNCHANGED <<queue, resume, mixed>>
    BY <1>5 DEF SaveBits, SaveAdd, SaveFault, mark_as_det_done, WriteStats
  <2>2. pc' \in {"run", "bits", "added"}
    BY <1>5 DEF SaveBits, SaveAdd, SaveFault, mark_as_det_done, WriteStats
  <2> QED
    BY <2>1, <2>2 DEF Working
<1> QED
  BY <1>1, <1>2, <1>3, <1>4, <1>5

LEMMA EntryNext ==
  ASSUME RInv, EntryInv,
         \/ pc' \notin {"pivot", "nuke"}
         \/ ReadTestcases
         \/ /\ UNCHANGED <<entries, in_place>> /\ resume' \subseteq resume
            /\ \/ pc = "pivot" /\ pc' = "pivot" /\ resume' = resume
               \/ pc = "pivot" /\ pc' = "nuke" /\ in_place
               \/ pc = "nuke" /\ pc' = "nuke"
  PROVE  EntryInv'
<1>0. IsFiniteSet(resume) /\ OneEach(resume)
  BY DEF RInv, PInv, FilesInv
<1>1. CASE pc' \notin {"pivot", "nuke"}
  BY <1>1 DEF EntryInv
<1>2. CASE ReadTestcases /\ pc' \in {"pivot", "nuke"}
  <2>1. pc' = "pivot" /\ entries' = Found /\ UNCHANGED <<resume, in_place>>
    BY <1>2 DEF ReadTestcases, Down, Go
  <2>2. Aligned' = Aligned
    BY <2>1 DEF Aligned, Rank, WholeIds
  <2>3. CASE in_place
    <3>1. \A f \in Aligned : f.id + 1 \in DOMAIN Found /\ Found[f.id + 1].seed = f.seed
      BY <1>0, <2>3, FoundEntries DEF Aligned
    <3>2. ASSUME NEW m \in DOMAIN Found, Found[m].id = m - 1
          PROVE  \E f \in Aligned : f.id = m - 1 /\ f.seed = Found[m].seed
      <4>1. PICK f \in resume : /\ f.whole /\ Rank(f.id) = m - 1
                                /\ Found[m].id = f.id /\ Found[m].seed = f.seed
        BY <1>0, <2>3, FoundEntries
      <4> QED
        BY <3>2, <4>1 DEF Aligned
    <3> QED
      BY <2>1, <2>2, <3>1, <3>2 DEF EntryInv
  <2>4. CASE ~in_place
    <3>1. \A m \in DOMAIN Found : Found[m].id = -1 /\ m \in Nat /\ m > 0
      <4>1. DOMAIN FirstSeeds = 1..Len(FirstSeeds) /\ Len(FirstSeeds) \in Nat
        BY FirstAssumption
      <4> QED
        BY <2>4, <4>1 DEF Found, Missing
    <3>2. \A m \in DOMAIN Found : Found[m].id # m - 1
      BY <3>1
    <3> QED
      BY <2>1, <2>4, <3>2 DEF EntryInv
  <2> QED
    BY <2>3, <2>4
<1>3. CASE /\ UNCHANGED <<entries, in_place>> /\ resume' \subseteq resume
           /\ \/ pc = "pivot" /\ pc' = "pivot" /\ resume' = resume
              \/ pc = "pivot" /\ pc' = "nuke" /\ in_place
              \/ pc = "nuke" /\ pc' = "nuke"
  <2>1. Aligned' \subseteq Aligned
    BY <1>0, <1>3, AlignedShrinks
  <2>2. resume' = resume => Aligned' = Aligned
    BY DEF Aligned, Rank, WholeIds
  <2> QED
    BY <1>3, <2>1, <2>2 DEF EntryInv
<1> QED
  BY <1>1, <1>2, <1>3

LEMMA MadeSeeds ==
  ASSUME NEW e, NEW n \in Nat, NEW q \in Made(e, n)
  PROVE  q.seed = e[q.id + 1].seed
<1>1. PICK m \in 1..n : q = File(m - 1, e[m].seed, TRUE)
  BY DEF Made
<1>2. q.id = m - 1 /\ q.seed = e[m].seed
  BY <1>1 DEF File
<1>3. q.id + 1 = m
  <2>1. m \in Int
    OBVIOUS
  <2> QED
    BY <1>2, <2>1
<1> QED
  BY <1>2, <1>3

LEMMA TieNext ==
  ASSUME RInv, RInv', TieInv, EntryInv',
         pc' \in Ended => \/ queue' = {} \/ resume' = {}
                          \/ /\ queue' \subseteq queue /\ resume' \subseteq resume
                             /\ ~mixed' => ~mixed
  PROVE  TieInv'
<1> SUFFICES ASSUME ~mixed', NEW q \in queue', NEW f \in Aligned', q.id = f.id
             PROVE  q.seed = f.seed
  BY DEF TieInv
<1>1. f \in resume'
  BY DEF Aligned
<1>2. CASE pc' \in Ended
  <2>1. queue' \subseteq queue /\ resume' \subseteq resume /\ ~mixed
    BY <1>1, <1>2
  <2>2. f \in Aligned
    BY <2>1, AlignedShrinks DEF RInv, PInv, FilesInv
  <2> QED
    BY <2>1, <2>2 DEF TieInv
<1>3. CASE pc' \in Working \/ (pc' = "pivot" /\ ~in_place')
  <2>1. Vacant'
    BY <1>3 DEF RInv, LossInv
  <2> QED
    BY <1>1, <2>1 DEF Vacant
<1>4. CASE pc' = "nuke" \/ (pc' = "pivot" /\ in_place')
  <2>1. entries'[f.id + 1].seed = f.seed
    BY <1>4 DEF EntryInv
  <2>2. nth' \in Nat /\ Len(entries') \in Nat
    <3>1. Len(entries') \in Nat
      BY DEF RInv, PInv, Queued
    <3> QED
      BY <3>1 DEF RInv, PInv
  <2>3. \/ queue' = Made(entries', Len(entries'))
        \/ queue' = Made(entries', nth')
        \/ queue' = Made(entries', nth') \cup {Imported(FALSE)'}
    BY <1>4 DEF RInv, PInv
  <2>4. Imported(FALSE)'.id = nth' /\ Imported(FALSE)'.seed = entries'[nth' + 1].seed
    BY DEF Imported, File
  <2>5. q.seed = entries'[q.id + 1].seed
    BY <2>2, <2>3, <2>4, MadeSeeds
  <2> QED
    BY <2>1, <2>5
<1>5. pc' \in Ended \cup Working \cup {"pivot", "nuke"}
  BY DEF RInv, FilesInv, PcInv, Filling, Ended, Cleaning, Working
<1> QED
  BY <1>2, <1>3, <1>4, <1>5

NInv == RInv /\ EntryInv /\ TieInv

ReadOnly == \/ ScanBegin \/ Visit \/ ScanEnd \/ ScanStop \/ TrainList \/ TrainRead
            \/ TrainLeave \/ UNCHANGED uvars

LEMMA ReadOnlySteps == ASSUME ReadOnly PROVE UNCHANGED wvars
BY DEF ReadOnly, ScanBegin, Visit, ScanEnd, ScanStop, TrainList, TrainRead, TrainLeave,
       uvars

LEMMA SaveSteps ==
  ASSUME SaveCreate \/ SaveWrite PROVE pc' \in {"created", "run"} /\ pc # "pivot"
BY DEF SaveCreate, SaveWrite, Go

LEMMA NInvNext == ASSUME NInv, [UNext]_uvars PROVE NInv'
<1>1. RInv'
  BY RInvNext DEF NInv
<1> SUFFICES EntryInv' /\ TieInv'
  BY <1>1 DEF NInv
<1>2. CASE \/ \E again \in BOOLEAN : Start(again)
           \/ RenameQueue \/ CleanState \/ Unlink \/ MakeQueue \/ MakeRest
  <2>1. /\ resume' \subseteq resume \/ (resume' = queue /\ queue' = {})
        /\ ~mixed' => ~mixed \/ resume' = {}
        /\ queue' \subseteq queue
        /\ pc # "pivot" /\ pc' \in Ended
    BY <1>2, StartSteps DEF NInv
  <2>2. EntryInv'
    BY <2>1, EntryNext DEF NInv, Ended, Cleaning
  <2>3. CASE mixed'
    BY <2>2, <2>3 DEF TieInv
  <2>4. CASE ~mixed'
    BY <1>1, <2>1, <2>2, <2>4, TieNext DEF NInv
  <2> QED
    BY <2>2, <2>3, <2>4
<1>3. CASE ReadTestcases
  <2>1. pc' \in {"down", "pivot"} /\ UNCHANGED <<queue, resume, mixed>>
    BY <1>3 DEF ReadTestcases, Down, Go, history
  <2>2. EntryInv'
    BY <1>3, EntryNext DEF NInv
  <2> QED
    BY <1>1, <2>1, <2>2, TieNext DEF NInv
<1>4. CASE BeginCopy \/ Pivot
  <2>1. pc = "pivot" /\ pc' = "pivot" /\ UNCHANGED <<entries, in_place, resume>>
    BY <1>4 DEF BeginCopy, Pivot, Importing, memory
  <2>2. EntryInv'
    BY <2>1, EntryNext DEF NInv
  <2> QED
    BY <1>1, <2>1, <2>2, TieNext DEF NInv, Ended, Cleaning
<1>5. CASE PivotEnd \/ Nuke
  <2>1. /\ resume' \subseteq resume
        /\ UNCHANGED <<queue, mixed, entries, in_place>>
        /\ pc \in {"pivot", "nuke"}
        /\ pc' \in {"nuke", "dry"} /\ (pc' = "nuke" => pc = "nuke" \/ in_place)
    BY <1>5, ImportSteps DEF NInv
  <2>2. EntryInv'
    BY <2>1, EntryNext DEF NInv
  <2> QED
    BY <1>1, <2>1, <2>2, TieNext DEF NInv, Ended, Cleaning
<1>6. CASE \/ DryRun \/ DryRunFails \/ Seek \/ Kill \/ Tidy
           \/ SaveBits \/ SaveAdd \/ SaveFault \/ mark_as_det_done \/ WriteStats
  <2>1. /\ UNCHANGED <<queue, resume>>
        /\ ~mixed' => ~mixed
        /\ pc' \in {"down"} \cup Working
    BY <1>6, RunSteps DEF NInv
  <2>2. EntryInv'
    BY <2>1, EntryNext DEF NInv, Working
  <2> QED
    BY <1>1, <2>1, <2>2, TieNext DEF NInv
<1>7. CASE SaveCreate \/ SaveWrite
  <2>1. pc' \in {"created", "run"}
    BY <1>7, SaveSteps
  <2>2. EntryInv'
    BY <2>1, EntryNext DEF NInv
  <2> QED
    BY <1>1, <2>1, <2>2, TieNext DEF NInv, Ended, Cleaning
<1>8. CASE ReadOnly
  <2>1. UNCHANGED wvars
    BY <1>8, ReadOnlySteps
  <2>2. Aligned' = Aligned
    BY <2>1 DEF wvars, Aligned, Rank, WholeIds
  <2> QED
    BY <2>1, <2>2 DEF wvars, NInv, EntryInv, TieInv
<1> QED
  BY <1>2, <1>3, <1>4, <1>5, <1>6, <1>7, <1>8
  DEF UNext, OwnerStarts, OwnerSteps, ReadOnly

-----------------------------------------------------------------------------
Known(name) == name.seed \in tried \/ name.id \in excused

(* Names that stand for one test case, now and after a resume.             *)
Held == Names(queue) \cup (IF mixed THEN {} ELSE Names(Aligned))

LEMMA NamesGrow ==
  ASSUME NEW S, NEW T, S \subseteq T PROVE Names(S) \subseteq Names(T)
BY DEF Names

LEMMA NamesAdd ==
  ASSUME NEW S, NEW id, NEW seed, NEW whole
  PROVE  Names(S \cup {File(id, seed, whole)}) = Names(S) \cup {[id |-> id, seed |-> seed]}
<1> DEFINE f == File(id, seed, whole)
<1>1. f.id = id /\ f.seed = seed
  BY DEF File
<1> HIDE DEF f
<1>2. Names(S \cup {f}) = Names(S) \cup {[id |-> f.id, seed |-> f.seed]}
  BY DEF Names
<1> QED
  BY <1>1, <1>2 DEF f

LEMMA NamesFilled == ASSUME NEW S PROVE Names(Filled(S)) = Names(S)
<1>1. \A f \in S : File(f.id, f.seed, TRUE).id = f.id /\ File(f.id, f.seed, TRUE).seed = f.seed
  BY DEF File
<1>2. \A n \in Names(S) : n \in Names(Filled(S))
  BY <1>1 DEF Names, Filled
<1>3. \A n \in Names(Filled(S)) : n \in Names(S)
  BY <1>1 DEF Names, Filled
<1> QED
  BY <1>2, <1>3

LEMMA HeldIds == ASSUME NInv, NEW n \in Held PROVE n.id \in Nat
<1>1. \A f \in queue : f.id \in Nat
  BY DEF NInv, RInv, FilesInv, OneEach
<1>2. \A f \in Aligned : f.id \in Nat
  BY DEF NInv, RInv, FilesInv, OneEach, Aligned
<1>3. n \in Names(queue) \/ n \in Names(Aligned)
  BY DEF Held
<1> QED
  BY <1>1, <1>2, <1>3 DEF Names

(* A step of the owner gives no other name to what was held, unless it     *)
(* reuses an id.                                                           *)
NewHeld == \A n \in Held' : n \in Held \/ (n \in Names(queue') \ Names(queue) /\ ~Keeps)

LEMMA HeldSame ==
  ASSUME NInv, queue' \subseteq queue,
         resume' \subseteq resume \/ (resume' = queue /\ queue' = {}),
         ~mixed' => ~mixed \/ resume' = {}
  PROVE  NewHeld
<1>1. Names(queue') \subseteq Names(queue)
  BY NamesGrow
<1> SUFFICES ASSUME ~mixed', NEW n \in Names(Aligned') PROVE n \in Held
  BY <1>1 DEF NewHeld, Held
<1>2. PICK f \in Aligned' : n = [id |-> f.id, seed |-> f.seed]
  BY DEF Names
<1>3. f \in resume'
  BY <1>2 DEF Aligned
<1>4. CASE resume' = queue
  BY <1>2, <1>3, <1>4 DEF Held, Names
<1>5. CASE resume' \subseteq resume /\ ~mixed
  <2>1. f \in Aligned
    BY <1>2, <1>5, AlignedShrinks DEF NInv, RInv, PInv, FilesInv
  <2> QED
    BY <1>2, <1>5, <2>1 DEF Held, Names
<1> QED
  BY <1>3, <1>4, <1>5

LEMMA HeldGrows ==
  ASSUME NInv, UNCHANGED <<resume, mixed>>, NEW n, Names(queue') \subseteq Names(queue) \cup {n},
         n \notin Names(queue) => n \in Names(queue'),
         Keeps => n \in Held
  PROVE  NewHeld
<1>1. Aligned' = Aligned
  BY DEF Aligned, Rank, WholeIds
<1>2. \A m \in Held' : m \in Held \/ m = n
  BY <1>1 DEF Held
<1>3. ~Keeps => n \in Held \/ n \in Names(queue') \ Names(queue)
  BY DEF Held
<1> QED
  BY <1>2, <1>3 DEF NewHeld

LEMMA HeldImport == ASSUME NInv, BeginCopy \/ Pivot PROVE NewHeld
<1> DEFINE n == [id |-> nth, seed |-> entries[nth + 1].seed]
<1>1. pc = "pivot" /\ nth < Len(entries) /\ UNCHANGED <<resume, mixed>>
  BY DEF BeginCopy, Pivot, Importing, history
<1>2. Names(queue') \subseteq Names(queue) \cup {n} /\ n \in Names(queue')
  <2>1. CASE BeginCopy
    <3>1. queue' = queue \cup {Imported(FALSE)}
      BY <2>1 DEF BeginCopy
    <3>2. Names(queue \cup {File(nth, entries[nth + 1].seed, FALSE)}) = Names(queue) \cup {n}
      BY NamesAdd
    <3> QED
      BY <3>1, <3>2 DEF Imported
  <2>2. CASE Pivot
    <3>1. queue' = (queue \ {Imported(FALSE)}) \cup {Imported(TRUE)}
      BY <2>2 DEF Pivot
    <3> DEFINE Q == queue \ {Imported(FALSE)}
    <3>2. Names(Q \cup {File(nth, entries[nth + 1].seed, TRUE)}) = Names(Q) \cup {n}
      BY NamesAdd
    <3>3. Names(queue') = Names(Q) \cup {n}
      BY <3>1, <3>2 DEF Imported
    <3>4. Names(Q) \subseteq Names(queue)
      BY NamesGrow
    <3> QED
      BY <3>3, <3>4
  <2> QED
    BY <2>1, <2>2
<1>3. Keeps => n \in Held
  <2> SUFFICES ASSUME Keeps PROVE n \in Names(Aligned) /\ ~mixed
    BY DEF Held
  <2>1. nth \in Nat /\ Len(entries) \in Nat /\ DOMAIN entries = 1..Len(entries)
    BY EntriesLen DEF NInv, RInv, PInv
  <2>2. nth + 1 \in DOMAIN entries /\ (nth + 1) - 1 = nth
    BY <1>1, <2>1
  <2>3. ~mixed /\ entries[nth + 1].id = (nth + 1) - 1
    BY <2>2 DEF Keeps
  <2>4. \E f \in Aligned : f.id = nth /\ f.seed = entries[nth + 1].seed
    BY <1>1, <2>2, <2>3 DEF NInv, EntryInv
  <2> QED
    BY <2>3, <2>4 DEF Names
<1> HIDE DEF n
<1> QED
  BY <1>1, <1>2, <1>3, HeldGrows

LEMMA HeldOwner == ASSUME NInv, OwnerStarts \/ OwnerSteps PROVE NewHeld
<1>1. CASE \/ \E again \in BOOLEAN : Start(again)
           \/ RenameQueue \/ CleanState \/ Unlink \/ MakeQueue \/ MakeRest
  BY <1>1, StartSteps, HeldSame DEF NInv
<1>2. CASE ReadTestcases
  <2>1. UNCHANGED <<queue, resume, mixed>>
    BY <1>2 DEF ReadTestcases, Down, history
  <2> QED
    BY <2>1, HeldSame
<1>3. CASE BeginCopy \/ Pivot
  BY <1>3, HeldImport
<1>4. CASE PivotEnd \/ Nuke
  BY <1>4, ImportSteps, HeldSame DEF NInv
<1>5. CASE \/ DryRun \/ DryRunFails \/ Seek \/ Kill \/ Tidy
           \/ SaveBits \/ SaveAdd \/ SaveFault \/ mark_as_det_done \/ WriteStats
  <2>1. UNCHANGED <<queue, resume>> /\ (~mixed' => ~mixed)
    BY <1>5, RunSteps DEF NInv
  <2> QED
    BY <2>1, HeldSame
<1>6. CASE SaveCreate
  <2> DEFINE n == [id |-> top, seed |-> entries[Len(entries)].seed]
  <2>1. /\ pc = "added" /\ UNCHANGED <<resume, mixed>>
        /\ queue' = queue \cup {File(top, entries[Len(entries)].seed, FALSE)}
    BY <1>6 DEF SaveCreate, history
  <2>2. Names(queue') = Names(queue) \cup {n}
    BY <2>1, NamesAdd
  <2>3. ~Keeps
    BY <2>1 DEF Keeps
  <2> HIDE DEF n
  <2> QED
    BY <2>1, <2>2, <2>3, HeldGrows
<1>7. CASE SaveWrite
  <2>1. UNCHANGED <<resume, mixed>> /\ Names(queue') = Names(queue)
    BY <1>7, NamesFilled DEF SaveWrite
  <2>2. Aligned' = Aligned
    BY <2>1 DEF Aligned, Rank, WholeIds
  <2> QED
    BY <2>1, <2>2 DEF NewHeld, Held
<1> QED
  BY <1>1, <1>2, <1>3, <1>4, <1>5, <1>6, <1>7 DEF OwnerStarts, OwnerSteps

(* What was held below the mark was executed or given up; while a scan     *)
(* runs, this is so for every id that it has come to.                      *)
SeenInv ==
  /\ min_accept \in Nat /\ next_min_accept \in Nat
  /\ w_pc = "scan" => min_accept <= next_min_accept
  /\ w_pc = "scan" => \A n \in listing : n.id \in Nat
  /\ \A n \in visited : n.id \in Nat /\ n.id < next_min_accept
  /\ \A n \in Held : n.id < min_accept => Known(n)
  /\ \A n \in Held, v \in visited : v.id = n.id => Known(n)

LEMMA OwnerSeen == ASSUME NInv, NInv', SeenInv, OwnerStarts \/ OwnerSteps PROVE SeenInv'
<1>1. NewHeld
  BY HeldOwner
<1>2. UNCHANGED <<w_pc, listing, visited, min_accept, next_min_accept, tried>>
  BY DEF OwnerStarts, OwnerSteps, peer
<1>3. /\ excused \subseteq excused'
      /\ \A n \in Names(queue') \ Names(queue) : ~Keeps /\ Seen(n.id) => n.id \in excused'
  <2>1. CASE OwnerStarts
    <3>1. excused' = excused /\ queue' = queue
      BY <2>1 DEF OwnerStarts, Start, peer
    <3> QED
      BY <3>1
  <2>2. CASE OwnerSteps
    <3>1. excused' = excused \cup Reused
      BY <2>2 DEF OwnerSteps
    <3> QED
      BY <3>1 DEF Reused
  <2> QED
    BY <2>1, <2>2
<1>4. \A n : Known(n) => Known(n)'
  BY <1>2, <1>3 DEF Known
<1>5. ASSUME NEW n \in Held', n \notin Held, Seen(n.id) PROVE Known(n)'
  <2>1. n \in Names(queue') \ Names(queue) /\ ~Keeps
    BY <1>1, <1>5 DEF NewHeld
  <2> QED
    BY <1>3, <1>5, <2>1 DEF Known
<1>6. ASSUME NEW n \in Held', n.id < min_accept PROVE Known(n)'
  <2>1. CASE n \in Held
    BY <1>4, <1>6, <2>1 DEF SeenInv
  <2>2. CASE n \notin Held
    BY <1>5, <1>6, <2>2 DEF Seen
  <2> QED
    BY <2>1, <2>2
<1>7. ASSUME NEW n \in Held', NEW v \in visited, v.id = n.id PROVE Known(n)'
  <2>1. CASE n \in Held
    BY <1>4, <1>7, <2>1 DEF SeenInv
  <2>2. CASE n \notin Held
    <3>1. n.id < next_min_accept
      BY <1>7 DEF SeenInv
    <3> QED
      BY <1>5, <2>2, <3>1 DEF Seen
  <2> QED
    BY <2>1, <2>2
<1> QED
  BY <1>2, <1>6, <1>7 DEF SeenInv

LEMMA HeldStays ==
  ASSUME UNCHANGED wvars PROVE Held' = Held /\ Current' = Current
BY DEF wvars, Held, Current, Aligned, Rank, WholeIds

LEMMA CurrentIds == ASSUME NInv, NEW n \in Current PROVE n.id \in Nat /\ n \in Held
<1>1. n \in Held
  BY DEF Current, Held
<1> QED
  BY <1>1, HeldIds

(* A file that is executed is the only one held under its id.              *)
LEMMA OneHeld ==
  ASSUME NInv, NEW v, Whole(v), NEW n \in Held, n.id = v.id PROVE n.seed = v.seed
<1> DEFINE q == File(v.id, v.seed, TRUE)
<1>1. q \in queue
  BY DEF Whole
<1>2. q.id = v.id /\ q.seed = v.seed
  BY DEF File
<1> HIDE DEF q
<1>3. CASE n \in Names(queue)
  <2>1. PICK f \in queue : n = [id |-> f.id, seed |-> f.seed]
    BY <1>3 DEF Names
  <2>2. f = q
    BY <1>1, <1>2, <2>1 DEF NInv, RInv, FilesInv, OneEach
  <2> QED
    BY <1>2, <2>1, <2>2
<1>4. CASE ~mixed /\ n \in Names(Aligned)
  <2>1. PICK f \in Aligned : n = [id |-> f.id, seed |-> f.seed]
    BY <1>4 DEF Names
  <2>2. q.seed = f.seed
    BY <1>1, <1>2, <1>4, <2>1 DEF NInv, TieInv
  <2> QED
    BY <1>2, <2>1, <2>2
<1>5. n \in Names(queue) \/ (~mixed /\ n \in Names(Aligned))
  BY DEF Held
<1> QED
  BY <1>3, <1>4, <1>5

LEMMA VisitSeen == ASSUME NInv, SeenInv, Visit PROVE SeenInv'
<1>1. Held' = Held
  BY HeldStays DEF Visit
<1>2. w_pc = "scan" /\ UNCHANGED <<w_pc, listing, min_accept>>
  BY DEF Visit
<1>3. PICK v \in (listing \cup Current) \ visited :
        /\ visited' = visited \cup {v}
        /\ IF Skipped(v) THEN UNCHANGED <<next_min_accept, tried, excused>>
           ELSE /\ next_min_accept' = IF v.id >= next_min_accept THEN v.id + 1
                                      ELSE next_min_accept
                /\ IF Whole(v)
                   THEN tried' = tried \cup {v.seed} /\ UNCHANGED excused
                   ELSE excused' = excused \cup {v.id} /\ UNCHANGED tried
  BY DEF Visit
<1>4. v.id \in Nat
  BY <1>2, <1>3, CurrentIds DEF SeenInv
<1>5. min_accept \in Nat /\ next_min_accept \in Nat /\ min_accept <= next_min_accept
  BY <1>2 DEF SeenInv
<1>6. /\ next_min_accept' \in Nat /\ next_min_accept <= next_min_accept'
      /\ v.id < next_min_accept'
  BY <1>3, <1>4, <1>5 DEF Skipped
<1>7. tried \subseteq tried' /\ excused \subseteq excused'
  BY <1>3
<1>8. \A n : Known(n) => Known(n)'
  BY <1>7 DEF Known
<1>9. ASSUME NEW n \in Held, n.id = v.id PROVE Known(n)'
  <2>1. CASE Skipped(v)
    BY <1>8, <1>9, <2>1 DEF Skipped, SeenInv
  <2>2. CASE ~Skipped(v) /\ Whole(v)
    <3>1. n.seed = v.seed
      BY <1>9, <2>2, OneHeld
    <3> QED
      BY <1>3, <2>2, <3>1 DEF Known
  <2>3. CASE ~Skipped(v) /\ ~Whole(v)
    BY <1>3, <1>9, <2>3 DEF Known
  <2> QED
    BY <2>1, <2>2, <2>3
<1>10. \A n \in visited' : n.id \in Nat /\ n.id < next_min_accept'
  <2>1. \A n \in visited : n.id \in Nat /\ n.id < next_min_accept
    BY DEF SeenInv
  <2>2. \A n \in visited : n.id \in Nat /\ n.id < next_min_accept'
    BY <1>5, <1>6, <2>1
  <2> QED
    BY <1>3, <1>4, <1>6, <2>2
<1>11. \A n \in Held, u \in visited' : u.id = n.id => Known(n)'
  BY <1>3, <1>8, <1>9 DEF SeenInv
<1>12. \A n \in Held : n.id < min_accept => Known(n)'
  BY <1>8 DEF SeenInv
<1>13. /\ min_accept' \in Nat /\ min_accept' <= next_min_accept'
       /\ \A n \in listing' : n.id \in Nat
  BY <1>2, <1>5, <1>6 DEF SeenInv
<1> QED
  BY <1>1, <1>2, <1>6, <1>10, <1>11, <1>12, <1>13 DEF SeenInv

LEMMA EndSeen == ASSUME NInv, SeenInv, ScanEnd PROVE SeenInv'
<1>1. Held' = Held
  BY HeldStays DEF ScanEnd
<1>2. /\ w_pc = "scan" /\ w_pc' = "idle" /\ visited' = {} /\ next_min_accept' = 0
      /\ min_accept' = next_min_accept /\ tried' = tried
      /\ excused' = excused \cup {id \in min_accept..(next_min_accept - 1) :
                                    ~\E name \in visited : name.id = id}
  BY DEF ScanEnd
<1>3. ASSUME NEW n \in Held, n.id < min_accept' PROVE Known(n)'
  <2>1. n.id \in Nat /\ min_accept \in Nat /\ next_min_accept \in Nat
    BY HeldIds DEF SeenInv
  <2>2. Known(n) => Known(n)'
    BY <1>2 DEF Known
  <2>3. CASE n.id < min_accept
    BY <2>2, <2>3 DEF SeenInv
  <2>4. CASE \E v \in visited : v.id = n.id
    BY <2>2, <2>4 DEF SeenInv
  <2>5. CASE ~(n.id < min_accept) /\ ~\E v \in visited : v.id = n.id
    <3>1. n.id \in min_accept..(next_min_accept - 1)
      BY <1>2, <1>3, <2>1, <2>5
    <3>2. n.id \in excused'
      BY <1>2, <2>5, <3>1
    <3> QED
      BY <3>2 DEF Known
  <2> QED
    BY <2>3, <2>4, <2>5
<1>4. min_accept' \in Nat /\ next_min_accept' \in Nat
  BY <1>2 DEF SeenInv
<1> QED
  BY <1>1, <1>2, <1>3, <1>4 DEF SeenInv

LEMMA BeginSeen == ASSUME NInv, SeenInv, ScanBegin PROVE SeenInv'
<1>1. Held' = Held
  BY HeldStays DEF ScanBegin
<1>2. /\ w_pc' = "scan" /\ listing' = Current /\ visited' = {}
      /\ next_min_accept' = min_accept
      /\ UNCHANGED <<min_accept, tried, excused>>
  BY DEF ScanBegin
<1>3. min_accept \in Nat
  BY DEF SeenInv
<1>4. \A n : Known(n)' = Known(n)
  BY <1>2 DEF Known
<1>5. \A n \in listing' : n.id \in Nat
  BY <1>2, CurrentIds
<1>6. \A n \in Held : n.id < min_accept' => Known(n)'
  BY <1>2, <1>4 DEF SeenInv
<1> QED
  BY <1>1, <1>2, <1>3, <1>5, <1>6 DEF SeenInv

LEMMA OtherSeen ==
  ASSUME NInv, SeenInv,
         ScanStop \/ TrainList \/ TrainRead \/ TrainLeave \/ UNCHANGED uvars
  PROVE  SeenInv'
<1>1. Held' = Held
  BY HeldStays DEF ScanStop, TrainList, TrainRead, TrainLeave, uvars
<1>2. UNCHANGED <<min_accept, tried, excused>>
  BY DEF ScanStop, TrainList, TrainRead, TrainLeave, uvars, peer
<1>3. /\ \/ visited' = {} /\ next_min_accept' = 0
         \/ UNCHANGED <<visited, next_min_accept>>
      /\ \/ w_pc' # "scan"
         \/ UNCHANGED <<w_pc, listing, next_min_accept>>
  BY DEF ScanStop, TrainList, TrainRead, TrainLeave, uvars, peer
<1>4. \A n : Known(n)' = Known(n)
  BY <1>2 DEF Known
<1> QED
  BY <1>1, <1>2, <1>3, <1>4 DEF SeenInv

LEMMA SeenNext == ASSUME NInv, SeenInv, [UNext]_uvars PROVE SeenInv'
<1>1. NInv'
  BY NInvNext
<1>2. CASE OwnerStarts \/ OwnerSteps
  BY <1>1, <1>2, OwnerSeen
<1> QED
  BY <1>2, VisitSeen, EndSeen, BeginSeen, OtherSeen DEF UNext

LEMMA SeenInit == ASSUME UInit PROVE NInv /\ SeenInv
<1>1. RInv
  BY RInvInit
<1>2. Aligned = {}
  BY DEF UInit, WInit, Aligned
<1>3. Held = {}
  BY <1>2 DEF UInit, WInit, Held, Names
<1>4. EntryInv /\ TieInv
  BY <1>2 DEF UInit, WInit, EntryInv, TieInv
<1> QED
  BY <1>1, <1>3, <1>4 DEF UInit, NInv, SeenInv

(* Over any number of scans and restarts, in every order in which readdir  *)
(* may return the files: a test case in queue/ below the mark in .synced/  *)
(* was executed, or the code has given its id up.                          *)
THEOREM NothingOverlooked == USpec => []SyncSound
<1>1. NInv /\ SeenInv => SyncSound
  <2> SUFFICES ASSUME SeenInv, NEW f \in queue, f.id < min_accept
               PROVE  f.seed \in tried \/ f.id \in excused
    BY DEF SyncSound
  <2>1. [id |-> f.id, seed |-> f.seed] \in Held
    BY DEF Held, Names
  <2> QED
    BY <2>1 DEF SeenInv, Known
<1>2. UInit => NInv /\ SeenInv
  BY SeenInit
<1>3. NInv /\ SeenInv /\ [UNext]_uvars => NInv' /\ SeenInv'
  BY NInvNext, SeenNext
<1> QED
  BY <1>1, <1>2, <1>3, PTL DEF USpec

=============================================================================
