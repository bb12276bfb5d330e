------------------------------ MODULE TrainSet ------------------------------
(***************************************************************************)
(* How nn-dom.py picks its training set in init().  A sample is what the   *)
(* program knows of a seed: how many dominators it covers (level), which   *)
(* way it branched after the last of them (branch), and whether it is from *)
(* backup mode.  level + branch is the cover_num of the code; samples are  *)
(* sorted by it, and those that tie come in the order of the directory.    *)
(***************************************************************************)
EXTENDS Integers, Sequences, FiniteSets, SequencesExt

CONSTANTS
  Few,        \* samples a level needs at least (20)
  Many,       \* samples of the top level that are used at most (200)
  Room,       \* of them with the same branching (180)
  MaxTrain    \* samples at all (1000)

ASSUME TrainAssumption ==
  /\ Few \in Nat /\ Many \in Nat \ {0} /\ Room \in Nat \ {0}
  /\ MaxTrain \in Nat /\ Many < MaxTrain

Above(s, t) == s.level > t.level \/ (s.level = t.level /\ s.branch >= t.branch)

SortedLists(S) ==
  {q \in SetToSeqs(S) : \A m, n \in DOMAIN q : m < n => Above(q[m], q[n])}

Levels(q) == {q[n].level : n \in DOMAIN q}
Highest(L) == CHOOSE l \in L : \A k \in L : k <= l

(* A level is a piece of the sorted list: the loops of init() stop at the  *)
(* first sample behind it.                                                 *)
Ahead(q, l) == Cardinality({n \in DOMAIN q : q[n].level > l})
AtLevel(q, l) == SubSeq(q, Ahead(q, l) + 1, Ahead(q, l - 1))
Below(q, l) == SubSeq(q, Ahead(q, l - 1) + 1, Len(q))
Prefix(q, n) == SubSeq(q, 1, IF n < Len(q) THEN n ELSE Len(q))
FromQueue(q) == {q[n] : n \in {m \in DOMAIN q : ~q[m].backup}}

(* Branchings of the samples q, and those most of them have.               *)
Branches(q) == {q[n].branch : n \in DOMAIN q}
Share(q, b) == Cardinality({n \in DOMAIN q : q[n].branch = b})
Commonest(q) == {b \in Branches(q) : \A c \in Branches(q) : Share(q, c) <= Share(q, b)}

(* The samples q without those with the main branching, a piece of q like  *)
(* a level is one of the list, that are too many.                          *)
Capped(q, main) ==
  LET first == Cardinality({n \in DOMAIN q : q[n].branch > main})
  IN  Prefix(SubSeq(q, 1, first + Room)
             \o SubSeq(q, first + Share(q, main) + 1, Len(q)), Many)

(* What is taken of the top level, whose samples are q: [set, second,      *)
(* short, seeds, cover], with need_second, ~trainset_balance and the two   *)
(* backup lists as far as they are filled.                                 *)
FromTop(q, sorted, main) ==
  LET one == Cardinality(Branches(q)) = 1
      ruled == Share(q, main) > Len(q) - Few
  IN  IF Len(q) <= Many
      THEN [set |-> q, second |-> TRUE, short |-> Len(q) < Few,
            seeds |-> FromQueue(q), cover |-> TRUE]
      ELSE IF one
      THEN [set |-> Prefix(q, Many), second |-> TRUE, short |-> FALSE,
            seeds |-> {}, cover |-> FALSE]
      ELSE [set |-> IF Share(q, main) < Room THEN Prefix(sorted, Many)
                    ELSE Capped(q, main),
            second |-> ruled, short |-> FALSE,
            seeds |-> IF ruled THEN {s \in FromQueue(q) : s.branch # main} ELSE {},
            cover |-> ruled]

Raised == [kind |-> "raised", set |-> <<>>, seeds |-> {}, cover |-> {}, avoid |-> {}]

(* Faulty variant: the top level is avoided even if it is to be covered.   *)
AvoidedAlways(t, top) == {top}

Avoided(t, top) == IF t.cover THEN {} ELSE {top}

(* init() on the sorted list of samples; lucky is the one draw in ten that *)
(* lets a poor second level pass.  dombb_all[l - 1] is written as l.       *)
Chosen(sorted, main, lucky) ==
  LET top == Highest(Levels(sorted))
      q == AtLevel(sorted, top)
      t == FromTop(q, sorted, main)
      next == Highest(Levels(sorted) \ {top})
      second == AtLevel(sorted, next)
      poor == t.second /\ Len(second) < Few /\ ~lucky
      cover == IF t.cover THEN {top} ELSE {}
      Result(kind, set, seeds, cov, avoid) ==
        [kind |-> kind, set |-> Prefix(set, MaxTrain), seeds |-> seeds,
         cover |-> cov, avoid |-> avoid]
  IN  IF Cardinality(Levels(sorted)) = 1
      THEN IF t.second /\ Cardinality(Branches(q)) > 1
           THEN Result("unbalanced", t.set, t.seeds, cover, {})
           ELSE Raised
      ELSE IF poor
      THEN Result("unbalanced", t.set \o second, t.seeds \cup FromQueue(second),
                  cover \cup {next}, Avoided(t, top))
      ELSE IF t.short
      THEN Result("unbalanced", t.set \o second, t.seeds, cover, {})
      ELSE Result("balanced", t.set \o second \o Below(sorted, next), {}, {}, {})

(* Without any sample the second level is looked up and raises, unless the *)
(* draw skips it; level 0 is then dombb_all[-1], the last dominator.       *)
Nothing == [kind |-> "unbalanced", set |-> <<>>, seeds |-> {}, cover |-> {0}, avoid |-> {}]

init(S) ==
  IF S = {} THEN {Raised, Nothing}
  ELSE LET top == Highest({s.level : s \in S})
       IN  UNION {{Chosen(sorted, main, lucky) :
                     main \in Commonest(AtLevel(sorted, top)), lucky \in BOOLEAN}
                  : sorted \in SortedLists(S)}

=============================================================================
