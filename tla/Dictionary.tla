----------------------------- MODULE Dictionary -----------------------------
(***************************************************************************)
(* The two dictionaries of afl-fuzz: the user's tokens (-x), and the       *)
(* tokens it finds itself while it flips the last bit of every byte.  A    *)
(* token is a sequence of bytes, already folded to one case.               *)
(***************************************************************************)
EXTENDS Integers, Sequences, FiniteSets, SequencesExt

CONSTANTS
  MaxAutoExtras,   \* tokens the automatic dictionary can hold (500)
  UseAutoExtras,   \* tokens of it that the deterministic stage uses (50)
  MinAutoExtra, MaxAutoExtra,  \* lengths of a token that is kept (3, 32)
  MaxDictFile      \* length of the longest user token (128)

Data(dict) == [n \in DOMAIN dict |-> dict[n].data]
Least(a, b) == IF a < b THEN a ELSE b

ASSUME DictAssumption ==
  /\ MaxAutoExtras \in Nat /\ UseAutoExtras \in Nat
  /\ MinAutoExtra \in Nat /\ MaxAutoExtra \in Nat /\ MaxDictFile \in Nat

(* compare_extras_len and compare_extras_use_d as orders; qsort leaves     *)
(* tokens that compare equal in any order.                                 *)
ByLen(a, b) == Len(a.data) <= Len(b.data)
ByUse(a, b) == a.hit_cnt >= b.hit_cnt

Orders(tokens, Le(_, _)) ==
  {s \in SetToSeqs(tokens) : \A m, n \in DOMAIN s : m < n => Le(s[m], s[n])}

(* load_extras: files that are empty are skipped, one that is too long     *)
(* ends the program, the rest is sorted by size.  Values of the dictionary *)
(* the program can go on with.                                             *)
load_extras(files) ==
  IF \E f \in files : Len(f.data) > MaxDictFile THEN {}
  ELSE Orders({f \in files : f.data # <<>>}, ByLen) \ {<<>>}

(* Faulty variant: the used part is left in the order of use.              *)
SortedByUse(dict) == Orders(Range(dict), ByUse)

(* sort_a_extras: by use, then the part that is used by size.              *)
Sorted(dict) ==
  UNION {{top \o SubSeq(s, UseAutoExtras + 1, Len(s)) :
            top \in Orders(Range(SubSeq(s, 1, Least(UseAutoExtras, Len(s)))), ByLen)}
         : s \in Orders(Range(dict), ByUse)}

Builtin(t, builtin) == Len(t) \in {2, 4} /\ t \in builtin
OneByte(t) == \A n \in DOMAIN t : t[n] = t[1]

(* A known token is counted; a new one is appended, or takes the place of  *)
(* one in the bottom half.                                                 *)
Entered(dict, t) ==
  LET new == [data |-> t, hit_cnt |-> 0]
      at == {n \in DOMAIN dict : dict[n].data = t}
      bottom == {n \in DOMAIN dict : n > MaxAutoExtras \div 2}
  IN  IF at # {}
      THEN {[n \in DOMAIN dict |->
               IF n \in at THEN [dict[n] EXCEPT !.hit_cnt = @ + 1] ELSE dict[n]]}
      ELSE IF Len(dict) < MaxAutoExtras THEN {Append(dict, new)}
      ELSE {[dict EXCEPT ![n] = new] : n \in bottom}

(* What a_extras can be after maybe_add_auto(t).                           *)
maybe_add_auto(dict, t, extras, builtin) ==
  IF OneByte(t) \/ Builtin(t, builtin) \/ t \in Range(Data(extras))
  THEN {dict}
  ELSE UNION {Sorted(d) : d \in Entered(dict, t)}

(* save_auto writes the used part, load_auto reads it back one token at a  *)
(* time and skips what has the wrong length.                               *)
save_auto(dict) == Data(SubSeq(dict, 1, Least(UseAutoExtras, Len(dict))))

load_auto(files, extras, builtin) ==
  LET Read[n \in 0..Len(files)] ==
        IF n = 0 THEN {<<>>}
        ELSE IF Len(files[n]) \in MinAutoExtra..MaxAutoExtra
             THEN UNION {maybe_add_auto(d, files[n], extras, builtin) :
                           d \in Read[n - 1]}
             ELSE Read[n - 1]
  IN  Read[Least(UseAutoExtras, Len(files))]
=============================================================================
