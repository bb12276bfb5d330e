----------------------------- MODULE DetStages ------------------------------
(***************************************************************************)
(* The deterministic stages of fuzz_one: walking bit and byte flips, with  *)
(* the automatic dictionary and the effector map they build, additions and *)
(* subtractions, interesting values and tokens.                            *)
(*                                                                         *)
(* A byte has ByteBits bits.  A buffer is a sequence of bytes; offsets     *)
(* into it count from 0 as in the program.  One step is all executions at  *)
(* one offset, which end early when common_fuzz_stuff says to bail out.    *)
(* The bits of a buffer are numbered in the order FLIP_BIT walks them: the *)
(* highest bit of byte 0 first.                                            *)
(***************************************************************************)
EXTENDS Dictionary

CONSTANTS
  ByteBits,         \* bits of a byte (8)
  Inputs,           \* contents of the entry that is fuzzed
  ArithMax,         \* ARITH_MAX (35)
  Interesting,      \* interesting_8, _16, _32: widths 1, 2, 4 to sequences
  ExtraFiles,       \* the user's tokens
  AutoFiles,        \* the tokens saved by an earlier run
  MaxDetExtras,     \* tokens that are all used (200)
  MaxInsertLen,     \* MAX_FILE, the longest input after an insertion
  EffMapScale,      \* bytes per cell of the effector map (8)
  EffMinLen,        \* length from which the map is computed (128)
  EffMaxPerc        \* density from which it is filled (90)

Bytes == 0..(2^ByteBits - 1)

ASSUME BytesAssumption == ByteBits \in 4..8
ASSUME ArithAssumption == ArithMax \in Nat
ASSUME EffAssumption == EffMapScale \in Nat \ {0}
ASSUME InterestingAssumption == \A w \in {1, 2, 4} : Interesting[w] \in Seq(Nat)
ASSUME FilesAssumption ==
  /\ Inputs \subseteq Seq(Bytes)
  /\ IsFiniteSet(ExtraFiles) /\ \A f \in ExtraFiles : f.data \in Seq(Bytes)
  /\ AutoFiles \in Seq(Seq(Bytes))

VARIABLES
  stage,            \* stage_short, or one of Outside
  pos,              \* i of the loop over the offsets
  stage_cur, stage_max,
  in_buf, out_buf,
  eff_map, eff_cnt, \* cells that are 1, and their counter
  a_collect,        \* bytes of the token being collected (a_len of them)
  prev_cksum,       \* checksum of the last flip that changed something
  a_extras, extras, \* the dictionaries
  no_arith, dumb_mode,
  tried,            \* every buffer of this length that was executed
  lost              \* buffers a stage left out that were not in tried

mode == <<in_buf, extras, no_arith, dumb_mode>>
dvars == <<stage, pos, stage_cur, stage_max, in_buf, out_buf, eff_map, eff_cnt,
           a_collect, prev_cksum, a_extras, extras, no_arith, dumb_mode, tried,
           lost>>

-----------------------------------------------------------------------------
(***************************************************************************)
(* Bits, bytes and little-endian words                                     *)
(***************************************************************************)
Bit(v, k) == (v \div 2^k) % 2
BitOf(p) == ByteBits - 1 - (p % ByteBits)   \* which bit of its byte p is
Span(p, n) == p..(p + n - 1)

Mod(w, v) == v % 2^(ByteBits * w)
ByteOf(v, k) == (v \div 2^(ByteBits * k)) % 2^ByteBits

Word(b, i, w) ==
  LET Upto[k \in 0..w] == IF k = 0 THEN 0
                          ELSE Upto[k - 1] + b[i + k] * 2^(ByteBits * (k - 1))
  IN  Upto[w]

Put(b, i, w, v) ==
  [n \in DOMAIN b |-> IF n - 1 \in Span(i, w) THEN ByteOf(v, n - 1 - i) ELSE b[n]]

Swap(w, v) == Word([n \in 1..w |-> ByteOf(v, w - n)], 0, w)

FLIP_BIT(b, p) ==
  LET k == BitOf(p)
  IN  [b EXCEPT ![p \div ByteBits + 1] =
         IF Bit(@, k) = 1 THEN @ - 2^k ELSE @ + 2^k]

(* One, two or four bits from bit p on, one after the other.               *)
FlipPair(b, p) == FLIP_BIT(FLIP_BIT(b, p), p + 1)
FlipBits(b, p, n) == CASE n = 1 -> FLIP_BIT(b, p)
                       [] n = 2 -> FlipPair(b, p)
                       [] n = 4 -> FlipPair(FlipPair(b, p), p + 2)

(* Every bit of the n bytes from byte i on.                                *)
FlipBytes(b, i, n) ==
  [m \in DOMAIN b |-> IF m - 1 \in Span(i, n) THEN 2^ByteBits - 1 - b[m] ELSE b[m]]

(* The bits in which two values of w bytes differ, by weight.              *)
Xor(w, u, v) == {k \in 0..(ByteBits * w - 1) : Bit(u, k) # Bit(v, k)}

(* The bits in which two buffers differ, in walking order.                 *)
Changed(b, c) ==
  {p \in 0..(ByteBits * Len(b) - 1) :
     Bit(b[p \div ByteBits + 1], BitOf(p)) # Bit(c[p \div ByteBits + 1], BitOf(p))}

(* memcpy(b + i, t, n)                                                     *)
Copy(b, i, t, n) ==
  [m \in DOMAIN b |-> IF m - 1 \in Span(i, n) THEN t[m - i] ELSE b[m]]

-----------------------------------------------------------------------------
(***************************************************************************)
(* What earlier stages are taken to have tried                             *)
(***************************************************************************)
(* xor is a set of weights: one run of 1, 2 or 4 bits at any shift, or of  *)
(* 1, 2 or 4 bytes at a multiple of a byte.                                *)
could_be_bitflip(xor) ==
  \/ xor = {}
  \/ \E s \in xor, n \in {1, 2, 4} : xor = Span(s, n)
  \/ \E s \in xor, n \in {1, 2, 4} : s % ByteBits = 0 /\ xor = Span(s, ByteBits * n)

Part(w, v, k) == (v \div 2^((ByteBits * w) * k)) % 2^(ByteBits * w)
Near(w, x, y) == Mod(w, x - y) <= ArithMax \/ Mod(w, y - x) <= ArithMax

(* Faulty variant: any number of words may differ.                         *)
SomeWord(w, old, new, blen) ==
  \E k \in 0..(blen \div w - 1) :
    /\ Part(w, old, k) # Part(w, new, k)
    /\ Near(w, Part(w, old, k), Part(w, new, k))

(* Exactly one of the aligned words of w bytes differs, by at most         *)
(* ArithMax in one of the byte orders.                                     *)
OneWord(w, old, new, blen) ==
  LET diffs == {k \in 0..(blen \div w - 1) :
                  Part(w, old, k) # Part(w, new, k)}
  IN  \E k \in diffs :
        LET x == Part(w, old, k)
            y == Part(w, new, k)
        IN  diffs = {k} /\ (Near(w, x, y) \/ Near(w, Swap(w, x), Swap(w, y)))

could_be_arith(old, new, blen) ==
  \/ old = new
  \/ \E w \in {1, 2, 4} : w <= blen /\ OneWord(w, old, new, blen)

(* The value of blen bytes after v was written into old at byte i.         *)
Inserted(old, blen, i, w, v) ==
  LET b == [n \in 1..blen |-> ByteOf(old, n - 1)]
  IN  Word(Put(b, i, w, v), 0, blen)

could_be_interest(old, new, blen, check_le) ==
  \/ old = new
  \/ \E i \in 0..(blen - 1), v \in Range(Interesting[1]) :
       new = Inserted(old, blen, i, 1, v)
  \/ /\ blen > 2 \/ check_le
     /\ \E i \in 0..(blen - 2), v \in Range(Interesting[2]) :
          \/ new = Inserted(old, blen, i, 2, v)
          \/ blen > 2 /\ new = Inserted(old, blen, i, 2, Swap(2, v))
  \/ blen = 4 /\ check_le /\ new \in Range(Interesting[4])

-----------------------------------------------------------------------------
(***************************************************************************)
(* The effector map                                                        *)
(***************************************************************************)
len == Len(in_buf)
EFF_APOS(p) == p \div EffMapScale
EFF_ALEN(l) == EFF_APOS(l) + (IF l % EffMapScale = 0 THEN 0 ELSE 1)
EFF_SPAN(p, l) == EFF_APOS(p)..EFF_APOS(p + l - 1)

Effective(p, l) == EFF_SPAN(p, l) \cap eff_map # {}

(* First and last byte are flagged beforehand.                             *)
Flagged == {0, EFF_APOS(len - 1)}

(* A map that is nearly full is filled.                                    *)
Filled(map, cnt) ==
  IF cnt # EFF_ALEN(len) /\ (cnt * 100) \div EFF_ALEN(len) > EffMaxPerc
  THEN 0..(EFF_ALEN(len) - 1) ELSE map

-----------------------------------------------------------------------------
(***************************************************************************)
(* The stages                                                              *)
(***************************************************************************)
BitWalk == [flip1 |-> 1, flip2 |-> 2, flip4 |-> 4]
ByteWalk == [flip8 |-> 1, flip16 |-> 2, flip32 |-> 4]
Arith == [arith8 |-> 1, arith16 |-> 2, arith32 |-> 4]
Interest == [int8 |-> 1, int16 |-> 2, int32 |-> 4]

(* The next stage, by the jumps to skip_bitflip, skip_arith, skip_interest *)
(* and skip_extras.                                                        *)
SkipBitflip == IF no_arith THEN "int8" ELSE "arith8"
SkipExtras == IF a_extras = <<>> THEN "done" ELSE "ext_AO"
SkipInterest == IF extras = <<>> THEN SkipExtras ELSE "ext_UO"

After(s) ==
  CASE s = "start" -> "flip1"
    [] s = "flip1" -> "flip2"
    [] s = "flip2" -> "flip4"
    [] s = "flip4" -> "flip8"
    [] s = "flip8" -> IF len < 2 THEN SkipBitflip ELSE "flip16"
    [] s = "flip16" -> IF len < 4 THEN SkipBitflip ELSE "flip32"
    [] s = "flip32" -> SkipBitflip
    [] s = "arith8" -> IF len < 2 THEN "int8" ELSE "arith16"
    [] s = "arith16" -> IF len < 4 THEN "int8" ELSE "arith32"
    [] s = "arith32" -> "int8"
    [] s = "int8" -> IF no_arith \/ len < 2 THEN SkipInterest ELSE "int16"
    [] s = "int16" -> IF len < 4 THEN SkipInterest ELSE "int32"
    [] s = "int32" -> SkipInterest
    [] s = "ext_UO" -> "ext_UI"
    [] s = "ext_UI" -> SkipExtras
    [] s = "ext_AO" -> "done"

Outside == {"start", "done", "abandoned", "over"}   \* values that name no stage

(* Offsets a stage visits, and what it counts for each of them.            *)
Width(s) ==
  CASE s \in DOMAIN ByteWalk -> ByteWalk[s]
    [] s \in DOMAIN Arith -> Arith[s]
    [] s \in DOMAIN Interest -> Interest[s]
    [] OTHER -> 1

UsedAutos == SubSeq(a_extras, 1, Least(UseAutoExtras, Len(a_extras)))

Offsets(s) == IF s \in DOMAIN BitWalk THEN ByteBits * len - (BitWalk[s] - 1)
              ELSE IF s = "ext_UI" THEN len + 1
              ELSE len - (Width(s) - 1)

PerOffset(s) ==
  CASE s \in {"ext_UO", "ext_UI"} -> Len(extras)
    [] s = "ext_AO" -> Len(UsedAutos)
    [] s = "arith8" -> 2 * ArithMax
    [] s \in {"arith16", "arith32"} -> 4 * ArithMax
    [] s = "int8" -> Len(Interesting[1])
    [] s \in {"int16", "int32"} -> 2 * Len(Interesting[Width(s)])
    [] OTHER -> 1

NextStage ==
  /\ stage = "start" \/ (stage \notin Outside /\ pos >= Offsets(stage))
  /\ LET s == After(stage)
     IN  /\ stage' = s
         /\ stage_max' = IF s = "done" THEN 0 ELSE Offsets(s) * PerOffset(s)
  /\ pos' = 0 /\ stage_cur' = 0
  /\ IF stage = "flip4" THEN eff_map' = Flagged /\ eff_cnt' = Cardinality(Flagged)
     ELSE IF stage = "flip8" THEN eff_map' = Filled(eff_map, eff_cnt) /\ eff_cnt' = 0
     ELSE UNCHANGED <<eff_map, eff_cnt>>
  /\ IF stage = "flip1" THEN a_collect' = <<>> /\ prev_cksum' = "exec"
     ELSE UNCHANGED <<a_collect, prev_cksum>>
  /\ UNCHANGED <<out_buf, a_extras, mode, tried, lost>>

(* The writes of a stage at one offset of buffer b: the buffers, and which *)
(* of them are executed.                                                   *)
Write(b, i, w, v, ok) == [buf |-> Put(b, i, w, Mod(w, v)), run |-> ok]

FlipAt(b, s, i) == IF s \in DOMAIN BitWalk THEN FlipBits(b, i, BitWalk[s])
                   ELSE FlipBytes(b, i, ByteWalk[s])

FlipTries(b, s, i) == <<[buf |-> FlipAt(b, s, i), run |-> TRUE]>>

(* Words are changed only if the carry leaves their lower half.            *)
ArithTries(b, s, i) ==
  LET w == Arith[s]
      orig == Word(b, i, w)
      back == Swap(w, orig)
      half == IF w = 1 THEN 1 ELSE 2^((ByteBits * w) \div 2)
      up(j) == Swap(w, Mod(w, back + j))
      down(j) == Swap(w, Mod(w, back - j))
      New(v) == ~could_be_bitflip(Xor(w, orig, Mod(w, v)))
      Try(j, kind) ==
        CASE kind = 0 -> Write(b, i, w, orig + j, (w = 1 \/ (orig % half) + j >= half)
                                                    /\ New(orig + j))
          [] kind = 1 -> Write(b, i, w, orig - j, (w = 1 \/ orig % half < j)
                                                    /\ New(orig - j))
          [] kind = 2 -> Write(b, i, w, up(j), (back % half) + j >= half /\ New(up(j)))
          [] OTHER -> Write(b, i, w, down(j), back % half < j /\ New(down(j)))
      kinds == IF w = 1 THEN 2 ELSE 4
  IN  [n \in 1..PerOffset(s) |-> Try((n - 1) \div kinds + 1, (n - 1) % kinds)]

InterestTries(b, s, i) ==
  LET w == Interest[s]
      orig == Word(b, i, w)
      New(v, le) == /\ ~could_be_bitflip(Xor(w, orig, v))
                    /\ ~could_be_arith(orig, v, w)
                    /\ w > 1 => ~could_be_interest(orig, v, w, le)
      Try(v, kind) ==
        IF kind = 0 THEN Write(b, i, w, v, New(v, FALSE))
        ELSE Write(b, i, w, Swap(w, v), Swap(w, v) # v /\ New(Swap(w, v), TRUE))
      kinds == IF w = 1 THEN 1 ELSE 2
  IN  [n \in 1..PerOffset(s) |->
         Try(Interesting[w][(n - 1) \div kinds + 1], (n - 1) % kinds)]

(* Tokens over the bytes from i on, each over what the last one left; the  *)
(* tokens at the positions of drop lose the draw against MaxDetExtras.     *)
Fits(b, i, t) == /\ Len(t) <= len - i
                 /\ SubSeq(b, i + 1, i + Len(t)) # t
                 /\ Effective(i, Len(t))

Laid(p, i, t, fits) ==
  IF fits THEN LET c == Copy(p.buf, i, t, Len(t))
               IN  [buf |-> c, last_len |-> Len(t),
                    tries |-> Append(p.tries, [buf |-> c, run |-> TRUE])]
  ELSE [buf |-> p.buf, last_len |-> p.last_len,
        tries |-> Append(p.tries, [buf |-> p.buf, run |-> FALSE])]

ExtraTries(b, i, toks, drop) ==
  LET Upto[n \in 0..Len(toks)] ==
        IF n = 0 THEN [buf |-> b, last_len |-> 0, tries |-> <<>>]
        ELSE Laid(Upto[n - 1], i, toks[n],
                  n \notin drop /\ Fits(Upto[n - 1].buf, i, toks[n]))
  IN  Upto[Len(toks)]

InsertTries(b, i, toks) ==
  [n \in DOMAIN toks |->
     [buf |-> SubSeq(b, 1, i) \o toks[n] \o SubSeq(b, i + 1, Len(b)),
      run |-> len + Len(toks[n]) <= MaxInsertLen]]

-----------------------------------------------------------------------------
(***************************************************************************)
(* Walking over the offsets                                                *)
(***************************************************************************)
Runs(T) == {n \in DOMAIN T : T[n].run}
Executed(T) == {T[n].buf : n \in Runs(T)}

At(S) == stage \in S /\ pos < Offsets(stage)

(* All of T was executed or left out, and b is what the program left in    *)
(* out_buf.                                                                *)
Through(T, b) ==
  /\ stage_cur' = stage_cur + Cardinality(Runs(T))
  /\ stage_max' = stage_max - (Len(T) - Cardinality(Runs(T)))
  /\ out_buf' = b
  /\ pos' = pos + 1
  /\ tried' = tried \cup Executed(T)
  /\ UNCHANGED stage

LeftOut(T) == {T[n].buf : n \in DOMAIN T \ Runs(T)} \ (tried \cup Executed(T))

(* goto abandon_entry from within offset pos.                              *)
Bail == /\ stage \notin Outside /\ pos < Offsets(stage)
        /\ stage' = "abandoned" /\ pos' = 0 /\ stage_cur' = 0 /\ stage_max' = 0
        /\ out_buf' = in_buf /\ eff_map' = {} /\ eff_cnt' = 0
        /\ a_collect' = <<>> /\ prev_cksum' = "exec"
        /\ tried' = {} /\ lost' = {}
        /\ UNCHANGED <<a_extras, mode>>

(* A token is offered when the checksum changes, or when the input ends.   *)
BuiltinTokens ==
  {t \in UNION {[1..w -> Bytes] : w \in {2, 4}} :
     \E v \in Range(Interesting[Len(t)]) : Word(t, 0, Len(t)) \in {v, Swap(Len(t), v)}}

Offer(t) == IF Len(t) \in MinAutoExtra..MaxAutoExtra
            THEN maybe_add_auto(a_extras, t, extras, BuiltinTokens) ELSE {a_extras}

Collect(cksum, byte) ==
  LET last == pos = Offsets("flip1") - 1 /\ cksum = prev_cksum
      more == Append(a_collect, byte)
      kept == IF last THEN more
              ELSE IF cksum # prev_cksum THEN <<>> ELSE a_collect
  IN  /\ a_extras' \in IF last THEN Offer(more)
                       ELSE IF cksum # prev_cksum THEN Offer(a_collect)
                       ELSE {a_extras}
      /\ prev_cksum' = cksum
      /\ a_collect' = IF cksum # "exec" THEN Append(kept, byte) ELSE kept

Flip1 ==
  /\ At({"flip1"})
  /\ LET T == FlipTries(out_buf, stage, pos)
         b == FlipAt(T[1].buf, stage, pos)
     IN  /\ Through(T, b)
         /\ IF ~dumb_mode /\ pos % ByteBits = ByteBits - 1
            THEN \E cksum \in {"exec", "one", "other"} :
                   Collect(cksum, b[pos \div ByteBits + 1])
            ELSE UNCHANGED <<a_extras, a_collect, prev_cksum>>
  /\ UNCHANGED <<eff_map, eff_cnt, mode, lost>>

FlipMore(s) ==
  /\ At({s})
  /\ LET T == FlipTries(out_buf, s, pos)
     IN  Through(T, FlipAt(T[1].buf, s, pos))
  /\ UNCHANGED <<eff_map, eff_cnt, a_collect, prev_cksum, a_extras, mode, lost>>

Flip2 == FlipMore("flip2")
Flip4 == FlipMore("flip4")

(* A cell is flagged when the flip changed the checksum; short inputs and  *)
(* dumb mode flag everything.                                              *)
Flip8 ==
  /\ At({"flip8"})
  /\ LET T == FlipTries(out_buf, stage, pos)
     IN  Through(T, FlipAt(T[1].buf, stage, pos))
  /\ IF EFF_APOS(pos) \in eff_map THEN UNCHANGED <<eff_map, eff_cnt>>
     ELSE \E changed \in IF ~dumb_mode /\ len >= EffMinLen THEN BOOLEAN ELSE {TRUE} :
            /\ eff_map' = IF changed THEN eff_map \cup {EFF_APOS(pos)} ELSE eff_map
            /\ eff_cnt' = IF changed THEN eff_cnt + 1 ELSE eff_cnt
  /\ UNCHANGED <<a_collect, prev_cksum, a_extras, mode, lost>>

Gated == {"flip16", "flip32"} \cup DOMAIN Arith \cup DOMAIN Interest

(* No byte of the word is flagged.                                         *)
PassOver ==
  /\ At(Gated) /\ ~Effective(pos, Width(stage))
  /\ stage_max' = stage_max - PerOffset(stage)
  /\ pos' = pos + 1
  /\ UNCHANGED <<stage, stage_cur, out_buf, eff_map, eff_cnt, a_collect,
                 prev_cksum, a_extras, mode, tried, lost>>

FlipWord(s) ==
  /\ At({s}) /\ Effective(pos, Width(s))
  /\ LET T == FlipTries(out_buf, s, pos)
     IN  Through(T, FlipAt(T[1].buf, s, pos))
  /\ UNCHANGED <<eff_map, eff_cnt, a_collect, prev_cksum, a_extras, mode, lost>>

Flip16 == FlipWord("flip16")
Flip32 == FlipWord("flip32")

(* The word is put back when the offset is done.                           *)
ChangeWord(s, T) ==
  LET left == IF Runs(T) = {} THEN out_buf
              ELSE T[CHOOSE n \in Runs(T) : \A m \in Runs(T) : m <= n].buf
  IN  /\ Effective(pos, Width(s))
      /\ Through(T, Copy(left, pos, SubSeq(out_buf, pos + 1, pos + Width(s)), Width(s)))
      /\ lost' = lost \cup LeftOut(T)
      /\ UNCHANGED <<eff_map, eff_cnt, a_collect, prev_cksum, a_extras, mode>>

ArithStage(s) == At({s}) /\ ChangeWord(s, ArithTries(out_buf, s, pos))
Arith8 == ArithStage("arith8")
Arith16 == ArithStage("arith16")
Arith32 == ArithStage("arith32")

InterestStage(s) == At({s}) /\ ChangeWord(s, InterestTries(out_buf, s, pos))
Int8 == InterestStage("int8")
Int16 == InterestStage("int16")
Int32 == InterestStage("int32")

(* The bytes of the last token that was written are put back.              *)
Overwrite(toks, drop) ==
  /\ LET X == ExtraTries(out_buf, pos, toks, drop)
     IN  Through(X.tries, Copy(X.buf, pos, SubSeq(in_buf, pos + 1, len), X.last_len))
  /\ UNCHANGED <<eff_map, eff_cnt, a_collect, prev_cksum, a_extras, mode, lost>>

UserExtras ==
  /\ At({"ext_UO"})
  /\ \E drop \in IF Len(extras) > MaxDetExtras THEN SUBSET DOMAIN extras ELSE {{}} :
       Overwrite(Data(extras), drop)

AutoExtras == At({"ext_AO"}) /\ Overwrite(Data(UsedAutos), {})

Insert ==
  /\ At({"ext_UI"})
  /\ Through(InsertTries(out_buf, pos, Data(extras)), out_buf)
  /\ UNCHANGED <<eff_map, eff_cnt, a_collect, prev_cksum, a_extras, mode, lost>>

DInit == /\ stage = "start" /\ pos = 0 /\ stage_cur = 0 /\ stage_max = 0
         /\ in_buf \in Inputs /\ out_buf = in_buf
         /\ eff_map = {} /\ eff_cnt = 0
         /\ a_collect = <<>> /\ prev_cksum = "exec"
         /\ extras \in load_extras(ExtraFiles) \cup {<<>>}
         /\ a_extras \in load_auto(AutoFiles, extras, BuiltinTokens)
         /\ no_arith \in BOOLEAN /\ dumb_mode \in BOOLEAN
         /\ tried = {in_buf} /\ lost = {}

DNext ==
  \/ NextStage \/ Flip1 \/ Flip2 \/ Flip4 \/ Flip8 \/ Flip16 \/ Flip32
  \/ Arith8 \/ Arith16 \/ Arith32 \/ Int8 \/ Int16 \/ Int32 \/ PassOver
  \/ UserExtras \/ Insert \/ AutoExtras

-----------------------------------------------------------------------------
(***************************************************************************)
(* Properties                                                              *)
(***************************************************************************)
(* Whenever an offset is done, the buffer is the input again, whichever    *)
(* way the stage puts it back: a second flip, the saved word, or the bytes *)
(* of the last token.  The comment in the token stage rests on the tokens  *)
(* being sorted by size.                                                   *)
Restored == out_buf = in_buf

(* The progress counters agree at the end of every stage, although every   *)
(* reason to leave something out corrects stage_max on its own.            *)
Accounted == stage \notin Outside /\ pos >= Offsets(stage)
               => stage_cur = stage_max

(* The one reason a flip may be supposed that was never made: it runs over *)
(* the border of two bytes in the order of weights, not in walking order.  *)
Crossing(b) == \E i \in 0..(len - 2), w \in {2, 4} :
                 /\ i + w <= len
                 /\ could_be_bitflip(Xor(w, Word(in_buf, i, w), Word(b, i, w)))
                 /\ \A n \in {1, 2, 4, ByteBits, 2 * ByteBits, 4 * ByteBits} :
                      \A p \in Changed(in_buf, b) : Changed(in_buf, b) # Span(p, n)

(* Only bytes that are not flagged differ.                                 *)
Ineffective(b) == \A p \in Changed(in_buf, b) :
                    EFF_APOS(p \div ByteBits) \notin eff_map

(* could_be_bitflip, could_be_arith and could_be_interest only leave out   *)
(* what was executed before, unless the effector map rules it out or the   *)
(* supposed flip crosses bytes; and what is left out is not counted.  With *)
(* AFL_NO_ARITH the arithmetic they suppose was not done.                  *)
NothingLost ==
  /\ ~no_arith => \A b \in lost : Crossing(b) \/ Ineffective(b)
  /\ Accounted
=============================================================================
