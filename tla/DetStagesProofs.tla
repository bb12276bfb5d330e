-------------------------- MODULE DetStagesProofs ---------------------------
(***************************************************************************)
(* What the deterministic stages leave out because could_be_bitflip,       *)
(* could_be_arith or could_be_interest says that it was tried before: it   *)
(* was, with the exceptions NothingLost names.                             *)
(***************************************************************************)
EXTENDS FuzzOneProofs

-----------------------------------------------------------------------------
(***************************************************************************)
(* Powers of two and division by them                                      *)
(***************************************************************************)
LEMMA Doubled ==
  ASSUME NEW n \in 0..31 PROVE 2^(n + 1) = 2 * 2^n
<1>1. \/ n = 0 /\ n + 1 = 1
      \/ n = 1 /\ n + 1 = 2
      \/ n = 2 /\ n + 1 = 3
      \/ n = 3 /\ n + 1 = 4
      \/ n = 4 /\ n + 1 = 5
      \/ n = 5 /\ n + 1 = 6
      \/ n = 6 /\ n + 1 = 7
      \/ n = 7 /\ n + 1 = 8
      \/ n = 8 /\ n + 1 = 9
      \/ n = 9 /\ n + 1 = 10
      \/ n = 10 /\ n + 1 = 11
      \/ n = 11 /\ n + 1 = 12
      \/ n = 12 /\ n + 1 = 13
      \/ n = 13 /\ n + 1 = 14
      \/ n = 14 /\ n + 1 = 15
      \/ n = 15 /\ n + 1 = 16
      \/ n = 16 /\ n + 1 = 17
      \/ n = 17 /\ n + 1 = 18
      \/ n = 18 /\ n + 1 = 19
      \/ n = 19 /\ n + 1 = 20
      \/ n = 20 /\ n + 1 = 21
      \/ n = 21 /\ n + 1 = 22
      \/ n = 22 /\ n + 1 = 23
      \/ n = 23 /\ n + 1 = 24
      \/ n = 24 /\ n + 1 = 25
      \/ n = 25 /\ n + 1 = 26
      \/ n = 26 /\ n + 1 = 27
      \/ n = 27 /\ n + 1 = 28
      \/ n = 28 /\ n + 1 = 29
      \/ n = 29 /\ n + 1 = 30
      \/ n = 30 /\ n + 1 = 31
      \/ n = 31 /\ n + 1 = 32
  OBVIOUS
<1>2. /\ 2^1 = 2 * 2^0
      /\ 2^2 = 2 * 2^1
      /\ 2^3 = 2 * 2^2
      /\ 2^4 = 2 * 2^3
      /\ 2^5 = 2 * 2^4
      /\ 2^6 = 2 * 2^5
      /\ 2^7 = 2 * 2^6
      /\ 2^8 = 2 * 2^7
      /\ 2^9 = 2 * 2^8
      /\ 2^10 = 2 * 2^9
      /\ 2^11 = 2 * 2^10
      /\ 2^12 = 2 * 2^11
      /\ 2^13 = 2 * 2^12
      /\ 2^14 = 2 * 2^13
      /\ 2^15 = 2 * 2^14
      /\ 2^16 = 2 * 2^15
      /\ 2^17 = 2 * 2^16
      /\ 2^18 = 2 * 2^17
      /\ 2^19 = 2 * 2^18
      /\ 2^20 = 2 * 2^19
      /\ 2^21 = 2 * 2^20
      /\ 2^22 = 2 * 2^21
      /\ 2^23 = 2 * 2^22
      /\ 2^24 = 2 * 2^23
      /\ 2^25 = 2 * 2^24
      /\ 2^26 = 2 * 2^25
      /\ 2^27 = 2 * 2^26
      /\ 2^28 = 2 * 2^27
      /\ 2^29 = 2 * 2^28
      /\ 2^30 = 2 * 2^29
      /\ 2^31 = 2 * 2^30
      /\ 2^32 = 2 * 2^31
  OBVIOUS
<1> QED
  BY <1>1, <1>2, Zenon

LEMMA PowerTyped ==
  ASSUME NEW n \in 0..32 PROVE 2^n \in Nat \ {0}
<1> DEFINE P == {k \in Nat : k <= 32 => 2^k \in Nat \ {0}}
<1>1. 0 \in P
  <2>1. 2^0 = 1
    OBVIOUS
  <2> QED
    BY <2>1
<1>2. ASSUME NEW k \in 0..31, k \in P PROVE k + 1 \in P
  <2>a. k <= 32
    OBVIOUS
  <2>b. 2^k \in Nat \ {0}
    BY <1>2, <2>a, Zenon
  <2>c. 2^(k + 1) = 2 * 2^k
    BY Doubled
  <2>1. 2^k \in Nat \ {0} /\ 2^(k + 1) = 2 * 2^k
    BY <2>b, <2>c
  <2> DEFINE x == 2^k
             y == 2^(k + 1)
  <2>2. y \in Nat \ {0}
    <3>1. x \in Nat \ {0} /\ y = 2 * x
      BY <2>1
    <3> HIDE DEF x, y
    <3> QED
      BY <3>1
  <2> QED
    BY <2>2
<1> HIDE DEF P
<1>3. 0..32 \subseteq P
  BY <1>1, <1>2, Upwards
<1>4. n \in P /\ n <= 32
  BY <1>3
<1> QED
  BY <1>4, Zenon DEF P

LEMMA PowerSum ==
  ASSUME NEW a \in Nat, NEW b \in Nat, a + b <= 32
  PROVE  2^(a + b) = 2^a * 2^b
<1> DEFINE P == {k \in Nat : a + k <= 32 => 2^(a + k) = 2^a * 2^k}
<1>1. 0 \in P
  <2>a. a \in 0..32
    OBVIOUS
  <2>b. 2^a \in Nat \ {0}
    BY <2>a, PowerTyped, Zenon
  <2>1. 2^0 = 1 /\ a + 0 = a /\ 2^a \in Nat
    BY <2>b
  <2>2. 2^(a + 0) = 2^a
    BY <2>1, Zenon
  <2> QED
    BY <2>1, <2>2
<1>2. ASSUME NEW k \in 0..(b - 1), k \in P PROVE k + 1 \in P
  <2> SUFFICES ASSUME a + (k + 1) <= 32 PROVE 2^(a + (k + 1)) = 2^a * 2^(k + 1)
    OBVIOUS
  <2> DEFINE x == 2^a
             y == 2^k
             z == 2^(a + k)
  <2>1. /\ x \in Nat /\ y \in Nat /\ z \in Nat /\ z = x * y
        /\ 2^(k + 1) = 2 * y /\ 2^((a + k) + 1) = 2 * z
    <3>1. k \in 0..31 /\ a + k \in 0..31 /\ a \in 0..32 /\ k \in Nat /\ a + k <= 32
      OBVIOUS
    <3>2. z = x * y
      BY <1>2, <3>1, Zenon
    <3>3. 2^(k + 1) = 2 * y /\ 2^((a + k) + 1) = 2 * z
      BY <3>1, Doubled, Zenon
    <3>4. x \in Nat \ {0} /\ y \in Nat \ {0} /\ z \in Nat \ {0}
      <4>1. k \in 0..32 /\ a + k \in 0..32
        BY <3>1
      <4> QED
        BY <3>1, <4>1, PowerTyped, Zenon
    <3> HIDE DEF x, y, z
    <3> QED
      BY <3>2, <3>3, <3>4
  <2>2. (a + k) + 1 = a + (k + 1)
    OBVIOUS
  <2>3. 2^(a + (k + 1)) = 2 * z
    BY <2>1, <2>2, Zenon
  <2>4. 2 * z = x * (2 * y)
    <3> HIDE DEF x, y, z
    <3> QED
      BY <2>1
  <2>5. 2^(a + (k + 1)) = x * 2^(k + 1)
    BY <2>1, <2>3, <2>4, Zenon
  <2> QED
    BY <2>5
<1> HIDE DEF P
<1>3. b \in P
  BY <1>1, <1>2, Upwards
<1> QED
  BY <1>3 DEF P

LEMMA Divided ==
  ASSUME NEW M \in Nat \ {0}, NEW x \in Int
  PROVE  /\ x = M * (x \div M) + (x % M)
         /\ x % M \in 0..(M - 1) /\ x \div M \in Int
         /\ x >= 0 => x \div M >= 0
OBVIOUS

LEMMA DividedOnce ==
  ASSUME NEW M \in Nat \ {0}, NEW q \in Int, NEW r \in 0..(M - 1)
  PROVE  (M * q + r) \div M = q /\ (M * q + r) % M = r
OBVIOUS

LEMMA DividedTwice ==
  ASSUME NEW M \in Nat \ {0}, NEW N \in Nat \ {0}, NEW x \in Int
  PROVE  (x \div M) \div N = x \div (M * N)
OBVIOUS

LEMMA DividedSum ==
  ASSUME NEW M \in Nat \ {0}, NEW t \in Int, NEW r \in Int
  PROVE  (M * t + r) \div M = t + r \div M /\ (M * t + r) % M = r % M
<1> DEFINE q == r \div M
           s == r % M
<1>1. q \in Int /\ s \in 0..(M - 1) /\ r = M * q + s
  BY Divided
<1> HIDE DEF q, s
<1>2. t + q \in Int /\ M * t + r = M * (t + q) + s
  BY <1>1
<1>3. (M * (t + q) + s) \div M = t + q /\ (M * (t + q) + s) % M = s
  BY <1>1, <1>2, DividedOnce
<1>4. (M * t + r) \div M = t + q /\ (M * t + r) % M = s
  BY <1>2, <1>3
<1> QED
  BY <1>4 DEF q, s

(* The remainder modulo a product.                                         *)
LEMMA DividedProduct ==
  ASSUME NEW M \in Nat \ {0}, NEW N \in Nat \ {0}, NEW x \in Int
  PROVE  /\ (x % (M * N)) \div M = (x \div M) % N
         /\ (x % (M * N)) % M = x % M
<1> DEFINE L == M * N
           q == x \div L
           r == x % L
           t == r \div M
           s == r % M
<1>1. L \in Nat \ {0}
  OBVIOUS
<1>2. q \in Int /\ r \in 0..(L - 1) /\ x = L * q + r
  BY <1>1, Divided
<1>3. t \in Int /\ s \in 0..(M - 1) /\ r = M * t + s
  <2> HIDE DEF r
  <2> QED
    BY <1>1, <1>2, Divided
<1> HIDE DEF q, r, t, s
<1>4. t \in 0..(N - 1)
  <2>1. t >= 0
    <3> SUFFICES ASSUME t <= -1 PROVE FALSE
      BY <1>3
    <3>1. M * t <= -M
      BY <1>3
    <3> QED
      BY <1>2, <1>3, <3>1
  <2>2. t <= N - 1
    <3> SUFFICES ASSUME t >= N PROVE FALSE
      BY <1>3
    <3>1. M * t >= M * N
      BY <1>3
    <3> QED
      BY <1>2, <1>3, <3>1
  <2> QED
    BY <1>3, <2>1, <2>2
<1>5. x = M * (N * q + t) + s /\ N * q + t \in Int
  BY <1>2, <1>3
<1>6. x \div M = N * q + t /\ x % M = s
  BY <1>3, <1>5, DividedOnce
<1>7. (x \div M) % N = t
  BY <1>2, <1>4, <1>6, DividedOnce
<1> QED
  BY <1>6, <1>7 DEF r, t, s

-----------------------------------------------------------------------------
(***************************************************************************)
(* Fields of a number                                                      *)
(***************************************************************************)
(* The d bits of v from weight a on.                                       *)
Field(v, a, d) == (v \div 2^a) % 2^d

LEMMA FieldTyped ==
  ASSUME NEW v \in Int, NEW a \in 0..32, NEW d \in 0..32
  PROVE  Field(v, a, d) \in 0..(2^d - 1)
<1> DEFINE M == 2^a
           N == 2^d
<1>1. M \in Nat \ {0} /\ N \in Nat \ {0}
  BY PowerTyped
<1> HIDE DEF M, N
<1>2. v \div M \in Int
  BY <1>1, Divided
<1>3. (v \div M) % N \in 0..(N - 1)
  BY <1>1, <1>2, Divided
<1> QED
  BY <1>3 DEF Field, M, N

LEMMA FieldWhole ==
  ASSUME NEW d \in 0..32, NEW v \in 0..(2^d - 1)
  PROVE  Field(v, 0, d) = v
<1> DEFINE N == 2^d
<1>1. N \in Nat \ {0} /\ 2^0 = 1
  BY PowerTyped
<1>2. v \in 0..(N - 1)
  OBVIOUS
<1>3. v \div 2^0 = v
  BY <1>1
<1> HIDE DEF N
<1>4. v % N = v
  BY <1>1, <1>2
<1> QED
  BY <1>3, <1>4 DEF Field, N

LEMMA FieldOfField ==
  ASSUME NEW v \in Int, NEW a \in Nat, NEW d \in Nat, NEW c \in Nat, NEW e \in Nat,
         a + d <= 32, c + e <= d
  PROVE  Field(Field(v, a, d), c, e) = Field(v, a + c, e)
<1> DEFINE A == 2^a
           C == 2^c
           E == 2^e
           F == 2^(d - c)
           G == 2^(d - c - e)
           D == 2^d
           y == v \div A
<1>1. /\ A \in Nat \ {0} /\ C \in Nat \ {0} /\ E \in Nat \ {0}
      /\ F \in Nat \ {0} /\ G \in Nat \ {0} /\ D \in Nat \ {0}
  <2>1. /\ a \in 0..32 /\ c \in 0..32 /\ e \in 0..32
        /\ d - c \in 0..32 /\ d - c - e \in 0..32 /\ d \in 0..32
    OBVIOUS
  <2> QED
    BY <2>1, PowerTyped, Zenon
<1>2. D = C * F
  <2>1. c + (d - c) = d /\ d - c \in Nat /\ d <= 32
    OBVIOUS
  <2>2. 2^(c + (d - c)) = C * F
    BY <2>1, PowerSum
  <2> QED
    BY <2>1, <2>2, Zenon
<1>3. F = E * G
  <2>1. e + (d - c - e) = d - c /\ d - c - e \in Nat /\ d - c <= 32
    OBVIOUS
  <2>2. 2^(e + (d - c - e)) = E * G
    BY <2>1, PowerSum
  <2> QED
    BY <2>1, <2>2, Zenon
<1>4. 2^(a + c) = A * C
  BY PowerSum
<1>5. y \in Int
  <2> HIDE DEF A
  <2> QED
    BY <1>1, Divided
<1> HIDE DEF A, C, E, F, G, D
<1>6. y \div C = v \div (A * C)
  BY <1>1, DividedTwice
<1> HIDE DEF y
<1>7. (y % (C * F)) \div C = (y \div C) % F
  BY <1>1, <1>5, DividedProduct, ZenonT(60)
<1>8. y \div C \in Int
  BY <1>1, <1>5, Divided
<1>9. ((y \div C) % (E * G)) % E = (y \div C) % E
  BY <1>1, <1>8, DividedProduct
<1>10. ((y % D) \div C) % E = (v \div (A * C)) % E
  BY <1>2, <1>3, <1>6, <1>7, <1>9
<1>11. Field(v, a + c, e) = (v \div (A * C)) % E
  BY <1>4 DEF Field, E
<1>12. Field(Field(v, a, d), c, e) = ((y % D) \div C) % E
  BY DEF Field, y, A, C, D, E
<1> QED
  BY <1>10, <1>11, <1>12

LEMMA FieldSplit ==
  ASSUME NEW v \in Int, NEW a \in Nat, NEW d \in Nat, NEW e \in Nat, a + d + e <= 32
  PROVE  Field(v, a, d + e) = Field(v, a, d) + 2^d * Field(v, a + d, e)
<1> DEFINE A == 2^a
           D == 2^d
           E == 2^e
           y == v \div A
           z == y % (D * E)
<1>1. A \in Nat \ {0} /\ D \in Nat \ {0} /\ E \in Nat \ {0}
  <2>1. a \in 0..32 /\ d \in 0..32 /\ e \in 0..32
    OBVIOUS
  <2> QED
    BY <2>1, PowerTyped, Zenon
<1>2. 2^(a + d) = A * D /\ 2^(d + e) = D * E
  BY PowerSum
<1> HIDE DEF A, D, E
<1>3. y \in Int /\ y \div D = v \div (A * D)
  BY <1>1, Divided, DividedTwice
<1> HIDE DEF y
<1>4. z \div D = (y \div D) % E /\ z % D = y % D
  BY <1>1, <1>3, DividedProduct
<1>5. D * E \in Nat \ {0}
  BY <1>1
<1>6. z \in Int
  BY <1>3, <1>5, Divided
<1> HIDE DEF z
<1>7. z = D * (z \div D) + (z % D) /\ z % D \in Int
  BY <1>1, <1>6, Divided
<1>8. (y \div D) % E \in Int
  BY <1>1, <1>3, Divided
<1>9. z = (y % D) + D * ((y \div D) % E)
  BY <1>1, <1>4, <1>7, <1>8
<1>10. Field(v, a, d + e) = z
  BY <1>2 DEF Field, y, z, A
<1>11. Field(v, a, d) = y % D
  BY DEF Field, y, A, D
<1>12. Field(v, a + d, e) = (y \div D) % E
  BY <1>2, <1>3 DEF Field, E
<1> QED
  BY <1>9, <1>10, <1>11, <1>12 DEF D

-----------------------------------------------------------------------------
(***************************************************************************)
(* Bytes and bits as fields                                                *)
(***************************************************************************)
LEMMA Sizes ==
  ASSUME NEW k \in 0..4
  PROVE  /\ ByteBits \in 4..8 /\ ByteBits * k \in 0..32
         /\ ByteBits * (k + 1) = ByteBits * k + ByteBits
         /\ k # 0 => ByteBits * (k - 1) = ByteBits * k - ByteBits
<1>1. ByteBits \in 4..8
  BY BytesAssumption
<1>2. k = 0 \/ k = 1 \/ k = 2 \/ k = 3 \/ k = 4
  OBVIOUS
<1> QED
  BY <1>1, <1>2

LEMMA ByteSize == 2^ByteBits \in Nat \ {0} /\ Bytes = 0..(2^ByteBits - 1) /\ Bytes \subseteq Nat
<1>1. ByteBits \in 0..32
  BY Sizes
<1>2. 2^ByteBits \in Nat \ {0}
  BY <1>1, PowerTyped
<1> QED
  BY <1>2 DEF Bytes

LEMMA AsFields ==
  ASSUME NEW v \in Int
  PROVE  /\ \A k : ByteOf(v, k) = Field(v, ByteBits * k, ByteBits)
         /\ \A k : Bit(v, k) = Field(v, k, 1)
         /\ \A w : Mod(w, v) = Field(v, 0, ByteBits * w)
         /\ \A w, k : Part(w, v, k) = Field(v, (ByteBits * w) * k, ByteBits * w)
<1>1. 2^0 = 1 /\ 2^1 = 2
  OBVIOUS
<1>2. v \div 2^0 = v
  BY <1>1
<1> QED
  BY <1>1, <1>2 DEF ByteOf, Bit, Mod, Part, Field

LEMMA ByteTyped ==
  ASSUME NEW v \in Int, NEW k \in 0..4
  PROVE  ByteOf(v, k) \in Bytes
<1>1. ByteBits * k \in 0..32 /\ ByteBits \in 0..32
  BY Sizes
<1>2. Field(v, ByteBits * k, ByteBits) \in 0..(2^ByteBits - 1)
  BY <1>1, FieldTyped
<1> QED
  BY <1>2, AsFields DEF Bytes

LEMMA WordSize ==
  ASSUME NEW w \in 0..4
  PROVE  2^(ByteBits * w) \in Nat \ {0}
<1>1. ByteBits * w \in 0..32
  BY Sizes
<1> QED
  BY <1>1, PowerTyped

LEMMA ModTyped ==
  ASSUME NEW v \in Int, NEW w \in 0..4
  PROVE  Mod(w, v) \in 0..(2^(ByteBits * w) - 1) /\ Mod(w, v) \in Nat
<1> DEFINE M == 2^(ByteBits * w)
<1>1. M \in Nat \ {0}
  BY WordSize
<1> HIDE DEF M
<1>2. v % M \in 0..(M - 1) /\ v % M \in Nat
  BY <1>1, Divided
<1> QED
  BY <1>2 DEF Mod, M

LEMMA ModSame ==
  ASSUME NEW w \in 0..4, NEW v \in 0..(2^(ByteBits * w) - 1)
  PROVE  Mod(w, v) = v
<1>1. ByteBits * w \in 0..32
  BY Sizes
<1>2. 2^(ByteBits * w) \in Nat
  BY WordSize
<1>3. v \in Int
  BY <1>2
<1>4. Field(v, 0, ByteBits * w) = v
  BY <1>1, FieldWhole
<1> QED
  BY <1>3, <1>4, AsFields

(* The bytes of a word are those of the number that was cut to it.         *)
LEMMA ByteOfMod ==
  ASSUME NEW v \in Int, NEW w \in 1..4, NEW k \in 0..(w - 1)
  PROVE  ByteOf(Mod(w, v), k) = ByteOf(v, k)
<1>1. /\ ByteBits \in 4..8 /\ ByteBits * w \in Nat /\ ByteBits * w <= 32
      /\ ByteBits * k \in Nat /\ ByteBits * k + ByteBits <= ByteBits * w
      /\ 0 + ByteBits * w <= 32 /\ 0 + ByteBits * k = ByteBits * k
  <2>1. w = 1 \/ w = 2 \/ w = 3 \/ w = 4
    OBVIOUS
  <2>2. k = 0 \/ k = 1 \/ k = 2 \/ k = 3
    OBVIOUS
  <2> QED
    BY <2>1, <2>2, BytesAssumption
<1> DEFINE d == ByteBits * w
           c == ByteBits * k
<1> HIDE DEF d, c
<1>2. Field(Field(v, 0, d), c, ByteBits) = Field(v, 0 + c, ByteBits)
  BY <1>1, FieldOfField DEF d, c
<1>3. Mod(w, v) = Field(v, 0, d) /\ Mod(w, v) \in Int
  BY AsFields, ModTyped, SMTT(30) DEF d
<1>4. ByteOf(Mod(w, v), k) = Field(Field(v, 0, d), c, ByteBits)
  BY <1>3, AsFields DEF c
<1>5. ByteOf(v, k) = Field(v, c, ByteBits)
  BY AsFields DEF c
<1> QED
  BY <1>1, <1>2, <1>4, <1>5 DEF c

(* The bytes of the k-th of the words of w bytes in a number.              *)
LEMMA ByteOfPart ==
  ASSUME NEW v \in Int, NEW w \in {1, 2, 4}, NEW k \in 0..3, w * (k + 1) <= 4,
         NEW m \in 0..(w - 1)
  PROVE  /\ ByteOf(Part(w, v, k), m) = ByteOf(v, w * k + m)
         /\ Part(w, v, k) \in 0..(2^(ByteBits * w) - 1)
         /\ w * k + m \in 0..3
<1>1. /\ ByteBits \in 4..8 /\ ByteBits * w \in Nat /\ (ByteBits * w) * k \in Nat
      /\ (ByteBits * w) * k + ByteBits * w <= 32
      /\ ByteBits * m \in Nat /\ ByteBits * m + ByteBits <= ByteBits * w
      /\ (ByteBits * w) * k + ByteBits * m = ByteBits * (w * k + m)
      /\ w * k + m \in 0..3
  <2>1. \/ w = 1 /\ (k = 0 \/ k = 1 \/ k = 2 \/ k = 3) /\ m = 0
        \/ w = 2 /\ (k = 0 \/ k = 1) /\ (m = 0 \/ m = 1)
        \/ w = 4 /\ k = 0 /\ (m = 0 \/ m = 1 \/ m = 2 \/ m = 3)
    OBVIOUS
  <2> QED
    BY <2>1, BytesAssumption
<1> DEFINE d == ByteBits * w
           a == (ByteBits * w) * k
           c == ByteBits * m
<1> HIDE DEF d, c, a
<1>2. Field(Field(v, a, d), c, ByteBits) = Field(v, a + c, ByteBits)
  BY <1>1, FieldOfField DEF d, c, a
<1>3. Part(w, v, k) = Field(v, a, d)
  BY AsFields DEF a, d
<1>4. Part(w, v, k) \in 0..(2^d - 1) /\ Part(w, v, k) \in Int
  <2>1. a \in 0..32 /\ d \in 0..32
    BY <1>1 DEF a, d
  <2>2. 2^d \in Nat
    BY <2>1, PowerTyped
  <2>3. Field(v, a, d) \in 0..(2^d - 1)
    BY <2>1, FieldTyped
  <2>4. Field(v, a, d) \in Int
    BY <2>2, <2>3
  <2> QED
    BY <1>3, <2>3, <2>4
<1>5. ByteOf(Part(w, v, k), m) = Field(Field(v, a, d), c, ByteBits)
  BY <1>3, <1>4, AsFields DEF c
<1>6. ByteOf(v, w * k + m) = Field(v, a + c, ByteBits)
  BY <1>1, AsFields DEF a, c
<1> QED
  BY <1>1, <1>2, <1>4, <1>5, <1>6 DEF d

LEMMA BitOfByte ==
  ASSUME NEW v \in Int, NEW k \in 0..3, NEW c \in 0..(ByteBits - 1)
  PROVE  Bit(ByteOf(v, k), c) = Bit(v, ByteBits * k + c)
<1>1. /\ ByteBits \in 4..8 /\ ByteBits * k \in Nat /\ ByteBits * k + ByteBits <= 32
      /\ c + 1 <= ByteBits /\ c \in Nat
  <2>1. k = 0 \/ k = 1 \/ k = 2 \/ k = 3
    OBVIOUS
  <2> QED
    BY <2>1, BytesAssumption
<1> DEFINE a == ByteBits * k
<1> HIDE DEF a
<1>2. Field(Field(v, a, ByteBits), c, 1) = Field(v, a + c, 1)
  BY <1>1, FieldOfField DEF a
<1>3. ByteOf(v, k) = Field(v, a, ByteBits) /\ ByteOf(v, k) \in Int
  <2>1. ByteOf(v, k) = Field(v, a, ByteBits)
    BY AsFields DEF a
  <2>2. k \in 0..4
    OBVIOUS
  <2>3. ByteOf(v, k) \in Bytes
    BY <2>2, ByteTyped
  <2>4. ByteOf(v, k) \in Nat
    BY <2>3, ByteSize
  <2> QED
    BY <2>1, <2>4
<1>4. Bit(ByteOf(v, k), c) = Field(Field(v, a, ByteBits), c, 1)
  BY <1>3, AsFields
<1>5. Bit(v, a + c) = Field(v, a + c, 1)
  BY AsFields
<1> QED
  BY <1>2, <1>4, <1>5 DEF a

(* A number of w bytes, put together from them.                            *)
LEMMA FromBytes ==
  ASSUME NEW w \in {1, 2, 4}, NEW v \in 0..(2^(ByteBits * w) - 1)
  PROVE  LET B == 2^ByteBits
         IN  v = CASE w = 1 -> ByteOf(v, 0)
                   [] w = 2 -> ByteOf(v, 0) + B * ByteOf(v, 1)
                   [] w = 4 -> (ByteOf(v, 0) + B * ByteOf(v, 1))
                                 + 2^(ByteBits * 2) * (ByteOf(v, 2) + B * ByteOf(v, 3))
<1> DEFINE B == 2^ByteBits
           n == ByteBits
<1>0. v \in Int /\ n \in 4..8
  <2>1. 2^(ByteBits * w) \in Nat
    BY WordSize
  <2> QED
    BY <2>1, BytesAssumption
<1>1. n * w \in 0..32
  BY Sizes
<1>2. Field(v, 0, n * w) = v
  BY <1>1, FieldWhole
<1>3. \A k : ByteOf(v, k) = Field(v, n * k, n)
  BY <1>0, AsFields
<1>4. /\ n * 0 = 0 /\ n * 1 = n /\ n * 2 = n + n /\ n * 3 = n + n + n
      /\ n * 4 = (n + n) + (n + n) /\ 0 + n = n /\ 0 + (n + n) = n + n
      /\ n \in Nat /\ n + n \in Nat /\ n + n + n + n <= 32 /\ 0 + (n + n) + (n + n) <= 32
      /\ n + n + n <= 32 /\ 0 + n + n <= 32 /\ (n + n) + n + n <= 32
  BY <1>0
<1>5. Field(v, 0, n + n) = Field(v, 0, n) + B * Field(v, n, n)
  BY <1>0, <1>4, FieldSplit
<1>6. Field(v, n + n, n + n) = Field(v, n + n, n) + B * Field(v, n + n + n, n)
  BY <1>0, <1>4, FieldSplit
<1>7. Field(v, 0, (n + n) + (n + n))
        = Field(v, 0, n + n) + 2^(n + n) * Field(v, n + n, n + n)
  BY <1>0, <1>4, FieldSplit
<1> HIDE DEF B, n
<1>8. CASE w = 1
  <2>1. v = ByteOf(v, 0)
    BY <1>2, <1>3, <1>4, <1>8
  <2> QED
    BY <1>8, <2>1
<1>9. CASE w = 2
  <2>1. v = ByteOf(v, 0) + B * ByteOf(v, 1)
    BY <1>2, <1>3, <1>4, <1>5, <1>9
  <2> QED
    BY <1>9, <2>1 DEF B
<1>10. CASE w = 4
  <2>1. v = (ByteOf(v, 0) + B * ByteOf(v, 1))
              + 2^(n * 2) * (ByteOf(v, 2) + B * ByteOf(v, 3))
    BY <1>2, <1>3, <1>4, <1>5, <1>6, <1>7, <1>10
  <2> QED
    BY <1>10, <2>1 DEF B, n
<1> QED
  BY <1>8, <1>9, <1>10

LEMMA SameBytes ==
  ASSUME NEW w \in {1, 2, 4}, NEW u \in 0..(2^(ByteBits * w) - 1),
         NEW v \in 0..(2^(ByteBits * w) - 1),
         \A k \in 0..(w - 1) : ByteOf(u, k) = ByteOf(v, k)
  PROVE  u = v
<1>1. CASE w = 1
  <2>1. ByteOf(u, 0) = ByteOf(v, 0)
    BY <1>1
  <2> QED
    BY <1>1, <2>1, FromBytes
<1>2. CASE w = 2
  <2>1. ByteOf(u, 0) = ByteOf(v, 0) /\ ByteOf(u, 1) = ByteOf(v, 1)
    BY <1>2
  <2> QED
    BY <1>2, <2>1, FromBytes
<1>3. CASE w = 4
  <2>1. /\ ByteOf(u, 0) = ByteOf(v, 0) /\ ByteOf(u, 1) = ByteOf(v, 1)
        /\ ByteOf(u, 2) = ByteOf(v, 2) /\ ByteOf(u, 3) = ByteOf(v, 3)
    BY <1>3
  <2> QED
    BY <1>3, <2>1, FromBytes
<1> QED
  BY <1>1, <1>2, <1>3

-----------------------------------------------------------------------------
(***************************************************************************)
(* Words put together from bytes                                           *)
(***************************************************************************)
LEMMA PowersOfByte ==
  /\ 2^(ByteBits * 0) = 1 /\ 2^(ByteBits * 1) = 2^ByteBits
  /\ 2^(ByteBits * 2) = 2^ByteBits * 2^ByteBits
  /\ 2^(ByteBits * 3) = 2^(ByteBits * 2) * 2^ByteBits
  /\ 2^(ByteBits * 4) = 2^(ByteBits * 2) * 2^(ByteBits * 2)
<1> DEFINE n == ByteBits
           m == ByteBits * 2
<1>1. /\ n \in Nat /\ m \in Nat /\ n + n <= 32 /\ m + n <= 32 /\ m + m <= 32
      /\ n * 0 = 0 /\ n * 1 = n /\ m = n + n /\ n * 3 = m + n /\ n * 4 = m + m
  BY BytesAssumption
<1>2. 2^0 = 1
  OBVIOUS
<1> HIDE DEF n, m
<1>3. 2^(n + n) = 2^n * 2^n /\ 2^(m + n) = 2^m * 2^n /\ 2^(m + m) = 2^m * 2^m
  BY <1>1, PowerSum
<1>4. 2^(n * 0) = 1 /\ 2^(n * 1) = 2^n /\ 2^m = 2^n * 2^n
      /\ 2^(n * 3) = 2^m * 2^n /\ 2^(n * 4) = 2^m * 2^m
  BY <1>1, <1>2, <1>3
<1> QED
  BY <1>4 DEF n, m

LEMMA Paired ==
  ASSUME NEW M \in Nat \ {0}, NEW N \in Nat \ {0}, NEW l \in 0..(M - 1), NEW h \in 0..(N - 1)
  PROVE  /\ l + M * h \in 0..(M * N - 1)
         /\ (l + M * h) % M = l /\ (l + M * h) \div M = h
<1>1. M * h <= M * (N - 1) /\ M * (N - 1) = M * N - M /\ M * h \in Nat /\ M * N \in Nat
  OBVIOUS
<1>2. l + M * h = M * h + l
  BY <1>1
<1>3. (M * h + l) \div M = h /\ (M * h + l) % M = l
  BY DividedOnce
<1> QED
  BY <1>1, <1>2, <1>3

LEMMA PairBytes ==
  ASSUME NEW l \in Bytes, NEW h \in Bytes
  PROVE  LET v == l + 2^ByteBits * h
         IN  /\ v \in 0..(2^(ByteBits * 2) - 1)
             /\ ByteOf(v, 0) = l /\ ByteOf(v, 1) = h
<1> DEFINE B == 2^ByteBits
           v == l + B * h
<1>1. B \in Nat \ {0} /\ l \in 0..(B - 1) /\ h \in 0..(B - 1)
  BY ByteSize
<1>2. /\ 2^(ByteBits * 0) = 1 /\ 2^(ByteBits * 1) = B /\ 2^(ByteBits * 2) = B * B
  BY PowersOfByte
<1> HIDE DEF B
<1>3. v \in 0..(B * B - 1) /\ v % B = l /\ v \div B = h
  BY <1>1, Paired
<1> HIDE DEF v
<1>4. v \div 1 = v /\ h % B = h
  BY <1>1, <1>3
<1>5. ByteOf(v, 0) = l /\ ByteOf(v, 1) = h
  BY <1>2, <1>3, <1>4 DEF ByteOf, B
<1> QED
  BY <1>2, <1>3, <1>5 DEF v, B

LEMMA QuadBytes ==
  ASSUME NEW l \in 0..(2^(ByteBits * 2) - 1), NEW h \in 0..(2^(ByteBits * 2) - 1)
  PROVE  LET v == l + 2^(ByteBits * 2) * h
         IN  /\ v \in 0..(2^(ByteBits * 4) - 1)
             /\ ByteOf(v, 0) = ByteOf(l, 0) /\ ByteOf(v, 1) = ByteOf(l, 1)
             /\ ByteOf(v, 2) = ByteOf(h, 0) /\ ByteOf(v, 3) = ByteOf(h, 1)
<1> DEFINE B == 2^(ByteBits * 2)
           v == l + B * h
<1>1. B \in Nat \ {0} /\ l \in 0..(B - 1) /\ h \in 0..(B - 1) /\ 2^(ByteBits * 4) = B * B
  BY WordSize, PowersOfByte
<1> HIDE DEF B
<1>2. v \in 0..(B * B - 1) /\ v % B = l /\ v \div B = h
  BY <1>1, Paired
<1> HIDE DEF v
<1>3. v \in Int /\ v \div 1 = v /\ h % B = h /\ (ByteBits * 2) * 0 = 0
      /\ (ByteBits * 2) * 1 = ByteBits * 2
  BY <1>1, <1>2, BytesAssumption
<1>4. 2^0 = 1
  OBVIOUS
<1>5. Part(2, v, 0) = l /\ Part(2, v, 1) = h
  BY <1>2, <1>3, <1>4 DEF Part, B
<1>6. \A k \in {0, 1}, m \in {0, 1} : ByteOf(Part(2, v, k), m) = ByteOf(v, 2 * k + m)
  <2> TAKE k \in {0, 1}, m \in {0, 1}
  <2>1. k \in 0..3 /\ 2 * (k + 1) <= 4 /\ m \in 0..(2 - 1) /\ 2 \in {1, 2, 4}
    OBVIOUS
  <2> QED
    BY <1>3, <2>1, ByteOfPart, Zenon
<1>7. /\ ByteOf(v, 0) = ByteOf(l, 0) /\ ByteOf(v, 1) = ByteOf(l, 1)
      /\ ByteOf(v, 2) = ByteOf(h, 0) /\ ByteOf(v, 3) = ByteOf(h, 1)
  BY <1>5, <1>6
<1> QED
  BY <1>1, <1>2, <1>7 DEF v, B

LEMMA WordUnfolds ==
  ASSUME NEW b, NEW i, NEW w \in {1, 2, 4}
  PROVE  LET t(k) == b[i + k] * 2^(ByteBits * (k - 1))
         IN  /\ w = 1 => Word(b, i, w) = 0 + t(1)
             /\ w = 2 => Word(b, i, w) = (0 + t(1)) + t(2)
             /\ w = 4 => Word(b, i, w) = (((0 + t(1)) + t(2)) + t(3)) + t(4)
<1> DEFINE t(k) == b[i + k] * 2^(ByteBits * (k - 1))
           s1 == 0 + t(1)
           s2 == s1 + t(2)
           s3 == s2 + t(3)
           s4 == s3 + t(4)
           Def(g) == g = [k \in 0..w |-> IF k = 0 THEN 0 ELSE g[k - 1] + t(k)]
           g0 == [k \in 0..w |-> CASE k = 0 -> 0 [] k = 1 -> s1 [] k = 2 -> s2
                                   [] k = 3 -> s3 [] k = 4 -> s4]
<1> HIDE DEF t
<1>1. \A k \in 0..w : g0[k] = IF k = 0 THEN 0 ELSE g0[k - 1] + t(k)
  <2> SUFFICES ASSUME NEW k \in 0..w PROVE g0[k] = IF k = 0 THEN 0 ELSE g0[k - 1] + t(k)
    OBVIOUS
  <2>1. k = 0 \/ k = 1 \/ k = 2 \/ k = 3 \/ k = 4
    OBVIOUS
  <2> QED
    BY <2>1
<1>2. Def(g0)
  BY <1>1
<1> HIDE DEF g0
<1> DEFINE g == CHOOSE f : Def(f)
<1>3. Def(g)
  <2> HIDE DEF Def
  <2> QED
    BY <1>2
<1>4. Word(b, i, w) = g[w]
  BY DEF Word, t
<1> HIDE DEF g
<1>5. \A k \in 0..w : g[k] = IF k = 0 THEN 0 ELSE g[k - 1] + t(k)
  BY <1>3
<1> HIDE DEF Def
<1>6. g[0] = 0 /\ g[1] = s1
  BY <1>5
<1>7. w >= 2 => g[2] = s2
  BY <1>5, <1>6
<1>8. w = 4 => g[3] = s3 /\ g[4] = s4
  BY <1>5, <1>7
<1> QED
  BY <1>4, <1>6, <1>7, <1>8 DEF t

LEMMA Horner ==
  ASSUME NEW B \in Nat, NEW C \in Nat, NEW p \in Nat, NEW q \in Nat, NEW r \in Nat, NEW s \in Nat
  PROVE  (((0 + p * 1) + q * B) + r * C) + s * (C * B) = (p + B * q) + C * (r + B * s)
OBVIOUS

LEMMA WordBytes ==
  ASSUME NEW b, NEW i \in Nat, NEW w \in {1, 2, 4}, \A k \in 0..(w - 1) : b[i + k + 1] \in Bytes
  PROVE  /\ Word(b, i, w) \in 0..(2^(ByteBits * w) - 1)
         /\ \A k \in 0..(w - 1) : ByteOf(Word(b, i, w), k) = b[i + k + 1]
<1> DEFINE B == 2^ByteBits
           C == 2^(ByteBits * 2)
           v == Word(b, i, w)
<1>1. /\ B \in Nat \ {0} /\ Bytes = 0..(B - 1) /\ C = B * B
      /\ 2^(ByteBits * 0) = 1 /\ 2^(ByteBits * 1) = B /\ 2^(ByteBits * 3) = C * B
  BY ByteSize, PowersOfByte
<1>2. i + 0 + 1 = i + 1 /\ i + 1 + 1 = i + 2 /\ i + 2 + 1 = i + 3 /\ i + 3 + 1 = i + 4
      /\ 1 - 1 = 0 /\ 2 - 1 = 1 /\ 3 - 1 = 2 /\ 4 - 1 = 3
  OBVIOUS
<1>3. CASE w = 1
  <2>1. b[i + 1] \in Bytes
    BY <1>2, <1>3
  <2>2. v = 0 + b[i + 1] * 1
    BY <1>1, <1>2, <1>3, WordUnfolds
  <2>3. v = b[i + 1] /\ v \in 0..(B - 1) /\ v \in Int
    <3> HIDE DEF v, B
    <3> QED
      BY <1>1, <2>1, <2>2
  <2>4. Mod(1, v) = v
    BY <1>1, <2>3, ModSame
  <2>5. ByteOf(v, 0) = Mod(1, v)
    <3>1. ByteBits * 0 = 0 /\ ByteBits * 1 = ByteBits
      BY BytesAssumption
    <3> QED
      BY <2>3, <3>1, AsFields
  <2> QED
    BY <1>1, <1>2, <1>3, <2>3, <2>4, <2>5
<1>4. CASE w = 2
  <2>1. b[i + 1] \in Bytes /\ b[i + 2] \in Bytes
    BY <1>2, <1>4
  <2>2. v = (0 + b[i + 1] * 1) + b[i + 2] * B
    BY <1>1, <1>2, <1>4, WordUnfolds
  <2>3. v = b[i + 1] + B * b[i + 2]
    <3> HIDE DEF v, B
    <3> QED
      BY <1>1, <2>1, <2>2
  <2>4. v \in 0..(C - 1) /\ ByteOf(v, 0) = b[i + 1] /\ ByteOf(v, 1) = b[i + 2]
    BY <2>1, <2>3, PairBytes
  <2> HIDE DEF v
  <2> QED
    BY <1>2, <1>4, <2>4 DEF v
<1>5. CASE w = 4
  <2>1. b[i + 1] \in Bytes /\ b[i + 2] \in Bytes /\ b[i + 3] \in Bytes /\ b[i + 4] \in Bytes
    BY <1>2, <1>5
  <2>2. v = (((0 + b[i + 1] * 1) + b[i + 2] * B) + b[i + 3] * C) + b[i + 4] * (C * B)
    <3>1. v = (((0 + b[i + 1] * 2^(ByteBits * (1 - 1))) + b[i + 2] * 2^(ByteBits * (2 - 1)))
                + b[i + 3] * 2^(ByteBits * (3 - 1))) + b[i + 4] * 2^(ByteBits * (4 - 1))
      BY <1>5, WordUnfolds
    <3> HIDE DEF v
    <3> QED
      BY <1>1, <1>2, <3>1
  <2> DEFINE l == b[i + 1] + B * b[i + 2]
             h == b[i + 3] + B * b[i + 4]
  <2>3. v = l + C * h
    <3> HIDE DEF v, B, C
    <3>1. C \in Nat /\ b[i + 1] \in Nat /\ b[i + 2] \in Nat /\ b[i + 3] \in Nat /\ b[i + 4] \in Nat
      BY <1>1, <2>1
    <3>2. B \in Nat
      BY <1>1
    <3>3. (((0 + b[i + 1] * 1) + b[i + 2] * B) + b[i + 3] * C) + b[i + 4] * (C * B)
            = (b[i + 1] + B * b[i + 2]) + C * (b[i + 3] + B * b[i + 4])
      BY <3>1, <3>2, Horner
    <3> QED
      BY <2>2, <3>3
  <2>4. /\ l \in 0..(C - 1) /\ ByteOf(l, 0) = b[i + 1] /\ ByteOf(l, 1) = b[i + 2]
        /\ h \in 0..(C - 1) /\ ByteOf(h, 0) = b[i + 3] /\ ByteOf(h, 1) = b[i + 4]
    BY <2>1, PairBytes
  <2> HIDE DEF l, h
  <2>5. /\ v \in 0..(2^(ByteBits * 4) - 1)
        /\ ByteOf(v, 0) = ByteOf(l, 0) /\ ByteOf(v, 1) = ByteOf(l, 1)
        /\ ByteOf(v, 2) = ByteOf(h, 0) /\ ByteOf(v, 3) = ByteOf(h, 1)
    BY <2>3, <2>4, QuadBytes
  <2> HIDE DEF v
  <2> QED
    BY <1>2, <1>5, <2>4, <2>5 DEF v
<1> QED
  BY <1>3, <1>4, <1>5

LEMMA SwapBytes ==
  ASSUME NEW w \in {1, 2, 4}, NEW v \in Int
  PROVE  /\ Swap(w, v) \in 0..(2^(ByteBits * w) - 1) /\ Swap(w, v) \in Nat
         /\ \A k \in 0..(w - 1) : ByteOf(Swap(w, v), k) = ByteOf(v, w - 1 - k)
<1> DEFINE b == [n \in 1..w |-> ByteOf(v, w - n)]
<1>1. \A k \in 0..(w - 1) : b[0 + k + 1] = ByteOf(v, w - 1 - k) /\ b[0 + k + 1] \in Bytes
  <2> SUFFICES ASSUME NEW k \in 0..(w - 1)
               PROVE  b[0 + k + 1] = ByteOf(v, w - 1 - k) /\ b[0 + k + 1] \in Bytes
    OBVIOUS
  <2>1. 0 + k + 1 \in 1..w /\ w - (0 + k + 1) = w - 1 - k /\ w - 1 - k \in 0..4
    OBVIOUS
  <2>2. ByteOf(v, w - 1 - k) \in Bytes
    BY <2>1, ByteTyped, Zenon
  <2> QED
    BY <2>1, <2>2
<1> HIDE DEF b
<1>2. /\ Word(b, 0, w) \in 0..(2^(ByteBits * w) - 1)
      /\ \A k \in 0..(w - 1) : ByteOf(Word(b, 0, w), k) = b[0 + k + 1]
  BY <1>1, WordBytes
<1>3. Swap(w, v) = Word(b, 0, w)
  BY DEF Swap, b
<1>4. 2^(ByteBits * w) \in Nat
  BY WordSize
<1> QED
  BY <1>1, <1>2, <1>3, <1>4

-----------------------------------------------------------------------------
(***************************************************************************)
(* Bits of bytes                                                           *)
(***************************************************************************)
LEMMA BitTyped ==
  ASSUME NEW v \in Int, NEW c \in 0..32
  PROVE  Bit(v, c) \in {0, 1}
<1>1. Field(v, c, 1) \in 0..(2^1 - 1)
  <2>1. 1 \in 0..32
    OBVIOUS
  <2> QED
    BY <2>1, FieldTyped
<1>2. 2^1 = 2
  OBVIOUS
<1>3. 0..(2 - 1) = {0, 1}
  OBVIOUS
<1> QED
  BY <1>1, <1>2, <1>3, AsFields

(* Numbers of d bits with the same bits are equal.                         *)
LEMMA SameBits ==
  ASSUME NEW d \in 0..31, NEW u \in 0..(2^d - 1), NEW v \in 0..(2^d - 1),
         \A c \in 0..(d - 1) : Bit(u, c) = Bit(v, c)
  PROVE  u = v
<1>0. u \in Int /\ v \in Int
  <2>1. d \in 0..32
    OBVIOUS
  <2>2. 2^d \in Nat
    BY <2>1, PowerTyped
  <2> QED
    BY <2>2
<1> DEFINE P == {k \in Nat : k <= d => Field(u, 0, k) = Field(v, 0, k)}
<1>1. 0 \in P
  <2>1. 2^0 = 1
    OBVIOUS
  <2>2. \A x \in Int : x % 1 = 0 /\ x \div 1 = x
    OBVIOUS
  <2> QED
    BY <1>0, <2>1, <2>2 DEF Field
<1>2. ASSUME NEW k \in 0..(d - 1), k \in P PROVE k + 1 \in P
  <2>1. k \in Nat /\ 1 \in Nat /\ 0 + k = k /\ 0 + k + 1 <= 32 /\ k <= d
    OBVIOUS
  <2>2. Field(u, 0, k) = Field(v, 0, k)
    BY <1>2, <2>1
  <2>3. Field(u, k, 1) = Field(v, k, 1)
    BY <1>0, AsFields
  <2>4. /\ Field(u, 0, k + 1) = Field(u, 0, k) + 2^k * Field(u, 0 + k, 1)
        /\ Field(v, 0, k + 1) = Field(v, 0, k) + 2^k * Field(v, 0 + k, 1)
    BY <1>0, <2>1, FieldSplit
  <2> QED
    BY <2>1, <2>2, <2>3, <2>4
<1> HIDE DEF P
<1>3. d \in P
  BY <1>1, <1>2, Upwards
<1>4. Field(u, 0, d) = Field(v, 0, d)
  BY <1>3 DEF P
<1>5. d \in 0..32
  OBVIOUS
<1> QED
  BY <1>4, <1>5, FieldWhole

LEMMA SameBitsOfBytes ==
  ASSUME NEW u \in Bytes, NEW v \in Bytes, \A c \in 0..(ByteBits - 1) : Bit(u, c) = Bit(v, c)
  PROVE  u = v
<1>1. ByteBits \in 0..31
  BY BytesAssumption
<1>2. u \in 0..(2^ByteBits - 1) /\ v \in 0..(2^ByteBits - 1)
  BY ByteSize
<1> QED
  BY <1>1, <1>2, SameBits

(* Turning a bit leaves the others.                                        *)
LEMMA FlippedBits ==
  ASSUME NEW v \in Int, NEW x \in Weights, NEW y \in Weights
  PROVE  (Flipped(v, x) \div y) % 2 = IF x = y THEN 1 - ((v \div y) % 2) ELSE (v \div y) % 2
<1>1. CASE x = 1
  BY <1>1, SMTT(60) DEF Weights, Flipped
<1>2. CASE x = 2
  BY <1>2, SMTT(60) DEF Weights, Flipped
<1>3. CASE x = 4
  BY <1>3, SMTT(60) DEF Weights, Flipped
<1>4. CASE x = 8
  BY <1>4, SMTT(60) DEF Weights, Flipped
<1>5. CASE x = 16
  BY <1>5, SMTT(60) DEF Weights, Flipped
<1>6. CASE x = 32
  BY <1>6, SMTT(60) DEF Weights, Flipped
<1>7. CASE x = 64
  BY <1>7, SMTT(60) DEF Weights, Flipped
<1>8. CASE x = 128
  BY <1>8, SMTT(60) DEF Weights, Flipped
<1> QED
  BY <1>1, <1>2, <1>3, <1>4, <1>5, <1>6, <1>7, <1>8 DEF Weights

LEMMA FlippedByte ==
  ASSUME NEW v \in Bytes, NEW k \in 0..(ByteBits - 1)
  PROVE  /\ Flipped(v, 2^k) \in Bytes
         /\ \A c \in 0..(ByteBits - 1) :
              Bit(Flipped(v, 2^k), c) = IF c = k THEN 1 - Bit(v, c) ELSE Bit(v, c)
<1>1. ByteBits \in 4..8 /\ k \in 0..7 /\ v \in Int
  BY BytesAssumption, ByteSize
<1>2. 2^k \in Weights
  BY <1>1, WeightsDiffer
<1>3. ASSUME NEW c \in 0..(ByteBits - 1)
      PROVE  Bit(Flipped(v, 2^k), c) = IF c = k THEN 1 - Bit(v, c) ELSE Bit(v, c)
  <2>1. c \in 0..7
    BY <1>1
  <2>2. 2^c \in Weights /\ (2^k = 2^c => k = c)
    BY <1>1, <2>1, WeightsDiffer
  <2>3. (Flipped(v, 2^k) \div 2^c) % 2
          = IF 2^k = 2^c THEN 1 - ((v \div 2^c) % 2) ELSE (v \div 2^c) % 2
    BY <1>1, <1>2, <2>2, FlippedBits
  <2>4. CASE c = k
    <3>1. 2^k = 2^c
      BY <2>4
    <3>2. (Flipped(v, 2^k) \div 2^c) % 2 = 1 - ((v \div 2^c) % 2)
      BY <2>3, <3>1, Zenon
    <3> QED
      BY <2>4, <3>2, Zenon DEF Bit
  <2>5. CASE c # k
    BY <2>2, <2>3, <2>5 DEF Bit
  <2> QED
    BY <2>4, <2>5
<1>4. Flipped(v, 2^k) \in Bytes
  <2> DEFINE A == 2^k
             M == 2^(ByteBits - 1 - k)
             B == 2^ByteBits
             q == v \div A
             r == v % A
  <2>1. A \in Nat \ {0} /\ M \in Nat \ {0} /\ B = (2 * M) * A
    <3>1. k \in 0..32 /\ ByteBits - 1 - k \in 0..31 /\ ByteBits - 1 - k \in 0..32
      BY <1>1
    <3>2. A \in Nat \ {0} /\ M \in Nat \ {0}
      BY <3>1, PowerTyped, Zenon
    <3>3. 2^(ByteBits - 1 - k + 1) = 2 * M
      BY <3>1, Doubled
    <3>4. ByteBits - 1 - k + 1 \in Nat /\ k \in Nat /\ (ByteBits - 1 - k + 1) + k = ByteBits
          /\ (ByteBits - 1 - k + 1) + k <= 32
      BY <1>1
    <3>5. 2^((ByteBits - 1 - k + 1) + k) = 2^(ByteBits - 1 - k + 1) * 2^k
      BY <3>4, PowerSum
    <3> QED
      BY <3>2, <3>3, <3>4, <3>5
  <2>2. v \in 0..(B - 1)
    BY ByteSize
  <2> HIDE DEF A, M, B
  <2>3. v = A * q + r /\ r \in 0..(A - 1) /\ q \in Nat
    <3>1. v \in Int /\ v >= 0
      BY <2>1, <2>2
    <3>2. /\ v = A * (v \div A) + (v % A) /\ v % A \in 0..(A - 1) /\ v \div A \in Int
          /\ v >= 0 => v \div A >= 0
      BY <2>1, <3>1, Divided, Zenon
    <3> QED
      BY <3>1, <3>2
  <2>4. Flipped(v, A) = IF q % 2 = 1 THEN v - A ELSE v + A
    BY DEF Flipped
  <2> HIDE DEF q, r
  <2>5. q <= 2 * M - 1
    <3> SUFFICES ASSUME q >= 2 * M PROVE FALSE
      BY <2>1, <2>3
    <3>1. A * q >= A * (2 * M) /\ A * (2 * M) = (2 * M) * A
      BY <2>1, <2>3
    <3>2. A * q \in Int /\ (2 * M) * A \in Int
      BY <2>1, <2>3
    <3> QED
      BY <2>1, <2>2, <2>3, <3>1, <3>2
  <2>6. CASE q % 2 = 1
    <3>1. q >= 1
      BY <2>3, <2>6
    <3>2. A * q >= A /\ A * q \in Int
      BY <2>1, <2>3, <3>1
    <3> QED
      BY <2>1, <2>2, <2>3, <2>4, <2>6, <3>2 DEF Bytes, A, B
  <2>7. CASE q % 2 # 1
    <3>1. q <= 2 * M - 2
      <4>1. q # 2 * M - 1
        BY <2>1, <2>3, <2>7
      <4> QED
        BY <2>1, <2>3, <2>5, <4>1
    <3>2. A * q <= A * (2 * M - 2) /\ A * (2 * M - 2) = (2 * M) * A - 2 * A /\ A * q \in Nat
      BY <2>1, <2>3, <3>1
    <3>3. v + A \in 0..(B - 1)
      <4>1. (2 * M) * A \in Int
        BY <2>1
      <4> QED
        BY <2>1, <2>2, <2>3, <3>2, <4>1
    <3> QED
      BY <2>4, <2>7, <3>3 DEF Bytes, A, B
  <2> QED
    BY <2>6, <2>7
<1> QED
  BY <1>3, <1>4

(* All bits of a byte turned.                                              *)
LEMMA InvertedByte ==
  ASSUME NEW v \in Bytes
  PROVE  /\ 2^ByteBits - 1 - v \in Bytes
         /\ \A c \in 0..(ByteBits - 1) : Bit(2^ByteBits - 1 - v, c) = 1 - Bit(v, c)
<1> DEFINE B == 2^ByteBits
<1>0. v \in 0..(B - 1) /\ B \in Nat \ {0} /\ Bytes = 0..(B - 1)
  BY ByteSize
<1> HIDE DEF B
<1>1. B - 1 - v \in 0..(B - 1)
  BY <1>0
<1>2. ASSUME NEW c \in 0..(ByteBits - 1)
      PROVE  Bit(B - 1 - v, c) = 1 - Bit(v, c)
  <2> DEFINE A == 2^c
             M == 2^(ByteBits - 1 - c)
             q == v \div A
             r == v % A
  <2>0. ByteBits \in 4..8
    BY BytesAssumption
  <2>1. A \in Nat \ {0} /\ M \in Nat \ {0} /\ B = (2 * M) * A
    <3>1. c \in 0..32 /\ ByteBits - 1 - c \in 0..31 /\ ByteBits - 1 - c \in 0..32
      BY <2>0
    <3>2. A \in Nat \ {0} /\ M \in Nat \ {0}
      BY <3>1, PowerTyped, Zenon
    <3>3. 2^(ByteBits - 1 - c + 1) = 2 * M
      BY <3>1, Doubled
    <3>4. ByteBits - 1 - c + 1 \in Nat /\ c \in Nat /\ (ByteBits - 1 - c + 1) + c = ByteBits
          /\ (ByteBits - 1 - c + 1) + c <= 32
      BY <2>0
    <3>5. 2^((ByteBits - 1 - c + 1) + c) = 2^(ByteBits - 1 - c + 1) * 2^c
      BY <3>4, PowerSum
    <3> QED
      BY <3>2, <3>3, <3>4, <3>5 DEF B
  <2>2. \A x : Bit(x, c) = (x \div A) % 2
    BY DEF Bit
  <2> HIDE DEF A, M
  <2>3. v = A * q + r /\ r \in 0..(A - 1) /\ q \in Nat
    <3>1. v \in Int /\ v >= 0
      BY <1>0
    <3>2. /\ v = A * (v \div A) + (v % A) /\ v % A \in 0..(A - 1) /\ v \div A \in Int
          /\ v >= 0 => v \div A >= 0
      BY <2>1, <3>1, Divided, Zenon
    <3> QED
      BY <3>1, <3>2
  <2>4. Bit(v, c) = q % 2
    BY <2>2
  <2> HIDE DEF q, r
  <2>5. B - 1 - v = A * (2 * M - 1 - q) + (A - 1 - r)
    <3>1. A * (2 * M - 1 - q) = (2 * M) * A - A - A * q
      BY <2>1, <2>3
    <3>2. A * q \in Int /\ (2 * M) * A \in Int
      BY <2>1, <2>3
    <3> QED
      BY <2>1, <2>3, <3>1, <3>2
  <2>6. 2 * M - 1 - q \in Int /\ A - 1 - r \in 0..(A - 1)
    BY <2>1, <2>3
  <2>7. (B - 1 - v) \div A = 2 * M - 1 - q
    <3> DEFINE Q == 2 * M - 1 - q
               R == A - 1 - r
    <3>1. Q \in Int /\ R \in 0..(A - 1) /\ B - 1 - v = A * Q + R
      BY <2>5, <2>6
    <3> HIDE DEF Q, R
    <3>2. (A * Q + R) \div A = Q
      BY <2>1, <3>1, DividedOnce
    <3> QED
      BY <3>1, <3>2 DEF Q
  <2>8. (2 * M - 1 - q) % 2 = 1 - (q % 2)
    BY <2>1, <2>3
  <2> QED
    BY <2>2, <2>4, <2>7, <2>8
<1> QED
  BY <1>0, <1>1, <1>2 DEF B

-----------------------------------------------------------------------------
(***************************************************************************)
(* Bits of buffers, in walking order                                       *)
(***************************************************************************)
BitAt(b, p) == Bit(b[p \div ByteBits + 1], BitOf(p))
Positions(b) == 0..(ByteBits * Len(b) - 1)

LEMMA Position ==
  ASSUME NEW L \in Nat, NEW p \in 0..(ByteBits * L - 1)
  PROVE  /\ p \div ByteBits \in 0..(L - 1) /\ BitOf(p) \in 0..(ByteBits - 1)
         /\ p \div ByteBits + 1 \in 1..L
         /\ p = ByteBits * (p \div ByteBits) + (ByteBits - 1 - BitOf(p))
<1> DEFINE q == p \div ByteBits
           r == p % ByteBits
<1>1. ByteBits \in 4..8 /\ ByteBits * L \in Nat
  BY BytesAssumption
<1>2. r \in 0..(ByteBits - 1) /\ q \in Nat /\ p = ByteBits * q + r
  BY <1>1, Quotient
<1>3. BitOf(p) = ByteBits - 1 - r
  BY DEF BitOf
<1> HIDE DEF q, r
<1>4. q < L
  <2> SUFFICES ASSUME q >= L PROVE FALSE
    BY <1>2
  <2>1. ByteBits * q >= ByteBits * L /\ ByteBits * q \in Int
    BY <1>1, <1>2
  <2> QED
    BY <1>1, <1>2, <2>1
<1>5. /\ q \in 0..(L - 1) /\ BitOf(p) \in 0..(ByteBits - 1) /\ q + 1 \in 1..L
      /\ p = ByteBits * q + (ByteBits - 1 - BitOf(p))
  <2>1. ByteBits \in Int /\ r \in Int
    BY <1>1, <1>2
  <2>2. BitOf(p) \in 0..(ByteBits - 1) /\ ByteBits - 1 - BitOf(p) = r
    BY <1>2, <1>3, <2>1
  <2>3. q \in 0..(L - 1) /\ q + 1 \in 1..L
    BY <1>2, <1>4
  <2> QED
    BY <1>2, <2>2, <2>3
<1> QED
  BY <1>5 DEF q

LEMMA PositionOf ==
  ASSUME NEW L \in Nat, NEW m \in 0..(L - 1), NEW c \in 0..(ByteBits - 1)
  PROVE  LET p == ByteBits * m + (ByteBits - 1 - c)
         IN  p \in 0..(ByteBits * L - 1) /\ p \div ByteBits = m /\ BitOf(p) = c
<1> DEFINE d == ByteBits - 1 - c
           p == ByteBits * m + d
<1>1. ByteBits \in 4..8 /\ ByteBits \in Nat \ {0} /\ d \in 0..(ByteBits - 1) /\ m \in Int
  BY BytesAssumption
<1>2. p \div ByteBits = m /\ p % ByteBits = d
  <2> HIDE DEF d
  <2> QED
    BY <1>1, DividedOnce
<1>3. BitOf(p) = c
  BY <1>1, <1>2 DEF BitOf
<1>4. ByteBits * m <= ByteBits * L - ByteBits /\ ByteBits * m \in Nat /\ ByteBits * L \in Nat
  <2>1. ByteBits * m <= ByteBits * (L - 1) /\ ByteBits * (L - 1) = ByteBits * L - ByteBits
    BY <1>1
  <2> QED
    BY <1>1, <2>1
<1>5. p \in 0..(ByteBits * L - 1)
  BY <1>1, <1>4
<1> QED
  BY <1>2, <1>3, <1>5

LEMMA BitAtTyped ==
  ASSUME NEW b \in Seq(Bytes), NEW p \in Positions(b)
  PROVE  BitAt(b, p) \in {0, 1} /\ p \div ByteBits + 1 \in DOMAIN b /\ p \in Nat
<1>1. Len(b) \in Nat /\ DOMAIN b = 1..Len(b) /\ p \in 0..(ByteBits * Len(b) - 1)
  BY DEF Positions
<1>2. p \div ByteBits + 1 \in 1..Len(b) /\ BitOf(p) \in 0..(ByteBits - 1)
  BY <1>1, Position
<1>3. b[p \div ByteBits + 1] \in Int
  BY <1>1, <1>2, ByteSize
<1>4. BitOf(p) \in 0..32
  <2>1. 0..(ByteBits - 1) \subseteq 0..32
    BY BytesAssumption
  <2> QED
    BY <1>2, <2>1
<1>5. BitAt(b, p) \in {0, 1}
  BY <1>3, <1>4, BitTyped DEF BitAt
<1>6. p \in Nat
  BY <1>1, BytesAssumption
<1> QED
  BY <1>1, <1>2, <1>5, <1>6

LEMMA SameBuffer ==
  ASSUME NEW b \in Seq(Bytes), NEW c \in Seq(Bytes), Len(c) = Len(b),
         \A p \in Positions(b) : BitAt(b, p) = BitAt(c, p)
  PROVE  b = c
<1>1. Len(b) \in Nat /\ DOMAIN b = 1..Len(b) /\ DOMAIN c = 1..Len(b)
  OBVIOUS
<1>2. ASSUME NEW n \in 1..Len(b) PROVE b[n] = c[n]
  <2>1. n - 1 \in 0..(Len(b) - 1) /\ n - 1 + 1 = n /\ b[n] \in Bytes /\ c[n] \in Bytes
    BY <1>1
  <2>2. ASSUME NEW k \in 0..(ByteBits - 1) PROVE Bit(b[n], k) = Bit(c[n], k)
    <3> DEFINE p == ByteBits * (n - 1) + (ByteBits - 1 - k)
    <3>1. p \in Positions(b) /\ p \div ByteBits = n - 1 /\ BitOf(p) = k
      BY <1>1, <2>1, PositionOf DEF Positions
    <3> HIDE DEF p
    <3>2. BitAt(b, p) = Bit(b[n], k) /\ BitAt(c, p) = Bit(c[n], k)
      BY <2>1, <3>1 DEF BitAt
    <3> QED
      BY <3>1, <3>2
  <2> QED
    BY <2>1, <2>2, SameBitsOfBytes
<1> QED
  BY <1>1, <1>2

(* Bits of c are those of b, but for the ones in S.                        *)
Turned(b, c, S) ==
  /\ c \in Seq(Bytes) /\ Len(c) = Len(b)
  /\ \A p \in Positions(b) : BitAt(c, p) = IF p \in S THEN 1 - BitAt(b, p) ELSE BitAt(b, p)

LEMMA TurnedOne ==
  ASSUME NEW b \in Seq(Bytes), NEW p \in Positions(b)
  PROVE  Turned(b, FLIP_BIT(b, p), {p})
<1> DEFINE at == p \div ByteBits + 1
           k == BitOf(p)
           c == FLIP_BIT(b, p)
<1>1. Len(b) \in Nat /\ DOMAIN b = 1..Len(b) /\ p \in 0..(ByteBits * Len(b) - 1)
      /\ \A n \in 1..Len(b) : b[n] \in Bytes /\ b[n] \in Int
  BY ByteSize DEF Positions
<1>2. at \in 1..Len(b) /\ k \in 0..(ByteBits - 1)
  BY <1>1, Position
<1>3. Buffer(b)
  BY <1>1 DEF Buffer
<1>4. c = [m \in DOMAIN b |-> IF m = at THEN Flipped(b[m], 2^k) ELSE b[m]]
  BY <1>3, FlipBit
<1> HIDE DEF c, k
<1>5. /\ Flipped(b[at], 2^k) \in Bytes
      /\ \A d \in 0..(ByteBits - 1) :
           Bit(Flipped(b[at], 2^k), d) = IF d = k THEN 1 - Bit(b[at], d) ELSE Bit(b[at], d)
  BY <1>1, <1>2, FlippedByte
<1>6. c \in Seq(Bytes) /\ Len(c) = Len(b)
  <2>1. \A m \in 1..Len(b) : c[m] \in Bytes
    BY <1>1, <1>2, <1>4, <1>5
  <2>2. c \in [1..Len(b) -> Bytes]
    BY <1>1, <1>4, <2>1
  <2> QED
    BY <1>1, <2>2
<1>7. ASSUME NEW q \in Positions(b)
      PROVE  BitAt(c, q) = IF q \in {p} THEN 1 - BitAt(b, q) ELSE BitAt(b, q)
  <2>1. q \in 0..(ByteBits * Len(b) - 1) /\ q \in Nat /\ p \in Nat
    BY BitAtTyped DEF Positions
  <2>2. q \div ByteBits + 1 \in 1..Len(b) /\ BitOf(q) \in 0..(ByteBits - 1)
        /\ q \div ByteBits \in Int /\ p \div ByteBits \in Int
    BY <1>1, <2>1, Position
  <2>3. p \div ByteBits = q \div ByteBits /\ BitOf(p) = BitOf(q) => p = q
    BY <2>1, BitPlace
  <2>4. CASE q \div ByteBits + 1 = at
    <3>1. c[at] = Flipped(b[at], 2^k)
      BY <1>1, <1>2, <1>4
    <3>2. Bit(c[at], BitOf(q)) = IF BitOf(q) = k THEN 1 - Bit(b[at], BitOf(q))
                                 ELSE Bit(b[at], BitOf(q))
      BY <1>5, <2>2, <3>1
    <3>3. BitOf(q) = k <=> q = p
      BY <2>2, <2>3, <2>4 DEF k
    <3> QED
      BY <2>4, <3>2, <3>3 DEF BitAt
  <2>5. CASE q \div ByteBits + 1 # at
    <3>1. c[q \div ByteBits + 1] = b[q \div ByteBits + 1] /\ q # p
      BY <1>1, <1>4, <2>2, <2>5
    <3> QED
      BY <3>1 DEF BitAt
  <2> QED
    BY <2>4, <2>5
<1> QED
  BY <1>6, <1>7 DEF Turned, c

LEMMA TurnedBoth ==
  ASSUME NEW b \in Seq(Bytes), NEW c, NEW d, NEW S, NEW R, Turned(b, c, S), Turned(c, d, R),
         S \cap R = {}
  PROVE  Turned(b, d, S \cup R)
<1>1. Positions(c) = Positions(b) /\ d \in Seq(Bytes) /\ Len(d) = Len(b)
  BY DEF Turned, Positions
<1> QED
  BY <1>1 DEF Turned

LEMMA TurnedPair ==
  ASSUME NEW b \in Seq(Bytes), NEW p \in Nat, p + 1 \in Positions(b)
  PROVE  Turned(b, FlipPair(b, p), {p, p + 1})
<1> DEFINE c == FLIP_BIT(b, p)
           d == FLIP_BIT(c, p + 1)
<1>1. p \in Positions(b)
  BY BytesAssumption DEF Positions
<1>2. Turned(b, c, {p})
  BY <1>1, TurnedOne
<1> HIDE DEF c
<1>3. c \in Seq(Bytes) /\ p + 1 \in Positions(c)
  BY <1>2 DEF Turned, Positions
<1>4. Turned(c, d, {p + 1})
  BY <1>3, TurnedOne
<1> HIDE DEF d
<1>5. {p} \cap {p + 1} = {} /\ {p} \cup {p + 1} = {p, p + 1}
  OBVIOUS
<1>6. Turned(b, d, {p} \cup {p + 1})
  BY <1>2, <1>4, <1>5, TurnedBoth
<1> QED
  BY <1>5, <1>6 DEF d, c, FlipPair

(* FLIP_BIT n times turns n bits.                                          *)
LEMMA TurnedBits ==
  ASSUME NEW b \in Seq(Bytes), NEW p \in Nat, NEW n \in {1, 2, 4}, p + n - 1 \in Positions(b)
  PROVE  Turned(b, FlipBits(b, p, n), Span(p, n))
<1>1. CASE n = 1
  <2>1. p \in Positions(b) /\ Span(p, n) = {p}
    BY <1>1 DEF Span
  <2>2. FlipBits(b, p, n) = FLIP_BIT(b, p)
    BY <1>1 DEF FlipBits
  <2> QED
    BY <2>1, <2>2, TurnedOne
<1>2. CASE n = 2
  <2>1. p + 1 \in Positions(b) /\ Span(p, n) = {p, p + 1}
    BY <1>2 DEF Span
  <2>2. FlipBits(b, p, n) = FlipPair(b, p)
    BY <1>2 DEF FlipBits
  <2> QED
    BY <2>1, <2>2, TurnedPair
<1>3. CASE n = 4
  <2> DEFINE c == FlipPair(b, p)
             q == p + 2
             d == FlipPair(c, q)
  <2>1. p + 1 \in Positions(b) /\ q + 1 \in Positions(b) /\ q \in Nat
    BY <1>3, BytesAssumption DEF Positions
  <2>2. Turned(b, c, {p, p + 1})
    BY <2>1, TurnedPair
  <2> HIDE DEF c
  <2>3. c \in Seq(Bytes) /\ q + 1 \in Positions(c)
    BY <2>1, <2>2 DEF Turned, Positions
  <2>5. {p, p + 1} \cap {q, q + 1} = {} /\ {p, p + 1} \cup {q, q + 1} = Span(p, n)
    BY <1>3 DEF Span
  <2> HIDE DEF q
  <2>4. Turned(c, d, {q, q + 1})
    BY <2>1, <2>3, TurnedPair
  <2> HIDE DEF d
  <2>6. Turned(b, d, {p, p + 1} \cup {q, q + 1})
    BY <2>2, <2>4, <2>5, TurnedBoth
  <2>7. FlipBits(b, p, n) = d
    BY <1>3 DEF FlipBits, c, d, q
  <2> QED
    BY <2>5, <2>6, <2>7
<1> QED
  BY <1>1, <1>2, <1>3

LEMMA ChangedBits ==
  ASSUME NEW b, NEW c
  PROVE  Changed(b, c) = {p \in Positions(b) : BitAt(b, p) # BitAt(c, p)}
BY DEF Changed, Positions, BitAt

(* A buffer in which just those bits differ is the one FLIP_BIT makes.     *)
LEMMA ChangedByFlips ==
  ASSUME NEW b \in Seq(Bytes), NEW c \in Seq(Bytes), Len(c) = Len(b),
         NEW p \in Nat, NEW n \in {1, 2, 4}, Changed(b, c) = Span(p, n)
  PROVE  p + n - 1 \in Positions(b) /\ c = FlipBits(b, p, n)
<1>1. p + n - 1 \in Span(p, n)
  BY DEF Span
<1>2. p + n - 1 \in Positions(b)
  BY <1>1, ChangedBits
<1> DEFINE d == FlipBits(b, p, n)
<1>3. Turned(b, d, Span(p, n))
  BY <1>2, TurnedBits
<1> HIDE DEF d
<1>4. d \in Seq(Bytes) /\ Len(c) = Len(d) /\ Positions(d) = Positions(b)
  BY <1>3 DEF Turned, Positions
<1>5. ASSUME NEW q \in Positions(b) PROVE BitAt(d, q) = BitAt(c, q)
  <2>1. BitAt(d, q) = IF q \in Span(p, n) THEN 1 - BitAt(b, q) ELSE BitAt(b, q)
    BY <1>3 DEF Turned
  <2>2. q \in Span(p, n) <=> BitAt(b, q) # BitAt(c, q)
    BY ChangedBits
  <2>3. Positions(c) = Positions(b)
    BY DEF Positions
  <2>4. BitAt(b, q) \in {0, 1} /\ BitAt(c, q) \in {0, 1}
    BY <2>3, BitAtTyped
  <2> QED
    BY <2>1, <2>2, <2>4
<1>6. d = c
  BY <1>4, <1>5, SameBuffer
<1> QED
  BY <1>2, <1>6 DEF d

(* A buffer in which all bits of n bytes differ is the one with them       *)
(* inverted.                                                               *)
LEMMA ChangedByInversion ==
  ASSUME NEW b \in Seq(Bytes), NEW c \in Seq(Bytes), Len(c) = Len(b), NEW i, NEW n,
         \A m \in DOMAIN b : IF m - 1 \in Span(i, n)
                             THEN \A k \in 0..(ByteBits - 1) : Bit(b[m], k) # Bit(c[m], k)
                             ELSE b[m] = c[m]
  PROVE  c = FlipBytes(b, i, n)
<1> DEFINE d == FlipBytes(b, i, n)
<1>1. Len(b) \in Nat /\ DOMAIN b = 1..Len(b) /\ DOMAIN c = DOMAIN b
  OBVIOUS
<1>2. ASSUME NEW m \in DOMAIN b PROVE c[m] = d[m]
  <2>1. b[m] \in Bytes /\ c[m] \in Bytes
    BY <1>1
  <2>2. CASE m - 1 \in Span(i, n)
    <3> DEFINE v == 2^ByteBits - 1 - b[m]
    <3>1. v \in Bytes /\ \A k \in 0..(ByteBits - 1) : Bit(v, k) = 1 - Bit(b[m], k)
      BY <2>1, InvertedByte
    <3>2. d[m] = v
      BY <2>2 DEF FlipBytes
    <3> HIDE DEF v, d
    <3>3. ASSUME NEW k \in 0..(ByteBits - 1) PROVE Bit(c[m], k) = Bit(v, k)
      <4>1. k \in 0..32 /\ b[m] \in Int /\ c[m] \in Int
        BY <2>1, ByteSize, BytesAssumption
      <4>2. Bit(b[m], k) \in {0, 1} /\ Bit(c[m], k) \in {0, 1}
        BY <4>1, BitTyped
      <4>3. Bit(b[m], k) # Bit(c[m], k)
        BY <2>2
      <4> QED
        BY <3>1, <4>2, <4>3
    <3> QED
      BY <2>1, <3>1, <3>2, <3>3, SameBitsOfBytes
  <2>3. CASE m - 1 \notin Span(i, n)
    BY <2>3 DEF FlipBytes
  <2> QED
    BY <2>2, <2>3
<1>3. DOMAIN d = DOMAIN b
  BY DEF FlipBytes
<1>4. d = [m \in DOMAIN d |-> d[m]]
  BY DEF FlipBytes
<1> HIDE DEF d
<1>5. c = d
  BY <1>1, <1>2, <1>3, <1>4
<1> QED
  BY <1>5 DEF d

-----------------------------------------------------------------------------
(***************************************************************************)
(* Words written into buffers                                              *)
(***************************************************************************)
LEMMA PutLength ==
  ASSUME NEW b \in Seq(Bytes), NEW i \in Nat, NEW w \in {1, 2, 4}, NEW v \in Int
  PROVE  Put(b, i, w, v) \in Seq(Bytes) /\ Len(Put(b, i, w, v)) = Len(b)
<1> DEFINE c == Put(b, i, w, v)
<1>1. Len(b) \in Nat /\ DOMAIN b = 1..Len(b) /\ \A m \in 1..Len(b) : b[m] \in Bytes
  OBVIOUS
<1>2. c = [n \in 1..Len(b) |-> IF n - 1 \in Span(i, w) THEN ByteOf(v, n - 1 - i) ELSE b[n]]
  BY <1>1 DEF Put
<1>3. ASSUME NEW n \in 1..Len(b) PROVE c[n] \in Bytes
  <2>1. CASE n - 1 \in Span(i, w)
    <3>1. n - 1 - i \in 0..4
      BY <2>1 DEF Span
    <3>2. ByteOf(v, n - 1 - i) \in Bytes
      BY <3>1, ByteTyped
    <3> QED
      BY <1>2, <2>1, <3>2
  <2>2. CASE n - 1 \notin Span(i, w)
    BY <1>1, <1>2, <2>2
  <2> QED
    BY <2>1, <2>2
<1> HIDE DEF c
<1>4. c \in [1..Len(b) -> Bytes]
  BY <1>2, <1>3
<1>5. c \in Seq(Bytes) /\ Len(c) = Len(b)
  BY <1>1, <1>4
<1> QED
  BY <1>5 DEF c

LEMMA PutInside ==
  ASSUME NEW b \in Seq(Bytes), NEW i \in Nat, NEW w \in {1, 2, 4}, NEW v \in Int,
         i + w <= Len(b), NEW k \in 0..(w - 1)
  PROVE  i + k + 1 \in 1..Len(b) /\ Put(b, i, w, v)[i + k + 1] = ByteOf(v, k)
<1>1. Len(b) \in Nat /\ DOMAIN b = 1..Len(b)
  OBVIOUS
<1>2. i + k + 1 \in 1..Len(b) /\ i + k + 1 - 1 \in Span(i, w) /\ i + k + 1 - 1 - i = k
  BY <1>1 DEF Span
<1> QED
  BY <1>1, <1>2 DEF Put

LEMMA PutOutside ==
  ASSUME NEW b \in Seq(Bytes), NEW i \in Nat, NEW w \in {1, 2, 4}, NEW v \in Int,
         NEW m \in 1..Len(b), m - 1 \notin Span(i, w)
  PROVE  Put(b, i, w, v)[m] = b[m]
<1>1. DOMAIN b = 1..Len(b)
  OBVIOUS
<1> QED
  BY <1>1 DEF Put

(* Only the bytes of the word matter.                                      *)
LEMMA PutSame ==
  ASSUME NEW b, NEW i \in Nat, NEW w \in {1, 2, 4}, NEW u, NEW v, DOMAIN b \subseteq Int,
         \A k \in 0..(w - 1) : ByteOf(u, k) = ByteOf(v, k)
  PROVE  Put(b, i, w, u) = Put(b, i, w, v)
<1>1. ASSUME NEW n \in DOMAIN b, n - 1 \in Span(i, w)
      PROVE  ByteOf(u, n - 1 - i) = ByteOf(v, n - 1 - i)
  <2>1. n - 1 - i \in 0..(w - 1)
    BY <1>1 DEF Span
  <2> QED
    BY <2>1
<1> QED
  BY <1>1 DEF Put

LEMMA PutMod ==
  ASSUME NEW b \in Seq(Bytes), NEW i \in Nat, NEW w \in {1, 2, 4}, NEW v \in Int
  PROVE  Put(b, i, w, Mod(w, v)) = Put(b, i, w, v)
<1>1. DOMAIN b \subseteq Int /\ w \in 1..4
  OBVIOUS
<1>2. \A k \in 0..(w - 1) : ByteOf(Mod(w, v), k) = ByteOf(v, k)
  BY <1>1, ByteOfMod
<1> QED
  BY <1>1, <1>2, PutSame

(* The word v changes nothing at byte i but the h bytes from its byte lo on. *)
OnlyAt(b, i, w, v, lo, h) ==
  \A k \in 0..(w - 1) : k \notin lo..(lo + h - 1) => ByteOf(v, k) = b[i + k + 1]

SamePart(v, lo, h, u) == \A m \in 0..(h - 1) : ByteOf(v, lo + m) = ByteOf(u, m)

LEMMA PutPart ==
  ASSUME NEW b \in Seq(Bytes), NEW i \in Nat, NEW w \in {1, 2, 4}, NEW h \in {1, 2, 4},
         NEW lo \in Nat, lo + h <= w, NEW v, NEW u, OnlyAt(b, i, w, v, lo, h),
         SamePart(v, lo, h, u)
  PROVE  Put(b, i, w, v) = Put(b, i + lo, h, u)
<1>1. DOMAIN b = 1..Len(b) /\ Len(b) \in Nat
  OBVIOUS
<1>2. ASSUME NEW n \in DOMAIN b
      PROVE  (IF n - 1 \in Span(i, w) THEN ByteOf(v, n - 1 - i) ELSE b[n])
               = IF n - 1 \in Span(i + lo, h) THEN ByteOf(u, n - 1 - (i + lo)) ELSE b[n]
  <2> DEFINE k == n - 1 - i
  <2>1. /\ k \in Int /\ i + k + 1 = n /\ n - 1 - (i + lo) = k - lo
        /\ n - 1 \in Span(i, w) <=> k \in 0..(w - 1)
        /\ n - 1 \in Span(i + lo, h) <=> k \in lo..(lo + h - 1)
        /\ k \in lo..(lo + h - 1) => k \in 0..(w - 1)
    <3>1. n \in Int /\ k \in Int /\ i + k + 1 = n /\ n - 1 - (i + lo) = k - lo
      BY <1>1, SMTT(20)
    <3>2. n - 1 = i + k
      BY <3>1
    <3> HIDE DEF k
    <3>3. n - 1 \in Span(i, w) <=> k \in 0..(w - 1)
      BY <3>1, <3>2 DEF Span
    <3>4. n - 1 \in Span(i + lo, h) <=> k \in lo..(lo + h - 1)
      BY <3>1, <3>2 DEF Span
    <3>5. k \in lo..(lo + h - 1) => k \in 0..(w - 1)
      BY <3>1
    <3> QED
      BY <3>1, <3>3, <3>4, <3>5
  <2> HIDE DEF k
  <2>2. CASE k \in 0..(w - 1)
    <3>1. ByteOf(v, k) = IF k \in lo..(lo + h - 1) THEN ByteOf(u, k - lo) ELSE b[i + k + 1]
      <4>1. CASE k \in lo..(lo + h - 1)
        <5>1. PICK m \in 0..(h - 1) : m = k - lo /\ lo + m = k
          BY <2>1, <4>1
        <5>2. ByteOf(v, lo + m) = ByteOf(u, m)
          BY DEF SamePart
        <5> QED
          BY <4>1, <5>1, <5>2
      <4>2. CASE k \notin lo..(lo + h - 1)
        BY <2>2, <4>2 DEF OnlyAt
      <4> QED
        BY <4>1, <4>2
    <3> QED
      BY <2>1, <2>2, <3>1 DEF k
  <2>3. CASE k \notin 0..(w - 1)
    BY <2>1, <2>3
  <2> QED
    BY <2>2, <2>3
<1> QED
  BY <1>2 DEF Put

(* The word at an offset, and what it is made of.                          *)
LEMMA WordAt ==
  ASSUME NEW b \in Seq(Bytes), NEW i \in Nat, NEW w \in {1, 2, 4}, i + w <= Len(b)
  PROVE  /\ Word(b, i, w) \in 0..(2^(ByteBits * w) - 1) /\ Word(b, i, w) \in Nat
         /\ \A k \in 0..(w - 1) : /\ ByteOf(Word(b, i, w), k) = b[i + k + 1]
                                  /\ i + k + 1 \in 1..Len(b) /\ b[i + k + 1] \in Bytes
<1>1. ASSUME NEW k \in 0..(w - 1) PROVE i + k + 1 \in 1..Len(b) /\ b[i + k + 1] \in Bytes
  <2>1. Len(b) \in Nat /\ DOMAIN b = 1..Len(b)
    OBVIOUS
  <2>2. i + k + 1 \in 1..Len(b)
    BY <2>1
  <2> QED
    BY <2>1, <2>2
<1>2. /\ Word(b, i, w) \in 0..(2^(ByteBits * w) - 1)
      /\ \A k \in 0..(w - 1) : ByteOf(Word(b, i, w), k) = b[i + k + 1]
  BY <1>1, WordBytes
<1>3. 2^(ByteBits * w) \in Nat
  BY WordSize
<1> QED
  BY <1>1, <1>2, <1>3

LEMMA PutUnchanged ==
  ASSUME NEW b \in Seq(Bytes), NEW i \in Nat, NEW w \in {1, 2, 4}, i + w <= Len(b), NEW v,
         \A k \in 0..(w - 1) : ByteOf(v, k) = b[i + k + 1]
  PROVE  Put(b, i, w, v) = b
<1>1. DOMAIN b = 1..Len(b) /\ Len(b) \in Nat /\ b = [n \in DOMAIN b |-> b[n]]
  OBVIOUS
<1>2. ASSUME NEW n \in DOMAIN b, n - 1 \in Span(i, w) PROVE ByteOf(v, n - 1 - i) = b[n]
  <2>1. n - 1 - i \in 0..(w - 1) /\ i + (n - 1 - i) + 1 = n
    BY <1>1, <1>2 DEF Span
  <2> QED
    BY <2>1
<1> QED
  BY <1>1, <1>2 DEF Put

(* Swapping the bytes twice gives the number back.                         *)
LEMMA SwapTwice ==
  ASSUME NEW w \in {1, 2, 4}, NEW v \in 0..(2^(ByteBits * w) - 1)
  PROVE  Swap(w, Swap(w, v)) = v
<1>1. v \in Int
  <2>1. 2^(ByteBits * w) \in Nat
    BY WordSize
  <2> QED
    BY <2>1
<1>2. /\ Swap(w, v) \in Int
      /\ \A k \in 0..(w - 1) : ByteOf(Swap(w, v), k) = ByteOf(v, w - 1 - k)
  <2>1. Swap(w, v) \in Nat
    BY <1>1, SwapBytes
  <2>2. \A k \in 0..(w - 1) : ByteOf(Swap(w, v), k) = ByteOf(v, w - 1 - k)
    BY <1>1, SwapBytes, Zenon
  <2> QED
    BY <2>1, <2>2
<1> DEFINE u == Swap(w, v)
<1> HIDE DEF u
<1>3. /\ Swap(w, u) \in 0..(2^(ByteBits * w) - 1)
      /\ \A k \in 0..(w - 1) : ByteOf(Swap(w, u), k) = ByteOf(u, w - 1 - k)
  BY <1>2, SwapBytes DEF u
<1>4. \A k \in 0..(w - 1) : w - 1 - k \in 0..(w - 1) /\ w - 1 - (w - 1 - k) = k
  OBVIOUS
<1>5. \A k \in 0..(w - 1) : ByteOf(Swap(w, u), k) = ByteOf(v, k)
  BY <1>2, <1>3, <1>4 DEF u
<1>6. Swap(w, u) = v
  BY <1>3, <1>5, SameBytes
<1> QED
  BY <1>6 DEF u

LEMMA SwapByte ==
  ASSUME NEW v \in 0..(2^(ByteBits * 1) - 1) PROVE Swap(1, v) = v
<1>1. v \in Int /\ 1 \in {1, 2, 4}
  <2>1. 2^(ByteBits * 1) \in Nat
    BY WordSize
  <2> QED
    BY <2>1
<1>2. /\ Swap(1, v) \in 0..(2^(ByteBits * 1) - 1)
      /\ \A k \in 0..(1 - 1) : ByteOf(Swap(1, v), k) = ByteOf(v, 1 - 1 - k)
  BY <1>1, SwapBytes
<1>3. \A k \in 0..(1 - 1) : 1 - 1 - k = k
  <2>1. 0..(1 - 1) = {0} /\ 1 - 1 - 0 = 0
    OBVIOUS
  <2> QED
    BY <2>1
<1>4. \A k \in 0..(1 - 1) : ByteOf(Swap(1, v), k) = ByteOf(v, k)
  BY <1>2, <1>3
<1> QED
  BY <1>1, <1>2, <1>4, SameBytes

-----------------------------------------------------------------------------
(***************************************************************************)
(* What could_be_bitflip supposes                                          *)
(***************************************************************************)
(* Weights of a word, byte for byte.                                       *)
LEMMA Weight ==
  ASSUME NEW w \in {1, 2, 4}, NEW x \in 0..(ByteBits * w - 1)
  PROVE  /\ x \div ByteBits \in 0..(w - 1) /\ x % ByteBits \in 0..(ByteBits - 1)
         /\ x = ByteBits * (x \div ByteBits) + (x % ByteBits)
<1> DEFINE k == x \div ByteBits
           e == x % ByteBits
<1>1. ByteBits \in 4..8 /\ x \in Nat
  BY BytesAssumption
<1>2. e \in 0..(ByteBits - 1) /\ k \in Nat /\ x = ByteBits * k + e
  BY <1>1, Quotient
<1> HIDE DEF k, e
<1>3. k <= w - 1
  <2> SUFFICES ASSUME k >= w PROVE FALSE
    BY <1>2
  <2>1. ByteBits * k >= ByteBits * w /\ ByteBits * k \in Int /\ ByteBits * w \in Int
    BY <1>1, <1>2
  <2> QED
    BY <1>1, <1>2, <2>1
<1>4. k \in 0..(w - 1)
  BY <1>2, <1>3
<1> QED
  BY <1>2, <1>4 DEF k, e

LEMMA WeightIn ==
  ASSUME NEW w \in {1, 2, 4}, NEW k \in 0..(w - 1), NEW e \in 0..(ByteBits - 1)
  PROVE  ByteBits * k + e \in 0..(ByteBits * w - 1)
<1>1. ByteBits \in 4..8
  BY BytesAssumption
<1>2. ByteBits * k <= ByteBits * (w - 1) /\ ByteBits * (w - 1) = ByteBits * w - ByteBits
      /\ ByteBits * k \in Nat /\ ByteBits * w \in Nat
  BY <1>1
<1> QED
  BY <1>1, <1>2

LEMMA XorBit ==
  ASSUME NEW b \in Seq(Bytes), NEW i \in Nat, NEW w \in {1, 2, 4}, i + w <= Len(b),
         NEW v \in Int, NEW k \in 0..(w - 1), NEW e \in 0..(ByteBits - 1)
  PROVE  ByteBits * k + e \in Xor(w, Word(b, i, w), v)
           <=> Bit(b[i + k + 1], e) # Bit(Put(b, i, w, v)[i + k + 1], e)
<1> DEFINE u == Word(b, i, w)
           x == ByteBits * k + e
<1>1. x \in 0..(ByteBits * w - 1)
  BY WeightIn
<1>2. u \in Int /\ ByteOf(u, k) = b[i + k + 1] /\ k \in 0..3
  <2>1. u \in Nat /\ ByteOf(u, k) = b[i + k + 1]
    BY WordAt
  <2> QED
    BY <2>1
<1>3. Put(b, i, w, v)[i + k + 1] = ByteOf(v, k)
  BY PutInside
<1>4. Bit(ByteOf(u, k), e) = Bit(u, x) /\ Bit(ByteOf(v, k), e) = Bit(v, x)
  BY <1>2, BitOfByte
<1> HIDE DEF u, x
<1>5. x \in Xor(w, u, v) <=> Bit(u, x) # Bit(v, x)
  BY <1>1 DEF Xor
<1>6. x \in Xor(w, u, v) <=> Bit(b[i + k + 1], e) # Bit(Put(b, i, w, v)[i + k + 1], e)
  BY <1>2, <1>3, <1>4, <1>5
<1> QED
  BY <1>6 DEF u, x

(* The same bytes, the same bits.                                          *)
LEMMA XorSame ==
  ASSUME NEW w \in {1, 2, 4}, NEW u, NEW v \in Int, NEW x \in Int,
         \A k \in 0..(w - 1) : ByteOf(v, k) = ByteOf(x, k)
  PROVE  Xor(w, u, v) = Xor(w, u, x)
<1>1. ASSUME NEW p \in 0..(ByteBits * w - 1) PROVE Bit(v, p) = Bit(x, p)
  <2>1. PICK k \in 0..(w - 1), e \in 0..(ByteBits - 1) : p = ByteBits * k + e
    BY Weight
  <2>2. k \in 0..3
    OBVIOUS
  <2>3. Bit(ByteOf(v, k), e) = Bit(v, p) /\ Bit(ByteOf(x, k), e) = Bit(x, p)
    BY <2>1, <2>2, BitOfByte
  <2> QED
    BY <2>3
<1> QED
  BY <1>1 DEF Xor

LEMMA XorBits ==
  ASSUME NEW b \in Seq(Bytes), NEW i \in Nat, NEW w \in {1, 2, 4}, i + w <= Len(b), NEW v \in Int
  PROVE  \A k \in 0..(w - 1), e \in 0..(ByteBits - 1) :
           ByteBits * k + e \in Xor(w, Word(b, i, w), v)
             <=> Bit(b[i + k + 1], e) # Bit(Put(b, i, w, v)[i + k + 1], e)
BY XorBit

LEMMA NoBitFlipped ==
  ASSUME NEW b \in Seq(Bytes), NEW i \in Nat, NEW w \in {1, 2, 4}, i + w <= Len(b), NEW v \in Int
  PROVE  Xor(w, Word(b, i, w), v) = {} => Put(b, i, w, v) = b
<1> DEFINE X == Xor(w, Word(b, i, w), v)
           c == Put(b, i, w, v)
<1>1. \A k \in 0..(w - 1), e \in 0..(ByteBits - 1) :
        ByteBits * k + e \in X <=> Bit(b[i + k + 1], e) # Bit(c[i + k + 1], e)
  BY XorBits
<1>2. \A k \in 0..(w - 1) : c[i + k + 1] = ByteOf(v, k)
  BY PutInside
<1>3. \A k \in 0..(w - 1) : b[i + k + 1] \in Bytes
  BY WordAt
<1>4. ASSUME NEW k \in 0..(w - 1) PROVE ByteOf(v, k) \in Bytes
  <2>1. k \in 0..4
    OBVIOUS
  <2> QED
    BY <2>1, ByteTyped
<1> HIDE DEF X
<1> SUFFICES ASSUME X = {} PROVE c = b
  BY DEF X
<1>5. ASSUME NEW k \in 0..(w - 1) PROVE ByteOf(v, k) = b[i + k + 1]
  <2>1. \A e \in 0..(ByteBits - 1) : Bit(b[i + k + 1], e) = Bit(ByteOf(v, k), e)
    BY <1>1, <1>2
  <2> QED
    BY <1>3, <1>4, <2>1, SameBitsOfBytes
<1> QED
  BY <1>5, PutUnchanged

LEMMA Blocks ==
  ASSUME NEW B \in 4..8, NEW k \in Nat, NEW j \in Nat, NEW n \in Nat, NEW e \in 0..(B - 1)
  PROVE  /\ B * j + e \in (B * k)..(B * k + B * n - 1) <=> j \in k..(k + n - 1)
         /\ \A w \in Nat : B * k + B * n - 1 <= B * w - 1 => k + n <= w
<1>1. B = 4 \/ B = 5 \/ B = 6 \/ B = 7 \/ B = 8
  OBVIOUS
<1> QED
  BY <1>1

LEMMA InSpans ==
  ASSUME NEW m \in Int, NEW i \in Nat, NEW k \in Nat, NEW n \in Nat
  PROVE  /\ m - 1 \in Span(i + k, n) <=> m - 1 - i \in k..(k + n - 1)
         /\ m - 1 \in Span(i, n) <=> m - 1 - i \in 0..(n - 1)
BY DEF Span

(* Bits that differ, and fill n bytes of the word at i, are n bytes        *)
(* inverted.                                                               *)
WholeBytes(b, c, i, w, X) ==
  \A s \in X, n \in {1, 2, 4} :
    s % ByteBits = 0 /\ X = Span(s, ByteBits * n) =>
      \E k \in Nat : k + n <= w /\ c = FlipBytes(b, i + k, n)

LEMMA BytesInverted ==
  ASSUME NEW b \in Seq(Bytes), NEW i \in Nat, NEW w \in {1, 2, 4}, i + w <= Len(b), NEW v \in Int
  PROVE  WholeBytes(b, Put(b, i, w, v), i, w, Xor(w, Word(b, i, w), v))
<1> DEFINE c == Put(b, i, w, v)
           X == Xor(w, Word(b, i, w), v)
<1>1. X \subseteq 0..(ByteBits * w - 1) /\ ByteBits \in 4..8
  BY BytesAssumption DEF Xor
<1>2. \A k \in 0..(w - 1), e \in 0..(ByteBits - 1) :
        ByteBits * k + e \in X <=> Bit(b[i + k + 1], e) # Bit(c[i + k + 1], e)
  BY XorBits
<1>3. /\ c \in Seq(Bytes) /\ Len(c) = Len(b)
      /\ \A m \in 1..Len(b) : m - 1 \notin Span(i, w) => c[m] = b[m]
  BY PutLength, PutOutside
<1> HIDE DEF X, c
<1> SUFFICES ASSUME NEW s \in X, NEW n \in {1, 2, 4}, s % ByteBits = 0,
                    X = Span(s, ByteBits * n)
             PROVE  \E k \in Nat : k + n <= w /\ c = FlipBytes(b, i + k, n)
  BY DEF X, c, WholeBytes
<1> DEFINE k == s \div ByteBits
<1>4. k \in Nat /\ s = ByteBits * k
  <2>1. k \in 0..(w - 1) /\ s = ByteBits * k + (s % ByteBits)
    BY <1>1, Weight
  <2>2. ByteBits * k \in Nat
    BY <1>1, <2>1
  <2> HIDE DEF k
  <2> QED
    BY <2>1, <2>2
<1> HIDE DEF k
<1>5. X = (ByteBits * k)..(ByteBits * k + ByteBits * n - 1) /\ k \in Nat
  BY <1>4 DEF Span
<1>6. k + n <= w
  <2>1. ByteBits * k \in Nat /\ ByteBits * n \in Nat /\ ByteBits * n >= 1 /\ ByteBits * w \in Nat
    BY <1>1, <1>4
  <2>2. ByteBits * k + ByteBits * n - 1 \in X
    BY <1>5, <2>1
  <2>3. ByteBits * k + ByteBits * n - 1 <= ByteBits * w - 1
    BY <1>1, <2>1, <2>2
  <2>4. 0 \in 0..(ByteBits - 1) /\ n \in Nat /\ w \in Nat
    BY <1>1
  <2> QED
    BY <1>1, <1>4, <2>3, <2>4, Blocks
<1>7. ASSUME NEW m \in DOMAIN b
      PROVE  IF m - 1 \in Span(i + k, n)
             THEN \A e \in 0..(ByteBits - 1) : Bit(b[m], e) # Bit(c[m], e)
             ELSE b[m] = c[m]
  <2> DEFINE j == m - 1 - i
  <2>0. m \in 1..Len(b) /\ m \in Int /\ b[m] \in Bytes /\ c[m] \in Bytes
    BY <1>3
  <2>1. /\ j \in Int /\ i + j + 1 = m /\ n \in Nat /\ w \in Nat
        /\ m - 1 \in Span(i + k, n) <=> j \in k..(k + n - 1)
        /\ m - 1 \in Span(i, w) <=> j \in 0..(w - 1)
    <3>1. n \in Nat /\ w \in Nat
      OBVIOUS
    <3>2. j \in Int /\ i + j + 1 = m
      BY <2>0
    <3> QED
      BY <1>5, <2>0, <3>1, <3>2, InSpans, Zenon
  <2> HIDE DEF j
  <2>2. CASE m - 1 \notin Span(i, w)
    <3>1. b[m] = c[m]
      BY <1>3, <2>0, <2>2
    <3>2. j \notin k..(k + n - 1)
      <4>1. j \notin 0..(w - 1)
        BY <2>1, <2>2
      <4> QED
        BY <1>5, <1>6, <2>1, <4>1
    <3> QED
      BY <2>1, <3>1, <3>2
  <2>3. CASE m - 1 \in Span(i, w)
    <3>1. j \in 0..(w - 1) /\ j \in Nat
      BY <2>1, <2>3
    <3>2. ASSUME NEW e \in 0..(ByteBits - 1)
          PROVE  Bit(b[m], e) # Bit(c[m], e) <=> j \in k..(k + n - 1)
      <4>1. ByteBits * j + e \in X <=> Bit(b[m], e) # Bit(c[m], e)
        BY <1>2, <2>1, <3>1
      <4>2. ByteBits * j + e \in (ByteBits * k)..(ByteBits * k + ByteBits * n - 1)
              <=> j \in k..(k + n - 1)
        BY <1>1, <1>5, <2>1, <3>1, Blocks
      <4> QED
        BY <1>5, <4>1, <4>2
    <3>3. CASE j \in k..(k + n - 1)
      BY <2>1, <3>2, <3>3
    <3>4. CASE j \notin k..(k + n - 1)
      <4>1. \A e \in 0..(ByteBits - 1) : Bit(b[m], e) = Bit(c[m], e)
        BY <3>2, <3>4
      <4>2. b[m] = c[m]
        BY <2>0, <4>1, SameBitsOfBytes
      <4> QED
        BY <2>1, <3>4, <4>2
    <3> QED
      BY <3>3, <3>4
  <2> QED
    BY <2>2, <2>3
<1>8. c = FlipBytes(b, i + k, n)
  <2>1. PICK at : at = i + k
    OBVIOUS
  <2>2. \A m \in DOMAIN b : IF m - 1 \in Span(at, n)
                             THEN \A e \in 0..(ByteBits - 1) : Bit(b[m], e) # Bit(c[m], e)
                             ELSE b[m] = c[m]
    BY <1>7, <2>1, Zenon
  <2>3. c = FlipBytes(b, at, n)
    BY <1>3, <2>2, ChangedByInversion
  <2> QED
    BY <2>1, <2>3
<1> QED
  BY <1>5, <1>6, <1>8

(* Every bit that differs is a bit of the word.                            *)
LEMMA ChangedInWord ==
  ASSUME NEW b \in Seq(Bytes), NEW i \in Nat, NEW w \in {1, 2, 4}, i + w <= Len(b), NEW v \in Int
  PROVE  \A p \in Changed(b, Put(b, i, w, v)) :
           /\ p \in Positions(b) /\ p \in Nat /\ p \div ByteBits - i \in 0..(w - 1)
           /\ BitOf(p) \in 0..(ByteBits - 1)
           /\ ByteBits * (p \div ByteBits - i) + BitOf(p) \in Xor(w, Word(b, i, w), v)
<1> DEFINE c == Put(b, i, w, v)
           X == Xor(w, Word(b, i, w), v)
<1>1. \A k \in 0..(w - 1), e \in 0..(ByteBits - 1) :
        ByteBits * k + e \in X <=> Bit(b[i + k + 1], e) # Bit(c[i + k + 1], e)
  BY XorBits
<1>2. \A m \in 1..Len(b) : m - 1 \notin Span(i, w) => c[m] = b[m]
  BY PutOutside
<1> HIDE DEF X, c
<1> SUFFICES ASSUME NEW p \in Changed(b, c)
             PROVE  /\ p \in Positions(b) /\ p \in Nat /\ p \div ByteBits - i \in 0..(w - 1)
                    /\ BitOf(p) \in 0..(ByteBits - 1)
                    /\ ByteBits * (p \div ByteBits - i) + BitOf(p) \in X
  BY DEF X, c
<1>3. p \in Positions(b) /\ BitAt(b, p) # BitAt(c, p)
  BY ChangedBits
<1> DEFINE m == p \div ByteBits + 1
           e == BitOf(p)
<1>4. p \in 0..(ByteBits * Len(b) - 1) /\ Len(b) \in Nat
  BY <1>3 DEF Positions
<1>5. m \in 1..Len(b) /\ e \in 0..(ByteBits - 1) /\ p \div ByteBits \in Int /\ p \in Nat
  BY <1>3, <1>4, Position, BitAtTyped
<1>6. Bit(b[m], e) # Bit(c[m], e)
  BY <1>3 DEF BitAt
<1>7. m - 1 \in Span(i, w)
  BY <1>2, <1>5, <1>6
<1> DEFINE k == p \div ByteBits - i
<1>8. k \in 0..(w - 1) /\ i + k + 1 = m
  BY <1>5, <1>7, SMTT(30) DEF Span
<1> HIDE DEF k, m, e
<1>9. ByteBits * k + e \in X
  BY <1>1, <1>5, <1>6, <1>8
<1> QED
  BY <1>3, <1>5, <1>8, <1>9 DEF k, e

(* No more bits of the buffer differ than bits of the word.                *)
LEMMA FewChanged ==
  ASSUME NEW b \in Seq(Bytes), NEW i \in Nat, NEW w \in {1, 2, 4}, i + w <= Len(b), NEW v \in Int
  PROVE  \A s \in Int, n \in {1, 2, 4} : Xor(w, Word(b, i, w), v) = Span(s, n) =>
           Cardinality(Changed(b, Put(b, i, w, v))) <= n
<1> DEFINE C == Changed(b, Put(b, i, w, v))
           X == Xor(w, Word(b, i, w), v)
           g(p) == ByteBits * (p \div ByteBits - i) + BitOf(p)
<1>1. \A p \in C : /\ p \in Nat /\ p \div ByteBits - i \in 0..(w - 1)
                   /\ BitOf(p) \in 0..(ByteBits - 1) /\ g(p) \in X
  BY ChangedInWord
<1> HIDE DEF C, X
<1> SUFFICES ASSUME NEW s \in Int, NEW n \in {1, 2, 4}, X = Span(s, n)
             PROVE  Cardinality(C) <= n
  BY DEF C, X
<1>2. ASSUME NEW p \in C, NEW q \in C, g(p) = g(q) PROVE p = q
  <2> DEFINE x(r) == r \div ByteBits
             y(r) == BitOf(r)
  <2>1. /\ p \in Nat /\ q \in Nat /\ x(p) - i \in 0..(w - 1) /\ x(q) - i \in 0..(w - 1)
        /\ y(p) \in 0..(ByteBits - 1) /\ y(q) \in 0..(ByteBits - 1)
    BY <1>1
  <2>2. x(p) \in Int /\ x(q) \in Int
    <3>1. x(p) \in Nat /\ x(q) \in Nat
      BY <2>1, BitPlace
    <3> QED
      BY <3>1
  <2>3. ByteBits * (x(p) - i) + y(p) = ByteBits * (x(q) - i) + y(q)
    BY <1>2
  <2>4. ByteBits \in Nat \ {0}
    BY BytesAssumption
  <2> HIDE DEF x, y
  <2>5. x(p) - i = x(q) - i /\ y(p) = y(q)
    <3>1. x(p) - i \in Int /\ x(q) - i \in Int
      BY <2>1
    <3>2. /\ (ByteBits * (x(p) - i) + y(p)) \div ByteBits = x(p) - i
          /\ (ByteBits * (x(p) - i) + y(p)) % ByteBits = y(p)
          /\ (ByteBits * (x(q) - i) + y(q)) \div ByteBits = x(q) - i
          /\ (ByteBits * (x(q) - i) + y(q)) % ByteBits = y(q)
      BY <2>1, <2>4, <3>1, DividedOnce
    <3> QED
      BY <2>3, <3>2
  <2>6. x(p) = x(q)
    BY <2>2, <2>5
  <2> QED
    BY <2>1, <2>5, <2>6, BitPlace DEF x, y
<1> DEFINE f == [p \in C |-> g(p)]
<1>3. f \in Injection(C, X)
  <2>1. f \in [C -> X]
    BY <1>1
  <2>2. \A p, q \in C : f[p] = f[q] => p = q
    BY <1>2
  <2> QED
    BY <2>1, <2>2 DEF Injection, IsInjective
<1> HIDE DEF f, g
<1>4. X = s..(s + n - 1)
  BY DEF Span
<1>5. IsFiniteSet(X) /\ Cardinality(X) = n
  <2>1. PICK e \in Int : e = s + n - 1
    OBVIOUS
  <2>2. ~(s > e) /\ e - s + 1 = n
    BY <2>1
  <2>3. IsFiniteSet(s..e) /\ Cardinality(s..e) = IF s > e THEN 0 ELSE e - s + 1
    BY FS_Interval
  <2> QED
    BY <1>4, <2>1, <2>2, <2>3
<1>6. Cardinality(C) <= Cardinality(X)
  BY <1>3, <1>5, FS_Injection
<1> QED
  BY <1>5, <1>6

(* In one byte, neighbours by weight are neighbours in walking order.      *)
LEMMA OneByteWalked ==
  ASSUME NEW b \in Seq(Bytes), NEW i \in Nat, i + 1 <= Len(b), NEW v \in Int
  PROVE  \A s \in Xor(1, Word(b, i, 1), v), n \in {1, 2, 4} :
           Xor(1, Word(b, i, 1), v) = Span(s, n) =>
             \E p \in Nat : Changed(b, Put(b, i, 1, v)) = Span(p, n)
<1> DEFINE c == Put(b, i, 1, v)
           X == Xor(1, Word(b, i, 1), v)
           C == Changed(b, c)
<1>1. \A k \in 0..(1 - 1), e \in 0..(ByteBits - 1) :
        ByteBits * k + e \in X <=> Bit(b[i + k + 1], e) # Bit(c[i + k + 1], e)
  <2>1. 1 \in {1, 2, 4}
    OBVIOUS
  <2> QED
    BY <2>1, XorBits, Zenon
<1>2. \A p \in C :
           /\ p \in Positions(b) /\ p \in Nat /\ p \div ByteBits - i \in 0..(1 - 1)
           /\ BitOf(p) \in 0..(ByteBits - 1)
           /\ ByteBits * (p \div ByteBits - i) + BitOf(p) \in X
  <2>1. 1 \in {1, 2, 4}
    OBVIOUS
  <2> QED
    BY <2>1, ChangedInWord, Zenon
<1>3. X \subseteq 0..(ByteBits - 1) /\ ByteBits \in 4..8
  BY BytesAssumption DEF Xor
<1>4. C = {p \in Positions(b) : BitAt(b, p) # BitAt(c, p)}
  BY ChangedBits
<1> HIDE DEF X, c, C
<1> SUFFICES ASSUME NEW s \in X, NEW n \in {1, 2, 4}, X = Span(s, n)
             PROVE  \E p \in Nat : C = Span(p, n)
  BY DEF X, C, c
<1>5. s \in Nat /\ s + n <= ByteBits
  <2>1. s + n - 1 \in X
    BY <1>3 DEF Span
  <2> QED
    BY <1>3, <2>1
<1> DEFINE base == ByteBits * i
           p0 == base + (ByteBits - s - n)
<1>6. base \in Nat /\ p0 \in Nat
  <2>1. base \in Nat
    BY <1>3
  <2> HIDE DEF base
  <2> QED
    BY <1>3, <1>5, <2>1
<1>7. ASSUME NEW q \in C PROVE q \in Span(p0, n)
  <2>1. q \in Positions(b) /\ q \div ByteBits - i = 0 /\ BitOf(q) \in 0..(ByteBits - 1)
        /\ ByteBits * (q \div ByteBits - i) + BitOf(q) \in X
    BY <1>2
  <2>2. q \div ByteBits = i /\ q = ByteBits * (q \div ByteBits) + (ByteBits - 1 - BitOf(q))
    <3>1. Len(b) \in Nat /\ q \in 0..(ByteBits * Len(b) - 1)
      BY <2>1 DEF Positions
    <3>2. /\ q \div ByteBits \in 0..(Len(b) - 1)
          /\ q = ByteBits * (q \div ByteBits) + (ByteBits - 1 - BitOf(q))
      BY <3>1, Position
    <3>3. q \div ByteBits = i
      BY <2>1, <3>2
    <3> QED
      BY <3>2, <3>3
  <2> DEFINE e == BitOf(q)
  <2>3. q = base + (ByteBits - 1 - e)
    BY <2>2
  <2>4. e \in X /\ e \in 0..(ByteBits - 1)
    <3>1. ByteBits * 0 + e = e
      BY <1>3, <2>1
    <3> QED
      BY <2>1, <3>1
  <2> HIDE DEF e, base
  <2>5. e \in s..(s + n - 1)
    BY <2>4 DEF Span
  <2> QED
    BY <1>3, <1>5, <1>6, <2>3, <2>4, <2>5 DEF Span
<1>8. ASSUME NEW q \in Span(p0, n) PROVE q \in C
  <2> DEFINE e == ByteBits - 1 - (q - base)
  <2>1. e \in s..(s + n - 1) /\ q = base + (ByteBits - 1 - e)
    <3> HIDE DEF base
    <3> QED
      BY <1>3, <1>5, <1>6 DEF Span
  <2>2. e \in X /\ e \in 0..(ByteBits - 1)
    <3>1. e \in X
      BY <2>1 DEF Span
    <3> QED
      BY <1>3, <3>1
  <2> HIDE DEF e
  <2>3. q \in Positions(b) /\ q \div ByteBits = i /\ BitOf(q) = e
    <3>1. Len(b) \in Nat /\ i \in 0..(Len(b) - 1)
      OBVIOUS
    <3> QED
      BY <2>1, <2>2, <3>1, PositionOf DEF Positions
  <2>4. Bit(b[i + 1], e) # Bit(c[i + 1], e)
    <3>1. 0 \in 0..(1 - 1) /\ ByteBits * 0 + e = e /\ i + 0 + 1 = i + 1
      BY <1>3, <2>2
    <3> QED
      BY <1>1, <2>2, <3>1
  <2>5. BitAt(b, q) # BitAt(c, q)
    BY <2>3, <2>4 DEF BitAt
  <2> QED
    BY <1>4, <2>3, <2>5
<1>9. C = Span(p0, n)
  BY <1>7, <1>8
<1> QED
  BY <1>6, <1>9

(* What could_be_bitflip takes to have been tried: the input, a walking    *)
(* flip, an inversion of bytes, or a flip that crosses bytes.              *)
FlipsAt(c) ==
  \/ c = in_buf
  \/ \E n \in {1, 2, 4} : \E p \in Nat : p + n - 1 \in Positions(in_buf) /\ c = FlipBits(in_buf, p, n)
  \/ \E n \in {1, 2, 4} : \E j \in Nat : j + n <= len /\ c = FlipBytes(in_buf, j, n)
  \/ Crossing(c)

LEMMA Crossed ==
  ASSUME in_buf \in Seq(Bytes), NEW i \in Nat, NEW w \in {2, 4}, i + w <= len, NEW v \in Int
  PROVE  LET c == Put(in_buf, i, w, v)
         IN  /\ could_be_bitflip(Xor(w, Word(in_buf, i, w), v))
             /\ \A n \in {1, 2, 4, ByteBits, 2 * ByteBits, 4 * ByteBits} :
                  \A p \in Changed(in_buf, c) : Changed(in_buf, c) # Span(p, n)
             => Crossing(c)
<1> DEFINE c == Put(in_buf, i, w, v)
           u == Word(in_buf, i, w)
           x == Word(c, i, w)
<1>1. w \in {1, 2, 4} /\ i + w <= Len(in_buf)
  BY DEF len
<1>2. c \in Seq(Bytes) /\ Len(c) = Len(in_buf)
  BY <1>1, PutLength
<1>3. \A k \in 0..(w - 1) : c[i + k + 1] = ByteOf(v, k)
  BY <1>1, PutInside
<1> HIDE DEF c
<1>4. x \in Nat /\ \A k \in 0..(w - 1) : ByteOf(x, k) = c[i + k + 1]
  BY <1>1, <1>2, WordAt
<1> HIDE DEF x, u
<1>5. Xor(w, u, x) = Xor(w, u, v)
  <2>1. x \in Int /\ \A k \in 0..(w - 1) : ByteOf(x, k) = ByteOf(v, k)
    BY <1>3, <1>4
  <2> QED
    BY <1>1, <2>1, XorSame
<1>6. i \in 0..(len - 2) /\ w \in {2, 4} /\ i + w <= len
  <2>1. len \in Nat
    BY DEF len
  <2> QED
    BY <2>1
<1>7. ASSUME could_be_bitflip(Xor(w, u, v)),
             \A n \in {1, 2, 4, ByteBits, 2 * ByteBits, 4 * ByteBits} :
               \A p \in Changed(in_buf, c) : Changed(in_buf, c) # Span(p, n)
      PROVE  Crossing(c)
  <2>1. could_be_bitflip(Xor(w, Word(in_buf, i, w), Word(c, i, w)))
    BY <1>5, <1>7 DEF x, u
  <2> QED
    BY <1>6, <1>7, <2>1, Zenon DEF Crossing
<1> QED
  BY <1>7, Zenon DEF c, u

LEMMA SupposedFlip ==
  ASSUME in_buf \in Seq(Bytes), NEW i \in Nat, NEW w \in {1, 2, 4}, i + w <= len, NEW v \in Int
  PROVE  could_be_bitflip(Xor(w, Word(in_buf, i, w), v)) => FlipsAt(Put(in_buf, i, w, v))
<1> DEFINE c == Put(in_buf, i, w, v)
           X == Xor(w, Word(in_buf, i, w), v)
           C == Changed(in_buf, c)
<1>0. i + w <= Len(in_buf) /\ len = Len(in_buf) /\ len \in Nat
  BY DEF len
<1>1. c \in Seq(Bytes) /\ Len(c) = Len(in_buf)
  BY <1>0, PutLength
<1>2. X = {} => c = in_buf
  BY <1>0, NoBitFlipped
<1>3. \A s \in X, n \in {1, 2, 4} :
        s % ByteBits = 0 /\ X = Span(s, ByteBits * n) =>
          \E k \in Nat : k + n <= w /\ c = FlipBytes(in_buf, i + k, n)
  <2>1. WholeBytes(in_buf, c, i, w, X)
    BY <1>0, BytesInverted
  <2> HIDE DEF c, X
  <2> QED
    BY <2>1 DEF WholeBytes
<1>4. \A s \in Int, n \in {1, 2, 4} : X = Span(s, n) => Cardinality(C) <= n
  BY <1>0, FewChanged
<1>5. w = 1 => \A s \in X, n \in {1, 2, 4} : X = Span(s, n) =>
                 \E p \in Nat : C = Span(p, n)
  BY <1>0, OneByteWalked
<1>6. w # 1 /\ could_be_bitflip(X)
        /\ (\A n \in {1, 2, 4, ByteBits, 2 * ByteBits, 4 * ByteBits} :
              \A p \in C : C # Span(p, n))
        => Crossing(c)
  <2>1. CASE w # 1
    <3>1. w \in {2, 4}
      BY <2>1
    <3> QED
      BY <3>1, Crossed, Zenon
  <2> QED
    BY <2>1
<1>7. X \subseteq Int
  BY DEF Xor
<1>8. C \subseteq Positions(in_buf) /\ C \subseteq Nat
  <2>1. C \subseteq Positions(in_buf)
    BY ChangedBits
  <2> QED
    BY <2>1, BytesAssumption DEF Positions
<1>9. \A p \in Nat, n \in {1, 2, 4} : C = Span(p, n) =>
        p + n - 1 \in Positions(in_buf) /\ c = FlipBits(in_buf, p, n)
  BY <1>1, ChangedByFlips
<1> HIDE DEF c, X, C
<1> SUFFICES ASSUME could_be_bitflip(X) PROVE FlipsAt(c)
  BY DEF c, X
<1>10. CASE X = {}
  BY <1>2, <1>10 DEF FlipsAt
<1>11. ASSUME NEW s \in X, NEW n \in {1, 2, 4}, s % ByteBits = 0, X = Span(s, ByteBits * n)
       PROVE  FlipsAt(c)
  <2>1. PICK k \in Nat : k + n <= w /\ c = FlipBytes(in_buf, i + k, n)
    BY <1>3, <1>11
  <2>2. i + k \in Nat /\ (i + k) + n <= len
    BY <1>0, <2>1
  <2> QED
    BY <2>1, <2>2 DEF FlipsAt
<1>12. ASSUME NEW p \in Nat, NEW n \in {1, 2, 4}, C = Span(p, n) PROVE FlipsAt(c)
  BY <1>9, <1>12 DEF FlipsAt
<1>13. ASSUME NEW s \in X, NEW n \in {1, 2, 4}, X = Span(s, n) PROVE FlipsAt(c)
  <2>1. CASE w = 1
    BY <1>5, <1>12, <1>13, <2>1
  <2>2. CASE w # 1 /\ \A m \in {1, 2, 4, ByteBits, 2 * ByteBits, 4 * ByteBits} :
                        \A p \in C : C # Span(p, m)
    BY <1>6, <2>2 DEF FlipsAt
  <2>3. ASSUME NEW m \in {1, 2, 4, ByteBits, 2 * ByteBits, 4 * ByteBits}, NEW p \in C,
               C = Span(p, m)
        PROVE  FlipsAt(c)
    <3>1. p \in Nat /\ m \in Nat /\ m >= 1 /\ ByteBits \in 4..8
      BY <1>8, BytesAssumption
    <3>2. C = p..(p + m - 1)
      BY <2>3 DEF Span
    <3>3. Cardinality(C) = m
      <4>1. PICK e \in Int : e = p + m - 1
        BY <3>1
      <4>2. ~(p > e) /\ e - p + 1 = m /\ p \in Int
        BY <3>1, <4>1
      <4>3. Cardinality(p..e) = IF p > e THEN 0 ELSE e - p + 1
        BY <4>2, FS_Interval
      <4> QED
        BY <3>2, <4>1, <4>2, <4>3
    <3>4. m <= n
      BY <1>4, <1>7, <1>13, <3>3
    <3>5. m \in {1, 2, 4}
      BY <2>3, <3>1, <3>4
    <3> QED
      BY <1>12, <2>3, <3>1, <3>5
  <2> QED
    BY <2>1, <2>2, <2>3, Zenon
<1> QED
  BY <1>10, <1>11, <1>13 DEF could_be_bitflip

-----------------------------------------------------------------------------
(***************************************************************************)
(* What could_be_arith supposes                                            *)
(***************************************************************************)
Deltas == {d \in Int : d # 0 /\ -ArithMax <= d /\ d <= ArithMax}

(* d added to the word at i, as it is or in the other byte order.          *)
Sum(b, i, w, d) == Put(b, i, w, Word(b, i, w) + d)
SwappedSum(b, i, w, d) == Put(b, i, w, Swap(w, Mod(w, Swap(w, Word(b, i, w)) + d)))

SumOf(b, c, w) == \E i \in Nat, d \in Deltas :
                    i + w <= Len(b) /\ c \in {Sum(b, i, w, d), SwappedSum(b, i, w, d)}

LEMMA SwapOfByte ==
  ASSUME NEW v \in Nat, NEW d \in Int, v \in 0..(2^(ByteBits * 1) - 1)
  PROVE  Swap(1, Mod(1, Swap(1, v) + d)) = Mod(1, v + d)
<1>1. Swap(1, v) = v
  BY SwapByte
<1>2. v + d \in Int /\ 1 \in 0..4
  OBVIOUS
<1>3. Mod(1, v + d) \in 0..(2^(ByteBits * 1) - 1)
  BY <1>2, ModTyped
<1> QED
  BY <1>1, <1>3, SwapByte

LEMMA OneByteSum ==
  ASSUME NEW b \in Seq(Bytes), NEW i \in Nat, i + 1 <= Len(b), NEW d \in Int
  PROVE  SwappedSum(b, i, 1, d) = Sum(b, i, 1, d)
<1> DEFINE v == Word(b, i, 1)
<1>0. 1 \in {1, 2, 4}
  OBVIOUS
<1>1. v \in Nat /\ v \in 0..(2^(ByteBits * 1) - 1)
  BY <1>0, WordAt
<1> HIDE DEF v
<1>2. Swap(1, Mod(1, Swap(1, v) + d)) = Mod(1, v + d)
  BY <1>1, SwapOfByte
<1>3. v + d \in Int
  BY <1>1
<1>4. Put(b, i, 1, Mod(1, v + d)) = Put(b, i, 1, v + d)
  BY <1>0, <1>3, PutMod
<1> QED
  BY <1>2, <1>4 DEF SwappedSum, Sum, v

LEMMA Nearby ==
  ASSUME NEW M \in Nat \ {0}, NEW x \in 0..(M - 1), NEW y \in 0..(M - 1)
  PROVE  y = (x - ((x - y) % M)) % M /\ ((x - y) % M = 0 => x = y) /\ (x - y) % M \in Nat
<1> DEFINE j == (x - y) % M
           q == (x - y) \div M
<1>1. j \in 0..(M - 1) /\ q \in Int /\ x - y = M * q + j
  BY Divided
<1> HIDE DEF j, q
<1>2. x - j = M * q + y
  BY <1>1
<1>3. (M * q + y) % M = y
  BY <1>1, DividedOnce
<1>4. ASSUME j = 0 PROVE x = y
  <2>1. x = M * q + y
    BY <1>1, <1>4
  <2>2. (M * q + y) \div M = q /\ x \div M = 0
    BY <1>1, DividedOnce
  <2>3. q = 0
    BY <2>1, <2>2
  <2> QED
    BY <1>1, <2>1, <2>3
<1>5. y = (x - j) % M /\ (j = 0 => x = y) /\ j \in Nat
  BY <1>1, <1>2, <1>3, <1>4
<1> QED
  BY <1>5 DEF j

(* Words that are near differ by a delta.                                  *)
LEMMA NearByDelta ==
  ASSUME NEW w \in {1, 2, 4}, NEW x \in 0..(2^(ByteBits * w) - 1),
         NEW y \in 0..(2^(ByteBits * w) - 1), x # y, Near(w, x, y)
  PROVE  \E d \in Deltas : y = Mod(w, x + d)
<1> DEFINE M == 2^(ByteBits * w)
<1>1. M \in Nat \ {0} /\ x \in 0..(M - 1) /\ y \in 0..(M - 1)
  BY WordSize
<1>2. Mod(w, x - y) = (x - y) % M /\ Mod(w, y - x) = (y - x) % M
      /\ \A z : Mod(w, z) = z % M
  BY DEF Mod
<1> HIDE DEF M
<1>3. CASE Mod(w, x - y) <= ArithMax
  <2> DEFINE j == (x - y) % M
  <2>1. y = (x - j) % M /\ (j = 0 => x = y) /\ j \in Nat
    BY <1>1, Nearby
  <2>2. j <= ArithMax
    BY <1>2, <1>3
  <2> HIDE DEF j
  <2>3. -j \in Deltas /\ x + (-j) = x - j
    BY <1>1, <2>1, <2>2, ArithAssumption DEF Deltas
  <2>4. y = Mod(w, x + (-j))
    BY <1>2, <2>1, <2>3
  <2> QED
    BY <2>3, <2>4
<1>4. CASE Mod(w, y - x) <= ArithMax
  <2> DEFINE j == (y - x) % M
  <2>1. j \in 0..(M - 1) /\ (y - x) \div M \in Int /\ y - x = M * ((y - x) \div M) + j
    BY <1>1, Divided
  <2> DEFINE q == (y - x) \div M
  <2>2. j <= ArithMax
    BY <1>2, <1>4
  <2> HIDE DEF j, q
  <2>3. x + j = M * (-q) + y
    BY <1>1, <2>1 DEF q
  <2>4. (M * (-q) + y) % M = y /\ -q \in Int
    <3>1. -q \in Int
      BY <2>1 DEF q
    <3> QED
      BY <1>1, <3>1, DividedOnce
  <2>5. j # 0
    <3>1. (y - x) % M = 0 => y = x
      BY <1>1, Nearby
    <3> QED
      BY <3>1 DEF j
  <2>6. j \in Deltas
    BY <2>1, <2>2, <2>5, ArithAssumption DEF Deltas
  <2>7. y = Mod(w, x + j)
    BY <1>2, <2>3, <2>4
  <2> QED
    BY <2>6, <2>7
<1> QED
  BY <1>3, <1>4 DEF Near

LEMMA ByteOfPartAt ==
  ASSUME NEW v \in Int, NEW w \in {1, 2, 4}, NEW k \in 0..3, w * (k + 1) <= 4,
         NEW m \in 0..(w - 1), NEW at, at = w * k + m
  PROVE  ByteOf(Part(w, v, k), m) = ByteOf(v, at)
BY ByteOfPart, ZenonT(30)

(* The word that differs, when the others do not.                          *)
(* The words of h bytes in one of w.                                       *)
Places(w, h) == 0..(w \div h - 1)

OnlyPart(w, h, u, v, k) ==
  \A j \in Places(w, h) : j # k => Part(h, u, j) = Part(h, v, j)

LEMMA OtherWords ==
  ASSUME NEW w \in {1, 2, 4}, NEW h \in {1, 2, 4}, h <= w, NEW u \in Int, NEW v \in Int,
         NEW k \in Places(w, h),
         OnlyPart(w, h, u, v, k),
         NEW lo, lo = h * k
  PROVE  \A m \in 0..(w - 1) : m \notin lo..(lo + h - 1) => ByteOf(v, m) = ByteOf(u, m)
<1> SUFFICES ASSUME NEW m \in 0..(w - 1), m \notin lo..(lo + h - 1)
             PROVE  ByteOf(v, m) = ByteOf(u, m)
  OBVIOUS
<1> DEFINE j == m \div h
           r == m % h
<1>1. /\ j \in Places(w, h) /\ j # k /\ r \in 0..(h - 1) /\ m = h * j + r
      /\ j \in 0..3 /\ h * (j + 1) <= 4
  <2>1. h = 1 \/ h = 2 \/ h = 4
    OBVIOUS
  <2>2. w = 1 \/ w = 2 \/ w = 4
    OBVIOUS
  <2> QED
    BY <2>1, <2>2 DEF Places
<1> HIDE DEF j, r
<1>2. Part(h, u, j) = Part(h, v, j)
  BY <1>1 DEF OnlyPart
<1>3. ASSUME NEW x \in Int PROVE ByteOf(Part(h, x, j), r) = ByteOf(x, m)
  BY <1>1, <1>3, ByteOfPartAt
<1> QED
  BY <1>2, <1>3

LEMMA PartIn ==
  ASSUME NEW w \in {1, 2, 4}, NEW h \in {1, 2, 4}, h <= w, NEW k \in Places(w, h)
  PROVE  /\ k \in 0..3 /\ h * k \in Nat /\ h * (k + 1) <= 4 /\ h * k + h <= w
         /\ \A m \in 0..(h - 1) : h * k + m \in 0..(w - 1)
<1>1. h = 1 \/ h = 2 \/ h = 4
  OBVIOUS
<1>2. w = 1 \/ w = 2 \/ w = 4
  OBVIOUS
<1> QED
  BY <1>1, <1>2 DEF Places

(* A word in which one part differs by a sum is a sum of that width.       *)
LEMMA OneWordSum ==
  ASSUME NEW b \in Seq(Bytes), NEW i \in Nat, NEW w \in {1, 2, 4}, i + w <= Len(b), NEW v \in Int,
         NEW h \in {1, 2, 4}, h <= w, NEW k \in Places(w, h),
         OnlyPart(w, h, Word(b, i, w), v, k), NEW e \in Deltas,
         \/ Part(h, v, k) = Mod(h, Part(h, Word(b, i, w), k) + e)
         \/ Part(h, v, k) = Swap(h, Mod(h, Swap(h, Part(h, Word(b, i, w), k)) + e))
  PROVE  SumOf(b, Put(b, i, w, v), h)
<1> DEFINE u == Word(b, i, w)
           c == Put(b, i, w, v)
<1>0. u \in Int /\ \A m \in 0..(w - 1) : ByteOf(u, m) = b[i + m + 1] /\ b[i + m + 1] \in Bytes
  <2>1. u \in Nat /\ \A m \in 0..(w - 1) : ByteOf(u, m) = b[i + m + 1] /\ b[i + m + 1] \in Bytes
    BY WordAt
  <2> QED
    BY <2>1
<1>1. OnlyPart(w, h, u, v, k)
  OBVIOUS
<1> HIDE DEF u
<1> DEFINE x == Part(h, u, k)
           y == Part(h, v, k)
           lo == h * k
           M == 2^(ByteBits * h)
<1>2. /\ k \in 0..3 /\ lo \in Nat /\ h * (k + 1) <= 4 /\ lo + h <= w
      /\ \A m \in 0..(h - 1) : lo + m \in 0..(w - 1)
  BY PartIn
<1>3. x \in 0..(M - 1) /\ y \in 0..(M - 1) /\ M \in Nat
      /\ \A m \in 0..(h - 1) : ByteOf(x, m) = ByteOf(u, lo + m) /\ ByteOf(y, m) = ByteOf(v, lo + m)
  <2>1. 0 \in 0..(h - 1) /\ h \in 0..4
    OBVIOUS
  <2>2. x \in 0..(M - 1) /\ y \in 0..(M - 1)
    BY <1>0, <1>2, <2>1, ByteOfPart
  <2>3. M \in Nat
    BY <2>1, WordSize
  <2>4. \A m \in 0..(h - 1) : ByteOf(x, m) = ByteOf(u, lo + m) /\ ByteOf(y, m) = ByteOf(v, lo + m)
    BY <1>0, <1>2, ByteOfPart, ZenonT(40)
  <2> QED
    BY <2>2, <2>3, <2>4
<1>5. OnlyAt(b, i, w, v, lo, h)
  <2>1. OnlyPart(w, h, u, v, k)
    BY <1>1
  <2>2. lo = h * k
    OBVIOUS
  <2> HIDE DEF lo
  <2>3. u \in Int /\ h <= w
    BY <1>0
  <2>4. \A m \in 0..(w - 1) : m \notin lo..(lo + h - 1) => ByteOf(v, m) = ByteOf(u, m)
    BY <2>1, <2>2, <2>3, OtherWords, SMTT(30)
  <2> QED
    BY <1>0, <2>4 DEF OnlyAt
<1> HIDE DEF x, y, lo
<1>6. i + lo \in Nat /\ (i + lo) + h <= Len(b)
  BY <1>2
<1>7. Word(b, i + lo, h) = x
  <2>1. PICK at \in Nat : at = i + lo
    BY <1>6
  <2>2. /\ Word(b, at, h) \in 0..(M - 1)
        /\ \A m \in 0..(h - 1) : ByteOf(Word(b, at, h), m) = b[at + m + 1]
    BY <1>6, <2>1, WordAt
  <2>3. ASSUME NEW m \in 0..(h - 1) PROVE ByteOf(Word(b, at, h), m) = ByteOf(x, m)
    <3>1. lo + m \in 0..(w - 1) /\ i + (lo + m) + 1 = at + m + 1
      BY <1>2, <2>1
    <3>2. ByteOf(x, m) = b[i + (lo + m) + 1]
      BY <1>0, <1>3, <3>1
    <3> QED
      BY <2>2, <3>1, <3>2
  <2>4. Word(b, at, h) = x
    BY <1>3, <2>2, <2>3, SameBytes
  <2> QED
    BY <2>1, <2>4
<1>8. ASSUME NEW z, \A m \in 0..(h - 1) : ByteOf(y, m) = ByteOf(z, m)
      PROVE  c = Put(b, i + lo, h, z)
  <2>1. SamePart(v, lo, h, z)
    BY <1>3, <1>8 DEF SamePart
  <2> QED
    BY <1>2, <1>5, <2>1, PutPart
<1>9. c = Put(b, i + lo, h, y)
  BY <1>8
<1>10. CASE y = Mod(h, x + e)
  <2>1. x + e \in Int /\ h \in 1..4
    BY <1>3 DEF Deltas
  <2>2. \A m \in 0..(h - 1) : ByteOf(y, m) = ByteOf(x + e, m)
    BY <1>10, <2>1, ByteOfMod
  <2>3. c = Put(b, i + lo, h, x + e)
    BY <1>8, <2>2
  <2>4. c = Sum(b, i + lo, h, e)
    BY <1>7, <2>3 DEF Sum
  <2> QED
    BY <1>6, <2>4 DEF SumOf
<1>11. CASE y = Swap(h, Mod(h, Swap(h, x) + e))
  <2>1. c = SwappedSum(b, i + lo, h, e)
    BY <1>7, <1>9, <1>11 DEF SwappedSum
  <2> QED
    BY <1>6, <2>1 DEF SumOf
<1> QED
  BY <1>10, <1>11 DEF x, y, u

LEMMA SupposedSum ==
  ASSUME NEW b \in Seq(Bytes), NEW i \in Nat, NEW w \in {1, 2, 4}, i + w <= Len(b), NEW v \in Int
  PROVE  could_be_arith(Word(b, i, w), v, w) =>
           \/ Put(b, i, w, v) = b
           \/ \E h \in {1, 2, 4} : h <= w /\ SumOf(b, Put(b, i, w, v), h)
<1> DEFINE u == Word(b, i, w)
           c == Put(b, i, w, v)
<1>1. u \in Int /\ \A k \in 0..(w - 1) : ByteOf(u, k) = b[i + k + 1] /\ b[i + k + 1] \in Bytes
  <2>1. u \in Nat /\ \A k \in 0..(w - 1) : ByteOf(u, k) = b[i + k + 1] /\ b[i + k + 1] \in Bytes
    BY WordAt
  <2> QED
    BY <2>1
<1> HIDE DEF u
<1>2. ASSUME u = v PROVE c = b
  <2>1. \A k \in 0..(w - 1) : ByteOf(v, k) = b[i + k + 1]
    BY <1>1, <1>2
  <2> QED
    BY <2>1, PutUnchanged
<1>3. ASSUME NEW h \in {1, 2, 4}, h <= w, OneWord(h, u, v, w)
      PROVE  SumOf(b, c, h)
  <2>1. PICK k \in Places(w, h) :
          /\ Part(h, u, k) # Part(h, v, k)
          /\ \A j \in Places(w, h) : j # k => Part(h, u, j) = Part(h, v, j)
          /\ \/ Near(h, Part(h, u, k), Part(h, v, k))
             \/ Near(h, Swap(h, Part(h, u, k)), Swap(h, Part(h, v, k)))
    BY <1>3 DEF OneWord, Places
  <2> DEFINE x == Part(h, u, k)
             y == Part(h, v, k)
             M == 2^(ByteBits * h)
  <2>2. k \in 0..3 /\ h * (k + 1) <= 4 /\ 0 \in 0..(h - 1)
    BY <1>3, PartIn
  <2>3. x \in 0..(M - 1) /\ y \in 0..(M - 1) /\ M \in Nat
    <3>1. x \in 0..(M - 1) /\ y \in 0..(M - 1)
      BY <1>1, <2>2, ByteOfPart
    <3>2. h \in 0..4
      OBVIOUS
    <3> QED
      BY <3>1, <3>2, WordSize
  <2>4. x # y /\ (Near(h, x, y) \/ Near(h, Swap(h, x), Swap(h, y)))
    BY <2>1
  <2>5. OnlyPart(w, h, u, v, k)
    BY <2>1 DEF OnlyPart
  <2> HIDE DEF x, y
  <2>6. ASSUME NEW d \in Deltas, y = Mod(h, x + d) \/ y = Swap(h, Mod(h, Swap(h, x) + d))
        PROVE  SumOf(b, c, h)
    BY <1>3, <2>5, <2>6, OneWordSum DEF x, y, u
  <2>7. CASE Near(h, x, y)
    <3>1. PICK d \in Deltas : y = Mod(h, x + d)
      BY <2>3, <2>4, <2>7, NearByDelta
    <3> QED
      BY <2>6, <3>1
  <2>8. CASE Near(h, Swap(h, x), Swap(h, y))
    <3> DEFINE sx == Swap(h, x)
               sy == Swap(h, y)
    <3>1. sx \in 0..(M - 1) /\ sy \in 0..(M - 1) /\ x \in Int /\ y \in Int
      <4>1. x \in Int /\ y \in Int
        BY <2>3
      <4> QED
        BY <4>1, SwapBytes
    <3>2. Swap(h, sx) = x /\ Swap(h, sy) = y
      BY <2>3, SwapTwice
    <3>3. sx # sy
      BY <2>4, <3>2
    <3> HIDE DEF sx, sy
    <3>4. Near(h, sx, sy)
      BY <2>8 DEF sx, sy
    <3>5. PICK d \in Deltas : sy = Mod(h, sx + d)
      BY <3>1, <3>3, <3>4, NearByDelta
    <3>6. y = Swap(h, Mod(h, sx + d))
      BY <3>2, <3>5
    <3> QED
      BY <2>6, <3>6 DEF sx
  <2> QED
    BY <2>4, <2>7, <2>8
<1> HIDE DEF c
<1>4. could_be_arith(u, v, w) => c = b \/ \E h \in {1, 2, 4} : h <= w /\ SumOf(b, c, h)
  BY <1>2, <1>3 DEF could_be_arith
<1> QED
  BY <1>4 DEF u, c

(* The halves of a word.                                                   *)
HalfOf(w) == IF w = 4 THEN 2 ELSE 1

LEMMA Halves ==
  ASSUME NEW w \in {2, 4}
  PROVE  /\ HalfOf(w) \in {1, 2} /\ HalfOf(w) \in {1, 2, 4} /\ HalfOf(w) <= w
         /\ HalfOf(w) + HalfOf(w) = w /\ w \in {1, 2, 4}
         /\ Places(w, HalfOf(w)) = {0, 1} /\ 0 \in Places(w, HalfOf(w)) /\ 1 \in Places(w, HalfOf(w))
<1>1. CASE w = 2
  <2>1. Places(2, 1) = 0..1
    BY DEF Places
  <2> QED
    BY <1>1, <2>1 DEF HalfOf
<1>2. CASE w = 4
  <2>1. Places(4, 2) = 0..1
    BY DEF Places
  <2> QED
    BY <1>2, <2>1 DEF HalfOf
<1> QED
  BY <1>1, <1>2

LEMMA HalfBytes ==
  ASSUME NEW w \in {2, 4}, NEW h, h = HalfOf(w), NEW x \in Int, NEW k \in {0, 1}
  PROVE  /\ Part(h, x, k) \in 0..(2^(ByteBits * h) - 1)
         /\ \A m \in 0..(h - 1) : /\ ByteOf(Part(h, x, k), m) = ByteOf(x, h * k + m)
                                  /\ h * k + m \in 0..(w - 1)
<1>1. h \in {1, 2, 4} /\ k \in 0..3 /\ h * (k + 1) <= 4 /\ 0 \in 0..(h - 1) /\ h + h = w
      /\ \A m \in 0..(h - 1) : h * k + m \in 0..(w - 1)
  <2>1. (h = 1 /\ w = 2) \/ (h = 2 /\ w = 4)
    BY DEF HalfOf
  <2> QED
    BY <2>1
<1> QED
  BY <1>1, ByteOfPart

(* Reversing a word reverses its halves and exchanges them.                *)
LEMMA SwapHalves ==
  ASSUME NEW w \in {2, 4}, NEW h, h = HalfOf(w), NEW x \in Int, NEW k \in {0, 1}
  PROVE  Part(h, Swap(w, x), 1 - k) = Swap(h, Part(h, x, k))
<1> DEFINE y == Swap(w, x)
           j == 1 - k
<1>1. h \in {1, 2, 4} /\ w \in {1, 2, 4} /\ h + h = w
  BY Halves
<1>2. y \in Int /\ \A m \in 0..(w - 1) : ByteOf(y, m) = ByteOf(x, w - 1 - m)
  <2>1. y \in Nat /\ \A m \in 0..(w - 1) : ByteOf(y, m) = ByteOf(x, w - 1 - m)
    BY <1>1, SwapBytes
  <2> QED
    BY <2>1
<1>3. j \in {0, 1}
  OBVIOUS
<1>4. /\ Part(h, y, j) \in 0..(2^(ByteBits * h) - 1)
      /\ \A m \in 0..(h - 1) : ByteOf(Part(h, y, j), m) = ByteOf(y, h * j + m) /\ h * j + m \in 0..(w - 1)
  <2> HIDE DEF y, j
  <2> QED
    BY <1>2, <1>3, HalfBytes
<1>5. /\ Part(h, x, k) \in 0..(2^(ByteBits * h) - 1)
      /\ \A m \in 0..(h - 1) : ByteOf(Part(h, x, k), m) = ByteOf(x, h * k + m) /\ h * k + m \in 0..(w - 1)
  BY HalfBytes
<1>6. 2^(ByteBits * h) \in Nat
  <2>1. h \in 0..4
    BY <1>1
  <2> QED
    BY <2>1, WordSize
<1>7. Part(h, x, k) \in Int
  BY <1>5, <1>6
<1>8. /\ Swap(h, Part(h, x, k)) \in 0..(2^(ByteBits * h) - 1)
      /\ \A m \in 0..(h - 1) : ByteOf(Swap(h, Part(h, x, k)), m) = ByteOf(Part(h, x, k), h - 1 - m)
  BY <1>1, <1>7, SwapBytes
<1>9. ASSUME NEW m \in 0..(h - 1)
      PROVE  ByteOf(Part(h, y, j), m) = ByteOf(Swap(h, Part(h, x, k)), m)
  <2>1. PICK a \in 0..(h - 1) : a = h - 1 - m
    BY <1>1
  <2>2. PICK p \in 0..(w - 1) : p = h * j + m
    BY <1>4
  <2>3. PICK q \in 0..(w - 1) : q = h * k + a
    BY <1>5
  <2>4. q = w - 1 - p
    <3>1. (h = 1 /\ w = 2) \/ (h = 2 /\ w = 4)
      BY DEF HalfOf
    <3> QED
      BY <2>1, <2>2, <2>3, <3>1
  <2>5. ByteOf(Part(h, y, j), m) = ByteOf(y, p)
    BY <1>4, <2>2
  <2>6. ByteOf(y, p) = ByteOf(x, q)
    BY <1>2, <2>4
  <2>7. ByteOf(Swap(h, Part(h, x, k)), m) = ByteOf(Part(h, x, k), a)
    BY <1>8, <2>1
  <2>8. ByteOf(Part(h, x, k), a) = ByteOf(x, q)
    BY <1>5, <2>3
  <2> QED
    BY <2>5, <2>6, <2>7, <2>8
<1> HIDE DEF y, j
<1>10. Part(h, y, j) = Swap(h, Part(h, x, k))
  BY <1>1, <1>4, <1>8, <1>9, SameBytes
<1> QED
  BY <1>10 DEF y, j

LEMMA HalfOfMod ==
  ASSUME NEW w \in {2, 4}, NEW h, h = HalfOf(w), NEW x \in Int, NEW k \in {0, 1}
  PROVE  Part(h, Mod(w, x), k) = Part(h, x, k)
<1> DEFINE y == Mod(w, x)
<1>1. h \in {1, 2, 4} /\ w \in {1, 2, 4} /\ w \in 0..4 /\ w \in 1..4
  BY Halves
<1>2. y \in Int
  <2>1. y \in Nat
    BY <1>1, ModTyped
  <2> QED
    BY <2>1
<1>3. \A m \in 0..(w - 1) : ByteOf(y, m) = ByteOf(x, m)
  BY <1>1, ByteOfMod
<1> HIDE DEF y
<1>4. /\ Part(h, y, k) \in 0..(2^(ByteBits * h) - 1)
      /\ \A m \in 0..(h - 1) : ByteOf(Part(h, y, k), m) = ByteOf(y, h * k + m) /\ h * k + m \in 0..(w - 1)
  BY <1>2, HalfBytes
<1>5. /\ Part(h, x, k) \in 0..(2^(ByteBits * h) - 1)
      /\ \A m \in 0..(h - 1) : ByteOf(Part(h, x, k), m) = ByteOf(x, h * k + m)
  BY HalfBytes
<1>6. \A m \in 0..(h - 1) : ByteOf(Part(h, y, k), m) = ByteOf(Part(h, x, k), m)
  BY <1>3, <1>4, <1>5
<1>7. Part(h, y, k) = Part(h, x, k)
  BY <1>1, <1>4, <1>5, <1>6, SameBytes
<1> QED
  BY <1>7 DEF y

(* While the carry stays in the lower half, only that half changes.        *)
LEMMA SmallCarry ==
  ASSUME NEW w \in {2, 4}, NEW h, h = HalfOf(w), NEW x \in Int, NEW e \in Int,
         (x % 2^(ByteBits * h)) + e \in 0..(2^(ByteBits * h) - 1)
  PROVE  /\ Part(h, x + e, 0) = Mod(h, Part(h, x, 0) + e)
         /\ Part(h, x + e, 1) = Part(h, x, 1)
<1> DEFINE H == 2^(ByteBits * h)
           q == x \div H
           r == x % H
<1>1. H \in Nat \ {0}
  <2>1. h \in 0..4
    BY Halves
  <2> QED
    BY <2>1, WordSize
<1>2. (ByteBits * h) * 0 = 0 /\ (ByteBits * h) * 1 = ByteBits * h /\ 2^0 = 1
  <2>1. ByteBits * h \in Int
    BY BytesAssumption, Halves
  <2>2. 2^0 = 1
    OBVIOUS
  <2> QED
    BY <2>1, <2>2
<1>3. \A y : Part(h, y, 0) = (y \div 1) % H /\ Part(h, y, 1) = (y \div H) % H /\ Mod(h, y) = y % H
  BY <1>2 DEF Part, Mod
<1>4. r + e \in 0..(H - 1)
  OBVIOUS
<1> HIDE DEF H
<1>5. r \in 0..(H - 1) /\ q \in Int /\ x = H * q + r
  BY <1>1, Divided
<1> HIDE DEF q, r
<1>6. x + e = H * q + (r + e)
  BY <1>1, <1>5
<1>7. (H * q + (r + e)) % H = r + e /\ (H * q + (r + e)) \div H = q
  BY <1>1, <1>4, <1>5, DividedOnce
<1>8. x \div 1 = x /\ (x + e) \div 1 = x + e /\ x % H = r /\ x \div H = q
  BY DEF q, r
<1>9. (r + e) % H = r + e
  BY <1>1, <1>4
<1>10. Part(h, x + e, 0) = r + e /\ Part(h, x + e, 1) = q % H /\ Part(h, x, 0) = r /\ Part(h, x, 1) = q % H
  BY <1>3, <1>6, <1>7, <1>8
<1>11. Mod(h, r + e) = r + e
  BY <1>3, <1>9
<1> QED
  BY <1>10, <1>11

-----------------------------------------------------------------------------
(***************************************************************************)
(* What an arithmetic stage tries and leaves out at an offset              *)
(***************************************************************************)
Kinds(w) == IF w = 1 THEN 2 ELSE 4

(* The value of a try, and whether its carry leaves the lower half.        *)
Added(b, i, w, j, kind) ==
  CASE kind = 0 -> Word(b, i, w) + j
    [] kind = 1 -> Word(b, i, w) - j
    [] kind = 2 -> Swap(w, Mod(w, Swap(w, Word(b, i, w)) + j))
    [] OTHER -> Swap(w, Mod(w, Swap(w, Word(b, i, w)) - j))

Half(w) == IF w = 1 THEN 1 ELSE 2^((ByteBits * w) \div 2)

Carries(b, i, w, j, kind) ==
  CASE kind = 0 -> w = 1 \/ (Word(b, i, w) % Half(w)) + j >= Half(w)
    [] kind = 1 -> w = 1 \/ Word(b, i, w) % Half(w) < j
    [] kind = 2 -> (Swap(w, Word(b, i, w)) % Half(w)) + j >= Half(w)
    [] OTHER -> Swap(w, Word(b, i, w)) % Half(w) < j

LEMMA ArithTry ==
  ASSUME NEW s \in DOMAIN Arith, NEW b, NEW i, NEW n \in 1..PerOffset(s), NEW w, w = Arith[s],
         NEW j, j = (n - 1) \div Kinds(w) + 1, NEW kind, kind = (n - 1) % Kinds(w)
  PROVE  /\ ArithTries(b, s, i)[n].buf = Put(b, i, w, Mod(w, Added(b, i, w, j, kind)))
         /\ ~ArithTries(b, s, i)[n].run
              <=> \/ ~Carries(b, i, w, j, kind)
                  \/ could_be_bitflip(Xor(w, Word(b, i, w), Mod(w, Added(b, i, w, j, kind))))
<1> DEFINE x == Added(b, i, w, j, kind)
           T == ArithTries(b, s, i)[n]
           A == Carries(b, i, w, j, kind)
           B == could_be_bitflip(Xor(w, Word(b, i, w), Mod(w, x)))
<1>1. ASSUME kind = 0 PROVE T = Write(b, i, w, x, A /\ ~B)
  BY <1>1 DEF ArithTries, Half, Kinds, Added, Carries
<1>2. ASSUME kind = 1 PROVE T = Write(b, i, w, x, A /\ ~B)
  BY <1>2 DEF ArithTries, Half, Kinds, Added, Carries
<1>3. ASSUME kind = 2 PROVE T = Write(b, i, w, x, A /\ ~B)
  BY <1>3 DEF ArithTries, Half, Kinds, Added, Carries
<1>4. ASSUME kind \notin {0, 1, 2} PROVE T = Write(b, i, w, x, A /\ ~B)
  BY <1>4 DEF ArithTries, Half, Kinds, Added, Carries
<1>5. T = Write(b, i, w, x, A /\ ~B)
  BY <1>1, <1>2, <1>3, <1>4
<1> HIDE DEF T, A, B, x
<1>6. T.buf = Put(b, i, w, Mod(w, x)) /\ (~T.run <=> ~A \/ B)
  BY <1>5 DEF Write
<1> QED
  BY <1>6 DEF T, A, B, x

LEMMA ArithPlaces ==
  ASSUME NEW s \in DOMAIN Arith
  PROVE  /\ Arith[s] \in {1, 2, 4} /\ PerOffset(s) = Kinds(Arith[s]) * ArithMax
         /\ Kinds(Arith[s]) \in {2, 4} /\ (Arith[s] # 1 => Kinds(Arith[s]) = 4)
BY ArithAssumption, StageNames DEF Arith, PerOffset, Kinds

(* Every number and kind of a try has its place.                           *)
LEMMA ArithPlace ==
  ASSUME NEW s \in DOMAIN Arith, NEW j \in 1..ArithMax, NEW kind \in 0..(Kinds(Arith[s]) - 1)
  PROVE  \E n \in 1..PerOffset(s) :
           j = (n - 1) \div Kinds(Arith[s]) + 1 /\ kind = (n - 1) % Kinds(Arith[s])
<1> DEFINE K == Kinds(Arith[s])
<1>1. K \in {2, 4} /\ PerOffset(s) = K * ArithMax /\ kind \in 0..(K - 1)
  BY ArithPlaces
<1> HIDE DEF K
<1>2. ArithMax \in Nat
  BY ArithAssumption
<1>3. CASE K = 2
  <2> DEFINE n == 2 * (j - 1) + kind + 1
  <2>1. n \in 1..(2 * ArithMax) /\ j = (n - 1) \div 2 + 1 /\ kind = (n - 1) % 2
    BY <1>1, <1>2, <1>3
  <2> QED
    BY <1>1, <1>3, <2>1 DEF K
<1>4. CASE K = 4
  <2> DEFINE n == 4 * (j - 1) + kind + 1
  <2>1. n \in 1..(4 * ArithMax) /\ j = (n - 1) \div 4 + 1 /\ kind = (n - 1) % 4
    BY <1>1, <1>2, <1>4
  <2> QED
    BY <1>1, <1>4, <2>1 DEF K
<1> QED
  BY <1>1, <1>3, <1>4

LEMMA ArithNumber ==
  ASSUME NEW s \in DOMAIN Arith, NEW n \in 1..PerOffset(s)
  PROVE  /\ (n - 1) \div Kinds(Arith[s]) + 1 \in 1..ArithMax
         /\ (n - 1) % Kinds(Arith[s]) \in 0..(Kinds(Arith[s]) - 1)
<1>1. Kinds(Arith[s]) \in {2, 4} /\ PerOffset(s) = Kinds(Arith[s]) * ArithMax /\ ArithMax \in Nat
  BY ArithAssumption, ArithPlaces
<1>2. CASE Kinds(Arith[s]) = 2
  BY <1>1, <1>2
<1>3. CASE Kinds(Arith[s]) = 4
  BY <1>1, <1>3
<1> QED
  BY <1>1, <1>2, <1>3

(* Every sum of the width is among the tries of its offset.                *)
LEMMA ArithCovers ==
  ASSUME NEW s \in DOMAIN Arith, NEW w, w = Arith[s], NEW b \in Seq(Bytes), NEW i \in Nat,
         i + w <= Len(b), NEW d \in Deltas
  PROVE  /\ \E n \in 1..PerOffset(s) : ArithTries(b, s, i)[n].buf = Sum(b, i, w, d)
         /\ \E n \in 1..PerOffset(s) : ArithTries(b, s, i)[n].buf = SwappedSum(b, i, w, d)
<1>1. w \in {1, 2, 4} /\ Kinds(w) \in {2, 4} /\ (w # 1 => Kinds(w) = 4)
  BY ArithPlaces
<1>2. PICK j \in 1..ArithMax : j = d \/ -j = d
  <2>1. d \in Int /\ d # 0 /\ -ArithMax <= d /\ d <= ArithMax /\ ArithMax \in Nat
    BY ArithAssumption DEF Deltas
  <2>2. CASE d > 0
    <3>1. d \in 1..ArithMax
      BY <2>1, <2>2
    <3> QED
      BY <3>1
  <2>3. CASE d < 0
    <3>1. -d \in 1..ArithMax /\ -(-d) = d
      BY <2>1, <2>3
    <3> QED
      BY <3>1
  <2> QED
    BY <2>1, <2>2, <2>3
<1>3. d \in Int
  BY DEF Deltas
<1> DEFINE orig == Word(b, i, w)
           back == Swap(w, orig)
<1>4. orig \in Int /\ back \in Int
  <2>1. orig \in Nat
    BY <1>1, WordAt
  <2>2. orig \in Int
    BY <2>1
  <2> HIDE DEF orig
  <2>3. Swap(w, orig) \in Nat
    BY <1>1, <2>2, SwapBytes
  <2> QED
    BY <2>2, <2>3
<1>5. \E n \in 1..PerOffset(s) : ArithTries(b, s, i)[n].buf = Sum(b, i, w, d)
  <2>1. PICK kind \in {0, 1} : Added(b, i, w, j, kind) = orig + d
    <3>1. CASE j = d
      BY <3>1 DEF Added
    <3>2. CASE -j = d
      <4>1. Added(b, i, w, j, 1) = orig - j
        BY DEF Added
      <4>2. orig - j = orig + d
        <5> HIDE DEF orig
        <5> QED
          BY <1>2, <1>3, <1>4, <3>2
      <4> QED
        BY <4>1, <4>2
    <3> QED
      BY <1>2, <3>1, <3>2
  <2>2. kind \in 0..(Kinds(w) - 1)
    BY <1>1
  <2>3. PICK n \in 1..PerOffset(s) : j = (n - 1) \div Kinds(w) + 1 /\ kind = (n - 1) % Kinds(w)
    BY <2>2, ArithPlace
  <2>4. ArithTries(b, s, i)[n].buf = Put(b, i, w, Mod(w, Added(b, i, w, j, kind)))
    BY <2>3, ArithTry
  <2>5. orig + d \in Int
    BY <1>3, <1>4
  <2>6. Put(b, i, w, Mod(w, orig + d)) = Put(b, i, w, orig + d)
    <3> HIDE DEF orig
    <3> QED
      BY <1>1, <2>5, PutMod
  <2> QED
    BY <2>1, <2>4, <2>6 DEF Sum
<1>6. \E n \in 1..PerOffset(s) : ArithTries(b, s, i)[n].buf = SwappedSum(b, i, w, d)
  <2>1. CASE w = 1
    <3>1. SwappedSum(b, i, 1, d) = Sum(b, i, 1, d)
      BY <1>3, <2>1, OneByteSum
    <3> QED
      BY <1>5, <2>1, <3>1
  <2>2. CASE w # 1
    <3> DEFINE z == Swap(w, Mod(w, back + d))
    <3>1. PICK kind \in {2, 3} : Added(b, i, w, j, kind) = z
      <4>1. CASE j = d
        BY <4>1 DEF Added
      <4>2. CASE -j = d
        <5>1. Added(b, i, w, j, 3) = Swap(w, Mod(w, back - j))
          BY DEF Added
        <5>2. back - j = back + d
          <6> HIDE DEF back
          <6> QED
            BY <1>2, <1>3, <1>4, <4>2
        <5> QED
          BY <5>1, <5>2
      <4> QED
        BY <1>2, <4>1, <4>2
    <3>2. kind \in 0..(Kinds(w) - 1)
      BY <1>1, <2>2
    <3>3. PICK n \in 1..PerOffset(s) : j = (n - 1) \div Kinds(w) + 1 /\ kind = (n - 1) % Kinds(w)
      BY <3>2, ArithPlace
    <3>4. ArithTries(b, s, i)[n].buf = Put(b, i, w, Mod(w, Added(b, i, w, j, kind)))
      BY <3>3, ArithTry
    <3>5. z \in Int
      <4>1. back + d \in Int /\ w \in 0..4
        BY <1>1, <1>3, <1>4
      <4> DEFINE y == Mod(w, back + d)
      <4>2. y \in Int
        <5>1. y \in Nat
          BY <4>1, ModTyped
        <5> QED
          BY <5>1
      <4> HIDE DEF y
      <4>3. Swap(w, y) \in Nat
        BY <1>1, <4>2, SwapBytes
      <4> QED
        BY <4>3 DEF y
    <3>6. Put(b, i, w, Mod(w, z)) = Put(b, i, w, z)
      <4> HIDE DEF z
      <4> QED
        BY <1>1, <3>5, PutMod
    <3> QED
      BY <3>1, <3>4, <3>6 DEF SwappedSum
  <2> QED
    BY <2>1, <2>2
<1> QED
  BY <1>5, <1>6

LEMMA HalfTyped ==
  ASSUME NEW w \in {2, 4} PROVE Half(w) = 2^(ByteBits * HalfOf(w))
<1>1. ByteBits \in {4, 5, 6, 7, 8}
  BY BytesAssumption
<1>2. (ByteBits * 2) \div 2 = ByteBits * 1 /\ (ByteBits * 4) \div 2 = ByteBits * 2
  BY <1>1
<1> QED
  BY <1>2 DEF Half, HalfOf

(* A sum whose carry stays in the lower half is one of half the width.     *)
LEMMA HalfSum ==
  ASSUME NEW b \in Seq(Bytes), NEW i \in Nat, NEW w \in {2, 4}, i + w <= Len(b),
         NEW e \in Deltas, NEW x \in Int, NEW v \in Int,
         (x % Half(w)) + e \in 0..(Half(w) - 1),
         \/ x = Word(b, i, w) /\ v = x + e
         \/ x = Swap(w, Word(b, i, w)) /\ v = Swap(w, Mod(w, x + e))
  PROVE  SumOf(b, Put(b, i, w, v), HalfOf(w))
<1> DEFINE h == HalfOf(w)
           u == Word(b, i, w)
<1>1. /\ h \in {1, 2, 4} /\ h <= w /\ w \in {1, 2, 4} /\ w \in 0..4
      /\ Places(w, h) = {0, 1} /\ h = HalfOf(w)
  BY Halves
<1>2. u \in Int /\ u \in 0..(2^(ByteBits * w) - 1)
  <2>1. u \in Nat /\ u \in 0..(2^(ByteBits * w) - 1)
    BY <1>1, WordAt
  <2> QED
    BY <2>1
<1>3. e \in Int
  BY DEF Deltas
<1>4. (x % 2^(ByteBits * h)) + e \in 0..(2^(ByteBits * h) - 1)
  BY HalfTyped
<1>5. (x = u /\ v = x + e) \/ (x = Swap(w, u) /\ v = Swap(w, Mod(w, x + e)))
  OBVIOUS
<1> HIDE DEF h, u
<1>6. Part(h, x + e, 0) = Mod(h, Part(h, x, 0) + e) /\ Part(h, x + e, 1) = Part(h, x, 1)
  BY <1>1, <1>3, <1>4, SmallCarry
<1>7. CASE x = u /\ v = x + e
  <2>1. OnlyPart(w, h, u, v, 0) /\ Part(h, v, 0) = Mod(h, Part(h, u, 0) + e) /\ 0 \in Places(w, h)
    BY <1>1, <1>6, <1>7 DEF OnlyPart
  <2> QED
    BY <1>1, <2>1, OneWordSum DEF u, h
<1>8. CASE x = Swap(w, u) /\ v = Swap(w, Mod(w, x + e))
  <2> DEFINE y == Mod(w, x + e)
  <2>1. x + e \in Int
    BY <1>3
  <2>2. y \in Int
    <3>1. y \in Nat
      BY <1>1, <2>1, ModTyped
    <3> QED
      BY <3>1
  <2>3. Part(h, y, 0) = Part(h, x + e, 0) /\ Part(h, y, 1) = Part(h, x + e, 1)
    BY <1>1, <2>1, HalfOfMod
  <2> HIDE DEF y
  <2>4. v = Swap(w, y)
    BY <1>8 DEF y
  <2>5. Part(h, v, 1) = Swap(h, Part(h, y, 0)) /\ Part(h, v, 0) = Swap(h, Part(h, y, 1))
    <3>1. ASSUME NEW k \in {0, 1} PROVE Part(h, Swap(w, y), 1 - k) = Swap(h, Part(h, y, k))
      BY <1>1, <2>2, SwapHalves
    <3>2. Part(h, Swap(w, y), 1 - 0) = Swap(h, Part(h, y, 0)) /\ 1 - 0 = 1
      BY <3>1
    <3>3. Part(h, Swap(w, y), 1 - 1) = Swap(h, Part(h, y, 1)) /\ 1 - 1 = 0
      BY <3>1
    <3> QED
      BY <2>4, <3>2, <3>3
  <2>6. Part(h, x, 0) = Swap(h, Part(h, u, 1)) /\ Part(h, x, 1) = Swap(h, Part(h, u, 0))
    <3>1. ASSUME NEW k \in {0, 1} PROVE Part(h, Swap(w, u), 1 - k) = Swap(h, Part(h, u, k))
      BY <1>1, <1>2, SwapHalves
    <3>2. Part(h, Swap(w, u), 1 - 0) = Swap(h, Part(h, u, 0)) /\ 1 - 0 = 1
      BY <3>1
    <3>3. Part(h, Swap(w, u), 1 - 1) = Swap(h, Part(h, u, 1)) /\ 1 - 1 = 0
      BY <3>1
    <3> QED
      BY <1>8, <3>2, <3>3
  <2>7. Swap(h, Swap(h, Part(h, u, 0))) = Part(h, u, 0)
    <3>1. Part(h, u, 0) \in 0..(2^(ByteBits * h) - 1)
      BY <1>1, <1>2, HalfBytes
    <3> QED
      BY <1>1, <3>1, SwapTwice
  <2>8. Part(h, v, 0) = Part(h, u, 0)
    BY <1>6, <2>3, <2>5, <2>6, <2>7
  <2>9. Part(h, v, 1) = Swap(h, Mod(h, Swap(h, Part(h, u, 1)) + e))
    BY <1>6, <2>3, <2>5, <2>6
  <2>10. OnlyPart(w, h, u, v, 1) /\ 1 \in Places(w, h)
    BY <1>1, <2>8 DEF OnlyPart
  <2> QED
    BY <1>1, <2>9, <2>10, OneWordSum, SMTT(20) DEF u, h
<1> QED
  BY <1>5, <1>7, <1>8 DEF h

(* What an arithmetic stage leaves out is a supposed flip, or a sum of     *)
(* half the width.                                                         *)
LEMMA ArithLeft ==
  ASSUME in_buf \in Seq(Bytes), NEW s \in DOMAIN Arith, NEW w, w = Arith[s],
         NEW i \in Nat, i + w <= len, NEW n \in 1..PerOffset(s),
         ~ArithTries(in_buf, s, i)[n].run
  PROVE  \/ FlipsAt(ArithTries(in_buf, s, i)[n].buf)
         \/ w \in {2, 4} /\ SumOf(in_buf, ArithTries(in_buf, s, i)[n].buf, HalfOf(w))
<1> DEFINE K == Kinds(w)
           j == (n - 1) \div K + 1
           kind == (n - 1) % K
           orig == Word(in_buf, i, w)
           v == Added(in_buf, i, w, j, kind)
           c == ArithTries(in_buf, s, i)[n].buf
<1>1. /\ w \in {1, 2, 4} /\ K \in {2, 4} /\ (w # 1 => K = 4) /\ (w = 1 => K = 2)
      /\ w \in 0..4 /\ i + w <= Len(in_buf)
  BY ArithPlaces DEF Kinds, len
<1>2. j \in 1..ArithMax /\ kind \in 0..(K - 1)
  BY ArithNumber
<1>3. /\ c = Put(in_buf, i, w, Mod(w, v))
      /\ ~Carries(in_buf, i, w, j, kind) \/ could_be_bitflip(Xor(w, orig, Mod(w, v)))
  BY ArithTry
<1>4. orig \in Int /\ Swap(w, orig) \in Int
  <2>1. orig \in Nat
    BY <1>1, WordAt
  <2>2. orig \in Int
    BY <2>1
  <2> HIDE DEF orig
  <2>3. Swap(w, orig) \in Nat
    BY <1>1, <2>2, SwapBytes
  <2> QED
    BY <2>2, <2>3
<1> HIDE DEF K, j, kind, orig
<1>5. kind \in 0..3 /\ (w = 1 => kind \in {0, 1})
  BY <1>1, <1>2
<1>6. j \in Int
  BY <1>2
<1>7. v \in Int
  <2>1. \A x \in Int : Swap(w, Mod(w, x)) \in Int
    <3> TAKE x \in Int
    <3>1. Mod(w, x) \in Nat
      BY <1>1, ModTyped
    <3>2. PICK y \in Int : y = Mod(w, x)
      BY <3>1
    <3>3. Swap(w, y) \in Nat
      BY <1>1, SwapBytes
    <3> QED
      BY <3>2, <3>3
  <2>2. Swap(w, orig) + j \in Int /\ Swap(w, orig) - j \in Int /\ orig + j \in Int /\ orig - j \in Int
    BY <1>4, <1>6
  <2> QED
    BY <2>1, <2>2 DEF Added, orig
<1>8. Put(in_buf, i, w, Mod(w, v)) = Put(in_buf, i, w, v)
  <2> HIDE DEF v
  <2> QED
    BY <1>1, <1>7, PutMod
<1>9. CASE could_be_bitflip(Xor(w, orig, Mod(w, v)))
  <2>1. PICK y \in Int : y = Mod(w, v)
    <3> HIDE DEF v
    <3>1. Mod(w, v) \in Nat
      BY <1>1, <1>7, ModTyped
    <3> QED
      BY <3>1
  <2> HIDE DEF v, c
  <2>2. FlipsAt(Put(in_buf, i, w, y))
    BY <1>1, <1>9, <2>1, SupposedFlip DEF orig
  <2> QED
    BY <1>3, <2>1, <2>2 DEF c
<1>10. CASE ~Carries(in_buf, i, w, j, kind)
  <2>1. w \in {2, 4}
    BY <1>1, <1>5, <1>10 DEF Carries
  <2> DEFINE H == Half(w)
             P == ByteBits * HalfOf(w)
  <2>2. H \in Nat \ {0}
    <3>1. HalfOf(w) \in 0..4
      BY <2>1, Halves
    <3> QED
      BY <2>1, <3>1, WordSize, HalfTyped
  <2>3. orig % H \in 0..(H - 1) /\ Swap(w, orig) % H \in 0..(H - 1)
    <3> HIDE DEF H
    <3> QED
      BY <1>4, <2>2
  <2>4. PICK x \in Int, e \in Deltas :
          /\ (x % H) + e \in 0..(H - 1)
          /\ (x = orig /\ v = x + e) \/ (x = Swap(w, orig) /\ v = Swap(w, Mod(w, x + e)))
    <3>1. /\ j \in Deltas /\ -j \in Deltas
          /\ orig - j = orig + (-j) /\ Swap(w, orig) - j = Swap(w, orig) + (-j)
      BY <1>2, <1>4, <1>6, ArithAssumption DEF Deltas
    <3>2. CASE kind = 0
      <4>1. v = orig + j
        BY <3>2 DEF Added, orig
      <4>2. ~((orig % H) + j >= H)
        BY <1>10, <3>2 DEF Carries, orig
      <4>3. (orig % H) + j \in 0..(H - 1)
        <5> HIDE DEF H
        <5> QED
          BY <1>2, <2>2, <2>3, <4>2
      <4> QED
        BY <1>4, <3>1, <4>1, <4>3
    <3>3. CASE kind = 1
      <4>1. v = orig - j
        BY <3>3 DEF Added, orig
      <4>2. ~(orig % H < j)
        BY <1>10, <3>3 DEF Carries, orig
      <4>3. (orig % H) + (-j) \in 0..(H - 1)
        <5> HIDE DEF H
        <5> QED
          BY <1>2, <2>2, <2>3, <4>2
      <4> QED
        BY <1>4, <3>1, <4>1, <4>3
    <3>4. CASE kind = 2
      <4>1. v = Swap(w, Mod(w, Swap(w, orig) + j))
        BY <3>4 DEF Added, orig
      <4>2. ~((Swap(w, orig) % H) + j >= H)
        BY <1>10, <3>4 DEF Carries, orig
      <4>3. (Swap(w, orig) % H) + j \in 0..(H - 1)
        <5> HIDE DEF H
        <5> QED
          BY <1>2, <2>2, <2>3, <4>2
      <4> QED
        BY <1>4, <3>1, <4>1, <4>3
    <3>5. CASE kind = 3
      <4>1. v = Swap(w, Mod(w, Swap(w, orig) - j))
        BY <3>5 DEF Added, orig
      <4>2. ~(Swap(w, orig) % H < j)
        BY <1>10, <3>5 DEF Carries, orig
      <4>3. (Swap(w, orig) % H) + (-j) \in 0..(H - 1)
        <5> HIDE DEF H
        <5> QED
          BY <1>2, <2>2, <2>3, <4>2
      <4> QED
        BY <1>4, <3>1, <4>1, <4>3
    <3> QED
      BY <1>5, <3>2, <3>3, <3>4, <3>5
  <2> HIDE DEF v, c
  <2>5. SumOf(in_buf, Put(in_buf, i, w, v), HalfOf(w))
    BY <1>1, <1>7, <2>1, <2>4, HalfSum DEF orig
  <2> QED
    BY <1>3, <1>8, <2>1, <2>5 DEF c
<1> QED
  BY <1>3, <1>9, <1>10

-----------------------------------------------------------------------------
(***************************************************************************)
(* What could_be_interest supposes, and what an interest stage leaves out  *)
(***************************************************************************)
(* An interesting value of w bytes somewhere, in one of the byte orders.   *)
ValueOf(b, c, w) == \E i \in Nat, v \in Range(Interesting[w]) :
                      /\ i + w <= Len(b)
                      /\ c = Put(b, i, w, v) \/ (w > 1 /\ c = Put(b, i, w, Swap(w, v)))

LEMMA InterestingTyped ==
  ASSUME NEW w \in {1, 2, 4}, NEW v \in Range(Interesting[w])
  PROVE  v \in Nat /\ v \in Int /\ Swap(w, v) \in Nat /\ Swap(w, v) \in Int
<1>1. v \in Nat
  <2>1. Interesting[w] \in Seq(Nat)
    BY InterestingAssumption
  <2> QED
    BY <2>1 DEF Range
<1>2. v \in Int
  BY <1>1
<1>3. Swap(w, v) \in Nat
  BY <1>2, SwapBytes
<1> QED
  BY <1>1, <1>2, <1>3

(* Inserting a value into a word is writing it into the buffer.            *)
LEMMA InsertedPut ==
  ASSUME NEW b \in Seq(Bytes), NEW i \in Nat, NEW w \in {2, 4}, i + w <= Len(b),
         NEW h \in {1, 2}, NEW k \in 0..(w - h), NEW v \in Int
  PROVE  Put(b, i, w, Inserted(Word(b, i, w), w, k, h, v)) = Put(b, i + k, h, v)
<1> DEFINE u == Word(b, i, w)
           t == [n \in 1..w |-> ByteOf(u, n - 1)]
           p == Put(t, k, h, v)
           x == Word(p, 0, w)
<1>1. w \in {1, 2, 4} /\ h \in {1, 2, 4} /\ k \in Nat /\ k + h <= w
      /\ \A m \in 0..(h - 1) : k + m \in 0..(w - 1)
  OBVIOUS
<1>2. \A m \in 0..(w - 1) : ByteOf(u, m) = b[i + m + 1] /\ b[i + m + 1] \in Bytes
  BY <1>1, WordAt
<1> HIDE DEF u
<1>3. \A m \in 0..(w - 1) : t[m + 1] = b[i + m + 1]
  <2> TAKE m \in 0..(w - 1)
  <2>1. m + 1 \in 1..w /\ (m + 1) - 1 = m
    OBVIOUS
  <2> QED
    BY <1>2, <2>1
<1>4. t \in Seq(Bytes) /\ Len(t) = w /\ DOMAIN t = 1..w
  <2>1. ASSUME NEW n \in 1..w PROVE t[n] \in Bytes
    <3>1. PICK m \in 0..(w - 1) : n = m + 1
      <4>1. n - 1 \in 0..(w - 1) /\ n = (n - 1) + 1
        OBVIOUS
      <4> QED
        BY <4>1
    <3> QED
      BY <1>2, <1>3, <3>1
  <2>2. t \in [1..w -> Bytes] /\ w \in Nat
    BY <2>1
  <2> QED
    BY <2>2
<1> HIDE DEF t
<1>5. ASSUME NEW m \in 0..(w - 1)
      PROVE  /\ m \notin k..(k + h - 1) => p[m + 1] = b[i + m + 1]
             /\ \A r \in 0..(h - 1) : m = k + r => p[m + 1] = ByteOf(v, r)
  <2>1. m + 1 \in DOMAIN t /\ (m + 1) - 1 = m
    BY <1>4
  <2>2. p[m + 1] = IF m \in Span(k, h) THEN ByteOf(v, m - k) ELSE t[m + 1]
    BY <2>1 DEF Put
  <2>3. Span(k, h) = k..(k + h - 1)
    BY DEF Span
  <2>4. ASSUME NEW r \in 0..(h - 1), m = k + r PROVE p[m + 1] = ByteOf(v, r)
    <3>1. m \in Span(k, h) /\ m - k = r
      BY <1>1, <2>3, <2>4
    <3> QED
      BY <2>2, <3>1
  <2> QED
    BY <1>3, <2>2, <2>3, <2>4
<1>6. \A m \in 0..(w - 1) : p[0 + m + 1] \in Bytes
  <2> TAKE m \in 0..(w - 1)
  <2>0. 0 + m + 1 = m + 1
    OBVIOUS
  <2>1. CASE m \in k..(k + h - 1)
    <3>1. PICK r \in 0..(h - 1) : m = k + r
      <4>1. m - k \in 0..(h - 1) /\ m = k + (m - k)
        BY <1>1, <2>1
      <4> QED
        BY <4>1
    <3>2. ByteOf(v, r) \in Bytes
      <4>1. r \in 0..3
        OBVIOUS
      <4> QED
        BY <4>1, ByteTyped
    <3> QED
      BY <1>5, <2>0, <3>1, <3>2, ZenonT(40)
  <2>2. CASE m \notin k..(k + h - 1)
    BY <1>2, <1>5, <2>0, <2>2
  <2> QED
    BY <2>1, <2>2
<1> HIDE DEF p
<1>7. \A m \in 0..(w - 1) : ByteOf(x, m) = p[m + 1]
  <2>1. PICK z \in Nat : z = 0
    OBVIOUS
  <2>2. \A m \in 0..(w - 1) : p[z + m + 1] \in Bytes
    BY <1>6, <2>1
  <2>3. \A m \in 0..(w - 1) : ByteOf(Word(p, z, w), m) = p[z + m + 1]
    BY <1>1, <2>2, WordBytes
  <2> QED
    BY <2>1, <2>3
<1> HIDE DEF x
<1>8. OnlyAt(b, i, w, x, k, h)
  BY <1>5, <1>7 DEF OnlyAt
<1>9. SamePart(x, k, h, v)
  <2> SUFFICES ASSUME NEW r \in 0..(h - 1) PROVE ByteOf(x, k + r) = ByteOf(v, r)
    BY DEF SamePart
  <2>1. PICK m \in 0..(w - 1) : m = k + r
    BY <1>1
  <2> QED
    BY <1>5, <1>7, <2>1
<1>10. Put(b, i, w, x) = Put(b, i + k, h, v)
  BY <1>1, <1>8, <1>9, PutPart
<1>11. Inserted(u, w, k, h, v) = x
  BY DEF Inserted, x, p, t
<1> QED
  BY <1>10, <1>11 DEF u

IKinds(w) == IF w = 1 THEN 1 ELSE 2

(* A value that no earlier stage is supposed to have tried, in the         *)
(* program's own byte order and in the other.                              *)
Fresh(b, i, w, v) == /\ ~could_be_bitflip(Xor(w, Word(b, i, w), v))
                     /\ ~could_be_arith(Word(b, i, w), v, w)
                     /\ w > 1 => ~could_be_interest(Word(b, i, w), v, w, FALSE)
FreshSwapped(b, i, w, v) == /\ ~could_be_bitflip(Xor(w, Word(b, i, w), v))
                            /\ ~could_be_arith(Word(b, i, w), v, w)
                            /\ w > 1 => ~could_be_interest(Word(b, i, w), v, w, TRUE)

(* Which value the n-th try is about, and in which byte order.             *)
ValueAt(s, n) == Interesting[Interest[s]][(n - 1) \div IKinds(Interest[s]) + 1]
KindAt(s, n) == (n - 1) % IKinds(Interest[s])

LEMMA InterestTry ==
  ASSUME NEW s \in DOMAIN Interest, NEW b, NEW i, NEW n \in 1..PerOffset(s), NEW w, w = Interest[s]
  PROVE  /\ KindAt(s, n) = 0 =>
              /\ InterestTries(b, s, i)[n].buf = Put(b, i, w, Mod(w, ValueAt(s, n)))
              /\ ~InterestTries(b, s, i)[n].run <=> ~Fresh(b, i, w, ValueAt(s, n))
         /\ KindAt(s, n) # 0 =>
              /\ InterestTries(b, s, i)[n].buf = Put(b, i, w, Mod(w, Swap(w, ValueAt(s, n))))
              /\ ~InterestTries(b, s, i)[n].run
                   <=> \/ Swap(w, ValueAt(s, n)) = ValueAt(s, n)
                       \/ ~FreshSwapped(b, i, w, Swap(w, ValueAt(s, n)))
<1> DEFINE T == InterestTries(b, s, i)[n]
           v == ValueAt(s, n)
           kind == KindAt(s, n)
           y == Swap(w, v)
           A == Fresh(b, i, w, v)
           B == FreshSwapped(b, i, w, y)
<1>1. T = IF kind = 0 THEN Write(b, i, w, v, A) ELSE Write(b, i, w, y, y # v /\ B)
  BY DEF InterestTries, IKinds, Fresh, FreshSwapped, ValueAt, KindAt
<1>2. A \in BOOLEAN /\ B \in BOOLEAN
  BY DEF Fresh, FreshSwapped
<1> HIDE DEF T, A, B, y, v, kind
<1>3. /\ kind = 0 => T.buf = Put(b, i, w, Mod(w, v)) /\ (~T.run <=> ~A)
      /\ kind # 0 => T.buf = Put(b, i, w, Mod(w, y)) /\ (~T.run <=> y = v \/ ~B)
  BY <1>1, <1>2 DEF Write
<1> QED
  BY <1>3 DEF T, A, B, y, v, kind

LEMMA InterestPlaces ==
  ASSUME NEW s \in DOMAIN Interest
  PROVE  /\ Interest[s] \in {1, 2, 4} /\ Len(Interesting[Interest[s]]) \in Nat
         /\ PerOffset(s) = IKinds(Interest[s]) * Len(Interesting[Interest[s]])
         /\ IKinds(Interest[s]) \in {1, 2} /\ (Interest[s] # 1 <=> IKinds(Interest[s]) = 2)
<1>1. \A w \in {1, 2, 4} : Len(Interesting[w]) \in Nat
  BY InterestingAssumption
<1>2. CASE s = "int8"
  BY <1>1, <1>2 DEF Interest, PerOffset, IKinds
<1>3. CASE s = "int16" \/ s = "int32"
  <2>1. s \in Stages
    BY <1>3, StageNames DEF Stages, Words
  <2>2. Width(s) = Interest[s] /\ Interest[s] \in {2, 4}
    BY <1>3, <2>1, Widths DEF Interest
  <2>3. PerOffset(s) = 2 * Len(Interesting[Width(s)])
    BY <1>3 DEF PerOffset
  <2> QED
    <3> DEFINE w == Interest[s]
    <3>1. w \in {1, 2, 4} /\ w # 1 /\ PerOffset(s) = 2 * Len(Interesting[w])
      BY <2>2, <2>3
    <3> HIDE DEF w
    <3>2. IKinds(w) = 2
      BY <3>1 DEF IKinds
    <3>3. Len(Interesting[w]) \in Nat
      BY <1>1, <3>1
    <3>4. PerOffset(s) = IKinds(w) * Len(Interesting[w]) /\ IKinds(w) \in {1, 2} /\ (w # 1 <=> IKinds(w) = 2)
      BY <3>1, <3>2
    <3> QED
      BY <3>1, <3>3, <3>4 DEF w
<1> QED
  BY <1>2, <1>3, StageNames

LEMMA InterestPlace ==
  ASSUME NEW s \in DOMAIN Interest, NEW v \in Range(Interesting[Interest[s]]),
         NEW kind \in 0..(IKinds(Interest[s]) - 1)
  PROVE  \E n \in 1..PerOffset(s) : v = ValueAt(s, n) /\ kind = KindAt(s, n)
<1> DEFINE w == Interest[s]
           K == IKinds(w)
           N == Len(Interesting[w])
<1>1. K \in {1, 2} /\ PerOffset(s) = K * N /\ kind \in 0..(K - 1) /\ N \in Nat
  BY InterestPlaces
<1>2. PICK j \in 1..N : v = Interesting[w][j]
  <2>1. Interesting[w] \in Seq(Nat)
    BY InterestPlaces, InterestingAssumption
  <2>2. DOMAIN Interesting[w] = 1..N
    BY <2>1
  <2> QED
    BY <2>2 DEF Range
<1> HIDE DEF K, N, w
<1>3. CASE K = 1
  <2>1. j \in 1..PerOffset(s) /\ (j - 1) \div K + 1 = j /\ kind = (j - 1) % K
    BY <1>1, <1>3
  <2> QED
    BY <1>2, <2>1 DEF K, w, ValueAt, KindAt
<1>4. CASE K = 2
  <2> DEFINE n == 2 * (j - 1) + kind + 1
  <2>1. n \in 1..PerOffset(s) /\ (n - 1) \div K + 1 = j /\ kind = (n - 1) % K
    BY <1>1, <1>4
  <2> HIDE DEF n
  <2> QED
    BY <1>2, <2>1 DEF K, w, ValueAt, KindAt
<1> QED
  BY <1>1, <1>3, <1>4

LEMMA InterestNumber ==
  ASSUME NEW s \in DOMAIN Interest, NEW n \in 1..PerOffset(s)
  PROVE  ValueAt(s, n) \in Range(Interesting[Interest[s]]) /\ KindAt(s, n) \in 0..(IKinds(Interest[s]) - 1)
<1> DEFINE w == Interest[s]
           K == IKinds(w)
           N == Len(Interesting[w])
           j == (n - 1) \div K + 1
<1>1. K \in {1, 2} /\ PerOffset(s) = K * N /\ N \in Nat
  BY InterestPlaces
<1>2. j \in 1..N /\ (n - 1) % K \in 0..(K - 1)
  <2> HIDE DEF K, N, w
  <2>1. CASE K = 1
    BY <1>1, <2>1
  <2>2. CASE K = 2
    BY <1>1, <2>2
  <2> QED
    BY <1>1, <2>1, <2>2
<1>3. DOMAIN Interesting[w] = 1..N
  <2>1. Interesting[w] \in Seq(Nat)
    BY InterestPlaces, InterestingAssumption
  <2> QED
    BY <2>1
<1>4. Interesting[w][j] \in Range(Interesting[w])
  <2> HIDE DEF w, j
  <2> QED
    BY <1>2, <1>3 DEF Range
<1> QED
  BY <1>2, <1>4 DEF ValueAt, KindAt

(* Every interesting value of the width is among the tries of its offset,  *)
(* in either byte order.                                                   *)
LEMMA InterestCovers ==
  ASSUME NEW s \in DOMAIN Interest, NEW w, w = Interest[s], NEW b \in Seq(Bytes), NEW i \in Nat,
         NEW v \in Range(Interesting[w])
  PROVE  \E n \in 1..PerOffset(s) :
           KindAt(s, n) = 0 /\ InterestTries(b, s, i)[n].buf = Put(b, i, w, v)
<1>1. w \in {1, 2, 4} /\ IKinds(w) \in {1, 2}
  BY InterestPlaces
<1>2. v \in Int
  BY <1>1, InterestingTyped
<1>3. Put(b, i, w, Mod(w, v)) = Put(b, i, w, v)
  BY <1>1, <1>2, PutMod
<1>4. 0 \in 0..(IKinds(w) - 1)
  BY <1>1
<1>5. PICK n \in 1..PerOffset(s) : v = ValueAt(s, n) /\ 0 = KindAt(s, n)
  BY <1>4, InterestPlace
<1>6. InterestTries(b, s, i)[n].buf = Put(b, i, w, Mod(w, v))
  BY <1>5, InterestTry
<1> QED
  BY <1>3, <1>5, <1>6

LEMMA InterestCoversSwapped ==
  ASSUME NEW s \in DOMAIN Interest, NEW w, w = Interest[s], w # 1,
         NEW b \in Seq(Bytes), NEW i \in Nat,
         NEW v \in Range(Interesting[w]), NEW y, y = Swap(w, v)
  PROVE  \E n \in 1..PerOffset(s) : InterestTries(b, s, i)[n].buf = Put(b, i, w, y)
<1>1. w \in {1, 2, 4} /\ IKinds(w) = 2
  BY InterestPlaces
<1>2. y \in Int
  BY <1>1, InterestingTyped
<1>3. Put(b, i, w, Mod(w, y)) = Put(b, i, w, y)
  BY <1>1, <1>2, PutMod
<1>4. 1 \in 0..(IKinds(w) - 1)
  BY <1>1
<1>5. PICK n \in 1..PerOffset(s) : v = ValueAt(s, n) /\ 1 = KindAt(s, n)
  BY <1>4, InterestPlace
<1>6. InterestTries(b, s, i)[n].buf = Put(b, i, w, Mod(w, y))
  BY <1>5, InterestTry
<1> QED
  BY <1>3, <1>5, <1>6

(* What could_be_interest supposes: a narrower value, or one of the tries  *)
(* in the program's own byte order.                                        *)
LEMMA SupposedValue ==
  ASSUME NEW b \in Seq(Bytes), NEW i \in Nat, NEW w \in {2, 4}, i + w <= Len(b),
         NEW v \in Int, NEW le \in BOOLEAN, could_be_interest(Word(b, i, w), v, w, le)
  PROVE  \/ Put(b, i, w, v) = b
         \/ \E h \in {1, 2} : h < w /\ ValueOf(b, Put(b, i, w, v), h)
         \/ le /\ \E x \in Range(Interesting[w]) : Put(b, i, w, v) = Put(b, i, w, x)
<1> DEFINE u == Word(b, i, w)
           c == Put(b, i, w, v)
<1>1. ASSUME u = v PROVE c = b
  <2>1. w \in {1, 2, 4}
    OBVIOUS
  <2>2. \A k \in 0..(w - 1) : ByteOf(u, k) = b[i + k + 1]
    BY <2>1, WordAt
  <2>3. \A k \in 0..(w - 1) : ByteOf(v, k) = b[i + k + 1]
    BY <1>1, <2>2
  <2> QED
    BY <2>1, <2>3, PutUnchanged
<1>2. ASSUME NEW h \in {1, 2}, NEW k \in 0..(w - h), NEW x \in Int, v = Inserted(u, w, k, h, x)
      PROVE  c = Put(b, i + k, h, x) /\ i + k \in Nat /\ (i + k) + h <= Len(b)
  <2>1. Put(b, i, w, Inserted(u, w, k, h, x)) = Put(b, i + k, h, x)
    BY InsertedPut, ZenonT(40)
  <2>2. i + k \in Nat /\ (i + k) + h <= Len(b)
    OBVIOUS
  <2> QED
    BY <1>2, <2>1, <2>2
<1> HIDE DEF c
<1>3. ASSUME NEW k \in 0..(w - 1), NEW x \in Range(Interesting[1]), v = Inserted(u, w, k, 1, x)
      PROVE  ValueOf(b, c, 1)
  <2>1. x \in Int /\ 1 \in {1, 2}
    BY InterestingTyped
  <2>2. c = Put(b, i + k, 1, x) /\ i + k \in Nat /\ (i + k) + 1 <= Len(b)
    BY <1>2, <1>3, <2>1
  <2> QED
    BY <2>2 DEF ValueOf
<1>4. ASSUME NEW k \in 0..(w - 2), NEW x \in Range(Interesting[2]), v = Inserted(u, w, k, 2, x)
      PROVE  ValueOf(b, c, 2) /\ (w = 2 => c = Put(b, i, w, x))
  <2>1. x \in Int /\ 2 \in {1, 2}
    BY InterestingTyped
  <2>2. c = Put(b, i + k, 2, x) /\ i + k \in Nat /\ (i + k) + 2 <= Len(b)
    BY <1>2, <1>4, <2>1
  <2>3. w = 2 => i + k = i
    OBVIOUS
  <2> QED
    BY <2>2, <2>3 DEF ValueOf
<1>5. ASSUME NEW k \in 0..(w - 2), NEW x \in Range(Interesting[2]), v = Inserted(u, w, k, 2, Swap(2, x))
      PROVE  ValueOf(b, c, 2)
  <2>1. PICK y \in Int : y = Swap(2, x)
    BY InterestingTyped
  <2>2. c = Put(b, i + k, 2, y) /\ i + k \in Nat /\ (i + k) + 2 <= Len(b)
    BY <1>2, <1>5, <2>1
  <2>3. 2 > 1
    OBVIOUS
  <2> QED
    BY <2>1, <2>2, <2>3 DEF ValueOf
<1>6. ASSUME w = 4, v \in Range(Interesting[4]) PROVE \E x \in Range(Interesting[w]) : c = Put(b, i, w, x)
  BY <1>6 DEF c
<1>7. could_be_interest(u, v, w, le)
  OBVIOUS
<1> HIDE DEF u
<1>8. \/ c = b
      \/ ValueOf(b, c, 1)
      \/ w > 2 /\ ValueOf(b, c, 2)
      \/ le /\ \E x \in Range(Interesting[w]) : c = Put(b, i, w, x)
  <2>1. CASE u = v
    BY <1>1, <2>1
  <2>2. CASE \E k \in 0..(w - 1), x \in Range(Interesting[1]) : v = Inserted(u, w, k, 1, x)
    BY <1>3, <2>2
  <2>3. CASE \E k \in 0..(w - 2), x \in Range(Interesting[2]) :
               /\ w > 2 \/ le
               /\ v = Inserted(u, w, k, 2, x)
    <3>1. PICK k \in 0..(w - 2), x \in Range(Interesting[2]) : v = Inserted(u, w, k, 2, x)
      BY <2>3
    <3>2. ValueOf(b, c, 2) /\ (w = 2 => c = Put(b, i, w, x))
      BY <1>4, <3>1
    <3> QED
      BY <2>3, <3>2
  <2>4. CASE \E k \in 0..(w - 2), x \in Range(Interesting[2]) :
               w > 2 /\ v = Inserted(u, w, k, 2, Swap(2, x))
    BY <1>5, <2>4
  <2>5. CASE w = 4 /\ le /\ v \in Range(Interesting[4])
    BY <1>6, <2>5
  <2> QED
    BY <1>7, <2>1, <2>2, <2>3, <2>4, <2>5 DEF could_be_interest
<1> QED
  BY <1>8 DEF c

(* What the stages before an interest stage of w bytes have made.          *)
Known(c, w) == \/ FlipsAt(c)
               \/ \E h \in {1, 2, 4} : h <= w /\ SumOf(in_buf, c, h)
               \/ \E h \in {1, 2} : h < w /\ ValueOf(in_buf, c, h)

LEMMA Supposed ==
  ASSUME in_buf \in Seq(Bytes), NEW w \in {1, 2, 4}, NEW i \in Nat, i + w <= len, NEW x \in Int
  PROVE  /\ ~Fresh(in_buf, i, w, x) => Known(Put(in_buf, i, w, x), w)
         /\ ~FreshSwapped(in_buf, i, w, x)
              => \/ Known(Put(in_buf, i, w, x), w)
                 \/ \E v \in Range(Interesting[w]) : Put(in_buf, i, w, x) = Put(in_buf, i, w, v)
<1> DEFINE u == Word(in_buf, i, w)
           c == Put(in_buf, i, w, x)
           R == \E v \in Range(Interesting[w]) : Put(in_buf, i, w, x) = Put(in_buf, i, w, v)
<1>1. i + w <= Len(in_buf)
  BY DEF len
<1>2. could_be_bitflip(Xor(w, u, x)) => FlipsAt(c)
  BY SupposedFlip
<1>3. could_be_arith(u, x, w) => c = in_buf \/ \E h \in {1, 2, 4} : h <= w /\ SumOf(in_buf, c, h)
  BY <1>1, SupposedSum
<1>4. ASSUME NEW le \in BOOLEAN, w > 1, could_be_interest(u, x, w, le)
      PROVE  c = in_buf \/ (\E h \in {1, 2} : h < w /\ ValueOf(in_buf, c, h)) \/ (le /\ R)
  <2>1. w \in {2, 4}
    BY <1>4
  <2> QED
    BY <1>1, <1>4, <2>1, SupposedValue
<1>5. c = in_buf => FlipsAt(c)
  BY DEF FlipsAt
<1> HIDE DEF u, c, R
<1>6. ASSUME w > 1, could_be_interest(u, x, w, FALSE) PROVE Known(c, w)
  <2>1. c = in_buf \/ (\E h \in {1, 2} : h < w /\ ValueOf(in_buf, c, h)) \/ (FALSE /\ R)
    BY <1>4, <1>6, Zenon
  <2> QED
    BY <1>5, <2>1 DEF Known
<1>7. ASSUME w > 1, could_be_interest(u, x, w, TRUE) PROVE Known(c, w) \/ R
  <2>1. c = in_buf \/ (\E h \in {1, 2} : h < w /\ ValueOf(in_buf, c, h)) \/ (TRUE /\ R)
    BY <1>4, <1>7, Zenon
  <2> QED
    BY <1>5, <2>1 DEF Known
<1>8. could_be_bitflip(Xor(w, u, x)) \/ could_be_arith(u, x, w) => Known(c, w)
  BY <1>2, <1>3, <1>5 DEF Known
<1>9. ~Fresh(in_buf, i, w, x) => Known(c, w)
  BY <1>6, <1>8 DEF Fresh, u
<1>10. ~FreshSwapped(in_buf, i, w, x) => Known(c, w) \/ R
  BY <1>7, <1>8 DEF FreshSwapped, u
<1> QED
  BY <1>9, <1>10 DEF c, R

(* What an interest stage leaves out is known, or the other byte order of  *)
(* one of its values, which is the same buffer as another of its values.   *)
LEMMA InterestLeft ==
  ASSUME in_buf \in Seq(Bytes), NEW s \in DOMAIN Interest, NEW w, w = Interest[s],
         NEW i \in Nat, i + w <= len, NEW n \in 1..PerOffset(s),
         ~InterestTries(in_buf, s, i)[n].run
  PROVE  \/ Known(InterestTries(in_buf, s, i)[n].buf, w)
         \/ /\ KindAt(s, n) # 0
            /\ \E m \in 1..PerOffset(s) :
                 /\ KindAt(s, m) = 0
                 /\ InterestTries(in_buf, s, i)[m].buf = InterestTries(in_buf, s, i)[n].buf
<1> DEFINE v == ValueAt(s, n)
           c == InterestTries(in_buf, s, i)[n].buf
<1>1. w \in {1, 2, 4}
  BY InterestPlaces
<1>2. v \in Range(Interesting[w])
  BY InterestNumber
<1>3. v \in Int /\ Swap(w, v) \in Int
  <2> HIDE DEF v
  <2> QED
    BY <1>1, <1>2, InterestingTyped
<1>4. \A x \in Int : Put(in_buf, i, w, Mod(w, x)) = Put(in_buf, i, w, x)
  BY <1>1, PutMod
<1>5. ASSUME NEW x \in Range(Interesting[w])
      PROVE  \E m \in 1..PerOffset(s) :
               KindAt(s, m) = 0 /\ InterestTries(in_buf, s, i)[m].buf = Put(in_buf, i, w, x)
  BY InterestCovers
<1>6. /\ KindAt(s, n) = 0 => c = Put(in_buf, i, w, Mod(w, v)) /\ ~Fresh(in_buf, i, w, v)
      /\ KindAt(s, n) # 0 => /\ c = Put(in_buf, i, w, Mod(w, Swap(w, v)))
                             /\ Swap(w, v) = v \/ ~FreshSwapped(in_buf, i, w, Swap(w, v))
  BY InterestTry
<1> HIDE DEF v, c
<1>7. CASE KindAt(s, n) = 0
  <2>1. c = Put(in_buf, i, w, v)
    BY <1>3, <1>4, <1>6, <1>7
  <2>2. Known(Put(in_buf, i, w, v), w)
    BY <1>1, <1>3, <1>6, <1>7, Supposed
  <2> QED
    BY <2>1, <2>2 DEF c
<1>8. CASE KindAt(s, n) # 0
  <2>1. PICK y \in Int : y = Swap(w, v)
    BY <1>3
  <2>2. c = Put(in_buf, i, w, y)
    BY <1>4, <1>6, <1>8, <2>1
  <2>3. Known(c, w) \/ \E x \in Range(Interesting[w]) : c = Put(in_buf, i, w, x)
    <3>1. CASE y = v
      BY <1>2, <2>2, <3>1
    <3>2. CASE ~FreshSwapped(in_buf, i, w, y)
      <4>1. \/ Known(Put(in_buf, i, w, y), w)
            \/ \E x \in Range(Interesting[w]) : Put(in_buf, i, w, y) = Put(in_buf, i, w, x)
        BY <1>1, <3>2, Supposed
      <4> QED
        BY <2>2, <4>1
    <3> QED
      BY <1>6, <1>8, <2>1, <3>1, <3>2
  <2> QED
    BY <1>5, <1>8, <2>3 DEF c
<1> QED
  BY <1>7, <1>8

-----------------------------------------------------------------------------
(***************************************************************************)
(* What the effector map rules out                                         *)
(***************************************************************************)
LEMMA CellsInOrder ==
  ASSUME NEW x \in Nat, NEW y \in Nat, x <= y
  PROVE  EFF_APOS(x) <= EFF_APOS(y) /\ EFF_APOS(x) \in Nat /\ EFF_APOS(y) \in Nat
<1> DEFINE E == EffMapScale
           a == x \div E
           b == y \div E
<1>1. E \in Nat \ {0}
  BY EffAssumption
<1> HIDE DEF E
<1>2. a \in Nat /\ b \in Nat /\ E * a <= x /\ y < E * (b + 1)
  <2>1. x % E \in 0..(E - 1) /\ a \in Int /\ x = E * a + (x % E)
    BY <1>1, Divided
  <2>2. y % E \in 0..(E - 1) /\ b \in Int /\ y = E * b + (y % E)
    BY <1>1, Divided
  <2>3. a \in Nat /\ b \in Nat
    BY <1>1
  <2> HIDE DEF a, b
  <2>4. E * (b + 1) = E * b + E /\ E * b \in Int /\ E * a \in Int
    BY <1>1, <2>3
  <2>5. E * a <= x /\ y < E * (b + 1)
    BY <1>1, <2>1, <2>2, <2>4
  <2> QED
    BY <2>3, <2>5
<1> HIDE DEF a, b
<1>3. a <= b
  <2> SUFFICES ASSUME a >= b + 1 PROVE FALSE
    BY <1>2
  <2>1. E * (b + 1) <= E * a
    BY <1>1, <1>2
  <2>2. E * (b + 1) \in Int /\ E * a \in Int
    BY <1>1, <1>2
  <2> QED
    BY <1>2, <2>1, <2>2
<1> QED
  BY <1>2, <1>3 DEF a, b, E, EFF_APOS

(* A buffer that differs only within a span of no effect is ineffective.   *)
LEMMA PassedOver ==
  ASSUME in_buf \in Seq(Bytes), NEW i \in Nat, NEW w \in Nat \ {0}, NEW c,
         Beside(in_buf, c, i, w), ~Effective(i, w)
  PROVE  Ineffective(c)
<1> SUFFICES ASSUME NEW p \in Changed(in_buf, c)
             PROVE  EFF_APOS(p \div ByteBits) \notin eff_map
  BY DEF Ineffective
<1>1. Len(in_buf) \in Nat /\ DOMAIN in_buf = 1..Len(in_buf)
  OBVIOUS
<1>2. p \in 0..(ByteBits * Len(in_buf) - 1)
      /\ Bit(in_buf[p \div ByteBits + 1], BitOf(p)) # Bit(c[p \div ByteBits + 1], BitOf(p))
  BY DEF Changed
<1>3. p \div ByteBits \in 0..(Len(in_buf) - 1) /\ p \div ByteBits + 1 \in 1..Len(in_buf)
  BY <1>1, <1>2, Position
<1> DEFINE q == p \div ByteBits
<1>4. q \in Nat /\ q + 1 \in DOMAIN in_buf /\ (q + 1) - 1 = q
  BY <1>1, <1>3
<1>5. in_buf[q + 1] # c[q + 1]
  BY <1>2
<1> HIDE DEF q
<1>6. q \in Span(i, w)
  BY <1>4, <1>5 DEF Beside
<1>7. i <= q /\ q <= i + w - 1 /\ i + w - 1 \in Nat
  BY <1>4, <1>6 DEF Span
<1>8. EFF_APOS(i) <= EFF_APOS(q) /\ EFF_APOS(q) \in Nat /\ EFF_APOS(i) \in Nat
  BY <1>4, <1>7, CellsInOrder
<1>9. EFF_APOS(q) <= EFF_APOS(i + w - 1) /\ EFF_APOS(i + w - 1) \in Nat
  <2>1. PICK e \in Nat : e = i + w - 1
    BY <1>7
  <2>2. EFF_APOS(q) <= EFF_APOS(e) /\ EFF_APOS(e) \in Nat
    BY <1>4, <1>7, <2>1, CellsInOrder
  <2> QED
    BY <2>1, <2>2
<1>10. EFF_APOS(q) \in EFF_SPAN(i, w)
  BY <1>8, <1>9 DEF EFF_SPAN
<1> QED
  BY <1>10 DEF Effective, q

LEMMA FlipBeside ==
  ASSUME NEW b, NEW i, NEW n PROVE Beside(b, FlipBytes(b, i, n), i, n)
BY DEF FlipBytes, Beside

-----------------------------------------------------------------------------
(***************************************************************************)
(* What the stages have walked over                                        *)
(***************************************************************************)
(* The order of the stages.                                                *)
Turn == [start |-> 0, flip1 |-> 1, flip2 |-> 2, flip4 |-> 3, flip8 |-> 4,
         flip16 |-> 5, flip32 |-> 6, arith8 |-> 7, arith16 |-> 8, arith32 |-> 9,
         int8 |-> 10, int16 |-> 11, int32 |-> 12, ext_UO |-> 13, ext_UI |-> 14,
         ext_AO |-> 15, done |-> 16]

(* The stages before the effector map is in use.                           *)
Early == {"flip1", "flip2", "flip4", "flip8"}

(* The buffers a stage is about at an offset.                              *)
Sums(b, i, w) == {Sum(b, i, w, d) : d \in Deltas} \cup {SwappedSum(b, i, w, d) : d \in Deltas}
Values(b, i, w) ==
  {Put(b, i, w, v) : v \in Range(Interesting[w])}
  \cup IF w = 1 THEN {} ELSE {Put(b, i, w, Swap(w, v)) : v \in Range(Interesting[w])}

Buffers(b, s, i) == IF s \in Flips THEN {FlipAt(b, s, i)}
                    ELSE IF s \in DOMAIN Arith THEN Sums(b, i, Arith[s])
                    ELSE Values(b, i, Interest[s])

(* With AFL_NO_ARITH only the flips are accounted for.                     *)
Wanted == Flips \cup (IF no_arith THEN {} ELSE Words)

Excused(c) == Crossing(c) \/ Ineffective(c)
Past(s, i) == Turn[s] < Turn[stage] \/ (s = stage /\ i < pos)
Done(s, c) == c \in tried \/ (s \notin Early /\ Excused(c))

Walked ==
  stage \in DOMAIN Turn =>
    /\ in_buf \in tried
    /\ \A s \in Wanted, i \in Nat :
         i < Offsets(s) /\ Past(s, i) => \A c \in Buffers(in_buf, s, i) : Done(s, c)

LostExcused ==
  /\ stage \in {"start"} \cup Flips => lost = {}
  /\ ~no_arith => \A c \in lost : Excused(c)

LEMMA Turns ==
  /\ DOMAIN Turn = {"start", "flip1", "flip2", "flip4", "flip8", "flip16", "flip32", "arith8",
                    "arith16", "arith32", "int8", "int16", "int32", "ext_UO", "ext_UI", "ext_AO",
                    "done"}
  /\ Turn["start"] = 0 /\ Turn["flip1"] = 1 /\ Turn["flip2"] = 2 /\ Turn["flip4"] = 3
  /\ Turn["flip8"] = 4 /\ Turn["flip16"] = 5 /\ Turn["flip32"] = 6 /\ Turn["arith8"] = 7
  /\ Turn["arith16"] = 8 /\ Turn["arith32"] = 9 /\ Turn["int8"] = 10 /\ Turn["int16"] = 11
  /\ Turn["int32"] = 12 /\ Turn["ext_UO"] = 13 /\ Turn["ext_UI"] = 14 /\ Turn["ext_AO"] = 15
  /\ Turn["done"] = 16
BY DEF Turn

LEMMA FlipStages ==
  /\ BitWalk["flip1"] = 1 /\ BitWalk["flip2"] = 2 /\ BitWalk["flip4"] = 4
  /\ DOMAIN BitWalk = {"flip1", "flip2", "flip4"}
  /\ ByteWalk["flip8"] = 1 /\ ByteWalk["flip16"] = 2 /\ ByteWalk["flip32"] = 4
  /\ DOMAIN ByteWalk = {"flip8", "flip16", "flip32"}
  /\ Arith["arith8"] = 1 /\ Arith["arith16"] = 2 /\ Arith["arith32"] = 4
  /\ Interest["int8"] = 1 /\ Interest["int16"] = 2 /\ Interest["int32"] = 4
BY DEF BitWalk, ByteWalk, Arith, Interest

LEMMA WidthOf ==
  ASSUME len \in Nat \ {0}
  PROVE  /\ \A s \in DOMAIN BitWalk :
              Offsets(s) = ByteBits * len - (BitWalk[s] - 1)
         /\ \A s \in DOMAIN ByteWalk : Width(s) = ByteWalk[s] /\ Offsets(s) = len - (ByteWalk[s] - 1)
         /\ \A s \in DOMAIN Arith : Width(s) = Arith[s] /\ Offsets(s) = len - (Arith[s] - 1)
         /\ \A s \in DOMAIN Interest : Width(s) = Interest[s] /\ Offsets(s) = len - (Interest[s] - 1)
<1>1. \A s \in DOMAIN BitWalk : Offsets(s) = ByteBits * len - (BitWalk[s] - 1)
  BY DEF Offsets
<1>2. ASSUME NEW s \in DOMAIN ByteWalk \cup DOMAIN Arith \cup DOMAIN Interest
      PROVE  Offsets(s) = len - (Width(s) - 1)
  <2>1. s \notin DOMAIN BitWalk /\ s # "ext_UI"
    BY StageNames, FlipStages
  <2> QED
    BY <2>1 DEF Offsets
<1>3. \A s \in DOMAIN ByteWalk : Width(s) = ByteWalk[s]
  BY StageNames, FlipStages DEF Width
<1>4. \A s \in DOMAIN Arith : Width(s) = Arith[s]
  BY StageNames, FlipStages DEF Width
<1>5. \A s \in DOMAIN Interest : Width(s) = Interest[s]
  BY StageNames, FlipStages DEF Width
<1> QED
  BY <1>1, <1>2, <1>3, <1>4, <1>5

(* Once all flips are done, every flip a word stage supposes was made.     *)
LEMMA FlipsDone ==
  ASSUME Walked, len \in Nat \ {0}, stage \in Words, NEW c, FlipsAt(c)
  PROVE  c \in tried \/ Excused(c)
<1>1. /\ stage \in DOMAIN Turn
      /\ \A s \in Flips : Turn[s] < Turn[stage] /\ s \in Wanted
  <2>1. stage \in {"arith8", "arith16", "arith32", "int8", "int16", "int32"}
    BY StageNames DEF Words
  <2>2. stage \in DOMAIN Turn /\ Turn[stage] \in {7, 8, 9, 10, 11, 12}
    BY <2>1, Turns
  <2>3. \A s \in Flips : Turn[s] \in {1, 2, 3, 4, 5, 6}
    BY StageNames, Turns
  <2> QED
    BY <2>2, <2>3 DEF Wanted
<1>2. in_buf \in tried
  BY <1>1 DEF Walked
<1>3. ASSUME NEW s \in Flips, NEW i \in Nat, i < Offsets(s), c = FlipAt(in_buf, s, i)
      PROVE  c \in tried \/ Excused(c)
  <2>1. Past(s, i) /\ s \in Wanted
    BY <1>1, <1>3 DEF Past
  <2>2. c \in Buffers(in_buf, s, i)
    BY <1>3 DEF Buffers
  <2>3. Done(s, c)
    BY <1>1, <1>3, <2>1, <2>2 DEF Walked
  <2> QED
    BY <2>3 DEF Done
<1>4. ASSUME NEW n \in {1, 2, 4}, NEW p \in Nat, p + n - 1 \in Positions(in_buf),
             c = FlipBits(in_buf, p, n)
      PROVE  c \in tried \/ Excused(c)
  <2>1. PICK s \in DOMAIN BitWalk : BitWalk[s] = n
    BY FlipStages
  <2>2. Offsets(s) = ByteBits * len - (n - 1)
    BY <2>1, WidthOf
  <2>3. p < Offsets(s)
    <3>1. p + n - 1 <= ByteBits * len - 1 /\ ByteBits * len \in Int
      BY <1>4, BytesAssumption DEF Positions, len
    <3> QED
      BY <2>2, <3>1
  <2>4. c = FlipAt(in_buf, s, p) /\ s \in Flips
    BY <1>4, <2>1 DEF FlipAt, Flips
  <2> QED
    BY <1>3, <2>3, <2>4
<1>5. ASSUME NEW n \in {1, 2, 4}, NEW j \in Nat, j + n <= len, c = FlipBytes(in_buf, j, n)
      PROVE  c \in tried \/ Excused(c)
  <2>1. PICK s \in DOMAIN ByteWalk : ByteWalk[s] = n
    BY FlipStages
  <2>2. Offsets(s) = len - (n - 1)
    BY <2>1, WidthOf
  <2>3. j < Offsets(s)
    BY <1>5, <2>2
  <2>4. c = FlipAt(in_buf, s, j) /\ s \in Flips
    <3>1. s \notin DOMAIN BitWalk
      BY FlipStages
    <3> QED
      BY <1>5, <2>1, <3>1 DEF FlipAt, Flips
  <2> QED
    BY <1>3, <2>3, <2>4
<1> QED
  BY <1>2, <1>4, <1>5 DEF FlipsAt, Excused

(* So was every sum of an arithmetic stage that is over, ...               *)
LEMMA SumsDone ==
  ASSUME Walked, len \in Nat \ {0}, ~no_arith, stage \in Words, NEW c,
         NEW s \in DOMAIN Arith, Turn[s] < Turn[stage], SumOf(in_buf, c, Arith[s])
  PROVE  c \in tried \/ Excused(c)
<1>1. stage \in DOMAIN Turn /\ s \in Wanted /\ s \notin Flips
  BY StageNames, Turns DEF Words, Wanted
<1>2. PICK i \in Nat, d \in Deltas :
        /\ i + Arith[s] <= len
        /\ c \in {Sum(in_buf, i, Arith[s], d), SwappedSum(in_buf, i, Arith[s], d)}
  BY DEF SumOf, len
<1>3. c \in Buffers(in_buf, s, i)
  BY <1>1, <1>2 DEF Buffers, Sums
<1>4. i < Offsets(s)
  <2>1. Arith[s] \in {1, 2, 4} /\ Offsets(s) = len - (Arith[s] - 1)
    BY WidthOf, StageNames, FlipStages
  <2> QED
    BY <1>2, <2>1
<1>5. Past(s, i)
  BY DEF Past
<1>6. Done(s, c)
  BY <1>1, <1>3, <1>4, <1>5 DEF Walked
<1> QED
  BY <1>6 DEF Done

(* ... and every value of an interest stage that is over.                  *)
LEMMA ValuesDone ==
  ASSUME Walked, len \in Nat \ {0}, ~no_arith, stage \in Words, NEW c,
         NEW s \in DOMAIN Interest, Turn[s] < Turn[stage], ValueOf(in_buf, c, Interest[s])
  PROVE  c \in tried \/ Excused(c)
<1>1. stage \in DOMAIN Turn /\ s \in Wanted /\ s \notin Flips /\ s \notin DOMAIN Arith
  BY StageNames, Turns DEF Words, Wanted
<1> DEFINE w == Interest[s]
<1>2. PICK i \in Nat, v \in Range(Interesting[w]) :
        /\ i + w <= len
        /\ c = Put(in_buf, i, w, v) \/ (w > 1 /\ c = Put(in_buf, i, w, Swap(w, v)))
  BY DEF ValueOf, len
<1>3. w \in {1, 2, 4}
  BY StageNames, FlipStages
<1>4. c \in Buffers(in_buf, s, i)
  <2>1. w > 1 => w # 1
    OBVIOUS
  <2>2. c \in Values(in_buf, i, w)
    <3> HIDE DEF w
    <3> QED
      BY <1>2, <2>1 DEF Values
  <2> QED
    BY <1>1, <2>2 DEF Buffers
<1>5. i < Offsets(s)
  <2>1. Offsets(s) = len - (w - 1)
    BY WidthOf
  <2> QED
    BY <1>2, <1>3, <2>1
<1>6. Past(s, i)
  BY DEF Past
<1>7. Done(s, c)
  BY <1>1, <1>4, <1>5, <1>6 DEF Walked
<1> QED
  BY <1>7 DEF Done

(* What an arithmetic stage leaves out at an offset was tried or is        *)
(* excused, ...                                                            *)
LEMMA ArithDone ==
  ASSUME Walked, in_buf \in Seq(Bytes), len \in Nat \ {0}, ~no_arith, NEW s \in DOMAIN Arith,
         stage = s, NEW i \in Nat, i < Offsets(s),
         NEW n \in 1..PerOffset(s), ~ArithTries(in_buf, s, i)[n].run
  PROVE  ArithTries(in_buf, s, i)[n].buf \in tried \/ Excused(ArithTries(in_buf, s, i)[n].buf)
<1> DEFINE c == ArithTries(in_buf, s, i)[n].buf
           w == Arith[s]
<1>1. w \in {1, 2, 4} /\ i + w <= len /\ s \in Words
  <2>1. w \in {1, 2, 4} /\ Offsets(s) = len - (w - 1)
    BY WidthOf, StageNames, FlipStages
  <2> QED
    BY <2>1 DEF Words
<1>2. FlipsAt(c) \/ (w \in {2, 4} /\ SumOf(in_buf, c, HalfOf(w)))
  BY <1>1, ArithLeft
<1>3. CASE FlipsAt(c)
  <2> HIDE DEF c
  <2>1. c \in tried \/ Excused(c)
    BY <1>1, <1>3, FlipsDone
  <2> QED
    BY <2>1 DEF c
<1>4. CASE w \in {2, 4} /\ SumOf(in_buf, c, HalfOf(w))
  <2>1. PICK r \in DOMAIN Arith : Arith[r] = HalfOf(w) /\ Turn[r] < Turn[stage]
    <3>1. CASE s = "arith16"
      BY <3>1, StageNames, FlipStages, Turns DEF HalfOf
    <3>2. CASE s = "arith32"
      BY <3>2, StageNames, FlipStages, Turns DEF HalfOf
    <3> QED
      BY <1>4, <3>1, <3>2, StageNames, FlipStages
  <2> HIDE DEF c
  <2>2. c \in tried \/ Excused(c)
    BY <1>1, <1>4, <2>1, SumsDone
  <2> QED
    BY <2>2 DEF c
<1> QED
  BY <1>2, <1>3, <1>4

(* ... and so was what an interest stage leaves out, unless it is executed *)
(* at this very offset.                                                    *)
LEMMA KnownDone ==
  ASSUME Walked, len \in Nat \ {0}, ~no_arith, NEW s \in DOMAIN Interest, stage = s,
         NEW c, Known(c, Interest[s])
  PROVE  c \in tried \/ Excused(c)
<1> DEFINE w == Interest[s]
<1>1. w \in {1, 2, 4} /\ s \in Words
  BY StageNames, FlipStages DEF Words
<1>2. CASE FlipsAt(c)
  BY <1>1, <1>2, FlipsDone
<1>3. ASSUME NEW h \in {1, 2, 4}, SumOf(in_buf, c, h) PROVE c \in tried \/ Excused(c)
  <2>1. PICK r \in DOMAIN Arith : Arith[r] = h /\ Turn[r] < Turn[stage]
    <3>1. Turn[stage] \in {10, 11, 12}
      BY StageNames, Turns
    <3>2. \A r \in DOMAIN Arith : Turn[r] \in {7, 8, 9}
      BY StageNames, Turns
    <3>3. PICK r \in DOMAIN Arith : Arith[r] = h
      BY StageNames, FlipStages
    <3> QED
      BY <3>1, <3>2, <3>3
  <2> QED
    BY <1>1, <1>3, <2>1, SumsDone
<1>4. ASSUME NEW h \in {1, 2}, h < w, ValueOf(in_buf, c, h) PROVE c \in tried \/ Excused(c)
  <2>1. PICK r \in DOMAIN Interest : Interest[r] = h /\ Turn[r] < Turn[stage]
    <3>1. (s = "int16" /\ h = 1) \/ (s = "int32" /\ h \in {1, 2})
      BY <1>4, StageNames, FlipStages
    <3>2. CASE h = 1
      BY <3>1, <3>2, StageNames, FlipStages, Turns
    <3>3. CASE h = 2
      BY <3>1, <3>3, StageNames, FlipStages, Turns
    <3> QED
      BY <3>2, <3>3
  <2> QED
    BY <1>1, <1>4, <2>1, ValuesDone
<1>5. Known(c, w)
  OBVIOUS
<1> HIDE DEF w
<1> QED
  BY <1>2, <1>3, <1>4, <1>5 DEF Known

LEMMA InterestDone ==
  ASSUME Walked, in_buf \in Seq(Bytes), len \in Nat \ {0}, ~no_arith, NEW s \in DOMAIN Interest,
         stage = s, NEW i \in Nat, i < Offsets(s),
         NEW n \in 1..PerOffset(s), ~InterestTries(in_buf, s, i)[n].run
  PROVE  \/ InterestTries(in_buf, s, i)[n].buf \in tried
         \/ InterestTries(in_buf, s, i)[n].buf \in Executed(InterestTries(in_buf, s, i))
         \/ Excused(InterestTries(in_buf, s, i)[n].buf)
<1> DEFINE T == InterestTries(in_buf, s, i)
           w == Interest[s]
<1>1. w \in {1, 2, 4} /\ i + w <= len
  <2>1. w \in {1, 2, 4} /\ Offsets(s) = len - (w - 1)
    BY WidthOf, StageNames, FlipStages
  <2> QED
    BY <2>1
<1>2. DOMAIN T = 1..PerOffset(s)
  BY InterestPuts
<1>3. ASSUME NEW m \in 1..PerOffset(s), ~T[m].run
      PROVE  \/ Known(T[m].buf, w)
             \/ /\ KindAt(s, m) # 0
                /\ \E k \in 1..PerOffset(s) : KindAt(s, k) = 0 /\ T[k].buf = T[m].buf
  BY <1>1, <1>3, InterestLeft
<1> HIDE DEF T
<1>4. ASSUME NEW c, Known(c, w) PROVE c \in tried \/ Excused(c)
  BY <1>4, KnownDone
<1> HIDE DEF w
<1>5. ASSUME NEW k \in 1..PerOffset(s), KindAt(s, k) = 0
      PROVE  T[k].buf \in tried \/ T[k].buf \in Executed(T) \/ Excused(T[k].buf)
  <2>1. CASE T[k].run
    BY <1>2, <2>1 DEF Executed, Runs
  <2>2. CASE ~T[k].run
    <3>1. Known(T[k].buf, w)
      BY <1>3, <1>5, <2>2
    <3> QED
      BY <1>4, <3>1
  <2> QED
    BY <2>1, <2>2
<1>6. ~T[n].run
  BY DEF T
<1>7. T[n].buf \in tried \/ T[n].buf \in Executed(T) \/ Excused(T[n].buf)
  <2>1. CASE Known(T[n].buf, w)
    BY <1>4, <2>1
  <2>2. CASE \E k \in 1..PerOffset(s) : KindAt(s, k) = 0 /\ T[k].buf = T[n].buf
    <3>1. PICK k \in 1..PerOffset(s) : KindAt(s, k) = 0 /\ T[k].buf = T[n].buf
      BY <2>2
    <3>2. T[k].buf \in tried \/ T[k].buf \in Executed(T) \/ Excused(T[k].buf)
      BY <1>5, <3>1
    <3> QED
      BY <3>1, <3>2
  <2> QED
    BY <1>3, <1>6, <2>1, <2>2
<1> QED
  BY <1>7 DEF T

LEMMA ValuesTried ==
  ASSUME NEW s \in DOMAIN Interest, NEW w, w = Interest[s], NEW b \in Seq(Bytes), NEW i \in Nat,
         NEW c \in Values(b, i, w)
  PROVE  \E n \in 1..PerOffset(s) : InterestTries(b, s, i)[n].buf = c
<1>1. PICK v \in Range(Interesting[w]) :
        c = Put(b, i, w, v) \/ (w # 1 /\ c = Put(b, i, w, Swap(w, v)))
  BY DEF Values
<1>2. CASE c = Put(b, i, w, v)
  <2>1. \E n \in 1..PerOffset(s) :
          KindAt(s, n) = 0 /\ InterestTries(b, s, i)[n].buf = Put(b, i, w, v)
    BY InterestCovers
  <2> QED
    BY <1>2, <2>1
<1>3. CASE w # 1 /\ c = Put(b, i, w, Swap(w, v))
  <2>1. PICK y : y = Swap(w, v)
    OBVIOUS
  <2>2. \E n \in 1..PerOffset(s) : InterestTries(b, s, i)[n].buf = Put(b, i, w, y)
    BY <1>3, <2>1, InterestCoversSwapped
  <2> QED
    BY <1>3, <2>1, <2>2
<1> QED
  BY <1>1, <1>2, <1>3

(* The tries of a word stage, and what becomes of them.                    *)
WordTries(s) == IF s \in DOMAIN Arith THEN ArithTries(in_buf, s, pos)
                ELSE InterestTries(in_buf, s, pos)

LEMMA WordDone ==
  ASSUME Walked, Kept, ~no_arith, NEW s \in Words, stage = s, pos < Offsets(s),
         NEW T, T = WordTries(s)
  PROVE  /\ \A n \in DOMAIN T : T[n].buf \in tried \cup Executed(T) \/ Excused(T[n].buf)
         /\ \A c \in Buffers(in_buf, s, pos) : \E n \in DOMAIN T : T[n].buf = c
<1>1. in_buf \in Seq(Bytes) /\ len \in Nat \ {0} /\ pos \in Nat /\ s \notin Flips
  <2>1. s # "over" /\ s \notin Flips
    BY StageNames DEF Words
  <2> QED
    BY <2>1, InputLong, FilesAssumption DEF Kept
<1>2. CASE s \in DOMAIN Arith
  <2>1. T = ArithTries(in_buf, s, pos) /\ DOMAIN T = 1..PerOffset(s)
    <3>1. T = ArithTries(in_buf, s, pos)
      BY <1>2 DEF WordTries
    <3> QED
      BY <1>2, <3>1, ArithPuts
  <2>2. ASSUME NEW n \in DOMAIN T, ~T[n].run PROVE T[n].buf \in tried \/ Excused(T[n].buf)
    BY <1>1, <1>2, <2>1, <2>2, ArithDone
  <2>3. ASSUME NEW n \in DOMAIN T, T[n].run PROVE T[n].buf \in Executed(T)
    BY <2>3 DEF Executed, Runs
  <2>4. ASSUME NEW c \in Buffers(in_buf, s, pos) PROVE \E n \in DOMAIN T : T[n].buf = c
    <3> DEFINE w == Arith[s]
    <3>1. w \in {1, 2, 4} /\ pos + w <= Len(in_buf)
      <4>1. w \in {1, 2, 4} /\ Offsets(s) = len - (w - 1)
        BY <1>1, <1>2, WidthOf, StageNames, FlipStages
      <4> QED
        BY <1>1, <4>1 DEF len
    <3>2. c \in Sums(in_buf, pos, w)
      BY <1>1, <1>2 DEF Buffers
    <3>3. PICK d \in Deltas : c \in {Sum(in_buf, pos, w, d), SwappedSum(in_buf, pos, w, d)}
      BY <3>2 DEF Sums
    <3>4. /\ \E n \in 1..PerOffset(s) : ArithTries(in_buf, s, pos)[n].buf = Sum(in_buf, pos, w, d)
          /\ \E n \in 1..PerOffset(s) : ArithTries(in_buf, s, pos)[n].buf = SwappedSum(in_buf, pos, w, d)
      BY <1>1, <1>2, <3>1, ArithCovers
    <3> QED
      BY <2>1, <3>3, <3>4
  <2> QED
    BY <2>2, <2>3, <2>4
<1>3. CASE s \in DOMAIN Interest
  <2>1. T = InterestTries(in_buf, s, pos) /\ DOMAIN T = 1..PerOffset(s)
    <3>1. T = InterestTries(in_buf, s, pos)
      BY <1>3, StageNames DEF WordTries
    <3> QED
      BY <1>3, <3>1, InterestPuts
  <2>2. ASSUME NEW n \in DOMAIN T, ~T[n].run
        PROVE  T[n].buf \in tried \/ T[n].buf \in Executed(T) \/ Excused(T[n].buf)
    BY <1>1, <1>3, <2>1, <2>2, InterestDone
  <2>3. ASSUME NEW n \in DOMAIN T, T[n].run PROVE T[n].buf \in Executed(T)
    BY <2>3 DEF Executed, Runs
  <2>4. ASSUME NEW c \in Buffers(in_buf, s, pos) PROVE \E n \in DOMAIN T : T[n].buf = c
    <3> DEFINE w == Interest[s]
    <3>1. w \in {1, 2, 4}
      BY <1>3, StageNames, FlipStages
    <3>2. c \in Values(in_buf, pos, w)
      BY <1>1, <1>3, StageNames DEF Buffers
    <3>3. \E n \in 1..PerOffset(s) : InterestTries(in_buf, s, pos)[n].buf = c
      <4>1. in_buf \in Seq(Bytes) /\ pos \in Nat
        BY <1>1
      <4> QED
        BY <1>3, <3>2, <4>1, ValuesTried
    <3> QED
      BY <2>1, <3>3
  <2> QED
    BY <2>2, <2>3, <2>4
<1> QED
  BY <1>2, <1>3 DEF Words

-----------------------------------------------------------------------------
(***************************************************************************)
(* The steps keep it                                                       *)
(***************************************************************************)
LEMMA ExcusedOn ==
  ASSUME UNCHANGED <<in_buf, eff_map>>, NEW c, Excused(c) PROVE Excused(c)'
BY DEF Excused, Crossing, Ineffective, len

(* While the effector map is being built, only flips have had their turn.  *)
LEMMA EarlyTurns ==
  ASSUME stage \in {"start"} \cup Early, NEW s \in Flips \cup Words, NEW i, Past(s, i)
  PROVE  s \in Early
<1>1. Turn[stage] \in {0, 1, 2, 3, 4} /\ (stage = "start" => Turn[stage] = 0)
  BY Turns DEF Early
<1>2. s \in {"flip1", "flip2", "flip4", "flip8"} \/ Turn[s] \in {5, 6, 7, 8, 9, 10, 11, 12}
  BY StageNames, Turns DEF Words
<1>3. s \in {"flip1", "flip2", "flip4", "flip8"} \/ ~(Turn[s] < Turn[stage])
  BY <1>1, <1>2
<1> QED
  BY <1>1, <1>2, <1>3 DEF Past, Early

LEMMA WantedNames == Wanted \subseteq Flips \cup Words
BY DEF Wanted

(* What a step adds to the walk is done.                                   *)
NewDone == \A s \in Wanted, i \in Nat :
             i < Offsets(s) /\ (Past(s, i))' /\ ~Past(s, i)
               => \A c \in Buffers(in_buf, s, i) : (Done(s, c))'

LEMMA WalkedOn ==
  ASSUME Walked, stage \in DOMAIN Turn, UNCHANGED <<in_buf, no_arith, extras>>,
         tried \subseteq tried', UNCHANGED eff_map \/ stage \in {"start"} \cup Early, NewDone
  PROVE  Walked'
<1>1. in_buf' \in tried'
  BY DEF Walked
<1>2. Wanted' = Wanted
  BY DEF Wanted
<1>3. ASSUME NEW s \in Wanted, NEW i \in Nat, i < Offsets(s), Past(s, i),
             NEW c \in Buffers(in_buf, s, i)
      PROVE  (Done(s, c))'
  <2>1. Done(s, c)
    BY <1>3 DEF Walked
  <2>2. CASE c \in tried
    BY <2>2 DEF Done
  <2>3. CASE s \notin Early /\ Excused(c)
    <3>1. UNCHANGED eff_map
      BY <1>3, <2>3, EarlyTurns, WantedNames
    <3>2. (Excused(c))'
      BY <2>3, <3>1, ExcusedOn
    <3> QED
      BY <2>3, <3>2 DEF Done
  <2> QED
    BY <2>1, <2>2, <2>3 DEF Done
<1>4. ASSUME NEW s \in Wanted, NEW i \in Nat, (i < Offsets(s))', (Past(s, i))',
             NEW c \in Buffers(in_buf', s, i)
      PROVE  (Done(s, c))'
  <2>1. (Offsets(s))' = Offsets(s)
    <3>1. s # "ext_AO"
      BY WantedNames, StageNames DEF Words
    <3> QED
      BY <3>1, SameCounts
  <2>2. i < Offsets(s) /\ c \in Buffers(in_buf, s, i)
    BY <1>4, <2>1
  <2> QED
    BY <1>3, <1>4, <2>2 DEF NewDone
<1> QED
  BY <1>1, <1>2, <1>4 DEF Walked

(* One more offset of the same stage.                                      *)
LEMMA WalkedStep ==
  ASSUME Walked, NEW s \in DOMAIN Turn, stage = s, stage' = s, pos \in Nat, pos' = pos + 1,
         UNCHANGED <<in_buf, no_arith, extras>>, tried \subseteq tried',
         UNCHANGED eff_map \/ s \in {"start"} \cup Early,
         s \in Wanted => \A c \in Buffers(in_buf, s, pos) : (Done(s, c))'
  PROVE  Walked'
<1>1. ASSUME NEW r \in Wanted, NEW i \in Nat, (Past(r, i))', ~Past(r, i)
      PROVE  r = s /\ i = pos
  BY <1>1 DEF Past
<1>2. NewDone
  BY <1>1 DEF NewDone
<1> QED
  BY <1>2, WalkedOn

LEMMA StageTurns ==
  /\ Stages \subseteq DOMAIN Turn
  /\ {"over", "abandoned"} \cap DOMAIN Turn = {}
BY StageNames, Turns DEF Stages, Words

LEMMA LostOn ==
  ASSUME LostExcused, UNCHANGED <<in_buf, no_arith, lost>>, UNCHANGED eff_map \/ lost = {},
         stage' \in {"start"} \cup Flips => stage \in {"start"} \cup Flips
  PROVE  LostExcused'
<1>1. CASE lost = {}
  BY <1>1 DEF LostExcused
<1>2. CASE UNCHANGED eff_map
  <2>1. stage' \in {"start"} \cup Flips => lost' = {}
    BY DEF LostExcused
  <2>2. ASSUME ~no_arith', NEW c \in lost' PROVE (Excused(c))'
    <3>1. Excused(c)
      BY <2>2 DEF LostExcused
    <3> QED
      BY <1>2, <3>1, ExcusedOn
  <2> QED
    BY <2>1, <2>2 DEF LostExcused
<1> QED
  BY <1>1, <1>2

LEMMA FlipWalked ==
  ASSUME Walked, LostExcused, Kept, Flip1 \/ Flip2 \/ Flip4 \/ Flip8 \/ Flip16 \/ Flip32
  PROVE  Walked' /\ LostExcused'
<1>1. PICK s, b :
        /\ s \in Flips /\ stage = s /\ UNCHANGED <<mode, lost>>
        /\ Through(FlipTries(out_buf, s, pos), b)
        /\ UNCHANGED eff_map \/ s = "flip8"
  <2> USE DEF At, Flips, BitWalk, ByteWalk
  <2>1. CASE Flip1
    BY <2>1 DEF Flip1
  <2>2. CASE Flip2 \/ Flip4
    BY <2>2 DEF Flip2, Flip4, FlipMore
  <2>3. CASE Flip8
    BY <2>3 DEF Flip8
  <2>4. CASE Flip16 \/ Flip32
    BY <2>4 DEF Flip16, Flip32, FlipWord
  <2> QED
    BY <2>1, <2>2, <2>3, <2>4
<1>2. /\ s \in DOMAIN Turn /\ stage' = s /\ pos' = pos + 1 /\ pos \in Nat /\ out_buf = in_buf
      /\ UNCHANGED <<in_buf, no_arith, extras, lost>>
  BY <1>1, StageTurns DEF Stages, Through, mode, Kept, Restored
<1>3. tried' = tried \cup {FlipAt(in_buf, s, pos)}
  <2> DEFINE T == FlipTries(out_buf, s, pos)
  <2>1. DOMAIN T = {1} /\ T[1].buf = FlipAt(in_buf, s, pos) /\ T[1].run = TRUE
    BY <1>2 DEF FlipTries
  <2>2. tried' = tried \cup Executed(T)
    BY <1>1 DEF Through
  <2> HIDE DEF T
  <2> QED
    BY <2>1, <2>2 DEF Executed, Runs
<1>4. ASSUME NEW c \in Buffers(in_buf, s, pos) PROVE (Done(s, c))'
  <2>1. c = FlipAt(in_buf, s, pos)
    BY <1>1 DEF Buffers
  <2> QED
    BY <1>3, <2>1 DEF Done
<1>5. UNCHANGED eff_map \/ s \in {"start"} \cup Early
  BY <1>1 DEF Early
<1>6. Walked'
  BY <1>1, <1>2, <1>3, <1>4, <1>5, WalkedStep
<1>7. lost = {}
  BY <1>1 DEF LostExcused
<1> QED
  BY <1>2, <1>6, <1>7, <1>1, LostOn

LEMMA WordWalked ==
  ASSUME Walked, LostExcused, Kept, Arith8 \/ Arith16 \/ Arith32 \/ Int8 \/ Int16 \/ Int32
  PROVE  Walked' /\ LostExcused'
<1>1. PICK s, T :
        /\ s \in Words /\ At({s}) /\ ChangeWord(s, T)
        /\ s \in DOMAIN Arith => T = ArithTries(out_buf, s, pos)
        /\ s \in DOMAIN Interest => T = InterestTries(out_buf, s, pos)
  <2> USE DEF ArithStage, InterestStage, Arith, Interest, Words
  <2>1. CASE Arith8
    BY <2>1 DEF Arith8
  <2>2. CASE Arith16
    BY <2>2 DEF Arith16
  <2>3. CASE Arith32
    BY <2>3 DEF Arith32
  <2>4. CASE Int8
    BY <2>4 DEF Int8
  <2>5. CASE Int16
    BY <2>5 DEF Int16
  <2>6. CASE Int32
    BY <2>6 DEF Int32
  <2> QED
    BY <2>1, <2>2, <2>3, <2>4, <2>5, <2>6
<1>2. /\ s \in DOMAIN Turn /\ stage = s /\ stage' = s /\ pos < Offsets(s)
      /\ pos' = pos + 1 /\ pos \in Nat /\ out_buf = in_buf
      /\ UNCHANGED <<in_buf, no_arith, extras, eff_map>>
      /\ tried' = tried \cup Executed(T) /\ lost' = lost \cup LeftOut(T)
  BY <1>1, StageTurns DEF Stages, At, ChangeWord, Through, mode, Kept, Restored
<1>3. s \notin {"start"} \cup Flips
  BY <1>1, StageNames DEF Words
<1>4. T = WordTries(s)
  BY <1>1, <1>2 DEF WordTries, Words
<1>5. ASSUME ~no_arith
      PROVE  /\ \A n \in DOMAIN T : T[n].buf \in tried \cup Executed(T) \/ Excused(T[n].buf)
             /\ \A c \in Buffers(in_buf, s, pos) : \E n \in DOMAIN T : T[n].buf = c
  BY <1>1, <1>2, <1>4, <1>5, WordDone
<1>6. ASSUME NEW c, Excused(c) PROVE (Excused(c))'
  BY <1>2, <1>6, ExcusedOn
<1>7. ASSUME s \in Wanted, NEW c \in Buffers(in_buf, s, pos) PROVE (Done(s, c))'
  <2>1. ~no_arith
    BY <1>3, <1>7 DEF Wanted
  <2>2. c \in tried \cup Executed(T) \/ Excused(c)
    BY <1>5, <2>1
  <2>3. s \notin Early
    BY <1>3, StageNames DEF Early
  <2> QED
    BY <1>2, <1>6, <2>2, <2>3 DEF Done
<1>8. Walked'
  BY <1>2, <1>7, WalkedStep
<1>9. ASSUME ~no_arith', NEW c \in lost' PROVE (Excused(c))'
  <2>1. CASE c \in lost
    BY <1>2, <1>6, <1>9, <2>1 DEF LostExcused
  <2>2. CASE c \in LeftOut(T)
    <3>1. PICK n \in DOMAIN T : c = T[n].buf
      BY <2>2 DEF LeftOut
    <3>2. c \notin tried \cup Executed(T)
      BY <2>2 DEF LeftOut
    <3>3. Excused(c)
      BY <1>2, <1>5, <1>9, <3>1, <3>2
    <3> QED
      BY <1>6, <3>3
  <2> QED
    BY <1>2, <1>9, <2>1, <2>2
<1>10. LostExcused'
  BY <1>2, <1>3, <1>9 DEF LostExcused
<1> QED
  BY <1>8, <1>10

(* What a gated stage passes over changes nothing in effect.               *)
LEMMA PassWalked ==
  ASSUME Walked, LostExcused, Kept, PassOver PROVE Walked' /\ LostExcused'
<1>1. PICK s : stage = s
  OBVIOUS
<1>2. /\ s \in Gated /\ pos < Offsets(s) /\ ~Effective(pos, Width(s))
      /\ stage' = s /\ pos' = pos + 1 /\ UNCHANGED <<in_buf, no_arith, extras, eff_map, tried, lost>>
  BY <1>1 DEF PassOver, At, mode
<1>3. s \in DOMAIN Turn /\ s \notin Early /\ s # "over"
      /\ (s \in {"flip16", "flip32"} \/ s \in DOMAIN Arith \/ s \in DOMAIN Interest)
  BY <1>2, StageNames, Turns DEF Gated, Early
<1>4. pos \in Nat /\ in_buf \in Seq(Bytes) /\ len \in Nat \ {0}
  BY <1>1, <1>3, InputLong, FilesAssumption DEF Kept
<1> DEFINE w == Width(s)
<1>5. w \in {1, 2, 4}
  BY <1>3, <1>4, WidthOf, StageNames, FlipStages
<1>6. ASSUME NEW c \in Buffers(in_buf, s, pos) PROVE Beside(in_buf, c, pos, w)
  <2>1. CASE s \in {"flip16", "flip32"}
    <3>1. s \in DOMAIN ByteWalk /\ s \in Flips /\ s \notin DOMAIN BitWalk
      BY <2>1, FlipStages, StageNames
    <3>2. c = FlipBytes(in_buf, pos, ByteWalk[s]) /\ w = ByteWalk[s]
      BY <1>4, <3>1, WidthOf DEF Buffers, FlipAt
    <3> QED
      BY <3>2, FlipBeside
  <2>2. CASE s \in DOMAIN Arith
    <3>1. s \notin Flips /\ w = Arith[s]
      BY <1>4, <2>2, StageNames, WidthOf
    <3>2. c \in Sums(in_buf, pos, w)
      BY <2>2, <3>1 DEF Buffers
    <3>3. \E v : c = Put(in_buf, pos, w, v)
      <4> HIDE DEF w
      <4> QED
        BY <3>2 DEF Sums, Sum, SwappedSum
    <3> QED
      BY <3>3, PutBeside
  <2>3. CASE s \in DOMAIN Interest
    <3>1. s \notin Flips /\ s \notin DOMAIN Arith /\ w = Interest[s]
      BY <1>4, <2>3, StageNames, WidthOf
    <3>2. c \in Values(in_buf, pos, w)
      BY <3>1 DEF Buffers
    <3>3. \E v : c = Put(in_buf, pos, w, v)
      <4> HIDE DEF w
      <4> QED
        BY <3>2 DEF Values
    <3> QED
      BY <3>3, PutBeside
  <2> QED
    BY <1>3, <2>1, <2>2, <2>3
<1>7. ASSUME NEW c \in Buffers(in_buf, s, pos) PROVE (Done(s, c))'
  <2>1. w \in Nat \ {0} /\ ~Effective(pos, w)
    BY <1>2, <1>5
  <2>2. Ineffective(c)
    <3>1. Beside(in_buf, c, pos, w)
      BY <1>6
    <3> HIDE DEF w
    <3> QED
      BY <1>4, <2>1, <3>1, PassedOver
  <2>3. Excused(c)
    BY <2>2 DEF Excused
  <2>4. (Excused(c))'
    BY <1>2, <2>3, ExcusedOn
  <2> QED
    BY <1>3, <2>4 DEF Done
<1>8. Walked'
  <2> HIDE DEF w
  <2> QED
    BY <1>1, <1>2, <1>3, <1>4, <1>7, WalkedStep
<1> QED
  BY <1>1, <1>2, <1>8, LostOn

LEMMA TokenWalked ==
  ASSUME Walked, LostExcused, Kept, UserExtras \/ AutoExtras \/ Insert
  PROVE  Walked' /\ LostExcused'
<1>1. PICK s, T, b : /\ s \in {"ext_UO", "ext_UI", "ext_AO"} /\ stage = s /\ Through(T, b)
                     /\ UNCHANGED <<in_buf, no_arith, extras, eff_map, lost>>
  <2>1. ASSUME NEW s \in {"ext_UO", "ext_UI", "ext_AO"}, At({s}), NEW toks, NEW drop,
               Overwrite(toks, drop)
        PROVE  \E T, b : /\ stage = s /\ Through(T, b)
                         /\ UNCHANGED <<in_buf, no_arith, extras, eff_map, lost>>
    BY <2>1 DEF Overwrite, At, mode
  <2>2. CASE UserExtras
    BY <2>1, <2>2 DEF UserExtras
  <2>3. CASE AutoExtras
    BY <2>1, <2>3 DEF AutoExtras
  <2>4. CASE Insert
    BY <2>4 DEF Insert, At, mode
  <2> QED
    BY <2>2, <2>3, <2>4
<1>2. /\ s \in DOMAIN Turn /\ stage' = s /\ pos' = pos + 1 /\ pos \in Nat
      /\ tried \subseteq tried'
  BY <1>1, Turns DEF Through, Kept
<1>3. s \notin Wanted
  <2>1. s \notin Flips /\ s \notin Words
    BY <1>1, StageNames DEF Words
  <2> QED
    BY <2>1, WantedNames
<1>4. Walked'
  BY <1>1, <1>2, <1>3, WalkedStep
<1> QED
  BY <1>1, <1>2, <1>4, LostOn

LEMMA Jumps ==
  /\ After("start") = "flip1" /\ After("flip1") = "flip2" /\ After("flip2") = "flip4"
  /\ After("flip4") = "flip8"
  /\ After("flip8") = IF len < 2 THEN SkipBitflip ELSE "flip16"
  /\ After("flip16") = IF len < 4 THEN SkipBitflip ELSE "flip32"
  /\ After("flip32") = SkipBitflip
  /\ After("arith8") = IF len < 2 THEN "int8" ELSE "arith16"
  /\ After("arith16") = IF len < 4 THEN "int8" ELSE "arith32"
  /\ After("arith32") = "int8"
  /\ ~no_arith /\ ~(len < 2) => After("int8") = "int16"
  /\ ~(len < 4) => After("int16") = "int32"
BY DEF After

(* A jump over a stage is taken because the input is too short for it or   *)
(* because of AFL_NO_ARITH.                                                *)
LEMMA Skipped ==
  ASSUME len \in Nat, stage \in Stages \cup {"start"}, NEW s \in Flips \cup Words,
         Turn[stage] < Turn[s], Turn[s] < Turn[After(stage)]
  PROVE  \/ s \in {"flip16", "arith16", "int16"} /\ len < 2
         \/ s \in {"flip32", "arith32", "int32"} /\ len < 4
         \/ no_arith /\ s \in Words
<1>1. stage \in {"start", "flip1", "flip2", "flip4", "flip8", "flip16", "flip32", "arith8",
                 "arith16", "arith32", "int8", "int16", "int32", "ext_UO", "ext_UI", "ext_AO"}
  BY StageNames DEF Stages, Words
<1>2. s \in {"flip1", "flip2", "flip4", "flip8", "flip16", "flip32", "arith8",
             "arith16", "arith32", "int8", "int16", "int32"}
  BY StageNames DEF Words
<1>3. /\ s \in {"arith8", "arith16", "arith32", "int8", "int16", "int32"} => s \in Words
      /\ Turn[s] \in 1..12
  BY <1>2, StageNames, Turns DEF Words
<1>4. stage \notin {"ext_UO", "ext_UI", "ext_AO", "int32"}
  BY <1>3, Turns
<1>5. SkipBitflip \in {"int8", "arith8"} /\ (SkipBitflip = "int8" => no_arith)
  BY DEF SkipBitflip
<1>6. CASE stage \in {"start", "flip1", "flip2", "flip4"}
  <2>1. Turn[After(stage)] = Turn[stage] + 1 /\ Turn[stage] \in Nat
    <3>1. CASE stage = "start"
      BY <3>1, Jumps, Turns
    <3>2. CASE stage = "flip1"
      BY <3>2, Jumps, Turns
    <3>3. CASE stage = "flip2"
      BY <3>3, Jumps, Turns
    <3>4. CASE stage = "flip4"
      BY <3>4, Jumps, Turns
    <3> QED
      BY <1>6, <3>1, <3>2, <3>3, <3>4
  <2> QED
    BY <1>3, <2>1
<1>7. CASE stage \in {"flip8", "flip16", "flip32"}
  <2>1. /\ After(stage) \in {"flip16", "flip32", SkipBitflip}
        /\ stage = "flip8" /\ len >= 2 => After(stage) = "flip16"
        /\ stage = "flip8" => After(stage) # "flip32"
        /\ stage = "flip16" => After(stage) # "flip16"
        /\ stage = "flip16" /\ len >= 4 => After(stage) = "flip32"
        /\ stage = "flip32" => After(stage) = SkipBitflip
    BY <1>5, <1>7, Jumps
  <2>2. Turn[stage] \in {4, 5, 6} /\ Turn[SkipBitflip] \in {7, 10}
        /\ (Turn[SkipBitflip] = 10 => no_arith)
    BY <1>5, <1>7, Turns
  <2> QED
    BY <1>2, <1>3, <1>7, <2>1, <2>2, Turns
<1>8. CASE stage \in {"arith8", "arith16", "arith32"}
  <2>1. /\ After(stage) \in {"arith16", "arith32", "int8"}
        /\ stage = "arith8" => After(stage) # "arith32"
        /\ stage = "arith8" /\ ~(len < 2) => After(stage) = "arith16"
        /\ stage = "arith16" /\ ~(len < 4) => After(stage) = "arith32"
        /\ stage = "arith16" => After(stage) # "arith16"
        /\ stage = "arith32" => After(stage) = "int8"
    BY <1>8, Jumps
  <2>2. s \in {"arith16", "arith32"}
    BY <1>2, <1>8, <2>1, Turns
  <2>3. stage = "arith8" => len < 2
    BY <1>8, <2>1, <2>2, Turns
  <2>4. stage # "arith8" => s = "arith32" /\ len < 4
    BY <1>8, <2>1, <2>2, Turns
  <2> QED
    BY <2>2, <2>3, <2>4
<1>9. CASE stage \in {"int8", "int16"}
  <2>1. /\ stage = "int8" => \/ Turn[After(stage)] = 11
                             \/ no_arith \/ len < 2
        /\ stage = "int16" => Turn[After(stage)] = 12 \/ len < 4
    BY <1>9, Jumps, Turns
  <2>2. stage = "int8" => s \in {"int16", "int32"}
    BY <1>2, Turns
  <2>3. stage = "int16" => s = "int32"
    BY <1>2, Turns
  <2> QED
    BY <1>3, <1>9, <2>1, <2>2, <2>3, Turns
<1> QED
  BY <1>1, <1>4, <1>6, <1>7, <1>8, <1>9

LEMMA NothingSkipped ==
  ASSUME Kept, stage \in Stages \cup {"start"}, NEW s \in Wanted,
         Turn[stage] < Turn[s], Turn[s] < Turn[After(stage)], NEW i \in Nat
  PROVE  ~(i < Offsets(s))
<1>1. len \in Nat \ {0}
  BY InputLong, StageNames DEF Outside
<1>2. s \in Flips \cup Words /\ (no_arith => s \notin Words)
  BY StageNames DEF Wanted, Words
<1>3. \/ s \in {"flip16", "arith16", "int16"} /\ len < 2
      \/ s \in {"flip32", "arith32", "int32"} /\ len < 4
  BY <1>1, <1>2, Skipped
<1>4. s \in DOMAIN ByteWalk \cup DOMAIN Arith \cup DOMAIN Interest
  BY <1>3, FlipStages, StageNames
<1>5. CASE s \in {"flip16", "arith16", "int16"} /\ len < 2
  <2>1. Offsets(s) = len - (2 - 1)
    BY <1>1, <1>4, <1>5, WidthOf, FlipStages, StageNames
  <2> QED
    BY <1>1, <1>5, <2>1
<1>6. CASE s \in {"flip32", "arith32", "int32"} /\ len < 4
  <2>1. Offsets(s) = len - (4 - 1)
    BY <1>1, <1>4, <1>6, WidthOf, FlipStages, StageNames
  <2> QED
    BY <1>1, <1>6, <2>1
<1> QED
  BY <1>3, <1>5, <1>6

(* A stage is over when its last offset is; the flips are over before      *)
(* anything is left out.                                                   *)
LEMMA StageWalked ==
  ASSUME Walked, LostExcused, Kept, Counted, NextStage PROVE Walked' /\ LostExcused'
<1>1. PICK t : t = After(stage)
  OBVIOUS
<1>2. /\ stage' = t /\ pos' = 0 /\ UNCHANGED <<in_buf, no_arith, extras, tried, lost>>
      /\ stage = "start" \/ pos >= Offsets(stage)
      /\ UNCHANGED eff_map \/ stage \in Early
  BY <1>1 DEF NextStage, mode, Early
<1>3. stage \in Stages \cup {"start"}
  BY DEF NextStage, Counted, Outside
<1>4. stage \in DOMAIN Turn
  BY <1>3, StageTurns, Turns
<1>5. pos \in Nat /\ len \in Nat \ {0}
  BY <1>3, InputLong, StageNames DEF Kept, Outside
<1>6. ASSUME NEW s \in Wanted, NEW i \in Nat, i < Offsets(s), (Past(s, i))', ~Past(s, i)
      PROVE  FALSE
  <2>1. s \in Flips \cup Words /\ s \in Stages /\ s \in DOMAIN Turn
    BY WantedNames, StageTurns DEF Stages
  <2>2. Turn[s] < Turn[t]
    BY <1>2, <1>6 DEF Past
  <2>3. ~(Turn[s] < Turn[stage]) /\ ~(s = stage /\ i < pos)
    BY <1>6 DEF Past
  <2>4. CASE s = stage
    <3>1. Offsets(s) \in Int
      BY <1>5, <2>1, OffsetsTyped
    <3>2. stage # "start"
      BY <2>1, <2>4, StageNames DEF Outside
    <3> QED
      BY <1>2, <1>5, <1>6, <2>3, <2>4, <3>1, <3>2
  <2>5. CASE s # stage
    <3>1. Turn[s] \in Nat /\ Turn[stage] \in Nat /\ Turn[s] # Turn[stage]
      BY <1>4, <2>1, <2>5, Turns
    <3>2. Turn[stage] < Turn[s]
      BY <2>3, <3>1
    <3> QED
      BY <1>1, <1>3, <1>6, <2>2, <3>2, NothingSkipped
  <2> QED
    BY <2>4, <2>5
<1>7. Walked'
  <2>1. NewDone
    BY <1>6 DEF NewDone
  <2> QED
    BY <1>2, <1>4, <2>1, WalkedOn
<1>8. UNCHANGED eff_map \/ lost = {}
  BY <1>2, StageNames DEF Early, LostExcused
<1>9. t \in {"start"} \cup Flips => stage \in {"start"} \cup Flips
  <2>1. stage \in {"start", "flip1", "flip2", "flip4", "flip8", "flip16", "flip32", "arith8",
                   "arith16", "arith32", "int8", "int16", "int32", "ext_UO", "ext_UI", "ext_AO"}
    BY <1>3, StageNames DEF Stages, Words
  <2>2. stage \in {"start"} \cup Flips
        \/ After(stage) \in {"arith16", "arith32", "int8", "int16", "int32", "ext_UO", "ext_UI",
                             "ext_AO", "done"}
    BY <2>1, StageNames DEF After, SkipInterest, SkipExtras
  <2> QED
    BY <1>1, <2>2, StageNames
<1> QED
  BY <1>2, <1>7, <1>8, <1>9, LostOn

LEMMA WalkedNext ==
  ASSUME Walked, LostExcused, Kept, Counted, [Next]_vars PROVE Walked' /\ LostExcused'
<1>1. CASE SkipDeterministic \/ DetDone
  <2>1. stage' = "over" /\ lost' = {}
    BY <1>1 DEF SkipDeterministic, DetDone, Forget
  <2> QED
    BY <2>1, StageTurns DEF Walked, LostExcused
<1>2. CASE DetAbandoned
  <2>1. stage' = "abandoned" /\ lost' = {}
    BY <1>2 DEF DetAbandoned, Bail
  <2> QED
    BY <2>1, StageTurns DEF Walked, LostExcused
<1>3. CASE step = "off" /\ DNext /\ UNCHANGED hvars
  BY <1>3, StageWalked, FlipWalked, WordWalked, TokenWalked, PassWalked DEF DNext
<1>4. CASE UNCHANGED dvars
  <2>1. UNCHANGED <<stage, pos, in_buf, eff_map, extras, no_arith, tried, lost>>
    BY <1>4 DEF dvars
  <2>2. Walked'
    <3>1. CASE stage \in DOMAIN Turn
      <4>1. NewDone
        BY <2>1 DEF NewDone, Past
      <4> QED
        BY <2>1, <3>1, <4>1, WalkedOn
    <3>2. CASE stage \notin DOMAIN Turn
      BY <2>1, <3>2 DEF Walked
    <3> QED
      BY <3>1, <3>2
  <2> QED
    BY <2>1, <2>2, LostOn
<1> QED
  BY <1>1, <1>2, <1>3, <1>4 DEF Next, vars

LEMMA WalkedInit == ASSUME Init PROVE Walked /\ LostExcused
<1>1. stage = "start" /\ in_buf \in tried /\ lost = {}
  BY DEF Init, DInit
<1>2. ASSUME NEW s \in Wanted, NEW i \in Nat PROVE ~Past(s, i)
  <2>1. s \in Stages /\ s \in DOMAIN Turn /\ s # "start"
    BY WantedNames, StageTurns, StageNames DEF Stages, Outside
  <2>2. ~(Turn[s] < Turn["start"])
    BY <2>1, Turns
  <2> QED
    BY <1>1, <2>1, <2>2 DEF Past
<1> QED
  BY <1>1, <1>2 DEF Walked, LostExcused

(* What could_be_bitflip, could_be_arith and could_be_interest leave out   *)
(* was executed by an earlier stage, for every input, every effector map   *)
(* and every list of interesting values, unless the map rules it out or    *)
(* the flip they suppose runs over the border of two bytes; and it was     *)
(* taken off stage_max.                                                    *)
THEOREM NothingIsLost == Spec => []NothingLost
<1>1. Init => Walked /\ LostExcused /\ Counted /\ Kept
  BY WalkedInit, KeptInit, StageNames DEF Init, DInit, Counted, Outside
<1>2. Walked /\ LostExcused /\ Counted /\ Kept /\ [Next]_vars
        => (Walked /\ LostExcused /\ Counted /\ Kept)'
  BY WalkedNext, CountedNext, KeptNext
<1>3. LostExcused /\ Accounted => NothingLost
  BY DEF LostExcused, Excused, NothingLost
<1> QED
  BY <1>1, <1>2, <1>3, CountersMeet, PTL DEF Spec
=============================================================================
