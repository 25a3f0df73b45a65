--------------------------- MODULE ModArithProofs ---------------------------
(***************************************************************************)
(* What serial-number arithmetic guarantees for every modulus: ranges, and *)
(* the values of % just outside 0 .. M - 1.                                *)
(***************************************************************************)
EXTENDS ModArith, TLAPS

\* A remainder is one of the values of the unsigned type.
LEMMA ModRange ==
    ASSUME NEW M \in Nat \ {0}, NEW a \in Int
    PROVE  a % M \in 0 .. M - 1
  OBVIOUS

\* Values of the unsigned type are their own remainder; one wrap below zero
\* adds the modulus (an unsigned subtraction that borrows).
LEMMA ModSmall ==
    ASSUME NEW M \in Nat \ {0}, NEW a \in 0 .. M - 1
    PROVE  a % M = a
  OBVIOUS

LEMMA ModBorrow ==
    ASSUME NEW M \in Nat \ {0}, NEW a \in -M .. -1
    PROVE  a % M = a + M
  OBVIOUS

\* The signed distance of two values is an integer within half the modulus.
LEMMA ModCmpRange ==
    ASSUME NEW M \in Nat \ {0}, NEW a \in Int, NEW b \in Int
    PROVE  /\ ModCmp(a, b, M) \in Int
           /\ 2 * ModCmp(a, b, M) < M
           /\ -M <= 2 * ModCmp(a, b, M)
  BY ModRange DEF ModCmp

\* An unsigned addition that carries subtracts the modulus.
LEMMA ModCarry ==
    ASSUME NEW M \in Nat \ {0}, NEW a \in M .. 2 * M - 1
    PROVE  a % M = a - M
  OBVIOUS

\* A window that starts at x and is size <= M/2 units long reaches beyond a
\* later point y: then the part of it before y is shorter than size.
LEMMA ModSpan ==
    ASSUME NEW M \in Nat \ {0}, NEW x \in 0 .. M - 1, NEW y \in 0 .. M - 1,
           NEW size \in Nat, 2 * size <= M,
           ModLT(x, y, M), ModGT((x + size) % M, y, M)
    PROVE  (y - x) % M \in Nat /\ (y - x) % M < size
  <1>1. x - y \in Int /\ (x - y) % M \in 0 .. M - 1 /\ 2 * ((x - y) % M) >= M
    BY ModRange DEF ModLT, ModCmp
  <1>2. (y - x) % M = M - ((x - y) % M)
    <2>1. CASE x < y
      <3>1. (x - y) % M = x - y + M
        BY <2>1, ModBorrow, SMTT(60)
      <3>2. (y - x) % M = y - x
        BY <2>1, ModSmall
      <3>. QED BY <3>1, <3>2
    <2>2. CASE x > y
      <3>1. (x - y) % M = x - y
        BY <2>2, ModSmall
      <3>2. (y - x) % M = y - x + M
        BY <2>2, ModBorrow, SMTT(60)
      <3>. QED BY <3>1, <3>2
    <2>3. CASE x = y
      <3>1. (x - y) % M = 0
        BY <2>3, ModSmall
      <3>. QED BY <1>1, <3>1
    <2>. QED BY <2>1, <2>2, <2>3
  <1>. DEFINE c == (y - x) % M
              e == (x + size) % M
  <1>3. c \in Nat /\ 2 * c <= M /\ c > 0
    BY <1>1, <1>2
  <1>4. e \in 0 .. M - 1 /\ (e = x + size \/ e = x + size - M)
    <2>1. CASE x + size < M
      BY <2>1, ModSmall
    <2>2. CASE x + size >= M
      BY <2>2, ModCarry, SMTT(60)
    <2>. QED BY <2>1, <2>2
  <1>5. c = y - x \/ c = y - x + M
    <2>1. CASE y >= x
      BY <2>1, ModSmall
    <2>2. CASE y < x
      BY <2>2, ModBorrow
    <2>. QED BY <2>1, <2>2
  <1>. HIDE DEF c, e
  <1>6. (e - y) % M > 0 /\ 2 * ((e - y) % M) < M
    <2>1. ModGT(e, y, M)
      BY DEF e
    <2>2. (e - y) % M \in 0 .. M - 1
      BY <1>4, ModRange
    <2>. QED BY <2>1, <2>2 DEF ModGT, ModCmp
  <1>7. (e - y) % M = e - y \/ (e - y) % M = e - y + M
    <2>1. CASE e >= y
      BY <1>4, <2>1, ModSmall
    <2>2. CASE e < y
      BY <1>4, <2>2, ModBorrow
    <2>. QED BY <1>4, <2>1, <2>2
  <1>8. c < size
    BY <1>3, <1>4, <1>5, <1>6, <1>7
  <1>. QED BY <1>3, <1>8 DEF c

\* The unsigned difference of two values.
LEMMA ModDifference ==
    ASSUME NEW M \in Nat \ {0}, NEW a \in 0 .. M - 1, NEW b \in 0 .. M - 1
    PROVE  (a - b) % M = IF a >= b THEN a - b ELSE a - b + M
  <1>1. CASE a >= b
    <2>1. a - b \in 0 .. M - 1
      BY <1>1
    <2>. QED BY <1>1, <2>1, ModSmall
  <1>2. CASE ~(a >= b)
    <2>1. a - b \in -M .. -1
      BY <1>2
    <2>. QED BY <1>2, <2>1, ModBorrow
  <1>. QED BY <1>1, <1>2

\* Values that are not the same are in one order or the other.
LEMMA ModOrder ==
    ASSUME NEW M \in Nat \ {0}, NEW a \in 0 .. M - 1, NEW b \in 0 .. M - 1
    PROVE  /\ ModGT(a, b, M) => ModLT(b, a, M)
           /\ ~ModGT(a, b, M) /\ a # b => ModLT(a, b, M)
  <1>1. (a - b) % M = IF a >= b THEN a - b ELSE a - b + M
    BY ModDifference
  <1>2. (b - a) % M = IF b >= a THEN b - a ELSE b - a + M
    BY ModDifference
  <1>. QED BY <1>1, <1>2 DEF ModGT, ModLT, ModCmp

\* The signed distance of values less than half the modulus apart is their difference.
LEMMA ModCmpNear ==
    ASSUME NEW M \in Nat \ {0}, NEW a \in 0 .. M - 1, NEW b \in 0 .. M - 1,
           2 * (a - b) < M, 2 * (b - a) < M
    PROVE  ModCmp(a, b, M) = a - b
  <1>1. (a - b) % M = IF a >= b THEN a - b ELSE a - b + M
    BY ModDifference
  <1>. QED BY <1>1 DEF ModCmp

\* Numbers that are less than a window apart have different slots of it.
LEMMA SlotsDiffer ==
    ASSUME NEW W \in Nat \ {0}, NEW a \in Nat, NEW b \in Nat, a - b < W, b - a < W,
           a % W = b % W
    PROVE  a = b
  <1>. DEFINE p == a \div W
              q == b \div W
  <1>1. p \in Int /\ q \in Int /\ a = (W * p) + (a % W) /\ b = (W * q) + (b % W)
    OBVIOUS
  <1>. HIDE DEF p, q
  <1>2. a - b = W * (p - q) /\ b - a = W * (q - p)
    <2>1. W * (p - q) = (W * p) - (W * q) /\ W * (q - p) = (W * q) - (W * p)
      BY <1>1
    <2>2. W * p \in Int /\ W * q \in Int /\ a % W \in Int
      BY <1>1
    <2>. QED BY <1>1, <2>1, <2>2
  <1>3. \A d \in Int : d >= 1 => W * d >= W
    OBVIOUS
  <1>4. ~(p - q >= 1) /\ ~(q - p >= 1)
    BY <1>1, <1>2, <1>3
  <1>5. p = q
    BY <1>1, <1>4
  <1>. QED BY <1>2, <1>5

\* Whole turns do not change a remainder.
LEMMA ModTurns ==
    ASSUME NEW M \in Nat \ {0}, NEW a \in Int, NEW k \in Int
    PROVE  (a + (M * k)) % M = a % M
  <1>. DEFINE b == a + (M * k)
              p == a \div M
              q == b \div M
              r == a % M
              t == b % M
  <1>1. M * k \in Int /\ b \in Int
    OBVIOUS
  <1>2. p \in Int /\ q \in Int /\ a = (M * p) + r /\ r \in 0 .. M - 1
    OBVIOUS
  <1>3. b = (M * q) + t /\ t \in 0 .. M - 1
    <2>. HIDE DEF b
    <2>. QED BY <1>1
  <1>4. (M * q) + t = (M * p) + r + (M * k)
    <2>. HIDE DEF p, q, r, t
    <2>. QED BY <1>2, <1>3
  <1>. HIDE DEF p, q, r, t, b
  <1>5. r - t = M * (q - (p + k)) /\ t - r = M * ((p + k) - q)
    <2>1. M * (q - (p + k)) = (M * q) - ((M * p) + (M * k))
          /\ M * ((p + k) - q) = ((M * p) + (M * k)) - (M * q)
      BY <1>2
    <2>2. M * q \in Int /\ M * p \in Int /\ M * k \in Int /\ r \in Int /\ t \in Int
      BY <1>2, <1>3
    <2>. QED BY <1>4, <2>1, <2>2
  <1>6. \A d \in Int : d >= 1 => M * d >= M
    OBVIOUS
  <1>7. ~(q - (p + k) >= 1) /\ ~((p + k) - q >= 1)
    BY <1>2, <1>3, <1>5, <1>6
  <1>8. q - (p + k) = 0
    BY <1>2, <1>7
  <1>. QED BY <1>2, <1>3, <1>5, <1>8 DEF r, t, b

\* A sum may be reduced at any of its terms.
LEMMA ModAdd ==
    ASSUME NEW M \in Nat \ {0}, NEW a \in Int, NEW b \in Int
    PROVE  ((a % M) + b) % M = (a + b) % M
  <1>. DEFINE p == a \div M
              r == a % M
  <1>1. p \in Int /\ r \in Int /\ a = (M * p) + r /\ M * p \in Int
    OBVIOUS
  <1>. HIDE DEF p, r
  <1>2. ((r + b) + (M * p)) % M = (r + b) % M
    <2>1. \A c \in Int, k \in Int : (c + (M * k)) % M = c % M
      BY ModTurns
    <2>2. r + b \in Int
      BY <1>1
    <2>. QED BY <1>1, <2>1, <2>2, Zenon
  <1>3. (r + b) + (M * p) = a + b
    BY <1>1
  <1>. QED BY <1>2, <1>3 DEF r

\* The difference of two times that are counted from the same one.
LEMMA ModOffsets ==
    ASSUME NEW M \in Nat \ {0}, NEW base \in Int, NEW a \in Int, NEW b \in Int
    PROVE  (((base + a) % M) - ((base + b) % M)) % M = (a - b) % M
  <1>. DEFINE x == (base + a) % M
              y == (base + b) % M
              q == (base + b) \div M
  <1>1. x \in Int /\ y \in Int /\ base + a \in Int
    BY ModRange
  <1>2. (x - y) % M = ((base + a) + (- y)) % M
    <2>1. \A c \in Int, d \in Int : ((c % M) + d) % M = (c + d) % M
      BY ModAdd
    <2>2. - y \in Int
      BY <1>1
    <2>3. (x + (- y)) % M = ((base + a) + (- y)) % M
      BY <1>1, <2>1, <2>2, Zenon
    <2>4. x - y = x + (- y)
      BY <1>1
    <2>. QED BY <2>3, <2>4, Zenon
  <1>3. q \in Int /\ base + b = (M * q) + y /\ M * q \in Int
    OBVIOUS
  <1>. HIDE DEF x, y, q
  <1>4. (base + a) + (- y) = (a - b) + (M * q)
    BY <1>1, <1>3
  <1>5. ((a - b) + (M * q)) % M = (a - b) % M
    <2>1. \A c \in Int, k \in Int : (c + (M * k)) % M = c % M
      BY ModTurns
    <2>2. a - b \in Int
      OBVIOUS
    <2>. QED BY <1>3, <2>1, <2>2, Zenon
  <1>. QED BY <1>2, <1>4, <1>5 DEF x, y

\* Two times less than half the modulus apart compare as their distances from a third.
LEMMA ModCmpOffsets ==
    ASSUME NEW M \in Nat \ {0}, NEW base \in Int, NEW a \in Int, NEW b \in Int,
           2 * (a - b) < M, -M <= 2 * (a - b)
    PROVE  ModCmp((base + a) % M, (base + b) % M, M) = a - b
  <1>1. (((base + a) % M) - ((base + b) % M)) % M = (a - b) % M
    BY ModOffsets
  <1>2. CASE a - b >= 0
    <2>1. (a - b) % M = a - b
      BY <1>2, ModSmall
    <2>. QED BY <1>1, <2>1 DEF ModCmp
  <1>3. CASE a - b < 0
    <2>1. (a - b) % M = a - b + M
      BY <1>3, ModBorrow
    <2>. QED BY <1>1, <2>1 DEF ModCmp
  <1>. QED BY <1>2, <1>3

\* Every time lies at its signed distance from another.
LEMMA ModPlace ==
    ASSUME NEW M \in Nat \ {0}, NEW x \in 0 .. M - 1, NEW y \in 0 .. M - 1
    PROVE  (y + ModCmp(x, y, M)) % M = x
  <1>1. (x - y) % M = IF x >= y THEN x - y ELSE x - y + M
    BY ModDifference
  <1>2. ModCmp(x, y, M) \in {x - y - M, x - y, x - y + M}
    BY <1>1 DEF ModCmp
  <1>3. y + ModCmp(x, y, M) \in {x - M, x, x + M}
    BY <1>2
  <1>4. (x - M) % M = x
    <2>1. CASE x - M \in -M .. -1
      BY <2>1, ModBorrow
    <2>. QED BY <2>1
  <1>5. (x + M) % M = x
    BY ModCarry
  <1>6. x % M = x
    BY ModSmall
  <1>. QED BY <1>3, <1>4, <1>5, <1>6
=============================================================================
