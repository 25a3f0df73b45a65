-------------------------- MODULE RenderLoopProofs --------------------------
(***************************************************************************)
(* Theorems of RenderLoop, for every value of its constants: a read fills  *)
(* the platform's buffer exactly, with every unit at its time; the loop    *)
(* over the nodes implements the one-step read of PlayoutSteps; and no     *)
(* silence is played for a time of which there was audio.                  *)
(***************************************************************************)
EXTENDS RenderLoop, ModArithProofs, SequenceTheorems, TLAPS

LEMMA Constants ==
    /\ TSMod \in Nat \ {0} /\ Latency \in Nat /\ Units \in Nat /\ ReadUnits \in Nat \ {0}
    /\ 2 * (Units + ReadUnits) < TSMod
  BY PlayoutSizes

LEMMA Residue ==
    ASSUME NEW a \in Int
    PROVE  a % TSMod \in Times /\ a % TSMod \in Int
  BY Constants, ModRange DEF Times

\* Sums may be reduced at any of their terms.
LEMMA Sums ==
    \A a \in Int, b \in Int : ((a % TSMod) + b) % TSMod = (a + b) % TSMod
  BY Constants, ModAdd

\* A node's timestamp has moved with its pointer, and a node that was played in part
\* has something left to play.
Node ==
    {n \in [seq : Times, hdr : Times, ts : Times, skip : Nat, size : 0 .. Units] :
        /\ n.ts = (n.hdr + n.skip) % TSMod
        /\ n.skip # 0 => n.size > 0}

LEMMA NodeFields ==
    ASSUME NEW n \in Node
    PROVE  /\ n.ts \in Times /\ n.ts \in Int /\ n.hdr \in Int /\ n.skip \in Nat
           /\ n.size \in Nat /\ n.size <= Units
           /\ Src(n) \in Times /\ End(n) \in Times
  <1>1. n.ts \in Times /\ n.ts \in Int /\ n.hdr \in Int /\ n.skip \in Nat
        /\ n.size \in Nat /\ n.size <= Units
    BY DEF Node, Times
  <1>2. Src(n) \in Times /\ Src(n) \in Int
    <2>1. n.ts + Latency \in Int
      BY <1>1, Constants
    <2>. QED BY <2>1, Residue DEF Src
  <1>3. End(n) \in Times
    <2>1. Src(n) + n.size \in Int
      BY <1>1, <1>2
    <2>. QED BY <2>1, Residue DEF End
  <1>. QED BY <1>1, <1>2, <1>3
----------------------------------------------------------------------------
(* Where a node lies in the window of a read *)

\* The node starts s units after the place in the buffer that playing has reached, L
\* units into the window that starts at base.
Place(n, base, L, s) ==
    /\ L + s < ReadUnits /\ - TSMod <= 2 * (L + s - ReadUnits)
    /\ Src(n) = (base + (L + s)) % TSMod
    /\ End(n) = (base + (L + s + n.size)) % TSMod

\* A node that is due before the end of the window has such a place.
LEMMA ReadyHasPlace ==
    ASSUME NEW base \in Times, NEW L \in Nat, L < ReadUnits, NEW n \in Node,
           Ready(n, (base + ReadUnits) % TSMod)
    PROVE  \E s \in Int : Place(n, base, L, s)
  <1>. DEFINE lim == (base + ReadUnits) % TSMod
              c == ModCmp(Src(n), lim, TSMod)
              s == ReadUnits - L + c
  <1>1. Src(n) \in 0 .. TSMod - 1 /\ lim \in 0 .. TSMod - 1 /\ base \in Int /\ n.size \in Nat
    <2>1. base \in Int /\ base + ReadUnits \in Int
      BY Constants DEF Times
    <2>. QED BY <2>1, NodeFields, Residue DEF Times
  <1>2. c \in Int /\ c < 0 /\ - TSMod <= 2 * c
    <2>1. c < 0
      BY DEF Ready, ModLT
    <2>2. c \in Int /\ - TSMod <= 2 * c
      <3>1. \A x, y \in Int : ModCmp(x, y, TSMod) \in Int /\ - TSMod <= 2 * ModCmp(x, y, TSMod)
        BY Constants, ModCmpRange
      <3>2. Src(n) \in Int /\ lim \in Int
        BY <1>1
      <3>. QED BY <3>1, <3>2, Zenon
    <2>. QED BY <2>1, <2>2
  <1>3. (lim + c) % TSMod = Src(n)
    BY <1>1, Constants, ModPlace
  <1>. HIDE DEF c
  <1>4. (lim + c) % TSMod = (base + ReadUnits + c) % TSMod
    <2>1. base + ReadUnits \in Int
      BY <1>1, Constants
    <2>. QED BY <1>2, <2>1, Sums, Zenon
  <1>5. s \in Int /\ base + ReadUnits + c = base + (L + s)
    BY <1>1, <1>2, Constants
  <1>6. Src(n) = (base + (L + s)) % TSMod
    BY <1>3, <1>4, <1>5
  <1>7. End(n) = (base + (L + s + n.size)) % TSMod
    <2>2. End(n) = (((base + (L + s)) % TSMod) + n.size) % TSMod
      BY <1>6 DEF End
    <2>3. base + (L + s) \in Int
      BY <1>1, <1>5
    <2>4. End(n) = ((base + (L + s)) + n.size) % TSMod
      <3>1. n.size \in Int
        BY <1>1
      <3>. QED BY <2>2, <2>3, <3>1, Sums, Zenon
    <2>5. (base + (L + s)) + n.size = base + (L + s + n.size)
      BY <1>1, <1>5
    <2>. QED BY <2>4, <2>5
  <1>8. L + s < ReadUnits /\ - TSMod <= 2 * (L + s - ReadUnits)
    BY <1>2, Constants
  <1>. QED BY <1>5, <1>6, <1>7, <1>8 DEF Place

\* What the code's comparisons say of a node in its place.
LEMMA PlaceCompares ==
    ASSUME NEW base \in Times, NEW L \in Nat, L < ReadUnits, NEW n \in Node, NEW s \in Int,
           Place(n, base, L, s)
    PROVE  LET now == (base + L) % TSMod
               lim == (base + ReadUnits) % TSMod
           IN /\ ModCmp(Src(n), now, TSMod) = s
              /\ ModCmp(now, Src(n), TSMod) = - s
              /\ ModCmp(Src(n), base, TSMod) = L + s
              /\ ModCmp(End(n), now, TSMod) = s + n.size
              /\ ModCmp(End(n), lim, TSMod) = L + s + n.size - ReadUnits
              /\ ModCmp(End(n), base, TSMod) = L + s + n.size
              /\ (Src(n) - now) % TSMod = s % TSMod
              /\ (now - Src(n)) % TSMod = (- s) % TSMod
              /\ (lim - Src(n)) % TSMod = ReadUnits - L - s
  <1>. DEFINE now == (base + L) % TSMod
              lim == (base + ReadUnits) % TSMod
              start == (base + 0) % TSMod
  <1>1. n.size \in Nat /\ n.size <= Units /\ base \in Int /\ base \in 0 .. TSMod - 1
    BY NodeFields, Constants DEF Times
  <1>2. L + s < ReadUnits /\ - TSMod <= 2 * (L + s - ReadUnits)
        /\ Src(n) = (base + (L + s)) % TSMod
        /\ End(n) = (base + (L + s + n.size)) % TSMod
    BY DEF Place
  <1>3. start = base
    BY <1>1, Constants, ModSmall
  <1>4. \A a, b \in Int : 2 * (a - b) < TSMod /\ - TSMod <= 2 * (a - b) =>
            ModCmp((base + a) % TSMod, (base + b) % TSMod, TSMod) = a - b
    BY <1>1, Constants, ModCmpOffsets, ZenonT(60)
  <1>5. \A a, b \in Int :
            (((base + a) % TSMod) - ((base + b) % TSMod)) % TSMod = (a - b) % TSMod
    BY <1>1, Constants, ModOffsets
  <1>6. L + s \in Int /\ L + s + n.size \in Int /\ L \in Int /\ ReadUnits \in Int /\ 0 \in Int
    BY <1>1, Constants
  <1>7. /\ ModCmp((base + (L + s)) % TSMod, now, TSMod) = (L + s) - L
        /\ ModCmp(now, (base + (L + s)) % TSMod, TSMod) = L - (L + s)
        /\ ModCmp((base + (L + s)) % TSMod, start, TSMod) = (L + s) - 0
    <2>1. /\ 2 * ((L + s) - L) < TSMod /\ - TSMod <= 2 * ((L + s) - L)
          /\ 2 * (L - (L + s)) < TSMod /\ - TSMod <= 2 * (L - (L + s))
          /\ 2 * ((L + s) - 0) < TSMod /\ - TSMod <= 2 * ((L + s) - 0)
      BY <1>1, <1>2, Constants
    <2>. QED BY <2>1, <1>4, <1>6, Zenon
  <1>8. /\ ModCmp((base + (L + s + n.size)) % TSMod, now, TSMod) = (L + s + n.size) - L
        /\ ModCmp((base + (L + s + n.size)) % TSMod, lim, TSMod) = (L + s + n.size) - ReadUnits
        /\ ModCmp((base + (L + s + n.size)) % TSMod, start, TSMod) = (L + s + n.size) - 0
    <2>1. LET e == L + s + n.size IN
          /\ 2 * (e - L) < TSMod /\ - TSMod <= 2 * (e - L)
          /\ 2 * (e - ReadUnits) < TSMod /\ - TSMod <= 2 * (e - ReadUnits)
          /\ 2 * (e - 0) < TSMod /\ - TSMod <= 2 * (e - 0)
      BY <1>1, <1>2, Constants
    <2>. QED BY <2>1, <1>4, <1>6, Zenon
  <1>9. /\ (((base + (L + s)) % TSMod) - now) % TSMod = ((L + s) - L) % TSMod
        /\ (now - ((base + (L + s)) % TSMod)) % TSMod = (L - (L + s)) % TSMod
        /\ (lim - ((base + (L + s)) % TSMod)) % TSMod = (ReadUnits - (L + s)) % TSMod
    BY <1>5, <1>6
  <1>10. (ReadUnits - (L + s)) % TSMod = ReadUnits - (L + s)
    BY <1>2, Constants, ModSmall
  <1>11. (L + s) - L = s /\ L - (L + s) = - s /\ (L + s) - 0 = L + s
         /\ (L + s + n.size) - L = s + n.size /\ (L + s + n.size) - 0 = L + s + n.size
         /\ (L + s + n.size) - ReadUnits = L + s + n.size - ReadUnits
         /\ ReadUnits - (L + s) = ReadUnits - L - s
    BY <1>1, Constants
  <1>. HIDE DEF now, lim, start
  <1>12. /\ ModCmp(Src(n), now, TSMod) = s
         /\ ModCmp(now, Src(n), TSMod) = - s
         /\ ModCmp(Src(n), base, TSMod) = L + s
         /\ ModCmp(End(n), now, TSMod) = s + n.size
         /\ ModCmp(End(n), lim, TSMod) = L + s + n.size - ReadUnits
         /\ ModCmp(End(n), base, TSMod) = L + s + n.size
    <2>1. /\ ModCmp(Src(n), now, TSMod) = (L + s) - L
          /\ ModCmp(now, Src(n), TSMod) = L - (L + s)
          /\ ModCmp(Src(n), start, TSMod) = (L + s) - 0
      BY <1>2, <1>7, Zenon
    <2>2. /\ ModCmp(End(n), now, TSMod) = (L + s + n.size) - L
          /\ ModCmp(End(n), lim, TSMod) = (L + s + n.size) - ReadUnits
          /\ ModCmp(End(n), start, TSMod) = (L + s + n.size) - 0
      BY <1>2, <1>8, Zenon
    <2>3. ModCmp(Src(n), base, TSMod) = (L + s) - 0 /\ ModCmp(End(n), base, TSMod) = (L + s + n.size) - 0
      BY <2>1, <2>2, <1>3, Zenon
    <2>. QED BY <2>1, <2>2, <2>3, <1>11, Zenon
  <1>13. /\ (Src(n) - now) % TSMod = s % TSMod
         /\ (now - Src(n)) % TSMod = (- s) % TSMod
         /\ (lim - Src(n)) % TSMod = ReadUnits - L - s
    BY <1>2, <1>9, <1>10, <1>11
  <1>. QED BY <1>12, <1>13 DEF now, lim

\* L units behind base.
Behind(base, L) == (base + L) % TSMod

LEMMA EndFromNow ==
    ASSUME NEW base \in Times, NEW L \in Nat, L < ReadUnits, NEW n \in Node, NEW s \in Int,
           Place(n, base, L, s)
    PROVE  ModCmp(End(n), Behind(base, L), TSMod) = s + n.size
  BY PlaceCompares DEF Behind

\* What ends before the time reached ends before the read does.
LEMMA EndsInside ==
    ASSUME NEW L \in Nat, L < ReadUnits, NEW s \in Int, NEW size \in Nat, s + size <= 0,
           NEW c, c = L + s + size - ReadUnits
    PROVE  ~(c >= 0)
  BY Constants

\* Units of a node that starts at the k-th place of the window have their times.
LEMMA UnitsHaveTimes ==
    ASSUME NEW base \in Int, NEW k \in Int, NEW n \in Node,
           Src(n) = (base + k) % TSMod, NEW i \in Int
    PROVE  /\ (n.hdr + n.skip + i) % TSMod \in Times
           /\ (((n.hdr + n.skip + i) % TSMod) + Latency) % TSMod = (base + (k + i)) % TSMod
  <1>1. \A a, b \in Int : ((a % TSMod) + b) % TSMod = (a + b) % TSMod
    BY Sums
  <1>2. n.hdr + n.skip \in Int /\ Latency \in Int /\ n.ts = (n.hdr + n.skip) % TSMod
        /\ n.ts \in Int
    BY NodeFields, Constants DEF Node
  <1>. DEFINE p == n.hdr + n.skip
  <1>. HIDE DEF p
  <1>3. p \in Int /\ n.ts = p % TSMod
    BY <1>2 DEF p
  <1>4. (((p + i) % TSMod) + Latency) % TSMod = (p + i + Latency) % TSMod
    BY <1>1, <1>2, <1>3
  <1>5. (Src(n) + i) % TSMod = (p + i + Latency) % TSMod
    <2>1. Src(n) = (p + Latency) % TSMod
      BY <1>1, <1>2, <1>3 DEF Src
    <2>2. (((p + Latency) % TSMod) + i) % TSMod = (p + Latency + i) % TSMod
      BY <1>1, <1>2, <1>3
    <2>3. p + Latency + i = p + i + Latency
      BY <1>2, <1>3
    <2>. QED BY <2>1, <2>2, <2>3
  <1>6. (((base + k) % TSMod) + i) % TSMod = (base + k + i) % TSMod
    BY <1>1
  <1>7. base + k + i = base + (k + i) /\ p + i \in Int
    BY <1>3
  <1>8. (p + i) % TSMod \in Times
    BY <1>7, Residue
  <1>. QED BY <1>4, <1>5, <1>6, <1>7, <1>8 DEF p
----------------------------------------------------------------------------
(* What is left of a node when its first units have been played or skipped *)

Advanced(n, d) == [n EXCEPT !.ts = (@ + d) % TSMod, !.skip = @ + d, !.size = @ - d]

LEMMA SameFields ==
    ASSUME NEW a \in [seq : Int, hdr : Int, ts : Int, skip : Int, size : Int],
           NEW b \in [seq : Int, hdr : Int, ts : Int, skip : Int, size : Int],
           a.seq = b.seq, a.hdr = b.hdr, a.ts = b.ts, a.skip = b.skip, a.size = b.size
    PROVE  a = b
  <1>. DEFINE D == {"seq", "hdr", "ts", "skip", "size"}
  <1>1. a = [x \in D |-> a[x]] /\ b = [x \in D |-> b[x]]
    OBVIOUS
  <1>2. \A x \in D : a[x] = b[x]
    OBVIOUS
  <1>. HIDE DEF D
  <1>3. [x \in D |-> a[x]] = [x \in D |-> b[x]]
    BY <1>2
  <1>. QED BY <1>1, <1>3, Zenon

LEMMA AdvancedRecord ==
    ASSUME NEW n \in [seq : Int, hdr : Int, ts : Int, skip : Int, size : Int], NEW d \in Int
    PROVE  /\ Advanced(n, d) = [seq |-> n.seq, hdr |-> n.hdr, ts |-> (n.ts + d) % TSMod,
                                skip |-> n.skip + d, size |-> n.size - d]
           /\ Advanced(n, d) \in [seq : Int, hdr : Int, ts : Int, skip : Int, size : Int]
  <1>. DEFINE t == (n.ts + d) % TSMod
              k == n.skip + d
              z == n.size - d
  <1>1. t \in Int /\ k \in Int /\ z \in Int
    <2>1. n.ts + d \in Int
      OBVIOUS
    <2>. QED BY <2>1, Residue
  <1>2. Advanced(n, d) = [n EXCEPT !.ts = t, !.skip = k, !.size = z]
    BY DEF Advanced
  <1>. HIDE DEF t, k, z
  <1>3. [n EXCEPT !.ts = t, !.skip = k, !.size = z] =
            [seq |-> n.seq, hdr |-> n.hdr, ts |-> t, skip |-> k, size |-> z]
    <2>. DEFINE a == [n EXCEPT !.ts = t, !.skip = k, !.size = z]
                b == [seq |-> n.seq, hdr |-> n.hdr, ts |-> t, skip |-> k, size |-> z]
                R == [seq : Int, hdr : Int, ts : Int, skip : Int, size : Int]
    <2>1. a \in R /\ b \in R
      BY <1>1
    <2>2. a.seq = b.seq /\ a.hdr = b.hdr /\ a.ts = b.ts /\ a.skip = b.skip /\ a.size = b.size
      BY <1>1
    <2>. HIDE DEF a, b
    <2>3. a = b
      BY <2>1, <2>2, SameFields
    <2>. QED BY <2>3 DEF a, b
  <1>4. [seq |-> n.seq, hdr |-> n.hdr, ts |-> t, skip |-> k, size |-> z]
            \in [seq : Int, hdr : Int, ts : Int, skip : Int, size : Int]
    BY <1>1
  <1>. QED BY <1>2, <1>3, <1>4 DEF t, k, z

LEMMA NodeRecord ==
    ASSUME NEW n \in Node
    PROVE  n \in [seq : Int, hdr : Int, ts : Int, skip : Int, size : Int]
  <1>1. n \in [seq : Times, hdr : Times, ts : Times, skip : Nat, size : 0 .. Units]
    BY DEF Node
  <1>2. Times \subseteq Int /\ Nat \subseteq Int /\ 0 .. Units \subseteq Int
    BY DEF Times
  <1>. HIDE DEF Times
  <1>. QED BY <1>1, <1>2

LEMMA AdvancedIsNode ==
    ASSUME NEW n \in Node, NEW d \in Nat, d < n.size
    PROVE  /\ Advanced(n, d) \in Node
           /\ Advanced(n, d).size = n.size - d /\ Advanced(n, d).seq = n.seq
           /\ Src(Advanced(n, d)) = (Src(n) + d) % TSMod
  <1>. DEFINE m == Advanced(n, d)
              p == n.hdr + n.skip
  <1>1. n.seq \in Times /\ n.hdr \in Times /\ n.skip \in Nat /\ n.size \in 0 .. Units
        /\ n.ts = p % TSMod /\ p \in Int /\ n.ts \in Int
    BY NodeFields DEF Node
  <1>2. m = [seq |-> n.seq, hdr |-> n.hdr, ts |-> (n.ts + d) % TSMod,
             skip |-> n.skip + d, size |-> n.size - d]
    BY NodeRecord, AdvancedRecord
  <1>3. (n.ts + d) % TSMod \in Times
    <2>1. n.ts + d \in Int
      BY <1>1
    <2>. QED BY <2>1, Residue
  <1>4. (n.ts + d) % TSMod = (n.hdr + (n.skip + d)) % TSMod
    <2>1. ((p % TSMod) + d) % TSMod = (p + d) % TSMod
      <3>. HIDE DEF p
      <3>. QED BY <1>1, Sums
    <2>2. p + d = n.hdr + (n.skip + d)
      BY <1>1, NodeFields
    <2>3. ((p % TSMod) + d) % TSMod = (n.hdr + (n.skip + d)) % TSMod
      <3>. HIDE DEF p
      <3>. QED BY <2>1, <2>2
    <2>. HIDE DEF p
    <2>. QED BY <2>3, <1>1
  <1>5. n.skip + d \in Nat /\ n.size - d \in 0 .. Units /\ n.size - d > 0
    BY <1>1, Constants
  <1>6. m \in Node
    BY <1>1, <1>2, <1>3, <1>4, <1>5 DEF Node
  <1>7. Src(m) = (Src(n) + d) % TSMod
    <2>1. n.ts + Latency \in Int /\ n.ts + d \in Int /\ Latency \in Int /\ d \in Int
      BY <1>1, Constants
    <2>2. (((n.ts + d) % TSMod) + Latency) % TSMod = ((n.ts + d) + Latency) % TSMod
      BY <2>1, Sums, Zenon
    <2>3. (((n.ts + Latency) % TSMod) + d) % TSMod = ((n.ts + Latency) + d) % TSMod
      BY <2>1, Sums, Zenon
    <2>4. (n.ts + d) + Latency = (n.ts + Latency) + d
      BY <1>1, Constants
    <2>5. m.ts = (n.ts + d) % TSMod
      BY <1>2
    <2>. HIDE DEF m
    <2>. QED BY <2>2, <2>3, <2>4, <2>5, Zenon DEF Src
  <1>. QED BY <1>2, <1>6, <1>7

LEMMA AdvancedTwice ==
    ASSUME NEW n \in Node, NEW d \in Nat, NEW e \in Nat
    PROVE  Advanced(Advanced(n, d), e) = Advanced(n, d + e)
  <1>1. n.ts \in Int /\ n.skip \in Nat /\ n.size \in Nat
    BY NodeFields
  <1>2. (((n.ts + d) % TSMod) + e) % TSMod = (n.ts + (d + e)) % TSMod
    <2>1. n.ts + d \in Int /\ e \in Int
      BY <1>1
    <2>2. (((n.ts + d) % TSMod) + e) % TSMod = ((n.ts + d) + e) % TSMod
      BY <2>1, Sums, Zenon
    <2>3. (n.ts + d) + e = n.ts + (d + e)
      BY <1>1
    <2>. QED BY <2>2, <2>3, Zenon
  <1>3. Advanced(n, d) = [seq |-> n.seq, hdr |-> n.hdr, ts |-> (n.ts + d) % TSMod,
                          skip |-> n.skip + d, size |-> n.size - d]
        /\ Advanced(n, d) \in [seq : Int, hdr : Int, ts : Int, skip : Int, size : Int]
    <2>1. d \in Int /\ n \in [seq : Int, hdr : Int, ts : Int, skip : Int, size : Int]
      BY NodeRecord
    <2>. QED BY <2>1, AdvancedRecord, Zenon
  <1>4. Advanced(n, d + e) = [seq |-> n.seq, hdr |-> n.hdr, ts |-> (n.ts + (d + e)) % TSMod,
                              skip |-> n.skip + (d + e), size |-> n.size - (d + e)]
    BY NodeRecord, AdvancedRecord
  <1>5. Advanced(Advanced(n, d), e) =
            [seq |-> n.seq, hdr |-> n.hdr, ts |-> (((n.ts + d) % TSMod) + e) % TSMod,
             skip |-> (n.skip + d) + e, size |-> (n.size - d) - e]
    <2>. DEFINE m == Advanced(n, d)
    <2>1. m.seq = n.seq /\ m.hdr = n.hdr /\ m.ts = (n.ts + d) % TSMod
          /\ m.skip = n.skip + d /\ m.size = n.size - d
      BY <1>3
    <2>2. m \in [seq : Int, hdr : Int, ts : Int, skip : Int, size : Int]
      BY <1>3
    <2>. HIDE DEF m
    <2>3. Advanced(m, e) = [seq |-> m.seq, hdr |-> m.hdr, ts |-> (m.ts + e) % TSMod,
                            skip |-> m.skip + e, size |-> m.size - e]
      <3>1. e \in Int
        OBVIOUS
      <3>. QED BY <2>2, <3>1, AdvancedRecord, Zenon
    <2>. QED BY <2>1, <2>3 DEF m
  <1>6. (n.skip + d) + e = n.skip + (d + e) /\ (n.size - d) - e = n.size - (d + e)
    BY <1>1
  <1>. QED BY <1>2, <1>4, <1>5, <1>6, Zenon

\* The cut of a node at the end of the window, and the skip of its late units.
LEMMA CutsAdvance ==
    ASSUME NEW n, NEW x
    PROVE  /\ CutAt(n, x) = Advanced(n, (x - Src(n)) % TSMod)
           /\ SkipLate(n, x) = Advanced(n, (x - Src(n)) % TSMod)
  BY DEF CutAt, SkipLate, Advanced
----------------------------------------------------------------------------
(* The invariant of the loop, without the node list *)

Types ==
    /\ pc \in {"idle", "loop", "fill"}
    /\ busy \in Seq(Node) /\ nowTS \in Times
    /\ buffer \in Seq(Times \cup {Silence})
    /\ freed \in Nat /\ reads \in Nat
    /\ asked.busy \in Seq(Node) /\ asked.now \in Times

\* Playing has reached the end of what is written.
Position ==
    /\ nowTS = (asked.now + Len(buffer)) % TSMod
    /\ Len(buffer) <= ReadUnits
    /\ pc = "loop" => Len(buffer) < ReadUnits
    /\ pc = "idle" /\ reads > 0 => Len(buffer) = ReadUnits

HasItsTime(u, base, k) == u = Silence \/ (u + Latency) % TSMod = (base + (k - 1)) % TSMod
InTime == \A k \in 1 .. Len(buffer) : HasItsTime(buffer[k], asked.now, k)

Inv == Types /\ Position /\ InTime

LEMMA CurrIsNode ==
    ASSUME Types, busy # <<>>
    PROVE  curr \in Node /\ Tail(busy) \in Seq(Node)
  BY DEF Types, curr

\* A packet that is played starts a gap of silence behind the place that playing has
\* reached or has lost its late units; what is written of it is all of it, or what
\* fits into the window, and then something of it is left.
LEMMA PlaysCurr ==
    ASSUME Inv, Due, ~TooOld
    PROVE  \E s \in Int :
        LET L == Len(buffer)
            gap == Gap(curr)
            now == (nowTS + gap) % TSMod
            node == Remaining(curr, now)
            cap == Cap(curr)
            delta == IF cap THEN (limTS - Src(node)) % TSMod ELSE node.size
        IN /\ Place(curr, asked.now, L, s)
           /\ gap \in Nat /\ now = (asked.now + (L + gap)) % TSMod /\ Src(node) = now
           /\ gap = IF s > 0 THEN s ELSE 0
           /\ node \in Node /\ node.seq = curr.seq
           /\ gap # 0 \/ node # curr <=> s # 0
           /\ cap <=> L + s + curr.size > ReadUnits
           /\ delta \in Nat
           /\ L + gap + delta = IF cap THEN ReadUnits ELSE L + s + curr.size
           /\ cap => /\ CutAt(node, limTS) = CutAt(curr, limTS)
                     /\ CutAt(node, limTS) \in Node
  <1>. DEFINE L == Len(buffer)
              base == asked.now
              size == curr.size
              gap == Gap(curr)
              now == (nowTS + gap) % TSMod
              node == Remaining(curr, now)
              cap == Cap(curr)
              delta == IF cap THEN (limTS - Src(node)) % TSMod ELSE node.size
  <1>1. base \in Times /\ base \in Int /\ L \in Nat /\ L < ReadUnits /\ curr \in Node
        /\ size \in Nat /\ size <= Units /\ nowTS = (base + L) % TSMod
        /\ nowTS \in Times /\ nowTS \in Int
    <2>1. busy # <<>> /\ pc = "loop"
      BY DEF Due
    <2>2. curr \in Node
      BY <2>1, CurrIsNode DEF Inv
    <2>3. curr.size \in Nat /\ curr.size <= Units
      BY <2>2, NodeFields
    <2>4. Len(buffer) \in Nat
      BY LenProperties DEF Inv, Types
    <2>. QED BY <2>1, <2>2, <2>3, <2>4 DEF Inv, Types, Position, Times
  <1>2. limTS = (base + ReadUnits) % TSMod
    BY DEF limTS
  <1>3. PICK s \in Int : Place(curr, base, L, s)
    <2>1. Ready(curr, (base + ReadUnits) % TSMod)
      BY <1>2 DEF Due
    <2>. HIDE DEF L, base
    <2>. QED BY <1>1, <2>1, ReadyHasPlace
  <1>4. /\ ModCmp(Src(curr), nowTS, TSMod) = s
        /\ ModCmp(nowTS, Src(curr), TSMod) = - s
        /\ ModCmp(End(curr), nowTS, TSMod) = s + size
        /\ ModCmp(End(curr), limTS, TSMod) = L + s + size - ReadUnits
        /\ (Src(curr) - nowTS) % TSMod = s % TSMod
        /\ (nowTS - Src(curr)) % TSMod = (- s) % TSMod
        /\ (limTS - Src(curr)) % TSMod = ReadUnits - L - s
    <2>. HIDE DEF L, base
    <2>. QED BY <1>1, <1>2, <1>3, PlaceCompares
  <1>5. L + s < ReadUnits /\ - TSMod <= 2 * (L + s - ReadUnits)
        /\ Src(curr) = (base + (L + s)) % TSMod /\ Src(curr) \in Times
    <2>. HIDE DEF L, base
    <2>. QED BY <1>1, <1>3, NodeFields DEF Place
  <1>6. s + size > 0
    <2>1. ~(ModCmp(End(curr), nowTS, TSMod) <= 0)
      BY DEF TooOld, ModLE
    <2>. QED BY <1>1, <1>4, <2>1
  <1>7. cap <=> L + s + size > ReadUnits
    <2>1. cap <=> ModCmp(End(curr), limTS, TSMod) > 0
      BY DEF Cap, ModGT
    <2>2. (L + s + size - ReadUnits > 0) <=> (L + s + size > ReadUnits)
      BY <1>1, Constants
    <2>. HIDE DEF L, cap, size
    <2>. QED BY <1>4, <2>1, <2>2
  <1>8. /\ gap = IF s > 0 THEN s ELSE 0
        /\ now = (base + (L + gap)) % TSMod
    <2>1. gap = IF - s < 0 THEN s % TSMod ELSE 0
      BY <1>4 DEF Gap, ModLT
    <2>2. s > 0 => s % TSMod = s
      <3>. HIDE DEF L, base, size, gap, now, node, cap, delta
      <3>1. s > 0 => s \in 0 .. TSMod - 1
        BY <1>1, <1>5, Constants
      <3>. QED BY <3>1, Constants, ModSmall
    <2>3. gap = IF s > 0 THEN s ELSE 0
      <3>. HIDE DEF gap
      <3>. QED BY <2>1, <2>2
    <2>4. gap \in Int /\ base + L \in Int
      <3>. HIDE DEF gap
      <3>. QED BY <1>1, <2>3
    <2>5. (((base + L) % TSMod) + gap) % TSMod = ((base + L) + gap) % TSMod
      <3>. HIDE DEF gap, base, L
      <3>. QED BY <2>4, Sums
    <2>6. (base + L) + gap = base + (L + gap)
      <3>. HIDE DEF gap, base, L
      <3>. QED BY <1>1, <2>4
    <2>7. now = (base + (L + gap)) % TSMod
      <3>. HIDE DEF gap, base, L
      <3>. QED BY <1>1, <2>5, <2>6
    <2>. QED BY <2>3, <2>7
  <1>. HIDE DEF gap
  <1>9. CASE s >= 0
    <2>1. gap = s
      BY <1>8, <1>9
    <2>2. Src(curr) = now
      BY <1>5, <1>8, <2>1
    <2>3. ~ModLT(Src(curr), now, TSMod)
      <3>1. Src(curr) \in Int
        BY <1>5 DEF Times
      <3>2. ModCmp(Src(curr), Src(curr), TSMod) = 0
        <4>1. Src(curr) - Src(curr) = 0 /\ 0 % TSMod = 0
          BY <3>1, Constants, ModSmall
        <4>. QED BY <4>1, Constants DEF ModCmp
      <3>. HIDE DEF now
      <3>. QED BY <2>2, <3>2 DEF ModLT
    <2>4. node = curr
      BY <2>3 DEF Remaining
    <2>5. gap # 0 \/ node # curr <=> s # 0
      BY <2>1, <2>4
    <2>6. cap => (limTS - Src(node)) % TSMod = ReadUnits - L - s
      BY <2>4, <1>4
    <2>. HIDE DEF now, node, cap, L, base
    <2>7. delta \in Nat /\ L + gap + delta = IF cap THEN ReadUnits ELSE L + s + size
      <3>1. CASE cap
        <4>1. delta = ReadUnits - L - s
          BY <3>1, <2>6
        <4>. QED BY <3>1, <4>1, <2>1, <1>1, <1>5, Constants
      <3>2. CASE ~cap
        <4>1. delta = size
          BY <3>2, <2>4
        <4>. QED BY <3>2, <4>1, <2>1, <1>1
      <3>. QED BY <3>1, <3>2
    <2>8. cap => CutAt(node, limTS) = CutAt(curr, limTS) /\ CutAt(node, limTS) \in Node
      <3>1. SUFFICES ASSUME cap PROVE CutAt(curr, limTS) \in Node
        BY <2>4
      <3>2. CutAt(curr, limTS) = Advanced(curr, ReadUnits - L - s)
        BY <1>4, CutsAdvance
      <3>3. ReadUnits - L - s \in Nat /\ ReadUnits - L - s < size
        BY <3>1, <1>1, <1>5, <1>7, Constants
      <3>. QED BY <3>2, <3>3, <1>1, AdvancedIsNode
    <2>9. node \in Node /\ node.seq = curr.seq /\ Src(node) = now /\ gap \in Nat
      BY <2>1, <2>2, <2>4, <1>1, <1>9
    <2>. QED BY <1>3, <1>7, <1>8, <2>5, <2>7, <2>8, <2>9 DEF L, base, gap, now, node, cap
  <1>10. CASE s < 0
    <2>1. gap = 0
      BY <1>8, <1>10
    <2>2. now = nowTS
      BY <1>1, <1>8, <2>1
    <2>3. node = Advanced(curr, - s)
      <3>1. ModLT(Src(curr), nowTS, TSMod)
        BY <1>4, <1>10 DEF ModLT
      <3>2. node = SkipLate(curr, nowTS)
        BY <2>2, <3>1 DEF Remaining
      <3>3. (- s) % TSMod = - s
        BY <1>10, <1>1, <1>5, Constants, ModSmall, SMTT(60)
      <3>. HIDE DEF node
      <3>. QED BY <3>2, <3>3, <1>4, CutsAdvance
    <2>4. - s \in Nat /\ - s < size
      BY <1>10, <1>1, <1>6
    <2>5. node \in Node /\ node.size = size + s /\ node.seq = curr.seq
          /\ Src(node) = (Src(curr) + (- s)) % TSMod
      <3>1. Advanced(curr, - s).size = size - (- s)
        BY <1>1, <2>4, AdvancedIsNode
      <3>2. size - (- s) = size + s
        BY <1>1
      <3>. HIDE DEF node
      <3>. QED BY <1>1, <2>3, <2>4, <3>1, <3>2, AdvancedIsNode
    <2>6. node # curr
      <3>1. size + s # size
        BY <1>1, <1>10
      <3>. HIDE DEF node
      <3>. QED BY <2>5, <3>1
    <2>. HIDE DEF now, node, cap, L, base
    <2>7. Src(node) = now
      <3>1. (((base + (L + s)) % TSMod) + (- s)) % TSMod = ((base + (L + s)) + (- s)) % TSMod
        <4>1. base + (L + s) \in Int /\ - s \in Int
          BY <1>1
        <4>. QED BY <4>1, Sums, Zenon
      <3>2. (base + (L + s)) + (- s) = base + L
        BY <1>1
      <3>. QED BY <1>1, <1>5, <2>2, <2>5, <3>1, <3>2
    <2>8. cap => (limTS - Src(node)) % TSMod = ReadUnits - L
      <3>1. \A a, b \in Int :
                (((base + a) % TSMod) - ((base + b) % TSMod)) % TSMod = (a - b) % TSMod
        BY <1>1, Constants, ModOffsets
      <3>2. Src(node) = (base + L) % TSMod
        BY <1>1, <2>2, <2>7
      <3>3. (limTS - Src(node)) % TSMod = (ReadUnits - L) % TSMod
        <4>1. L \in Int /\ ReadUnits \in Int
          BY <1>1, Constants
        <4>. QED BY <1>2, <3>1, <3>2, <4>1, Zenon
      <3>4. (ReadUnits - L) % TSMod = ReadUnits - L
        <4>1. ReadUnits - L \in 0 .. TSMod - 1
          BY <1>1, Constants
        <4>. QED BY <4>1, Constants, ModSmall
      <3>. QED BY <3>3, <3>4
    <2>9. delta \in Nat /\ L + gap + delta = IF cap THEN ReadUnits ELSE L + s + size
      <3>1. CASE cap
        <4>1. delta = ReadUnits - L
          BY <3>1, <2>8
        <4>. QED BY <3>1, <4>1, <2>1, <1>1, Constants
      <3>2. CASE ~cap
        <4>1. delta = size + s
          BY <3>2, <2>5
        <4>. QED BY <3>2, <4>1, <2>1, <1>1, <1>6
      <3>. QED BY <3>1, <3>2
    <2>10. cap => CutAt(node, limTS) = CutAt(curr, limTS) /\ CutAt(node, limTS) \in Node
      <3>1. SUFFICES ASSUME cap
                     PROVE  CutAt(node, limTS) = CutAt(curr, limTS) /\ CutAt(node, limTS) \in Node
        OBVIOUS
      <3>2. CutAt(node, limTS) = Advanced(node, ReadUnits - L)
        BY <2>8, <3>1, CutsAdvance
      <3>3. CutAt(curr, limTS) = Advanced(curr, ReadUnits - L - s)
        BY <1>4, CutsAdvance
      <3>4. ReadUnits - L \in Nat /\ ReadUnits - L < node.size
        BY <3>1, <1>1, <1>7, <2>5, Constants
      <3>5. Advanced(Advanced(curr, - s), ReadUnits - L) = Advanced(curr, (- s) + (ReadUnits - L))
        BY <1>1, <2>4, <3>4, AdvancedTwice
      <3>6. (- s) + (ReadUnits - L) = ReadUnits - L - s
        BY <1>1, Constants
      <3>7. Advanced(node, ReadUnits - L) \in Node
        BY <2>5, <3>4, AdvancedIsNode
      <3>. QED BY <2>3, <3>2, <3>3, <3>5, <3>6, <3>7
    <2>11. (gap # 0 \/ node # curr <=> s # 0) /\ gap \in Nat
      BY <2>1, <2>6, <1>10
    <2>. QED BY <1>3, <1>7, <1>8, <2>5, <2>7, <2>9, <2>10, <2>11 DEF L, base, gap, now, node, cap
  <1>. QED BY <1>9, <1>10
----------------------------------------------------------------------------
(* Every step keeps the invariant *)

LEMMA Joined ==
    ASSUME NEW S, NEW p \in Seq(S), NEW q \in Seq(S)
    PROVE  /\ p \o q \in Seq(S) /\ Len(p \o q) = Len(p) + Len(q)
           /\ Len(p) \in Nat /\ Len(q) \in Nat
           /\ \A i \in 1 .. Len(p) : (p \o q)[i] = p[i]
           /\ \A i \in 1 .. Len(q) : (p \o q)[Len(p) + i] = q[i]
  <1>1. Len(p) \in Nat /\ Len(q) \in Nat
    OBVIOUS
  <1>2. p \o q \in Seq(S) /\ Len(p \o q) = Len(p) + Len(q)
    OBVIOUS
  <1>3. \A i \in 1 .. Len(p) : (p \o q)[i] = p[i]
    OBVIOUS
  <1>4. ASSUME NEW i \in 1 .. Len(q)
        PROVE  (p \o q)[Len(p) + i] = q[i]
    <2>1. Len(p) + i \in 1 .. Len(p) + Len(q) /\ Len(p) + i > Len(p) /\ (Len(p) + i) - Len(p) = i
      BY <1>1
    <2>. QED BY <1>1, <2>1
  <1>. QED BY <1>1, <1>2, <1>3, <1>4

\* Silence and units of a node are appended to the buffer.
Appending(b, g, u) == b \o [i \in 1 .. g |-> Silence] \o u

\* c is b with g units of silence and the n units of u behind it.
Appends(c, b, g, n, u, T) ==
    /\ c \in Seq(T) /\ Len(c) = Len(b) + g + n
    /\ \A k \in 1 .. Len(b) : c[k] = b[k]
    /\ \A i \in 1 .. g : c[Len(b) + i] = Silence
    /\ \A i \in 1 .. n : c[Len(b) + g + i] = u[i]

LEMMA Appended ==
    ASSUME NEW T, NEW b \in Seq(T), NEW g \in Nat, NEW n \in Nat, NEW u \in [1 .. n -> T],
           Silence \in T
    PROVE  Appends(Appending(b, g, u), b, g, n, u, T)
  <1>. DEFINE sil == [i \in 1 .. g |-> Silence]
              d == b \o sil
              c == d \o u
  <1>1. sil \in Seq(T) /\ Len(sil) = g /\ \A i \in 1 .. g : sil[i] = Silence
    OBVIOUS
  <1>2. u \in Seq(T) /\ Len(u) = n
    OBVIOUS
  <1>. HIDE DEF sil
  <1>3. d \in Seq(T) /\ Len(d) = Len(b) + g /\ Len(b) \in Nat
        /\ (\A k \in 1 .. Len(b) : d[k] = b[k]) /\ (\A i \in 1 .. g : d[Len(b) + i] = sil[i])
    <2>1. /\ d \in Seq(T) /\ Len(d) = Len(b) + Len(sil) /\ Len(b) \in Nat /\ Len(sil) \in Nat
          /\ \A i \in 1 .. Len(b) : d[i] = b[i]
      BY <1>1, Joined, Zenon
    <2>2. \A i \in 1 .. Len(sil) : d[Len(b) + i] = sil[i]
      BY <1>1, Joined
    <2>. HIDE DEF d
    <2>. QED BY <1>1, <2>1, <2>2
  <1>. HIDE DEF d
  <1>4. c \in Seq(T) /\ Len(c) = Len(b) + g + n
        /\ (\A k \in 1 .. Len(b) + g : c[k] = d[k])
        /\ (\A i \in 1 .. n : c[Len(b) + g + i] = u[i])
    <2>1. /\ c \in Seq(T) /\ Len(c) = Len(d) + Len(u)
          /\ \A i \in 1 .. Len(d) : c[i] = d[i]
      BY <1>2, <1>3, Joined, ZenonT(60)
    <2>2. \A i \in 1 .. Len(u) : c[Len(d) + i] = u[i]
      <3>1. u \in Seq(T) /\ d \in Seq(T)
        BY <1>2, <1>3
      <3>. QED BY <3>1, Joined
    <2>. HIDE DEF c
    <2>. QED BY <1>2, <1>3, <2>1, <2>2
  <1>. HIDE DEF c
  <1>5. \A k \in 1 .. Len(b) : c[k] = b[k]
    <2>. TAKE k \in 1 .. Len(b)
    <2>1. k \in 1 .. Len(b) + g
      BY <1>3
    <2>. QED BY <1>3, <1>4, <2>1
  <1>6. \A i \in 1 .. g : c[Len(b) + i] = Silence
    <2>. TAKE i \in 1 .. g
    <2>1. Len(b) + i \in 1 .. Len(b) + g
      BY <1>3
    <2>. QED BY <1>1, <1>3, <1>4, <2>1
  <1>7. Appends(c, b, g, n, u, T)
    BY <1>4, <1>5, <1>6 DEF Appends
  <1>8. Appending(b, g, u) = c
    BY DEF Appending, c, d, sil
  <1>. QED BY <1>7, <1>8

LEMMA AppendsInTime ==
    ASSUME NEW T, NEW b \in Seq(T), NEW g \in Nat, NEW n \in Nat, NEW base \in Int,
           NEW u \in [1 .. n -> T], Silence \in T,
           \A k \in 1 .. Len(b) : HasItsTime(b[k], base, k),
           \A i \in 1 .. n : HasItsTime(u[i], base, Len(b) + g + i)
    PROVE  LET c == Appending(b, g, u)
           IN /\ c \in Seq(T) /\ Len(c) = Len(b) + g + n
              /\ \A k \in 1 .. Len(c) : HasItsTime(c[k], base, k)
  <1>. DEFINE c == Appending(b, g, u)
  <1>0. Appends(Appending(b, g, u), b, g, n, u, T)
    BY Appended
  <1>1. /\ c \in Seq(T) /\ Len(c) = Len(b) + g + n
        /\ \A k \in 1 .. Len(b) : c[k] = b[k]
        /\ \A i \in 1 .. g : c[Len(b) + i] = Silence
        /\ \A i \in 1 .. n : c[Len(b) + g + i] = u[i]
    BY <1>0 DEF Appends
  <1>. HIDE DEF c
  <1>2. Len(b) \in Nat
    OBVIOUS
  <1>3. \A k \in 1 .. Len(b) + g + n : HasItsTime(c[k], base, k)
    <2>. TAKE k \in 1 .. Len(b) + g + n
    <2>1. CASE k <= Len(b)
      BY <2>1, <1>1, <1>2
    <2>2. CASE k > Len(b) /\ k <= Len(b) + g
      <3>1. k - Len(b) \in 1 .. g /\ k = Len(b) + (k - Len(b))
        BY <2>2, <1>2
      <3>2. c[k] = Silence
        BY <3>1, <1>1
      <3>. QED BY <3>2 DEF HasItsTime
    <2>3. CASE k > Len(b) + g
      <3>. DEFINE i == k - (Len(b) + g)
      <3>1. i \in 1 .. n /\ k = Len(b) + g + i
        BY <2>3, <1>2
      <3>2. c[k] = u[i]
        BY <3>1, <1>1
      <3>. HIDE DEF i
      <3>. QED BY <3>1, <3>2
    <2>. QED BY <1>2, <2>1, <2>2, <2>3
  <1>. QED BY <1>1, <1>3 DEF c

LEMMA ConstTypes == StartTime \in Times /\ Sizes \subseteq 0 .. Units /\ 0 \in Times
  BY LoopBounds, Constants DEF Times

LEMMA InitInv == Init => Inv
  <1>. SUFFICES ASSUME Init PROVE Inv
    OBVIOUS
  <1>1. (StartTime + 0) % TSMod = StartTime
    BY ConstTypes, Constants, ModSmall DEF Times
  <1>2. Len(<<>>) = 0 /\ <<>> \in Seq(Node) /\ <<>> \in Seq(Times \cup {Silence})
    OBVIOUS
  <1>3. Types
    BY <1>2, ConstTypes DEF Init, Types
  <1>4. Position /\ InTime
    BY <1>1, <1>2, Constants DEF Init, Position, InTime
  <1>. QED BY <1>3, <1>4 DEF Inv

\* A packet that arrives is a node no part of which was played.
LEMMA ArrivesWhole ==
    ASSUME NEW d \in Int, NEW size \in Sizes, nowTS \in Times
    PROVE  LET ts == (nowTS + d) % TSMod IN
           [seq |-> ts, hdr |-> ts, ts |-> ts, skip |-> 0, size |-> size] \in Node
  <1>. DEFINE ts == (nowTS + d) % TSMod
  <1>1. ts \in Times
    <2>1. nowTS + d \in Int
      BY DEF Times
    <2>. QED BY <2>1, Residue
  <1>. HIDE DEF ts
  <1>2. ts = (ts + 0) % TSMod /\ size \in 0 .. Units
    BY <1>1, ConstTypes, Constants, ModSmall DEF Times
  <1>3. [seq |-> ts, hdr |-> ts, ts |-> ts, skip |-> 0, size |-> size] \in Node
    BY <1>1, <1>2 DEF Node
  <1>. QED BY <1>3 DEF ts

Inserted(q, k, e) == SubSeq(q, 1, k) \o <<e>> \o SubSeq(q, k + 1, Len(q))

LEMMA Inserting ==
    ASSUME NEW q \in Seq(Node), NEW e \in Node, NEW k \in 0 .. Len(q)
    PROVE  LET r == Inserted(q, k, e)
           IN /\ r \in Seq(Node) /\ Len(r) = Len(q) + 1 /\ r[k + 1] = e
              /\ \A i \in 1 .. k : r[i] = q[i]
              /\ \A i \in k + 2 .. Len(q) + 1 : r[i] = q[i - 1]
  <1>. DEFINE a == SubSeq(q, 1, k)
              c == SubSeq(q, k + 1, Len(q))
  <1>1. a \in Seq(Node) /\ Len(a) = k /\ \A i \in 1 .. k : a[i] = q[i]
    BY LenProperties
  <1>2. c \in Seq(Node) /\ Len(c) = Len(q) - k /\ \A i \in 1 .. Len(q) - k : c[i] = q[k + i]
    <2>1. CASE k = Len(q)
      BY <2>1, LenProperties
    <2>2. CASE k < Len(q)
      BY <2>2, LenProperties
    <2>. QED BY <2>1, <2>2
  <1>3. Len(q) \in Nat
    OBVIOUS
  <1>. HIDE DEF a, c
  <1>. DEFINE d == a \o <<e>>
  <1>4. d \in Seq(Node) /\ Len(d) = k + 1 /\ d[k + 1] = e /\ \A i \in 1 .. k : d[i] = a[i]
    BY <1>1
  <1>. HIDE DEF d
  <1>5. (d \o c) \in Seq(Node) /\ Len(d \o c) = Len(q) + 1
        /\ (\A i \in 1 .. k + 1 : (d \o c)[i] = d[i])
        /\ (\A i \in 1 .. Len(q) - k : (d \o c)[(k + 1) + i] = c[i])
    BY <1>2, <1>3, <1>4, Joined
  <1>6. \A i \in k + 2 .. Len(q) + 1 : (d \o c)[i] = q[i - 1]
    <2>. TAKE i \in k + 2 .. Len(q) + 1
    <2>1. i - (k + 1) \in 1 .. Len(q) - k /\ k + (i - (k + 1)) = i - 1
          /\ (k + 1) + (i - (k + 1)) = i
      BY <1>3
    <2>2. (d \o c)[i] = c[i - (k + 1)]
      BY <1>5, <2>1
    <2>. QED BY <1>2, <2>1, <2>2
  <1>7. (d \o c)[k + 1] = e /\ \A i \in 1 .. k : (d \o c)[i] = q[i]
    BY <1>1, <1>4, <1>5
  <1>8. Inserted(q, k, e) = d \o c
    BY DEF Inserted, a, c, d
  <1>. QED BY <1>5, <1>6, <1>7, <1>8

LEMMA ArriveKeepsInv ==
    ASSUME Inv, NEW d \in -Late .. Early, NEW size \in Sizes, Arrive((nowTS + d) % TSMod, size)
    PROVE  Inv'
  <1>. DEFINE ts == (nowTS + d) % TSMod
              node == [seq |-> ts, hdr |-> ts, ts |-> ts, skip |-> 0, size |-> size]
  <1>1. node \in Node
    <2>1. d \in Int /\ nowTS \in Times
      BY LoopBounds DEF Inv, Types
    <2>. QED BY <2>1, ArrivesWhole
  <1>2. PICK k \in 0 .. Len(busy) :
            busy' = SubSeq(busy, 1, k) \o <<node>> \o SubSeq(busy, k + 1, Len(busy))
    BY DEF Arrive
  <1>3. busy \in Seq(Node)
    BY DEF Inv, Types
  <1>. HIDE DEF node
  <1>4. busy' \in Seq(Node)
    BY <1>1, <1>2, <1>3, Inserting DEF Inserted
  <1>. QED BY <1>4 DEF Arrive, Inv, Types, Position, InTime, HasItsTime

LEMMA BeginReadKeepsInv ==
    ASSUME Inv, BeginRead
    PROVE  Inv'
  <1>1. (nowTS + 0) % TSMod = nowTS
    <2>1. nowTS \in 0 .. TSMod - 1
      BY DEF Inv, Types, Times
    <2>2. nowTS + 0 = nowTS
      BY <2>1
    <2>. QED BY <2>1, <2>2, Constants, ModSmall
  <1>2. Len(<<>>) = 0 /\ <<>> \in Seq(Times \cup {Silence})
    OBVIOUS
  <1>3. asked'.busy = busy /\ asked'.now = nowTS /\ buffer' = <<>> /\ nowTS' = nowTS
        /\ pc' = "loop" /\ freed' = 0 /\ busy' = busy /\ reads' = reads
    BY DEF BeginRead
  <1>4. Types'
    BY <1>2, <1>3 DEF Inv, Types
  <1>5. Position' /\ InTime'
    BY <1>1, <1>2, <1>3, Constants DEF Position, InTime
  <1>. QED BY <1>4, <1>5 DEF Inv

LEMMA FreesKeepInv ==
    ASSUME Inv, NothingDue \/ DecodeFails \/ DiscardOld
    PROVE  Inv'
  <1>1. CASE NothingDue
    BY <1>1 DEF NothingDue, Inv, Types, Position, InTime, HasItsTime
  <1>2. CASE DecodeFails \/ DiscardOld
    <2>1. busy # <<>> /\ busy' = Tail(busy) /\ freed' = freed + 1 /\ pc = "loop"
          /\ UNCHANGED <<pc, nowTS, buffer, reads, asked>>
      BY <1>2 DEF DecodeFails, DiscardOld, Due, FreeCurr
    <2>2. busy' \in Seq(Node) /\ freed' \in Nat
      BY <2>1, CurrIsNode DEF Inv, Types
    <2>. QED BY <2>1, <2>2 DEF Inv, Types, Position, InTime, HasItsTime
  <1>. QED BY <1>1, <1>2

LEMMA PlayCurrKeepsInv ==
    ASSUME Inv, PlayCurr
    PROVE  Inv'
  <1>. DEFINE L == Len(buffer)
              base == asked.now
              gap == Gap(curr)
              now == (nowTS + gap) % TSMod
              node == Remaining(curr, now)
              cap == Cap(curr)
              delta == IF cap THEN (limTS - Src(node)) % TSMod ELSE node.size
              T == Times \cup {Silence}
  <1>1. Due /\ ~TooOld /\ busy # <<>>
    BY DEF PlayCurr, Due
  <1>2. PICK s \in Int :
           /\ Place(curr, base, L, s)
           /\ gap \in Nat /\ now = (base + (L + gap)) % TSMod /\ Src(node) = now
           /\ node \in Node
           /\ cap <=> L + s + curr.size > ReadUnits
           /\ delta \in Nat
           /\ L + gap + delta = IF cap THEN ReadUnits ELSE L + s + curr.size
           /\ cap => CutAt(node, limTS) \in Node
    BY <1>1, PlaysCurr, Zenon
  <1>3. /\ buffer' = buffer \o [i \in 1 .. gap |-> Silence] \o UnitsOf(node, delta)
        /\ nowTS' = (now + delta) % TSMod
        /\ IF cap THEN busy' = <<CutAt(node, limTS)>> \o Tail(busy) /\ UNCHANGED freed
           ELSE FreeCurr
        /\ pc' = (IF cap \/ Len(buffer') >= ReadUnits THEN "fill" ELSE "loop")
        /\ UNCHANGED <<reads, asked>>
    BY DEF PlayCurr
  <1>4. base \in Int /\ L \in Nat /\ curr \in Node /\ curr.size \in Nat /\ buffer \in Seq(T)
        /\ Tail(busy) \in Seq(Node) /\ freed \in Nat /\ Silence \in T
        /\ (\A k \in 1 .. L : HasItsTime(buffer[k], base, k))
    <2>1. curr \in Node /\ Tail(busy) \in Seq(Node)
      BY <1>1, CurrIsNode DEF Inv
    <2>. QED BY <2>1, NodeFields DEF Inv, Types, InTime, Times
  <1>. HIDE DEF gap, now, node, cap, delta, T, base, L
  <1>5. UnitsOf(node, delta) \in [1 .. delta -> T]
        /\ \A i \in 1 .. delta : HasItsTime(UnitsOf(node, delta)[i], base, L + gap + i)
    <2>1. ASSUME NEW i \in 1 .. delta
          PROVE  /\ UnitsOf(node, delta)[i] \in Times
                 /\ HasItsTime(UnitsOf(node, delta)[i], base, L + gap + i)
      <3>1. UnitsOf(node, delta)[i] = (node.hdr + node.skip + (i - 1)) % TSMod
        BY DEF UnitsOf
      <3>2. i - 1 \in Int /\ L + gap \in Int /\ (L + gap) + (i - 1) = (L + gap + i) - 1
        BY <1>2, <1>4
      <3>3. Src(node) = (base + (L + gap)) % TSMod
        BY <1>2
      <3>4. /\ (node.hdr + node.skip + (i - 1)) % TSMod \in Times
            /\ (((node.hdr + node.skip + (i - 1)) % TSMod) + Latency) % TSMod
                  = (base + ((L + gap) + (i - 1))) % TSMod
        <4>1. \A b, k, j \in Int : Src(node) = (b + k) % TSMod =>
                /\ (node.hdr + node.skip + j) % TSMod \in Times
                /\ (((node.hdr + node.skip + j) % TSMod) + Latency) % TSMod = (b + (k + j)) % TSMod
          BY <1>2, UnitsHaveTimes
        <4>. QED BY <1>4, <3>2, <3>3, <4>1, Zenon
      <3>. QED BY <3>1, <3>2, <3>4, Zenon DEF HasItsTime
    <2>2. UnitsOf(node, delta) = [i \in 1 .. delta |-> UnitsOf(node, delta)[i]]
      BY DEF UnitsOf
    <2>3. \A i \in 1 .. delta : UnitsOf(node, delta)[i] \in T
      BY <2>1 DEF T
    <2>. HIDE DEF UnitsOf
    <2>. QED BY <2>1, <2>2, <2>3
  <1>6. /\ buffer' \in Seq(T) /\ Len(buffer') = L + gap + delta
        /\ \A k \in 1 .. Len(buffer') : HasItsTime(buffer'[k], base, k)
    <2>. DEFINE u == UnitsOf(node, delta)
    <2>. HIDE DEF u
    <2>1. u \in [1 .. delta -> T] /\ \A i \in 1 .. delta : HasItsTime(u[i], base, Len(buffer) + gap + i)
      BY <1>5 DEF u, L
    <2>2. buffer' = buffer \o [i \in 1 .. gap |-> Silence] \o u
      BY <1>3 DEF u
    <2>3. gap \in Nat /\ delta \in Nat /\ base \in Int /\ buffer \in Seq(T) /\ Silence \in T
          /\ \A k \in 1 .. Len(buffer) : HasItsTime(buffer[k], base, k)
      BY <1>2, <1>4 DEF L
    <2>4. Len(buffer') = Len(buffer) + gap + delta /\ buffer' \in Seq(T)
          /\ \A k \in 1 .. Len(buffer') : HasItsTime(buffer'[k], base, k)
      <3>. DEFINE c == Appending(buffer, gap, u)
      <3>1. /\ c \in Seq(T) /\ Len(c) = Len(buffer) + gap + delta
            /\ \A k \in 1 .. Len(c) : HasItsTime(c[k], base, k)
        BY <2>1, <2>3, AppendsInTime, ZenonT(60)
      <3>. QED BY <2>2, <3>1 DEF Appending
    <2>. QED BY <2>4 DEF L
  <1>7. nowTS' = (base + Len(buffer')) % TSMod /\ nowTS' \in Times
    <2>1. base + (L + gap) \in Int /\ delta \in Int
      BY <1>2, <1>4
    <2>2. (((base + (L + gap)) % TSMod) + delta) % TSMod = ((base + (L + gap)) + delta) % TSMod
      BY <2>1, Sums, Zenon
    <2>3. (base + (L + gap)) + delta = base + Len(buffer')
      BY <1>2, <1>4, <1>6
    <2>4. nowTS' = (base + Len(buffer')) % TSMod
      BY <1>2, <1>3, <2>2, <2>3, Zenon
    <2>5. base + Len(buffer') \in Int
      BY <2>1, <2>3
    <2>. QED BY <2>4, <2>5, Residue
  <1>8. Len(buffer') \in Nat /\ Len(buffer') <= ReadUnits
    BY <1>2, <1>4, <1>6, Constants
  <1>9. busy' \in Seq(Node) /\ freed' \in Nat
    <2>1. CASE cap
      <3>1. busy' = <<CutAt(node, limTS)>> \o Tail(busy) /\ freed' = freed
        BY <2>1, <1>3, Zenon
      <3>2. <<CutAt(node, limTS)>> \in Seq(Node)
        BY <2>1, <1>2
      <3>. QED BY <3>1, <3>2, <1>4, Joined
    <2>2. CASE ~cap
      <3>1. FreeCurr
        BY <2>2, <1>3, Zenon
      <3>. QED BY <3>1, <1>4 DEF FreeCurr
    <2>. QED BY <2>1, <2>2
  <1>10. pc' \in {"loop", "fill"} /\ (pc' = "loop" => Len(buffer') < ReadUnits)
    <2>1. CASE cap \/ Len(buffer') >= ReadUnits
      BY <2>1, <1>3, Zenon
    <2>2. CASE ~(cap \/ Len(buffer') >= ReadUnits)
      <3>1. pc' = "loop" /\ ~(Len(buffer') >= ReadUnits)
        BY <2>2, <1>3, Zenon
      <3>. QED BY <3>1, <1>8, Constants
    <2>. QED BY <2>1, <2>2
  <1>11. Types'
    BY <1>3, <1>6, <1>7, <1>9, <1>10 DEF Inv, Types, T
  <1>12. Position'
    BY <1>3, <1>7, <1>8, <1>10 DEF Position, base
  <1>13. InTime'
    BY <1>3, <1>6 DEF InTime, base
  <1>. QED BY <1>11, <1>12, <1>13 DEF Inv

\* What is left of the window behind the loop.
Rest == IF ModLT(nowTS, limTS, TSMod) THEN (limTS - nowTS) % TSMod ELSE 0

LEMMA RestIsLeft ==
    ASSUME Inv
    PROVE  /\ Rest = ReadUnits - Len(buffer) /\ Rest \in Nat
           /\ (nowTS + Rest) % TSMod = limTS
  <1>. DEFINE L == Len(buffer)
              base == asked.now
  <1>1. base \in Int /\ L \in Nat /\ L <= ReadUnits /\ nowTS = (base + L) % TSMod
        /\ limTS = (base + ReadUnits) % TSMod
    BY DEF Inv, Types, Position, limTS, Times
  <1>. HIDE DEF L, base
  <1>2. ModCmp(nowTS, limTS, TSMod) = L - ReadUnits
    <2>1. 2 * (L - ReadUnits) < TSMod /\ - TSMod <= 2 * (L - ReadUnits)
      BY <1>1, Constants
    <2>2. L \in Int /\ ReadUnits \in Int
      BY <1>1, Constants
    <2>. QED BY <1>1, <2>1, <2>2, Constants, ModCmpOffsets, ZenonT(60)
  <1>3. (limTS - nowTS) % TSMod = (ReadUnits - L) % TSMod
    <2>1. L \in Int /\ ReadUnits \in Int
      BY <1>1, Constants
    <2>. QED BY <1>1, <2>1, Constants, ModOffsets, ZenonT(60)
  <1>4. (ReadUnits - L) % TSMod = ReadUnits - L
    <2>1. ReadUnits - L \in 0 .. TSMod - 1
      BY <1>1, Constants
    <2>. QED BY <2>1, Constants, ModSmall
  <1>5. Rest = ReadUnits - L /\ Rest \in Nat
    <2>1. ModLT(nowTS, limTS, TSMod) <=> L - ReadUnits < 0
      BY <1>2 DEF ModLT
    <2>2. CASE L < ReadUnits
      BY <2>1, <2>2, <1>1, <1>3, <1>4, Constants DEF Rest
    <2>3. CASE L = ReadUnits
      BY <2>1, <2>3, <1>1, Constants DEF Rest
    <2>. QED BY <2>2, <2>3, <1>1, Constants
  <1>6. (nowTS + Rest) % TSMod = limTS
    <2>1. base + L \in Int /\ Rest \in Int
      BY <1>1, <1>5
    <2>2. (((base + L) % TSMod) + Rest) % TSMod = ((base + L) + Rest) % TSMod
      BY <2>1, Sums, Zenon
    <2>3. (base + L) + Rest = base + ReadUnits
      BY <1>1, <1>5, Constants
    <2>. QED BY <1>1, <2>2, <2>3, Zenon
  <1>. QED BY <1>5, <1>6 DEF L

LEMMA FillRestKeepsInv ==
    ASSUME Inv, FillRest
    PROVE  Inv'
  <1>. DEFINE T == Times \cup {Silence}
              base == asked.now
  <1>1. /\ buffer' = buffer \o [i \in 1 .. Rest |-> Silence]
        /\ nowTS' = (nowTS + Rest) % TSMod
        /\ pc' = "idle" /\ reads' = reads + 1
        /\ UNCHANGED <<busy, some, pktSeq, freed, asked>>
    BY DEF FillRest, Rest
  <1>2. Rest = ReadUnits - Len(buffer) /\ Rest \in Nat /\ nowTS' = limTS
    BY <1>1, RestIsLeft
  <1>3. buffer \in Seq(T) /\ base \in Int /\ Silence \in T /\ Len(buffer) \in Nat
        /\ \A k \in 1 .. Len(buffer) : HasItsTime(buffer[k], base, k)
    BY DEF Inv, Types, InTime, Times
  <1>. HIDE DEF T, base
  <1>4. /\ buffer' \in Seq(T) /\ Len(buffer') = Len(buffer) + Rest
        /\ \A k \in 1 .. Len(buffer') : HasItsTime(buffer'[k], base, k)
    <2>. DEFINE sil == [i \in 1 .. Rest |-> Silence]
                c == buffer \o sil
    <2>1. PICK n \in Nat : n = 0
      OBVIOUS
    <2>. DEFINE none == [i \in 1 .. n |-> Silence]
    <2>2. none = <<>>
      BY <2>1
    <2>9. none \in [1 .. n -> T]
      BY <1>3
    <2>3. sil \in Seq(T)
      BY <1>2, <1>3
    <2>. HIDE DEF none, sil
    <2>4. c \o none = c
      BY <1>3, <2>2, <2>3
    <2>5. \A i \in 1 .. n : HasItsTime(none[i], base, Len(buffer) + Rest + i)
      BY <2>1
    <2>. DEFINE e == Appending(buffer, Rest, none)
    <2>7. /\ e \in Seq(T) /\ Len(e) = Len(buffer) + Rest + n
          /\ \A k \in 1 .. Len(e) : HasItsTime(e[k], base, k)
      <3>1. PICK g \in Nat : g = Rest
        BY <1>2
      <3>. DEFINE f == Appending(buffer, g, none)
      <3>2. \A i \in 1 .. n : HasItsTime(none[i], base, Len(buffer) + g + i)
        BY <2>5, <3>1
      <3>3. /\ f \in Seq(T) /\ Len(f) = Len(buffer) + g + n
            /\ \A k \in 1 .. Len(f) : HasItsTime(f[k], base, k)
        BY <1>3, <2>9, <3>2, AppendsInTime, ZenonT(60)
      <3>. QED BY <3>1, <3>3
    <2>8. e = c
      BY <2>4 DEF Appending, sil
    <2>6. buffer' = c
      BY <1>1 DEF c, sil
    <2>. HIDE DEF e, c
    <2>. QED BY <1>2, <1>3, <2>1, <2>6, <2>7, <2>8
  <1>5. Len(buffer') = ReadUnits
    BY <1>2, <1>3, <1>4, Constants
  <1>6. limTS = (base + ReadUnits) % TSMod /\ limTS \in Times
    <2>1. base + ReadUnits \in Int
      BY <1>3, Constants
    <2>. QED BY <2>1, Residue DEF limTS, base
  <1>7. Types'
    BY <1>1, <1>2, <1>4, <1>6 DEF Inv, Types, T
  <1>8. Position'
    BY <1>1, <1>2, <1>5, <1>6, Constants DEF Position, base
  <1>9. InTime'
    BY <1>1, <1>4 DEF InTime, base
  <1>. QED BY <1>7, <1>8, <1>9 DEF Inv

LEMMA InvKept == Inv /\ [Next]_vars => Inv'
  <1>. SUFFICES ASSUME Inv, [Next]_vars PROVE Inv'
    OBVIOUS
  <1>1. CASE \E d \in -Late .. Early, size \in Sizes : Arrive((nowTS + d) % TSMod, size)
    BY <1>1, ArriveKeepsInv
  <1>2. CASE BeginRead
    BY <1>2, BeginReadKeepsInv
  <1>3. CASE NothingDue \/ DecodeFails \/ DiscardOld
    BY <1>3, FreesKeepInv
  <1>4. CASE PlayCurr
    BY <1>4, PlayCurrKeepsInv
  <1>5. CASE FillRest
    BY <1>5, FillRestKeepsInv
  <1>6. CASE UNCHANGED vars
    BY <1>6 DEF vars, Inv, Types, Position, InTime, HasItsTime
  <1>. QED BY <1>1, <1>2, <1>3, <1>4, <1>5, <1>6 DEF Next

\* A read writes the platform's buffer from its first to its last unit and not beyond,
\* each unit silence or the audio whose time it is: dst == lim and nowTS == limTS, as
\* the code asserts at the end of _GeneralAudioRender.
THEOREM ReadsAreOnTime == Spec => []OnTime
  <1>1. Inv => OnTime
    BY DEF Inv, Position, InTime, HasItsTime, OnTime
  <1>. QED BY <1>1, InitInv, InvKept, PTL DEF Spec
----------------------------------------------------------------------------
(* What the loop has done is what the one-step read says of the nodes so far *)

\* The ends of the first n nodes, as distances from the start of the window.
Reach(q, n, base) ==
    {0} \cup {ModCmp(End(q[i]), base, TSMod) : i \in {j \in 1 .. n : ~Undecodable(q[j])}}

Furthest(q, n, base, m) == m \in Reach(q, n, base) /\ \A x \in Reach(q, n, base) : x <= m

\* The node is too old, comes after a gap or is partly too late.
OffTime(q, j, base) ==
    ~Undecodable(q[j]) /\ ModCmp(Src(q[j]), base, TSMod) # Filled(q, 1 .. j - 1, base)

Aborts(q, n, base) == {q[i].seq : i \in {j \in 1 .. n : OffTime(q, j, base)}}

LEMMA EndsAreNumbers ==
    ASSUME NEW q \in Seq(Node), NEW n \in 0 .. Len(q), NEW base \in Times
    PROVE  Reach(q, n, base) \subseteq Int
  <1>1. ASSUME NEW i \in 1 .. n PROVE ModCmp(End(q[i]), base, TSMod) \in Int
    <2>1. q[i] \in Node
      <3>1. i \in 1 .. Len(q)
        OBVIOUS
      <3>. QED BY <3>1, ElementOfSeq
    <2>2. End(q[i]) \in Int /\ base \in Int
      BY <2>1, NodeFields DEF Times
    <2>. QED BY <2>2, Constants, ModCmpRange
  <1>. QED BY <1>1 DEF Reach

LEMMA FurthestIsFilled ==
    ASSUME NEW q \in Seq(Node), NEW n \in 0 .. Len(q), NEW base \in Times,
           NEW m, Furthest(q, n, base, m)
    PROVE  Filled(q, 1 .. n, base) = m
  <1>1. \A x, y \in Reach(q, n, base) :
            (\A z \in Reach(q, n, base) : z <= x) /\ (\A z \in Reach(q, n, base) : z <= y) => x = y
    <2>. TAKE x, y \in Reach(q, n, base)
    <2>1. x \in Int /\ y \in Int
      BY EndsAreNumbers
    <2>. QED BY <2>1
  <1>2. Filled(q, 1 .. n, base) =
            CHOOSE x \in Reach(q, n, base) : \A z \in Reach(q, n, base) : z <= x
    BY DEF Filled, Reach
  <1>3. m \in Reach(q, n, base) /\ \A z \in Reach(q, n, base) : z <= m
    BY DEF Furthest
  <1>. DEFINE r == Reach(q, n, base)
              f == CHOOSE x \in r : \A z \in r : z <= x
  <1>4. f \in r /\ \A z \in r : z <= f
    BY <1>3, Zenon
  <1>. HIDE DEF f, r
  <1>5. f = m
    BY <1>1, <1>3, <1>4, Zenon DEF r
  <1>. QED BY <1>2, <1>5 DEF f, r

LEMMA ReachGrows ==
    ASSUME NEW q, NEW n \in Nat, NEW base
    PROVE  Reach(q, n + 1, base) =
              IF Undecodable(q[n + 1]) THEN Reach(q, n, base)
              ELSE Reach(q, n, base) \cup {ModCmp(End(q[n + 1]), base, TSMod)}
  <1>1. 1 .. n + 1 = (1 .. n) \cup {n + 1}
    OBVIOUS
  <1>. QED BY <1>1, Zenon DEF Reach

LEMMA AbortsGrow ==
    ASSUME NEW q, NEW n \in Nat, NEW base
    PROVE  Aborts(q, n + 1, base) =
              IF OffTime(q, n + 1, base) THEN Aborts(q, n, base) \cup {q[n + 1].seq}
              ELSE Aborts(q, n, base)
  <1>1. 1 .. n + 1 = (1 .. n) \cup {n + 1}
    OBVIOUS
  <1>. QED BY <1>1, Zenon DEF Aborts

\* The first n nodes have been seen: what was aborted, and the last of them.
Seen(n) ==
    /\ n \in 0 .. Len(asked.busy)
    /\ aborted = Aborts(asked.busy, n, asked.now)
    /\ some <=> n > 0
    /\ n > 0 => pktSeq = asked.busy[n].seq

Looping ==
    pc = "loop" =>
        /\ Seen(freed) /\ Furthest(asked.busy, freed, asked.now, Len(buffer))
        /\ \A i \in 1 .. freed : ~BreaksAt(asked.busy[i], limTS)
        /\ busy = SubSeq(asked.busy, freed + 1, Len(asked.busy))

\* The read has stopped at a node, having played those before it and maybe a part of it.
Stopped(stop, n) ==
    /\ Seen(n)
    /\ Filled(asked.busy, 1 .. n, asked.now) < ReadUnits <=> Len(buffer) < ReadUnits
    /\ StopsAt(asked.busy, stop, limTS)
    /\ busy = LeftAfter(asked.busy, stop, limTS)
    /\ Played(asked.busy, stop, limTS) = 1 .. n

Filling == pc = "fill" => \E stop \in 1 .. Len(asked.busy) + 1, n \in Nat : Stopped(stop, n)

LoopInv == Inv /\ Looping /\ Filling

LEMMA Suffixes ==
    ASSUME NEW S, NEW q \in Seq(S), NEW n \in 0 .. Len(q)
    PROVE  LET r == SubSeq(q, n + 1, Len(q)) IN
           /\ r \in Seq(S) /\ Len(r) = Len(q) - n
           /\ r = <<>> <=> n = Len(q)
           /\ r # <<>> => /\ n + 1 \in 1 .. Len(q) /\ Head(r) = q[n + 1]
                          /\ Tail(r) = SubSeq(q, (n + 1) + 1, Len(q))
  <1>. DEFINE r == SubSeq(q, n + 1, Len(q))
  <1>1. Len(q) \in Nat /\ n \in Nat /\ n <= Len(q)
    OBVIOUS
  <1>2. r \in Seq(S) /\ Len(r) = Len(q) - n /\ \A i \in 1 .. Len(q) - n : r[i] = q[n + i]
    <2>1. CASE n = Len(q)
      BY <2>1, LenProperties
    <2>2. CASE n < Len(q)
      BY <2>2, LenProperties
    <2>. QED BY <1>1, <2>1, <2>2
  <1>3. r = <<>> <=> n = Len(q)
    <2>1. r \in Seq(S) /\ Len(r) = Len(q) - n
      BY <1>2
    <2>. HIDE DEF r
    <2>2. r # <<>> => Len(r) \in Nat \ {0}
      BY <2>1, EmptySeq
    <2>3. r = <<>> => Len(r) = 0
      OBVIOUS
    <2>. QED BY <1>1, <2>1, <2>2, <2>3
  <1>4. ASSUME r # <<>>
        PROVE  /\ n + 1 \in 1 .. Len(q) /\ Head(r) = q[n + 1]
               /\ Tail(r) = SubSeq(q, (n + 1) + 1, Len(q))
    <2>1. n + 1 \in 1 .. Len(q)
      BY <1>1, <1>3, <1>4
    <2>. DEFINE t == SubSeq(q, (n + 1) + 1, Len(q))
    <2>2. t \in Seq(S) /\ Len(t) = Len(q) - (n + 1)
          /\ \A i \in 1 .. Len(q) - (n + 1) : t[i] = q[(n + 1) + i]
      <3>1. CASE n + 1 = Len(q)
        BY <3>1, LenProperties
      <3>2. CASE n + 1 < Len(q)
        BY <3>2, LenProperties
      <3>. QED BY <1>1, <2>1, <3>1, <3>2
    <2>. HIDE DEF r, t
    <2>3. Head(r) = r[1] /\ Tail(r) \in Seq(S) /\ Len(Tail(r)) = Len(r) - 1
          /\ \A i \in 1 .. Len(r) - 1 : Tail(r)[i] = r[i + 1]
      BY <1>2, <1>4, HeadTailProperties
    <2>4. Head(r) = q[n + 1]
      BY <1>1, <1>2, <2>1, <2>3
    <2>5. \A i \in 1 .. Len(t) : Tail(r)[i] = t[i]
      <3>. TAKE i \in 1 .. Len(t)
      <3>1. i + 1 \in 1 .. Len(q) - n /\ i \in 1 .. Len(r) - 1 /\ i \in 1 .. Len(q) - (n + 1)
            /\ n + (i + 1) = (n + 1) + i
        BY <1>1, <1>2, <2>1, <2>2
      <3>. QED BY <1>2, <2>2, <2>3, <3>1
    <2>6. Len(Tail(r)) = Len(t)
      BY <1>1, <1>2, <2>2, <2>3
    <2>7. Tail(r) = t
      BY <2>2, <2>3, <2>5, <2>6, SeqEqual
    <2>. QED BY <2>1, <2>4, <2>7 DEF r, t
  <1>. QED BY <1>2, <1>3, <1>4

LEMMA NewHead ==
    ASSUME NEW S, NEW q \in Seq(S), q # <<>>, NEW e \in S
    PROVE  [q EXCEPT ![1] = e] = <<e>> \o Tail(q)
  <1>. DEFINE a == [q EXCEPT ![1] = e]
              t == Tail(q)
              b == <<e>> \o t
  <1>1. a \in Seq(S) /\ Len(a) = Len(q) /\ Len(q) \in Nat /\ Len(q) > 0
        /\ \A i \in 1 .. Len(q) : a[i] = IF i = 1 THEN e ELSE q[i]
    BY EmptySeq, ExceptSeq
  <1>2. t \in Seq(S) /\ Len(t) = Len(q) - 1 /\ \A i \in 1 .. Len(q) - 1 : t[i] = q[i + 1]
    BY HeadTailProperties
  <1>. HIDE DEF a, t
  <1>3. <<e>> \in Seq(S) /\ Len(<<e>>) = 1 /\ <<e>>[1] = e
    OBVIOUS
  <1>4. b \in Seq(S) /\ Len(b) = 1 + Len(t)
        /\ (\A i \in 1 .. 1 : b[i] = <<e>>[i]) /\ (\A i \in 1 .. Len(t) : b[1 + i] = t[i])
    <2>1. b \in Seq(S) /\ Len(b) = Len(<<e>>) + Len(t)
          /\ \A i \in 1 .. Len(<<e>>) : b[i] = <<e>>[i]
      BY <1>2, <1>3, Joined, ZenonT(60)
    <2>2. \A i \in 1 .. Len(t) : b[Len(<<e>>) + i] = t[i]
      BY <1>2, <1>3, Joined
    <2>. HIDE DEF b
    <2>. QED BY <1>3, <2>1, <2>2
  <1>. HIDE DEF b
  <1>5. \A i \in 1 .. Len(b) : a[i] = b[i]
    <2>. TAKE i \in 1 .. Len(b)
    <2>1. CASE i = 1
      BY <2>1, <1>1, <1>3, <1>4
    <2>2. CASE i # 1
      <3>1. i - 1 \in 1 .. Len(t) /\ 1 + (i - 1) = i /\ (i - 1) + 1 = i /\ i \in 1 .. Len(q)
            /\ i - 1 \in 1 .. Len(q) - 1
        BY <2>2, <1>1, <1>2, <1>4
      <3>2. b[i] = t[i - 1]
        BY <1>4, <3>1
      <3>3. t[i - 1] = q[i]
        BY <1>2, <3>1
      <3>. QED BY <2>2, <1>1, <3>1, <3>2, <3>3
    <2>. QED BY <2>1, <2>2
  <1>6. Len(a) = Len(b)
    BY <1>1, <1>2, <1>4
  <1>7. a = b
    BY <1>1, <1>4, <1>5, <1>6, SeqEqual
  <1>. QED BY <1>7 DEF a, b, t
----------------------------------------------------------------------------
(* Every step of the loop keeps what it has in common with the one-step read *)

LEMMA LimIsTime ==
    ASSUME Inv
    PROVE  limTS \in Times /\ limTS = (asked.now + ReadUnits) % TSMod
  <1>1. asked.now + ReadUnits \in Int
    BY Constants DEF Inv, Types, Times
  <1>. QED BY <1>1, Residue DEF limTS

\* The current node is the first of those that were not seen.
LEMMA CurrIsNext ==
    ASSUME LoopInv, pc = "loop", busy # <<>>
    PROVE  /\ freed \in Nat /\ freed + 1 \in 1 .. Len(asked.busy)
           /\ freed + 1 \in 0 .. Len(asked.busy)
           /\ curr = asked.busy[freed + 1]
           /\ curr \in Node
           /\ Tail(busy) = SubSeq(asked.busy, (freed + 1) + 1, Len(asked.busy))
  <1>1. asked.busy \in Seq(Node) /\ freed \in 0 .. Len(asked.busy)
        /\ busy = SubSeq(asked.busy, freed + 1, Len(asked.busy))
    BY DEF LoopInv, Inv, Types, Looping, Seen
  <1>2. freed + 1 \in 1 .. Len(asked.busy) /\ Head(busy) = asked.busy[freed + 1]
        /\ Tail(busy) = SubSeq(asked.busy, (freed + 1) + 1, Len(asked.busy))
    BY <1>1, Suffixes
  <1>3. curr \in Node
    BY CurrIsNode DEF LoopInv, Inv
  <1>. QED BY <1>1, <1>2, <1>3 DEF curr

\* One more node is seen, and given up if it is off its time.
LEMMA SeesNext ==
    ASSUME LoopInv, pc = "loop", busy # <<>>, asked' = asked,
           NEW n, n = freed + 1,
           some' = TRUE, pktSeq' = curr.seq,
           aborted' = IF OffTime(asked.busy, freed + 1, asked.now)
                      THEN aborted \cup {curr.seq} ELSE aborted
    PROVE  Seen(n)'
  <1>1. freed \in Nat /\ freed + 1 \in 0 .. Len(asked.busy) /\ curr = asked.busy[freed + 1]
    BY CurrIsNext
  <1>2. aborted = Aborts(asked.busy, freed, asked.now)
    BY DEF LoopInv, Looping, Seen
  <1>3. aborted' = Aborts(asked.busy, freed + 1, asked.now)
    BY <1>1, <1>2, AbortsGrow
  <1>4. n > 0 /\ n \in 0 .. Len(asked'.busy) /\ curr = asked'.busy[n]
    BY <1>1
  <1>5. some' <=> n > 0
    BY <1>4, Zenon
  <1>. QED BY <1>3, <1>4, <1>5 DEF Seen

\* The place of the current node, in the terms of the one-step read.
LEMMA CurrPlace ==
    ASSUME LoopInv, Due
    PROVE  \E s \in Int :
           /\ Place(curr, asked.now, Len(buffer), s)
           /\ ModCmp(End(curr), nowTS, TSMod) = s + curr.size
           /\ ModCmp(End(curr), limTS, TSMod) = Len(buffer) + s + curr.size - ReadUnits
           /\ ModCmp(End(curr), asked.now, TSMod) = Len(buffer) + s + curr.size
           /\ OffTime(asked.busy, freed + 1, asked.now) <=> s # 0
  <1>. DEFINE L == Len(buffer)
              base == asked.now
              q == asked.busy
  <1>1. pc = "loop" /\ busy # <<>> /\ Ready(curr, limTS) /\ ~Undecodable(curr)
    BY DEF Due
  <1>2. /\ base \in Times /\ L \in Nat /\ L < ReadUnits /\ q \in Seq(Node)
        /\ nowTS = (base + L) % TSMod /\ limTS = (base + ReadUnits) % TSMod
    BY <1>1 DEF LoopInv, Inv, Types, Position, limTS
  <1>3. freed \in Nat /\ freed \in 0 .. Len(q) /\ curr = q[freed + 1] /\ curr \in Node
        /\ Furthest(q, freed, base, L)
    BY <1>1, CurrIsNext DEF LoopInv, Looping, Seen
  <1>. HIDE DEF L, base, q
  <1>4. PICK s \in Int : Place(curr, base, L, s)
    BY <1>1, <1>2, <1>3, ReadyHasPlace
  <1>5. /\ ModCmp(Src(curr), base, TSMod) = L + s
        /\ ModCmp(End(curr), nowTS, TSMod) = s + curr.size
        /\ ModCmp(End(curr), limTS, TSMod) = L + s + curr.size - ReadUnits
        /\ ModCmp(End(curr), base, TSMod) = L + s + curr.size
    BY <1>2, <1>3, <1>4, PlaceCompares
  <1>6. Filled(q, 1 .. freed, base) = L
    BY <1>2, <1>3, FurthestIsFilled
  <1>7. OffTime(q, freed + 1, base) <=> L + s # L
    <2>1. (freed + 1) - 1 = freed
      BY <1>3
    <2>2. OffTime(q, freed + 1, base) <=>
              ~Undecodable(curr) /\ ModCmp(Src(curr), base, TSMod) # Filled(q, 1 .. freed, base)
      BY <2>1, <1>3 DEF OffTime
    <2>. QED BY <1>1, <1>5, <1>6, <2>2
  <1>8. L + s # L <=> s # 0
    BY <1>2
  <1>. QED BY <1>4, <1>5, <1>7, <1>8 DEF L, base, q

\* Whoever has seen the current node goes on behind it.
LEMMA GoesOnBehind ==
    ASSUME LoopInv, pc = "loop", busy # <<>>, FreeCurr, asked' = asked, pc' = "loop",
           ~BreaksAt(curr, limTS), NEW n, n = freed + 1,
           Seen(n)', Furthest(asked.busy, freed + 1, asked.now, Len(buffer'))
    PROVE  Looping'
  <1>1. freed \in Nat /\ curr = asked.busy[freed + 1]
        /\ Tail(busy) = SubSeq(asked.busy, (freed + 1) + 1, Len(asked.busy))
    BY CurrIsNext
  <1>2. freed' = freed + 1 /\ busy' = Tail(busy)
    BY DEF FreeCurr
  <1>3. \A i \in 1 .. freed : ~BreaksAt(asked.busy[i], limTS)
    BY DEF LoopInv, Looping
  <1>4. \A i \in 1 .. freed + 1 : ~BreaksAt(asked.busy[i], limTS)
    <2>. TAKE i \in 1 .. freed + 1
    <2>1. i \in 1 .. freed \/ i = freed + 1
      BY <1>1
    <2>. QED BY <1>1, <1>3, <2>1
  <1>5. limTS' = limTS
    BY DEF limTS
  <1>6. Seen(freed)'
    <2>1. n = freed'
      BY <1>2
    <2>. QED BY <2>1
  <1>. QED BY <1>1, <1>2, <1>4, <1>5, <1>6 DEF Looping

LEMMA InitLooping == Init => Looping /\ Filling
  BY DEF Init, Looping, Filling

LEMMA ArriveLoops ==
    ASSUME LoopInv, NEW d \in -Late .. Early, NEW size \in Sizes, Arrive((nowTS + d) % TSMod, size)
    PROVE  Looping' /\ Filling'
  BY DEF Arrive, Looping, Filling

LEMMA BeginReadLoops ==
    ASSUME LoopInv, BeginRead
    PROVE  Looping' /\ Filling'
  <1>1. asked'.busy = busy /\ asked'.now = nowTS /\ buffer' = <<>> /\ aborted' = {}
        /\ some' = FALSE /\ freed' = 0 /\ busy' = busy /\ pc' = "loop"
    BY DEF BeginRead
  <1>2. busy \in Seq(Node) /\ Len(busy) \in Nat /\ busy = SubSeq(busy, 1, Len(busy))
    BY LenProperties DEF LoopInv, Inv, Types
  <1>3. 1 .. 0 = {}
    OBVIOUS
  <1>4. Aborts(busy, 0, nowTS) = {}
    BY <1>3 DEF Aborts
  <1>5. Reach(busy, 0, nowTS) = {0}
    BY <1>3 DEF Reach
  <1>6. Furthest(busy, 0, nowTS, 0)
    BY <1>5 DEF Furthest
  <1>7. 0 \in 0 .. Len(busy) /\ ~(0 > 0)
    BY <1>2
  <1>8. Seen(freed)'
    <2>1. (some <=> freed > 0)'
      BY <1>1, <1>7, Zenon
    <2>. QED BY <1>1, <1>4, <1>7, <2>1 DEF Seen
  <1>9. Furthest(asked'.busy, freed', asked'.now, Len(buffer'))
    <2>1. Len(<<>>) = 0
      OBVIOUS
    <2>. QED BY <1>1, <1>6, <2>1
  <1>10. busy' = SubSeq(asked'.busy, freed' + 1, Len(asked'.busy))
    <2>1. 0 + 1 = 1
      OBVIOUS
    <2>. QED BY <1>1, <1>2, <2>1
  <1>11. \A i \in 1 .. freed' : ~BreaksAt(asked'.busy[i], limTS')
    BY <1>1
  <1>. QED BY <1>1, <1>8, <1>9, <1>10, <1>11 DEF Looping, Filling

LEMMA DecodeFailsLoops ==
    ASSUME LoopInv, DecodeFails
    PROVE  Looping' /\ Filling'
  <1>1. pc = "loop" /\ busy # <<>> /\ Ready(curr, limTS) /\ Undecodable(curr)
        /\ some' = TRUE /\ pktSeq' = curr.seq /\ FreeCurr
        /\ UNCHANGED <<pc, nowTS, buffer, aborted, reads, asked>>
    BY DEF DecodeFails
  <1>2. freed \in Nat /\ curr = asked.busy[freed + 1]
    BY <1>1, CurrIsNext
  <1>3. ~OffTime(asked.busy, freed + 1, asked.now)
    BY <1>1, <1>2 DEF OffTime
  <1>4. PICK m : m = freed + 1
    OBVIOUS
  <1>8. Seen(m)'
    BY <1>1, <1>3, <1>4, SeesNext
  <1>5. Furthest(asked.busy, freed + 1, asked.now, Len(buffer'))
    <2>1. Reach(asked.busy, freed + 1, asked.now) = Reach(asked.busy, freed, asked.now)
      BY <1>1, <1>2, ReachGrows
    <2>. QED BY <1>1, <2>1 DEF LoopInv, Looping, Furthest
  <1>6. ~BreaksAt(curr, limTS)
    BY <1>1 DEF BreaksAt
  <1>7. Looping'
    BY <1>1, <1>4, <1>5, <1>6, <1>8, GoesOnBehind
  <1>. QED BY <1>1, <1>7 DEF Filling

LEMMA DiscardOldLoops ==
    ASSUME LoopInv, DiscardOld
    PROVE  Looping' /\ Filling'
  <1>1. Due /\ TooOld /\ pc = "loop" /\ busy # <<>> /\ Ready(curr, limTS) /\ ~Undecodable(curr)
        /\ some' = TRUE /\ pktSeq' = curr.seq /\ aborted' = aborted \cup {curr.seq} /\ FreeCurr
        /\ UNCHANGED <<pc, nowTS, buffer, reads, asked>>
    BY DEF DiscardOld, Due
  <1>. DEFINE L == Len(buffer)
  <1>2. freed \in Nat /\ curr = asked.busy[freed + 1] /\ curr \in Node
        /\ freed \in 0 .. Len(asked.busy) /\ L \in Nat /\ L < ReadUnits
        /\ asked.busy \in Seq(Node) /\ asked.now \in Times
    BY <1>1, CurrIsNext DEF LoopInv, Looping, Seen, Inv, Types, Position
  <1>3. PICK s \in Int :
           /\ ModCmp(End(curr), nowTS, TSMod) = s + curr.size
           /\ ModCmp(End(curr), limTS, TSMod) = L + s + curr.size - ReadUnits
           /\ ModCmp(End(curr), asked.now, TSMod) = L + s + curr.size
           /\ OffTime(asked.busy, freed + 1, asked.now) <=> s # 0
    BY <1>1, CurrPlace
  <1>. HIDE DEF L
  <1>4. curr.size \in Nat /\ s + curr.size <= 0 /\ L \in Nat
    <2>1. ModCmp(End(curr), nowTS, TSMod) <= 0
      BY <1>1 DEF TooOld, ModLE
    <2>. QED BY <1>2, <1>3, <2>1, NodeFields
  <1>5. s # 0
    <2>1. curr.size = 0 => curr.skip # 0
      BY <1>1 DEF Undecodable
    <2>2. curr.skip # 0 => curr.size > 0
      BY <1>2 DEF Node
    <2>. QED BY <1>4, <2>1, <2>2
  <1>10. PICK m : m = freed + 1
    OBVIOUS
  <1>6. Seen(m)'
    <2>1. aborted' = IF OffTime(asked.busy, freed + 1, asked.now)
                     THEN aborted \cup {curr.seq} ELSE aborted
      BY <1>1, <1>3, <1>5
    <2>. QED BY <1>1, <1>10, <2>1, SeesNext
  <1>7. Furthest(asked.busy, freed + 1, asked.now, Len(buffer'))
    <2>. DEFINE x == L + s + curr.size
    <2>1. Reach(asked.busy, freed + 1, asked.now) = Reach(asked.busy, freed, asked.now) \cup {x}
      <3>1. ModCmp(End(curr), asked.now, TSMod) = x
        BY <1>3, Zenon
      <3>. HIDE DEF x
      <3>. QED BY <1>1, <1>2, <3>1, ReachGrows
    <2>2. x <= L
      BY <1>4
    <2>3. Furthest(asked.busy, freed, asked.now, L)
      BY <1>1 DEF LoopInv, Looping, L
    <2>. HIDE DEF x
    <2>4. Furthest(asked.busy, freed + 1, asked.now, L)
      BY <2>1, <2>2, <2>3 DEF Furthest
    <2>. QED BY <1>1, <2>4 DEF L
  <1>8. ~BreaksAt(curr, limTS)
    <2>1. ModCmp(End(curr), limTS, TSMod) = L + s + curr.size - ReadUnits
      BY <1>3, Zenon
    <2>2. ~(ModCmp(End(curr), limTS, TSMod) >= 0)
      BY <1>2, <1>4, <2>1, EndsInside
    <2>. QED BY <1>1, <2>2 DEF BreaksAt, ModGE
  <1>9. Looping'
    BY <1>1, <1>6, <1>7, <1>8, <1>10, GoesOnBehind
  <1>. QED BY <1>1, <1>9 DEF Filling

\* What a stop says of the list, in the three ways in which the loop ends.
LEMMA NothingDueStops ==
    ASSUME LoopInv, NothingDue
    PROVE  Looping' /\ Filling'
  <1>. DEFINE q == asked.busy
              n == freed
              stop == n + 1
  <1>1. pc = "loop" /\ (busy # <<>> => ~Ready(curr, limTS)) /\ pc' = "fill"
        /\ UNCHANGED <<busy, nowTS, buffer, some, pktSeq, aborted, freed, reads, asked>>
    BY DEF NothingDue
  <1>2. Seen(n) /\ Furthest(q, n, asked.now, Len(buffer)) /\ n \in 0 .. Len(q) /\ n \in Nat
        /\ (\A i \in 1 .. n : ~BreaksAt(q[i], limTS)) /\ busy = SubSeq(q, n + 1, Len(q))
        /\ q \in Seq(Node) /\ Len(q) \in Nat /\ asked.now \in Times
    BY <1>1, LenProperties DEF LoopInv, Looping, Seen, Inv, Types
  <1>3. stop \in 1 .. Len(q) + 1
    BY <1>2
  <1>4. stop <= Len(q) => ~Ready(q[stop], limTS)
    <2>. SUFFICES ASSUME stop <= Len(q) PROVE ~Ready(q[stop], limTS)
      OBVIOUS
    <2>1. n # Len(q)
      BY <1>2
    <2>2. busy # <<>> /\ Head(busy) = q[n + 1]
      BY <1>2, <2>1, Suffixes
    <2>. QED BY <1>1, <2>2 DEF curr
  <1>. HIDE DEF q
  <1>5. StopsAt(q, stop, limTS)
    <2>1. stop - 1 = n
      BY <1>2
    <2>. QED BY <1>2, <1>4, <2>1 DEF StopsAt, BreaksAt
  <1>6. FreedBy(q, stop, limTS) = n /\ ~Capped(q, stop, limTS)
    <2>1. stop - 1 = n
      BY <1>2
    <2>. QED BY <1>4, <2>1 DEF FreedBy, Capped
  <1>7. busy = LeftAfter(q, stop, limTS)
    BY <1>2, <1>6 DEF LeftAfter
  <1>8. Played(q, stop, limTS) = 1 .. n
    <2>1. \A i \in 1 .. n : i <= Len(q) /\ Ready(q[i], limTS)
      BY <1>2 DEF BreaksAt
    <2>2. \A i \in 1 .. stop : i \in 1 .. n \/ i = stop
      BY <1>2
    <2>3. 1 .. n \subseteq 1 .. stop /\ stop \notin 1 .. n
      BY <1>2
    <2>. QED BY <1>4, <2>1, <2>2, <2>3 DEF Played
  <1>9. Filled(q, 1 .. n, asked.now) < ReadUnits <=> Len(buffer) < ReadUnits
    BY <1>2, FurthestIsFilled
  <1>10. Stopped(stop, n)
    BY <1>2, <1>5, <1>7, <1>8, <1>9 DEF Stopped, q
  <1>11. Stopped(stop, n)'
    BY <1>1, <1>10 DEF Stopped, Seen, limTS
  <1>12. stop \in 1 .. Len(asked'.busy) + 1 /\ n \in Nat
    BY <1>1, <1>2, <1>3 DEF q
  <1>. QED BY <1>1, <1>11, <1>12 DEF Looping, Filling
LEMMA PlayCurrLoops ==
    ASSUME LoopInv, PlayCurr
    PROVE  Looping' /\ Filling'
  <1>. DEFINE L == Len(buffer)
              base == asked.now
              q == asked.busy
              gap == Gap(curr)
              now == (nowTS + gap) % TSMod
              node == Remaining(curr, now)
              cap == Cap(curr)
              delta == IF cap THEN (limTS - Src(node)) % TSMod ELSE node.size
              n == freed + 1
  <1>1. Due /\ ~TooOld /\ pc = "loop" /\ busy # <<>> /\ Ready(curr, limTS) /\ ~Undecodable(curr)
        /\ Inv
    BY DEF PlayCurr, Due, LoopInv
  <1>2. PICK s \in Int :
           /\ Place(curr, base, L, s)
           /\ gap \in Nat
           /\ (gap # 0 \/ node # curr <=> s # 0)
           /\ (cap <=> L + s + curr.size > ReadUnits)
           /\ delta \in Nat
           /\ L + gap + delta = IF cap THEN ReadUnits ELSE L + s + curr.size
           /\ (cap => CutAt(node, limTS) = CutAt(curr, limTS) /\ CutAt(node, limTS) \in Node)
    BY <1>1, PlaysCurr, Zenon
  <1>3. PICK t \in Int :
           /\ Place(curr, base, L, t)
           /\ ModCmp(End(curr), nowTS, TSMod) = t + curr.size
           /\ ModCmp(End(curr), limTS, TSMod) = L + t + curr.size - ReadUnits
           /\ ModCmp(End(curr), base, TSMod) = L + t + curr.size
           /\ OffTime(q, n, base) <=> t # 0
    BY <1>1, CurrPlace
  <1>4. freed \in Nat /\ n \in 1 .. Len(q) /\ n \in 0 .. Len(q) /\ curr = q[n] /\ curr \in Node
        /\ Tail(busy) = SubSeq(q, n + 1, Len(q)) /\ Tail(busy) \in Seq(Node)
        /\ L \in Nat /\ L < ReadUnits /\ q \in Seq(Node) /\ base \in Times /\ base \in Int
        /\ busy = SubSeq(q, freed + 1, Len(q)) /\ freed \in 0 .. Len(q) /\ busy \in Seq(Node)
        /\ curr.size \in Nat /\ Len(q) \in Nat
    <2>1. /\ freed \in Nat /\ freed + 1 \in 1 .. Len(asked.busy)
          /\ freed + 1 \in 0 .. Len(asked.busy)
          /\ curr = asked.busy[freed + 1] /\ curr \in Node
          /\ Tail(busy) = SubSeq(asked.busy, (freed + 1) + 1, Len(asked.busy))
      BY <1>1, CurrIsNext
    <2>2. busy = SubSeq(asked.busy, freed + 1, Len(asked.busy)) /\ freed \in 0 .. Len(asked.busy)
      BY <1>1 DEF LoopInv, Looping, Seen
    <2>3. Len(buffer) \in Nat /\ Len(buffer) < ReadUnits /\ asked.busy \in Seq(Node)
          /\ Len(asked.busy) \in Nat /\ asked.now \in Times /\ asked.now \in Int /\ busy \in Seq(Node)
      BY <1>1, LenProperties DEF Inv, Types, Position, Times
    <2>4. Tail(busy) \in Seq(Node) /\ curr.size \in Nat
      BY <1>1, <2>1, CurrIsNode, NodeFields DEF Inv
    <2>. QED BY <2>1, <2>2, <2>3, <2>4
  <1>5. /\ buffer' = buffer \o [i \in 1 .. gap |-> Silence] \o UnitsOf(node, delta)
        /\ some' = TRUE /\ pktSeq' = curr.seq
        /\ aborted' = (IF gap # 0 \/ node # curr THEN aborted \cup {curr.seq} ELSE aborted)
        /\ IF cap THEN busy' = <<CutAt(node, limTS)>> \o Tail(busy) /\ UNCHANGED freed
           ELSE FreeCurr
        /\ pc' = (IF cap \/ Len(buffer') >= ReadUnits THEN "fill" ELSE "loop")
        /\ asked' = asked
    BY DEF PlayCurr
  <1>6. Len(buffer') = L + gap + delta
    <2>1. buffer \in Seq(Times \cup {Silence})
      BY <1>1 DEF Inv, Types
    <2>2. [i \in 1 .. gap |-> Silence] \in Seq({Silence})
          /\ Len([i \in 1 .. gap |-> Silence]) = gap
      <3>. HIDE DEF gap
      <3>. QED BY <1>2
    <2>3. Len(UnitsOf(node, delta)) = delta
      <3>. HIDE DEF delta, node
      <3>. QED BY <1>2 DEF UnitsOf
    <2>4. UnitsOf(node, delta) \in Seq({UnitsOf(node, delta)[i] : i \in 1 .. delta})
      <3>1. UnitsOf(node, delta) = [i \in 1 .. delta |-> UnitsOf(node, delta)[i]]
        BY DEF UnitsOf
      <3>. HIDE DEF delta, node
      <3>. DEFINE U == {UnitsOf(node, delta)[i] : i \in 1 .. delta}
      <3>2. \A i \in 1 .. delta : UnitsOf(node, delta)[i] \in U
        OBVIOUS
      <3>. HIDE DEF U
      <3>3. UnitsOf(node, delta) \in [1 .. delta -> U]
        BY <3>1, <3>2
      <3>4. UnitsOf(node, delta) \in Seq(U)
        BY <1>2, <3>3
      <3>. QED BY <3>4 DEF U
    <2>. DEFINE sil == [i \in 1 .. gap |-> Silence]
                u == UnitsOf(node, delta)
                U == {UnitsOf(node, delta)[i] : i \in 1 .. delta}
                T == Times \cup {Silence} \cup U
    <2>5. buffer \in Seq(T) /\ sil \in Seq(T) /\ u \in Seq(T) /\ Len(sil) = gap /\ Len(u) = delta
      <3>1. \A A, B : A \subseteq B => Seq(A) \subseteq Seq(B)
        OBVIOUS
      <3>2. Times \cup {Silence} \subseteq T /\ {Silence} \subseteq T /\ U \subseteq T
        OBVIOUS
      <3>3. buffer \in Seq(Times \cup {Silence}) /\ sil \in Seq({Silence}) /\ u \in Seq(U)
        BY <2>1, <2>2, <2>4
      <3>. HIDE DEF T, U, sil, u
      <3>4. buffer \in Seq(T) /\ sil \in Seq(T) /\ u \in Seq(T)
        BY <3>1, <3>2, <3>3, Zenon
      <3>. QED BY <3>4, <2>2, <2>3 DEF sil, u
    <2>. HIDE DEF T, sil, u
    <2>6. buffer \o sil \in Seq(T) /\ Len(buffer \o sil) = Len(buffer) + gap
      <3>1. buffer \o sil \in Seq(T) /\ Len(buffer \o sil) = Len(buffer) + Len(sil)
        BY <2>5, Joined, Zenon
      <3>. QED BY <2>5, <3>1
    <2>7. Len((buffer \o sil) \o u) = Len(buffer \o sil) + Len(u)
      BY <2>5, <2>6, Joined
    <2>8. buffer' = (buffer \o sil) \o u
      BY <1>5 DEF sil, u
    <2>. QED BY <2>5, <2>6, <2>7, <2>8
  <1>7. Furthest(q, freed, base, L)
    BY <1>1 DEF LoopInv, Looping
  <1>8. ~(s + curr.size <= 0)
    <2>1. ModCmp(End(curr), nowTS, TSMod) = s + curr.size
      <3>1. nowTS = Behind(base, L)
        BY <1>1 DEF Inv, Position, Behind
      <3>. HIDE DEF base, L
      <3>2. base \in Times /\ L \in Nat /\ L < ReadUnits /\ curr \in Node /\ Place(curr, base, L, s)
        BY <1>2, <1>4
      <3>. QED BY <3>1, <3>2, EndFromNow
    <2>2. ~(ModCmp(End(curr), nowTS, TSMod) <= 0)
      BY <1>1 DEF TooOld, ModLE
    <2>. QED BY <2>1, <2>2, Zenon
  <1>9. s = t
    <2>1. nowTS = Behind(base, L)
      BY <1>1 DEF Inv, Position, Behind
    <2>. HIDE DEF base, L
    <2>2. ModCmp(End(curr), nowTS, TSMod) = s + curr.size
      <3>1. base \in Times /\ L \in Nat /\ L < ReadUnits /\ curr \in Node /\ Place(curr, base, L, s)
        BY <1>2, <1>4
      <3>. QED BY <2>1, <3>1, EndFromNow
    <2>3. ModCmp(End(curr), nowTS, TSMod) = t + curr.size
      BY <1>3, Zenon
    <2>4. curr.size \in Nat
      BY <1>4
    <2>. QED BY <2>2, <2>3, <2>4
  <1>. DEFINE m == L + s + curr.size
  <1>11. PICK z : z = n
    OBVIOUS
  <1>12. Seen(z)'
    <2>1. aborted' = IF OffTime(asked.busy, freed + 1, asked.now)
                     THEN aborted \cup {curr.seq} ELSE aborted
      <3>. HIDE DEF gap, node
      <3>. QED BY <1>2, <1>3, <1>5, <1>9, Zenon
    <2>2. z = freed + 1
      BY <1>11
    <2>3. asked' = asked /\ some' = TRUE /\ pktSeq' = curr.seq
      BY <1>5
    <2>. QED BY <1>1, <2>1, <2>2, <2>3, SeesNext
  <1>13. ModCmp(End(curr), limTS, TSMod) = m - ReadUnits /\ ModCmp(End(curr), base, TSMod) = m
         /\ m \in Nat /\ m > L
    <2>1. /\ ModCmp(End(curr), limTS, TSMod) = L + s + curr.size - ReadUnits
          /\ ModCmp(End(curr), base, TSMod) = L + s + curr.size
      BY <1>3, <1>9, Zenon
    <2>2. L + s + curr.size - ReadUnits = m - ReadUnits
      <3>. HIDE DEF L
      <3>. QED BY <1>4, Constants
    <2>3. m \in Nat /\ m > L
      <3>1. L \in Nat /\ curr.size \in Nat
        BY <1>4
      <3>. HIDE DEF L
      <3>. QED BY <3>1, <1>8
    <2>. QED BY <2>1, <2>2, <2>3, Zenon
  <1>14. cap <=> m > ReadUnits
    BY <1>2
  <1>15. L + gap + delta = (IF cap THEN ReadUnits ELSE m)
    BY <1>2
  <1>. HIDE DEF L, base, gap, now, node, cap, delta, m
  <1>16. Furthest(q, n, base, m)
    <2>1. Reach(q, n, base) = Reach(q, freed, base) \cup {m}
      <3>1. ModCmp(End(q[freed + 1]), base, TSMod) = m /\ ~Undecodable(q[freed + 1])
        BY <1>1, <1>4, <1>13
      <3>. HIDE DEF q
      <3>. QED BY <1>4, <3>1, ReachGrows
    <2>2. \A x \in Reach(q, freed, base) : x <= m
      <3>. TAKE x \in Reach(q, freed, base)
      <3>1. x \in Int
        BY <1>4, EndsAreNumbers
      <3>2. x <= L
        BY <1>7 DEF Furthest
      <3>. QED BY <3>1, <3>2, <1>4, <1>13
    <2>. HIDE DEF q, n
    <2>. QED BY <2>1, <2>2, <1>13 DEF Furthest
  <1>17. CASE pc' = "loop"
    <2>1. ~cap /\ ~(Len(buffer') >= ReadUnits) /\ FreeCurr
      BY <1>5, <1>17, Zenon
    <2>2. Len(buffer') = m /\ m < ReadUnits
      BY <1>6, <1>13, <1>15, <2>1, Constants
    <2>3. ~BreaksAt(curr, limTS)
      <3>1. m - ReadUnits < 0
        BY <1>13, <2>2, Constants
      <3>2. ~ModGE(End(curr), limTS, TSMod)
        <4>1. m - ReadUnits \in Int
          BY <1>13, Constants
        <4>. QED BY <1>13, <3>1, <4>1 DEF ModGE
      <3>. QED BY <1>1, <3>2 DEF BreaksAt
    <2>4. Looping'
      <3>1. Furthest(asked.busy, freed + 1, asked.now, Len(buffer'))
        BY <1>16, <2>2 DEF base
      <3>2. z = freed + 1 /\ asked' = asked /\ pc' = "loop"
        BY <1>5, <1>11, <1>17
      <3>. QED BY <1>1, <1>12, <2>1, <2>3, <3>1, <3>2, GoesOnBehind
    <2>. QED BY <1>17, <2>4 DEF Filling
  <1>18. CASE pc' # "loop"
    <2>1. pc' = "fill" /\ (cap \/ Len(buffer') >= ReadUnits)
      BY <1>5, <1>18, Zenon
    <2>2. Len(buffer') = ReadUnits /\ m >= ReadUnits
      <3>1. CASE cap
        BY <3>1, <1>6, <1>13, <1>14, <1>15, Constants
      <3>2. CASE ~cap
        BY <3>2, <2>1, <1>6, <1>13, <1>14, <1>15, Constants
      <3>. QED BY <3>1, <3>2
    <2>3. Ready(q[n], limTS) /\ BreaksAt(q[n], limTS) /\ n <= Len(q)
      <3>1. m - ReadUnits >= 0
        BY <1>13, <2>2, Constants
      <3>2. ModGE(End(curr), limTS, TSMod)
        BY <1>13, <3>1 DEF ModGE
      <3>. QED BY <1>1, <1>4, <3>2 DEF BreaksAt
    <2>4. \A i \in 1 .. freed : ~BreaksAt(q[i], limTS)
      BY <1>1 DEF LoopInv, Looping
    <2>5. n - 1 = freed
      BY <1>4
    <2>6. StopsAt(q, n, limTS)
      <3>. HIDE DEF n, q
      <3>. QED BY <2>3, <2>4, <2>5 DEF StopsAt
    <2>7. Played(q, n, limTS) = 1 .. n
      <3>1. \A i \in 1 .. freed : Ready(q[i], limTS)
        BY <2>4 DEF BreaksAt
      <3>2. \A i \in 1 .. n : i \in 1 .. freed \/ i = n
        BY <1>4
      <3>3. \A i \in 1 .. n : i <= Len(q)
        BY <1>4
      <3>. HIDE DEF n, q
      <3>. QED BY <3>1, <3>2, <3>3, <2>3 DEF Played
    <2>8. Capped(q, n, limTS) <=> cap
      <3>1. ModGT(End(curr), limTS, TSMod) <=> cap
        BY DEF Cap, cap
      <3>. QED BY <3>1, <2>3, <1>4 DEF Capped
    <2>9. busy' = LeftAfter(q, n, limTS)
      <3>1. CASE ~cap
        <4>1. busy' = Tail(busy)
          BY <3>1, <1>5, Zenon DEF FreeCurr
        <4>2. FreedBy(q, n, limTS) = n
          BY <3>1, <2>3, <2>8, Zenon DEF FreedBy
        <4>3. LeftAfter(q, n, limTS) = SubSeq(q, n + 1, Len(q))
          BY <3>1, <2>8, <4>2, Zenon DEF LeftAfter
        <4>. QED BY <4>1, <4>3, <1>4
      <3>2. CASE cap
        <4>1. busy' = <<CutAt(curr, limTS)>> \o Tail(busy) /\ CutAt(curr, limTS) \in Node
          BY <3>2, <1>2, <1>5, Zenon
        <4>2. FreedBy(q, n, limTS) = freed
          BY <3>2, <2>5, <2>8, Zenon DEF FreedBy
        <4>3. LeftAfter(q, n, limTS) = [busy EXCEPT ![1] = CutAt(busy[1], limTS)]
          <5>1. SubSeq(q, freed + 1, Len(q)) = busy
            BY <1>4
          <5>2. LeftAfter(q, n, limTS) =
                   [SubSeq(q, freed + 1, Len(q)) EXCEPT ![1] = CutAt(@, limTS)]
            BY <3>2, <2>8, <4>2, Zenon DEF LeftAfter
          <5>. QED BY <5>1, <5>2
        <4>4. busy[1] = curr
          BY DEF curr
        <4>5. [busy EXCEPT ![1] = CutAt(curr, limTS)] = <<CutAt(curr, limTS)>> \o Tail(busy)
          BY <1>1, <1>4, <4>1, NewHead
        <4>. QED BY <4>1, <4>3, <4>4, <4>5
      <3>. QED BY <3>1, <3>2
    <2>10. ~(Filled(q, 1 .. n, base) < ReadUnits) /\ ~(Len(buffer') < ReadUnits)
      <3>1. Filled(q, 1 .. n, base) = m
        BY <1>4, <1>16, FurthestIsFilled
      <3>. QED BY <3>1, <2>2, <1>13, Constants
    <2>11. Stopped(z, z)'
      <3>1. limTS' = limTS
        BY <1>5 DEF limTS
      <3>2. StopsAt(q, z, limTS) /\ busy' = LeftAfter(q, z, limTS) /\ Played(q, z, limTS) = 1 .. z
            /\ ~(Filled(q, 1 .. z, base) < ReadUnits)
        BY <1>11, <2>6, <2>7, <2>9, <2>10
      <3>3. asked'.busy = q /\ asked'.now = base
        BY <1>5 DEF base
      <3>. HIDE DEF q
      <3>. QED BY <1>12, <2>10, <3>1, <3>2, <3>3 DEF Stopped
    <2>12. z \in 1 .. Len(asked'.busy) + 1 /\ z \in Nat
      BY <1>4, <1>5, <1>11
    <2>. QED BY <2>1, <2>11, <2>12 DEF Looping, Filling
  <1>. QED BY <1>17, <1>18
LEMMA LoopInvKept == LoopInv /\ [Next]_vars => LoopInv'
  <1>. SUFFICES ASSUME LoopInv, [Next]_vars PROVE LoopInv'
    OBVIOUS
  <1>1. Inv'
    BY InvKept DEF LoopInv
  <1>2. Looping' /\ Filling'
    <2>1. CASE \E d \in -Late .. Early, size \in Sizes : Arrive((nowTS + d) % TSMod, size)
      BY <2>1, ArriveLoops
    <2>2. CASE BeginRead
      BY <2>2, BeginReadLoops
    <2>3. CASE NothingDue
      BY <2>3, NothingDueStops
    <2>4. CASE DecodeFails
      BY <2>4, DecodeFailsLoops
    <2>5. CASE DiscardOld
      BY <2>5, DiscardOldLoops
    <2>6. CASE PlayCurr
      BY <2>6, PlayCurrLoops
    <2>7. CASE FillRest
      BY <2>7 DEF FillRest, Looping, Filling
    <2>8. CASE UNCHANGED vars
      BY <2>8 DEF vars, LoopInv, Looping, Filling, Seen, Stopped, limTS
    <2>. QED BY <2>1, <2>2, <2>3, <2>4, <2>5, <2>6, <2>7, <2>8 DEF Next
  <1>. QED BY <1>1, <1>2 DEF LoopInv

LEMMA InitLoopInv == Init => LoopInv
  BY InitInv, InitLooping DEF LoopInv
----------------------------------------------------------------------------
(* The loop implements the one-step read *)

\* The definitions of Playout, as the one-step read and as the loop name them.
LEMMA SameRead ==
    ASSUME NEW q, NEW stop, NEW now, NEW lim
    PROVE  /\ Atomic!StopsAt(q, stop, lim) <=> StopsAt(q, stop, lim)
           /\ Atomic!LeftAfter(q, stop, lim) = LeftAfter(q, stop, lim)
           /\ Atomic!AbortsFor(q, stop, now, lim) = AbortsFor(q, stop, now, lim)
           /\ Atomic!Times = Times
  <1>1. /\ \A x, y, m : (Atomic!ModLT(x, y, m) <=> ModLT(x, y, m))
        /\ \A x, y, m : (Atomic!ModGT(x, y, m) <=> ModGT(x, y, m))
        /\ \A x, y, m : (Atomic!ModGE(x, y, m) <=> ModGE(x, y, m))
        /\ \A x, y, m : Atomic!ModCmp(x, y, m) = ModCmp(x, y, m)
    <2>1. ASSUME NEW x, NEW y, NEW m PROVE Atomic!ModCmp(x, y, m) = ModCmp(x, y, m)
      BY DEF Atomic!ModCmp, ModCmp
    <2>2. ASSUME NEW x, NEW y, NEW m
          PROVE  /\ Atomic!ModLT(x, y, m) <=> ModLT(x, y, m)
                 /\ Atomic!ModGT(x, y, m) <=> ModGT(x, y, m)
                 /\ Atomic!ModGE(x, y, m) <=> ModGE(x, y, m)
      BY <2>1, Zenon DEF Atomic!ModLT, ModLT, Atomic!ModGT, ModGT, Atomic!ModGE, ModGE
    <2>. QED BY <2>1, <2>2, Zenon
  <1>2. \A x : Atomic!Src(x) = Src(x)
    BY Zenon DEF Atomic!Src, Src
  <1>3. \A x : Atomic!End(x) = End(x)
    BY <1>2, Zenon DEF Atomic!End, End
  <1>4. \A x : Atomic!Undecodable(x) <=> Undecodable(x)
    BY Zenon DEF Atomic!Undecodable, Undecodable
  <1>5. \A x : Atomic!Ready(x, lim) <=> Ready(x, lim)
    BY <1>1, <1>2, Zenon DEF Atomic!Ready, Ready
  <1>6. \A x : Atomic!BreaksAt(x, lim) <=> BreaksAt(x, lim)
    BY <1>1, <1>3, <1>4, <1>5, Zenon DEF Atomic!BreaksAt, BreaksAt
  <1>7. Atomic!StopsAt(q, stop, lim) <=> StopsAt(q, stop, lim)
    BY <1>6, Zenon DEF Atomic!StopsAt, StopsAt
  <1>8. Atomic!Capped(q, stop, lim) <=> Capped(q, stop, lim)
    BY <1>1, <1>3, <1>5, Zenon DEF Atomic!Capped, Capped
  <1>9. Atomic!FreedBy(q, stop, lim) = FreedBy(q, stop, lim)
    BY <1>5, <1>8, Zenon DEF Atomic!FreedBy, FreedBy
  <1>10. \A x : Atomic!CutAt(x, lim) = CutAt(x, lim)
    BY <1>2, Zenon DEF Atomic!CutAt, CutAt
  <1>11. Atomic!LeftAfter(q, stop, lim) = LeftAfter(q, stop, lim)
    BY <1>8, <1>9, <1>10, Zenon DEF Atomic!LeftAfter, LeftAfter
  <1>12. Atomic!Played(q, stop, lim) = Played(q, stop, lim)
    BY <1>5, Zenon DEF Atomic!Played, Played
  <1>13. \A S : Atomic!Filled(q, S, now) = Filled(q, S, now)
    BY <1>1, <1>3, <1>4, Zenon DEF Atomic!Filled, Filled
  <1>14. Atomic!AbortsFor(q, stop, now, lim) = AbortsFor(q, stop, now, lim)
    BY <1>1, <1>2, <1>4, <1>12, <1>13, Zenon DEF Atomic!AbortsFor, AbortsFor
  <1>15. Atomic!Times = Times
    BY Zenon DEF Atomic!Times, Times
  <1>. QED BY <1>7, <1>11, <1>14, <1>15

\* What the loop has given up when it stops, and the last node if it did not fill the
\* window, is what the one-step read gives up.
LEMMA GivesUp ==
    ASSUME NEW q, NEW n \in Nat, NEW stop, NEW base, NEW lim, Played(q, stop, lim) = 1 .. n
    PROVE  AbortsFor(q, stop, base, lim) =
              IF Filled(q, 1 .. n, base) < ReadUnits /\ n > 0
              THEN Aborts(q, n, base) \cup {q[n].seq} ELSE Aborts(q, n, base)
  <1>. DEFINE short == Filled(q, 1 .. n, base) < ReadUnits
              given == {j \in 1 .. n : 
                  OffTime(q, j, base) \/ (short /\ \A h \in 1 .. n : h <= j)}
              off == {j \in 1 .. n : OffTime(q, j, base)}
  <1>1. AbortsFor(q, stop, base, lim) = {q[i].seq : i \in given}
    BY Zenon DEF AbortsFor, OffTime
  <1>2. \A j \in 1 .. n : (\A h \in 1 .. n : h <= j) <=> j = n
    OBVIOUS
  <1>3. given = IF short /\ n > 0 THEN off \cup {n} ELSE off
    <2>1. n > 0 => n \in 1 .. n
      OBVIOUS
    <2>2. ~(n > 0) => n \notin 1 .. n
      OBVIOUS
    <2>. HIDE DEF short
    <2>3. given = {j \in 1 .. n : OffTime(q, j, base) \/ (short /\ j = n)}
      BY <1>2, Zenon
    <2>. DEFINE last == IF short /\ n > 0 THEN {n} ELSE {}
    <2>4. given = off \cup last
      <3>1. \A j : j \in given <=> j \in off \/ j \in last
        BY <2>1, <2>2, <2>3, Zenon
      <3>. HIDE DEF given, off, last
      <3>. QED BY <3>1
    <2>. QED BY <2>4, Zenon
  <1>4. Aborts(q, n, base) = {q[i].seq : i \in off}
    BY Zenon DEF Aborts
  <1>. HIDE DEF short, given, off
  <1>5. CASE short /\ n > 0
    <2>1. {q[i].seq : i \in off \cup {n}} = {q[i].seq : i \in off} \cup {q[n].seq}
      BY Zenon
    <2>. QED BY <1>1, <1>3, <1>4, <1>5, <2>1, Zenon DEF short
  <1>6. CASE ~(short /\ n > 0)
    BY <1>1, <1>3, <1>4, <1>6, Zenon DEF short
  <1>. QED BY <1>5, <1>6

LEMMA FillRestIsRead ==
    ASSUME LoopInv, FillRest
    PROVE  Atomic!Read
  <1>. DEFINE q == asked.busy
              base == asked.now
  <1>1. pc = "fill" /\ pc' = "idle" /\ nowTS' = (nowTS + Rest) % TSMod /\ busy' = busy
        /\ aborted' = IF Rest > 0 /\ some THEN aborted \cup {pktSeq} ELSE aborted
    BY DEF FillRest, Rest
  <1>2. PICK stop \in 1 .. Len(q) + 1, n \in Nat : Stopped(stop, n)
    BY <1>1 DEF LoopInv, Filling
  <1>3. /\ aborted = Aborts(q, n, base) /\ (some <=> n > 0) /\ (n > 0 => pktSeq = q[n].seq)
        /\ (Filled(q, 1 .. n, base) < ReadUnits <=> Len(buffer) < ReadUnits)
        /\ StopsAt(q, stop, limTS) /\ busy = LeftAfter(q, stop, limTS)
        /\ Played(q, stop, limTS) = 1 .. n
    BY <1>2 DEF Stopped, Seen
  <1>4. nowTS' = limTS
    BY <1>1, RestIsLeft DEF LoopInv
  <1>5. Rest > 0 <=> Len(buffer) < ReadUnits
    <2>1. Rest = ReadUnits - Len(buffer) /\ Len(buffer) \in Nat
      BY RestIsLeft DEF LoopInv, Inv, Types
    <2>. QED BY <2>1, Constants
  <1>. HIDE DEF q, base
  <1>6. aborted' = AbortsFor(q, stop, base, limTS)
    <2>1. AbortsFor(q, stop, base, limTS) =
              IF Filled(q, 1 .. n, base) < ReadUnits /\ n > 0
              THEN Aborts(q, n, base) \cup {q[n].seq} ELSE Aborts(q, n, base)
      BY <1>3, GivesUp
    <2>2. CASE Rest > 0 /\ some
      BY <1>1, <1>3, <1>5, <2>1, <2>2, Zenon
    <2>3. CASE ~(Rest > 0 /\ some)
      BY <1>1, <1>3, <1>5, <2>1, <2>3, Zenon
    <2>. QED BY <2>2, <2>3
  <1>7. /\ Atomic!StopsAt(q, stop, limTS) /\ busy' = Atomic!LeftAfter(q, stop, limTS)
        /\ aborted' = Atomic!AbortsFor(q, stop, base, limTS)
    BY <1>1, <1>3, <1>6, SameRead
  <1>8. limTS = (base + ReadUnits) % TSMod
    BY DEF limTS, base
  <1>9. stop \in 1 .. Len(q) + 1
    BY <1>2
  <1>. QED BY <1>1, <1>4, <1>7, <1>8, <1>9 DEF Atomic!Read, q, base

\* Taking out what was inserted gives the list as it was.
LEMMA TakenOut ==
    ASSUME NEW q \in Seq(Node), NEW k \in 0 .. Len(q), NEW r \in Seq(Node), Len(r) = Len(q) + 1,
           \A i \in 1 .. k : r[i] = q[i],
           \A i \in k + 2 .. Len(q) + 1 : r[i] = q[i - 1]
    PROVE  /\ k + 1 \in 1 .. Len(r)
           /\ q = SubSeq(r, 1, (k + 1) - 1) \o SubSeq(r, (k + 1) + 1, Len(r))
  <1>1. r \in Seq(Node) /\ Len(r) = Len(q) + 1
        /\ (\A i \in 1 .. k : r[i] = q[i])
        /\ (\A i \in k + 2 .. Len(q) + 1 : r[i] = q[i - 1])
    OBVIOUS
  <1>2. Len(q) \in Nat /\ k \in Nat /\ k <= Len(q)
    OBVIOUS
  <1>. DEFINE a == SubSeq(r, 1, k)
              c == SubSeq(r, k + 2, Len(r))
  <1>3. a \in Seq(Node) /\ Len(a) = k /\ \A i \in 1 .. k : a[i] = r[i]
    BY <1>1, <1>2, LenProperties
  <1>4. c \in Seq(Node) /\ Len(c) = Len(q) - k /\ \A i \in 1 .. Len(q) - k : c[i] = r[(k + 1) + i]
    <2>1. CASE k = Len(q)
      BY <2>1, <1>1, <1>2, LenProperties
    <2>2. CASE k < Len(q)
      BY <2>2, <1>1, <1>2, LenProperties
    <2>. QED BY <1>2, <2>1, <2>2
  <1>. HIDE DEF a, c
  <1>5. a \o c \in Seq(Node) /\ Len(a \o c) = Len(q)
        /\ (\A i \in 1 .. k : (a \o c)[i] = a[i])
        /\ (\A i \in 1 .. Len(q) - k : (a \o c)[k + i] = c[i])
    BY <1>2, <1>3, <1>4, Joined
  <1>. DEFINE b == a \o c
  <1>. HIDE DEF b
  <1>6. b \in Seq(Node) /\ Len(b) = Len(q) /\ (\A i \in 1 .. k : b[i] = a[i])
        /\ (\A i \in 1 .. Len(q) - k : b[k + i] = c[i])
    BY <1>5 DEF b
  <1>7. \A i \in 1 .. Len(q) : q[i] = b[i]
    <2>. TAKE i \in 1 .. Len(q)
    <2>1. CASE i <= k
      BY <2>1, <1>1, <1>2, <1>3, <1>6
    <2>2. CASE i > k
      <3>1. i - k \in 1 .. Len(q) - k /\ k + (i - k) = i /\ (k + 1) + (i - k) = i + 1
            /\ i + 1 \in k + 2 .. Len(q) + 1 /\ (i + 1) - 1 = i
        BY <2>2, <1>2
      <3>2. b[i] = c[i - k]
        BY <1>6, <3>1
      <3>3. c[i - k] = r[i + 1]
        BY <1>4, <3>1
      <3>4. r[i + 1] = q[i]
        BY <1>1, <3>1
      <3>. QED BY <3>2, <3>3, <3>4
    <2>. QED BY <2>1, <2>2, <1>2
  <1>8. q = b
    BY <1>6, <1>7, SeqEqual
  <1>9. (k + 1) - 1 = k /\ (k + 1) + 1 = k + 2 /\ k + 1 \in 1 .. Len(r)
    BY <1>1, <1>2
  <1>. QED BY <1>1, <1>8, <1>9 DEF a, b, c

LEMMA ArriveIsQueue ==
    ASSUME LoopInv, NEW d \in -Late .. Early, NEW size \in Sizes, Arrive((nowTS + d) % TSMod, size)
    PROVE  Atomic!Queue
  <1>. DEFINE ts == (nowTS + d) % TSMod
              node == [seq |-> ts, hdr |-> ts, ts |-> ts, skip |-> 0, size |-> size]
  <1>1. node \in Node /\ node.skip = 0
    <2>1. d \in Int /\ nowTS \in Times
      BY LoopBounds DEF LoopInv, Inv, Types
    <2>. QED BY <2>1, ArrivesWhole
  <1>2. PICK k \in 0 .. Len(busy) :
            busy' = SubSeq(busy, 1, k) \o <<node>> \o SubSeq(busy, k + 1, Len(busy))
    BY DEF Arrive
  <1>3. busy \in Seq(Node) /\ pc = "idle" /\ pc' = "idle" /\ nowTS' = nowTS /\ aborted' = aborted
    BY DEF Arrive, LoopInv, Inv, Types
  <1>. HIDE DEF node
  <1>. DEFINE w == Inserted(busy, k, node)
  <1>4. w \in Seq(Node) /\ Len(w) = Len(busy) + 1 /\ w[k + 1] = node
        /\ (\A i \in 1 .. k : w[i] = busy[i])
        /\ (\A i \in k + 2 .. Len(busy) + 1 : w[i] = busy[i - 1])
    <2>1. k \in 0 .. Len(busy) /\ busy \in Seq(Node) /\ node \in Node
      BY <1>1, <1>3
    <2>. QED BY <2>1, Inserting, ZenonT(60)
  <1>7. PICK r : r = busy' /\ r = w
    BY <1>2 DEF Inserted
  <1>. HIDE DEF w
  <1>5. k + 1 \in 1 .. Len(r) /\ r[k + 1] = node
        /\ busy = SubSeq(r, 1, (k + 1) - 1) \o SubSeq(r, (k + 1) + 1, Len(r))
    <2>1. r \in Seq(Node) /\ Len(r) = Len(busy) + 1 /\ r[k + 1] = node
          /\ (\A i \in 1 .. k : r[i] = busy[i])
          /\ (\A i \in k + 2 .. Len(busy) + 1 : r[i] = busy[i - 1])
      BY <1>4, <1>7, Zenon
    <2>2. k \in 0 .. Len(busy)
      BY <1>2
    <2>3. /\ k + 1 \in 1 .. Len(r)
          /\ busy = SubSeq(r, 1, (k + 1) - 1) \o SubSeq(r, (k + 1) + 1, Len(r))
      BY <1>3, <2>1, <2>2, TakenOut, ZenonT(60)
    <2>. QED BY <2>1, <2>3
  <1>6. \E i \in 1 .. Len(r) : r[i].skip = 0
            /\ busy = SubSeq(r, 1, i - 1) \o SubSeq(r, i + 1, Len(r))
    BY <1>1, <1>5, Zenon
  <1>8. /\ (IF pc = "idle" THEN busy ELSE asked.busy) = busy
        /\ (IF pc' = "idle" THEN busy' ELSE asked'.busy) = r
        /\ (IF pc' = "idle" THEN nowTS' ELSE asked'.now) = (IF pc = "idle" THEN nowTS ELSE asked.now)
        /\ (IF pc' = "idle" THEN aborted' ELSE asked'.aborted)
               = (IF pc = "idle" THEN aborted ELSE asked.aborted)
    BY <1>3, <1>7, Zenon
  <1>. QED BY <1>6, <1>8, Zenon DEF Atomic!Queue

LEMMA StepIsPromised ==
    LoopInv /\ [Next]_vars =>
        [Atomic!Queue \/ Atomic!Read]_<<IF pc = "idle" THEN busy ELSE asked.busy,
                                        IF pc = "idle" THEN nowTS ELSE asked.now,
                                        IF pc = "idle" THEN aborted ELSE asked.aborted>>
  <1>. SUFFICES ASSUME LoopInv, [Next]_vars
                PROVE  \/ Atomic!Queue \/ Atomic!Read
                       \/ UNCHANGED <<IF pc = "idle" THEN busy ELSE asked.busy,
                                      IF pc = "idle" THEN nowTS ELSE asked.now,
                                      IF pc = "idle" THEN aborted ELSE asked.aborted>>
    OBVIOUS
  <1>1. CASE \E d \in -Late .. Early, size \in Sizes : Arrive((nowTS + d) % TSMod, size)
    BY <1>1, ArriveIsQueue
  <1>2. CASE BeginRead
    BY <1>2 DEF BeginRead
  <1>3. CASE NothingDue \/ DecodeFails \/ DiscardOld
    BY <1>3 DEF NothingDue, DecodeFails, DiscardOld, Due
  <1>4. CASE PlayCurr
    <2>1. pc = "loop" /\ pc' # "idle" /\ asked' = asked
      BY <1>4 DEF PlayCurr, Due
    <2>. QED BY <2>1
  <1>5. CASE FillRest
    BY <1>5, FillRestIsRead
  <1>6. CASE UNCHANGED vars
    BY <1>6 DEF vars
  <1>. QED BY <1>1, <1>2, <1>3, <1>4, <1>5, <1>6 DEF Next

LEMMA InitIsPromised == Init => Atomic!Init
  BY LoopBounds, SameRead DEF Init, Atomic!Init

\* The loop over the nodes, with its decoding on the way, its discarding, skipping and
\* cutting, takes from the busy list and gives up retransmits exactly as the one-step
\* read of Playout says, which GeneralAudio uses for every read of the platform.
THEOREM LoopImplementsRead == Spec => LoopIsOneStep
  <1>. QED BY LoopInvKept, InitLoopInv, StepIsPromised, InitIsPromised, PTL
           DEF Spec, LoopIsOneStep, Atomic!Spec
----------------------------------------------------------------------------
(* Silence is played only where it is needed *)

\* All packets of the busy list, the window of a read and the latency are together
\* shorter than half the range of timestamps; else "before" and "after" of two queued
\* packets mean nothing.
InReach == 2 * (Latency + Late + Early + Units + ReadUnits) < TSMod

Back == Late + Units
Front == Latency + Early

LEMMA Distances ==
    ASSUME InReach
    PROVE  /\ Back \in Nat /\ Front \in Nat /\ Back \in Int /\ Front \in Int /\ Units <= Back
           /\ 2 * (Back + Front + ReadUnits) < TSMod
           /\ Late \in Nat /\ Early \in Nat /\ Late <= Back /\ Early + Latency <= Front
  <1>1. Late \in Nat /\ Early \in Nat
    BY LoopBounds
  <1>. QED BY <1>1, Constants DEF InReach, Back, Front

\* Distances of two points of the time line, seen from a third.
LEMMA Offsets ==
    \A base \in Int, a \in Int, b \in Int :
        /\ (((base + a) % TSMod) - ((base + b) % TSMod)) % TSMod = (a - b) % TSMod
        /\ 2 * (a - b) < TSMod /\ - TSMod <= 2 * (a - b) =>
               ModCmp((base + a) % TSMod, (base + b) % TSMod, TSMod) = a - b
  <1>. TAKE base \in Int, a \in Int, b \in Int
  <1>1. (((base + a) % TSMod) - ((base + b) % TSMod)) % TSMod = (a - b) % TSMod
    BY Constants, ModOffsets
  <1>2. ASSUME 2 * (a - b) < TSMod, - TSMod <= 2 * (a - b)
        PROVE  ModCmp((base + a) % TSMod, (base + b) % TSMod, TSMod) = a - b
    BY <1>2, Constants, ModCmpOffsets
  <1>. QED BY <1>1, <1>2

\* When the first unit of a packet, played or not, is due, and how far that is ahead.
Begins(n) == (n.hdr + Latency) % TSMod
Ahead(n, base) == ModCmp(Begins(n), base, TSMod)
Start(n, base) == Ahead(n, base) + n.skip

\* A queued packet is not far from the time that playing has reached; one that was
\* played in part is not ahead of it.
Near(n, base) ==
    /\ - Back <= Ahead(n, base) /\ Ahead(n, base) <= Front
    /\ n.skip + n.size <= Units
    /\ n.skip # 0 => Start(n, base) <= 0

Spread(q, base) ==
    /\ \A i \in 1 .. Len(q) : Near(q[i], base)
    /\ \A i \in 1 .. Len(q) : \A j \in 1 .. i - 1 : Ahead(q[j], base) < Ahead(q[i], base)

LEMMA AheadIsNumber ==
    ASSUME NEW n \in Node, NEW base \in Times
    PROVE  Ahead(n, base) \in Int /\ Start(n, base) \in Int /\ Begins(n) \in Times
  <1>1. n.hdr + Latency \in Int /\ n.skip \in Int
    BY NodeFields, Constants
  <1>2. Begins(n) \in Times /\ Begins(n) \in Int /\ base \in Int
    BY <1>1, Residue DEF Begins, Times
  <1>3. Ahead(n, base) \in Int
    BY <1>2, Constants, ModCmpRange DEF Ahead
  <1>. QED BY <1>1, <1>2, <1>3 DEF Start

LEMMA NearPlace ==
    ASSUME InReach, NEW base \in Times, NEW n \in Node, Near(n, base)
    PROVE  LET h == Ahead(n, base)
               s == Start(n, base)
           IN /\ h \in Int /\ s \in Int /\ h <= s /\ - Back <= s /\ s <= Front
              /\ n.size \in Nat /\ n.size <= Units /\ h = s - n.skip /\ n.skip \in Nat
              /\ Begins(n) = (base + h) % TSMod
              /\ Src(n) = (base + s) % TSMod
              /\ End(n) = (base + (s + n.size)) % TSMod
  <1>. DEFINE h == Ahead(n, base)
              s == Start(n, base)
  <1>1. h \in Int /\ s \in Int /\ s = h + n.skip /\ n.skip \in Nat /\ n.size \in Nat
        /\ n.size <= Units /\ base \in Int
    BY AheadIsNumber, NodeFields DEF Start, Times
  <1>2. Begins(n) = (base + h) % TSMod
    <2>1. Begins(n) \in 0 .. TSMod - 1 /\ base \in 0 .. TSMod - 1
      BY AheadIsNumber DEF Times
    <2>. QED BY <2>1, Constants, ModPlace DEF Ahead
  <1>3. - Back <= h /\ h <= Front /\ (n.skip # 0 => s <= 0)
    BY DEF Near
  <1>. HIDE DEF h, s
  <1>4. Src(n) = (base + s) % TSMod
    <2>1. n.hdr \in Int /\ Latency \in Int /\ n.skip \in Int /\ n.hdr + n.skip \in Int
          /\ n.hdr + Latency \in Int /\ base + h \in Int
      BY <1>1, NodeFields, Constants
    <2>2. Src(n) = (((n.hdr + n.skip) % TSMod) + Latency) % TSMod
      BY DEF Src, Node
    <2>3. (((n.hdr + n.skip) % TSMod) + Latency) % TSMod = ((n.hdr + n.skip) + Latency) % TSMod
      BY <2>1, Sums, Zenon
    <2>4. (((n.hdr + Latency) % TSMod) + n.skip) % TSMod = ((n.hdr + Latency) + n.skip) % TSMod
      BY <2>1, Sums, Zenon
    <2>5. (((base + h) % TSMod) + n.skip) % TSMod = ((base + h) + n.skip) % TSMod
      BY <2>1, Sums, Zenon
    <2>6. (n.hdr + n.skip) + Latency = (n.hdr + Latency) + n.skip /\ (base + h) + n.skip = base + s
      BY <1>1, <2>1
    <2>7. (n.hdr + Latency) % TSMod = (base + h) % TSMod
      BY <1>2 DEF Begins
    <2>. QED BY <2>2, <2>3, <2>4, <2>5, <2>6, <2>7, Zenon
  <1>5. End(n) = (base + (s + n.size)) % TSMod
    <2>1. base + s \in Int /\ n.size \in Int
      BY <1>1
    <2>2. (((base + s) % TSMod) + n.size) % TSMod = ((base + s) + n.size) % TSMod
      BY <2>1, Sums, Zenon
    <2>3. (base + s) + n.size = base + (s + n.size)
      BY <1>1
    <2>. QED BY <1>4, <2>2, <2>3, Zenon DEF End
  <1>6. h <= s /\ - Back <= s /\ s <= Front /\ h = s - n.skip
    BY <1>1, <1>3, Distances
  <1>. QED BY <1>1, <1>2, <1>4, <1>5, <1>6 DEF h, s

LEMMA NearCompares ==
    ASSUME InReach, NEW base \in Times, NEW n \in Node, Near(n, base)
    PROVE  LET lim == (base + ReadUnits) % TSMod
               s == Start(n, base)
           IN /\ Ahead(n, lim) = Ahead(n, base) - ReadUnits
              /\ ModCmp(Src(n), lim, TSMod) = s - ReadUnits
              /\ ModCmp(End(n), lim, TSMod) = s + n.size - ReadUnits
              /\ ModCmp(Src(n), base, TSMod) = s
              /\ ModCmp(End(n), base, TSMod) = s + n.size
              /\ (lim - Src(n)) % TSMod = (ReadUnits - s) % TSMod
  <1>. DEFINE lim == (base + ReadUnits) % TSMod
              start == (base + 0) % TSMod
              h == Ahead(n, base)
              s == Start(n, base)
  <1>1. /\ h \in Int /\ s \in Int /\ h <= s /\ - Back <= s /\ s <= Front
        /\ - Back <= h /\ n.size \in Nat /\ n.size <= Units
        /\ Begins(n) = (base + h) % TSMod
        /\ Src(n) = (base + s) % TSMod
        /\ End(n) = (base + (s + n.size)) % TSMod
    BY NearPlace DEF Near
  <1>2. base \in Int /\ base \in 0 .. TSMod - 1 /\ ReadUnits \in Int /\ 0 \in Int
    BY Constants DEF Times
  <1>3. start = base
    BY <1>2, Constants, ModSmall
  <1>4. \A a, b \in Int : 2 * (a - b) < TSMod /\ - TSMod <= 2 * (a - b) =>
            ModCmp((base + a) % TSMod, (base + b) % TSMod, TSMod) = a - b
    BY <1>2, Offsets, ZenonT(60)
  <1>5. \A a, b \in Int :
            (((base + a) % TSMod) - ((base + b) % TSMod)) % TSMod = (a - b) % TSMod
    BY <1>2, Offsets, ZenonT(60)
  <1>. HIDE DEF h, s
  <1>6. LET e == s + n.size IN
        /\ e \in Int
        /\ 2 * (h - ReadUnits) < TSMod /\ - TSMod <= 2 * (h - ReadUnits)
        /\ 2 * (s - ReadUnits) < TSMod /\ - TSMod <= 2 * (s - ReadUnits)
        /\ 2 * (e - ReadUnits) < TSMod /\ - TSMod <= 2 * (e - ReadUnits)
        /\ 2 * (s - 0) < TSMod /\ - TSMod <= 2 * (s - 0)
        /\ 2 * (e - 0) < TSMod /\ - TSMod <= 2 * (e - 0)
    BY <1>1, Distances, Constants
  <1>7. /\ ModCmp((base + h) % TSMod, lim, TSMod) = h - ReadUnits
        /\ ModCmp((base + s) % TSMod, lim, TSMod) = s - ReadUnits
        /\ ModCmp((base + (s + n.size)) % TSMod, lim, TSMod) = (s + n.size) - ReadUnits
        /\ ModCmp((base + s) % TSMod, start, TSMod) = s - 0
        /\ ModCmp((base + (s + n.size)) % TSMod, start, TSMod) = (s + n.size) - 0
        /\ (lim - ((base + s) % TSMod)) % TSMod = (ReadUnits - s) % TSMod
    BY <1>1, <1>2, <1>4, <1>5, <1>6, Zenon
  <1>8. s - 0 = s /\ (s + n.size) - 0 = s + n.size
        /\ (s + n.size) - ReadUnits = s + n.size - ReadUnits
    BY <1>1, Constants
  <1>. HIDE DEF lim, start
  <1>9. Ahead(n, lim) = h - ReadUnits
    BY <1>1, <1>7, Zenon DEF Ahead
  <1>. QED BY <1>1, <1>3, <1>7, <1>8, <1>9, Zenon DEF lim, h, s

\* Timestamps of packets compare as the packets lie.
LEMMA HdrOrder ==
    ASSUME InReach, NEW base \in Times, NEW a \in Node, NEW b \in Node,
           Near(a, base), Near(b, base)
    PROVE  ModCmp(a.hdr, b.hdr, TSMod) = Ahead(a, base) - Ahead(b, base)
  <1>. DEFINE x == Ahead(a, base)
              y == Ahead(b, base)
  <1>1. x \in Int /\ y \in Int /\ - Back <= x /\ x <= Front /\ - Back <= y /\ y <= Front
    BY AheadIsNumber DEF Near
  <1>2. Begins(a) = (base + x) % TSMod /\ Begins(b) = (base + y) % TSMod
    BY NearPlace
  <1>. HIDE DEF x, y
  <1>3. ModCmp(Begins(a), Begins(b), TSMod) = x - y
    <2>1. 2 * (x - y) < TSMod /\ - TSMod <= 2 * (x - y)
      BY <1>1, Distances, Constants
    <2>2. base \in Int
      BY DEF Times
    <2>3. ModCmp((base + x) % TSMod, (base + y) % TSMod, TSMod) = x - y
      BY <1>1, <2>1, <2>2, Offsets
    <2>. QED BY <1>2, <2>3, Zenon
  <1>4. ((Begins(a) - Begins(b)) % TSMod) = (a.hdr - b.hdr) % TSMod
    <2>1. Latency \in Int /\ a.hdr \in Int /\ b.hdr \in Int
      BY NodeFields, Constants
    <2>2. (((Latency + a.hdr) % TSMod) - ((Latency + b.hdr) % TSMod)) % TSMod = (a.hdr - b.hdr) % TSMod
      BY <2>1, Constants, ModOffsets
    <2>3. Latency + a.hdr = a.hdr + Latency /\ Latency + b.hdr = b.hdr + Latency
      BY <2>1
    <2>. QED BY <2>2, <2>3 DEF Begins
  <1>5. ModCmp(a.hdr, b.hdr, TSMod) = ModCmp(Begins(a), Begins(b), TSMod)
    BY <1>4 DEF ModCmp
  <1>. QED BY <1>3, <1>5 DEF x, y

\* A unit of the window that is before a node or behind it is no unit of the node.
LEMMA MissedUnit ==
    ASSUME InReach, NEW base \in Times, NEW n \in Node, Near(n, base), NEW k \in 1 .. ReadUnits,
           k - 1 < Start(n, base) \/ k - 1 >= Start(n, base) + n.size
    PROVE  ((base + (k - 1)) - Src(n)) % TSMod >= n.size
  <1>. DEFINE s == Start(n, base)
              d == (k - 1) - s
  <1>1. s \in Int /\ - Back <= s /\ s <= Front /\ n.size \in Nat /\ n.size <= Units
        /\ Src(n) = (base + s) % TSMod /\ Src(n) \in Int /\ base \in Int
    <2>1. Src(n) \in Int /\ base \in Int
      BY NodeFields DEF Times
    <2>. QED BY <2>1, NearPlace
  <1>2. k - 1 < s \/ k - 1 >= s + n.size
    OBVIOUS
  <1>. HIDE DEF s
  <1>3. ((base + (k - 1)) - Src(n)) % TSMod = d % TSMod
    <2>1. base + (k - 1) \in Int /\ - Src(n) \in Int /\ k - 1 \in Int
      BY <1>1, Constants
    <2>2. (((base + (k - 1)) % TSMod) + (- Src(n))) % TSMod = ((base + (k - 1)) + (- Src(n))) % TSMod
      BY <2>1, Sums, Zenon
    <2>3. (((base + (k - 1)) % TSMod) - ((base + s) % TSMod)) % TSMod = ((k - 1) - s) % TSMod
      BY <1>1, <2>1, Offsets, ZenonT(60)
    <2>4. (base + (k - 1)) + (- Src(n)) = (base + (k - 1)) - Src(n)
      BY <1>1, <2>1
    <2>5. ((base + (k - 1)) % TSMod) + (- Src(n)) = ((base + (k - 1)) % TSMod) - Src(n)
      <3>1. (base + (k - 1)) % TSMod \in Int
        BY <2>1, Residue
      <3>. QED BY <1>1, <3>1
    <2>. QED BY <1>1, <2>2, <2>3, <2>4, <2>5
  <1>4. CASE k - 1 < s
    <2>1. d \in -TSMod .. -1 /\ d + TSMod >= n.size
      BY <1>1, <1>4, Distances, Constants
    <2>2. d % TSMod = d + TSMod
      BY <2>1, Constants, ModBorrow
    <2>. HIDE DEF d
    <2>. QED BY <1>3, <2>1, <2>2
  <1>5. CASE k - 1 >= s + n.size
    <2>1. d \in 0 .. TSMod - 1 /\ d >= n.size
      BY <1>1, <1>5, Distances, Constants
    <2>2. d % TSMod = d
      BY <2>1, Constants, ModSmall
    <2>. HIDE DEF d
    <2>. QED BY <1>3, <2>1, <2>2
  <1>. QED BY <1>2, <1>4, <1>5

\* The node at which a read stops reaches to the end of the window or behind it.
LEMMA StopIsFar ==
    ASSUME InReach, NEW base \in Times, NEW n \in Node, Near(n, base),
           BreaksAt(n, (base + ReadUnits) % TSMod)
    PROVE  /\ Ahead(n, base) - ReadUnits >= - Back
           /\ ~Ready(n, (base + ReadUnits) % TSMod) => n.skip = 0 /\ Start(n, base) >= ReadUnits
  <1>. DEFINE lim == (base + ReadUnits) % TSMod
              s == Start(n, base)
              h == Ahead(n, base)
  <1>1. ModCmp(Src(n), lim, TSMod) = s - ReadUnits
        /\ ModCmp(End(n), lim, TSMod) = s + n.size - ReadUnits
    BY NearCompares
  <1>2. h \in Int /\ s \in Int /\ n.size \in Nat /\ n.skip \in Nat /\ h = s - n.skip
        /\ n.skip + n.size <= Units /\ (n.skip # 0 => s <= 0) /\ Units <= Back /\ Back \in Int
    BY NearPlace, Distances DEF Near
  <1>3. Ready(n, lim) <=> ModCmp(Src(n), lim, TSMod) < 0
    BY DEF Ready, ModLT
  <1>4. ~Ready(n, lim) \/ ModCmp(End(n), lim, TSMod) >= 0
    BY DEF BreaksAt, ModGE
  <1>. HIDE DEF lim, s, h
  <1>5. ~Ready(n, lim) => n.skip = 0 /\ s >= ReadUnits
    <2>1. ~(s - ReadUnits < 0) => n.skip = 0 /\ s >= ReadUnits
      BY <1>2, Constants
    <2>. QED BY <1>1, <1>3, <2>1, Zenon
  <1>6. s + n.size - ReadUnits >= 0
    <2>1. ~(s - ReadUnits < 0) => s + n.size - ReadUnits >= 0
      BY <1>2, Constants
    <2>. QED BY <1>1, <1>3, <1>4, <2>1, Zenon
  <1>7. h - ReadUnits >= - Back
    BY <1>2, <1>6, Constants
  <1>. QED BY <1>5, <1>7 DEF lim, s, h

\* What is left of a packet that the window cuts begins where it began and starts with
\* the next window.
LEMMA CutIsNear ==
    ASSUME InReach, NEW base \in Times, NEW n \in Node, Near(n, base),
           NEW lim, lim = (base + ReadUnits) % TSMod,
           Ready(n, lim), ModGT(End(n), lim, TSMod), BreaksAt(n, lim)
    PROVE  /\ CutAt(n, lim) \in Node /\ Near(CutAt(n, lim), lim)
           /\ Ahead(CutAt(n, lim), lim) = Ahead(n, base) - ReadUnits
  <1>. DEFINE s == Start(n, base)
              h == Ahead(n, base)
              d == ReadUnits - s
              c == Advanced(n, d)
  <1>1. /\ ModCmp(Src(n), lim, TSMod) = s - ReadUnits
        /\ ModCmp(End(n), lim, TSMod) = s + n.size - ReadUnits
        /\ (lim - Src(n)) % TSMod = (ReadUnits - s) % TSMod
        /\ Ahead(n, lim) = h - ReadUnits
    BY NearCompares
  <1>2. /\ h \in Int /\ s \in Int /\ n.size \in Nat /\ n.skip \in Nat /\ h = s - n.skip
        /\ n.skip + n.size <= Units /\ Units <= Back /\ Back \in Int
        /\ - Back <= s /\ n.size <= Units /\ h <= Front /\ Front \in Int
    BY NearPlace, Distances DEF Near
  <1>3. ModCmp(Src(n), lim, TSMod) < 0 /\ ModCmp(End(n), lim, TSMod) > 0
    BY DEF Ready, ModLT, ModGT
  <1>4. h - ReadUnits >= - Back
    BY StopIsFar
  <1>. HIDE DEF s, h
  <1>5. d \in Nat /\ d < n.size /\ d \in 0 .. TSMod - 1
    <2>1. s - ReadUnits < 0 /\ s + n.size - ReadUnits > 0
      BY <1>1, <1>3, Zenon
    <2>. QED BY <1>2, <2>1, Constants, Distances
  <1>6. CutAt(n, lim) = c
    <2>1. d % TSMod = d
      BY <1>5, Constants, ModSmall
    <2>. QED BY <1>1, <2>1, CutsAdvance
  <1>. HIDE DEF d
  <1>7. c \in Node
    BY <1>5, AdvancedIsNode
  <1>8. c.hdr = n.hdr /\ c.skip = n.skip + d /\ c.size = n.size - d
    <2>1. c = [seq |-> n.seq, hdr |-> n.hdr, ts |-> (n.ts + d) % TSMod,
               skip |-> n.skip + d, size |-> n.size - d]
      BY <1>5, NodeRecord, AdvancedRecord
    <2>. HIDE DEF c
    <2>. QED BY <2>1
  <1>. HIDE DEF c
  <1>9. Ahead(c, lim) = h - ReadUnits
    BY <1>1, <1>8 DEF Ahead, Begins
  <1>10. Near(c, lim)
    <2>1. Start(c, lim) = 0
      <3>1. Start(c, lim) = (h - ReadUnits) + (n.skip + d)
        BY <1>8, <1>9 DEF Start
      <3>. QED BY <3>1, <1>2, Constants DEF d
    <2>2. - Back <= h - ReadUnits /\ h - ReadUnits <= Front
      BY <1>2, <1>4, Constants
    <2>3. (n.skip + d) + (n.size - d) <= Units
      BY <1>2, <1>5
    <2>. QED BY <1>8, <1>9, <2>1, <2>2, <2>3 DEF Near
  <1>. QED BY <1>6, <1>7, <1>9, <1>10 DEF h

\* A node behind the end of a read is near the new time if it is not too far back.
LEMMA LeftIsNear ==
    ASSUME InReach, NEW base \in Times, NEW n \in Node, Near(n, base),
           Ahead(n, base) - ReadUnits >= - Back
    PROVE  LET lim == (base + ReadUnits) % TSMod IN
           Near(n, lim) /\ Ahead(n, lim) = Ahead(n, base) - ReadUnits
  <1>. DEFINE lim == (base + ReadUnits) % TSMod
              h == Ahead(n, base)
  <1>1. Ahead(n, lim) = h - ReadUnits
    BY NearCompares
  <1>2. h \in Int /\ h <= Front /\ Front \in Int /\ n.skip \in Nat
        /\ (n.skip # 0 => h + n.skip <= 0) /\ n.skip + n.size <= Units
    BY AheadIsNumber, NodeFields, Distances DEF Near, Start
  <1>. HIDE DEF lim, h
  <1>3. h - ReadUnits <= Front /\ (n.skip # 0 => (h - ReadUnits) + n.skip <= 0)
    BY <1>2, Constants
  <1>4. - Back <= h - ReadUnits
    <2>1. Back \in Int /\ h \in Int /\ h - ReadUnits >= - Back
      BY <1>2, Distances DEF h
    <2>. QED BY <2>1, Constants
  <1>5. Near(n, lim)
    BY <1>1, <1>2, <1>3, <1>4 DEF Near, Start
  <1>. QED BY <1>1, <1>5 DEF lim, h

LEMMA ReadLeavesSpread ==
    ASSUME InReach, NEW base \in Times, NEW q \in Seq(Node), Spread(q, base),
           NEW stop \in 1 .. Len(q) + 1, NEW lim, lim = (base + ReadUnits) % TSMod,
           StopsAt(q, stop, lim)
    PROVE  Spread(LeftAfter(q, stop, lim), lim)
  <1>. DEFINE f == FreedBy(q, stop, lim)
              cut == Capped(q, stop, lim)
              r == SubSeq(q, f + 1, Len(q))
              left == LeftAfter(q, stop, lim)
  <1>1. Len(q) \in Nat /\ stop \in Nat /\ stop - 1 \in Nat
    OBVIOUS
  <1>2. f \in 0 .. Len(q) /\ f >= stop - 1 /\ (cut => f = stop - 1 /\ stop <= Len(q)) /\ f \in Nat
    BY <1>1 DEF FreedBy, Capped
  <1>3. \A j \in 1 .. Len(q) : q[j] \in Node /\ Near(q[j], base) /\ Ahead(q[j], base) \in Int
    <2>. TAKE j \in 1 .. Len(q)
    <2>1. q[j] \in Node
      BY ElementOfSeq
    <2>. QED BY <2>1, AheadIsNumber DEF Spread
  <1>4. \A i \in 1 .. Len(q) : \A j \in 1 .. i - 1 : Ahead(q[j], base) < Ahead(q[i], base)
    BY DEF Spread
  <1>5. stop <= Len(q) => BreaksAt(q[stop], lim)
    BY DEF StopsAt
  <1>6. \A j \in stop .. Len(q) : Ahead(q[j], base) - ReadUnits >= - Back
    <2>. TAKE j \in stop .. Len(q)
    <2>1. stop \in 1 .. Len(q) /\ j \in 1 .. Len(q)
      BY <1>1
    <2>2. Ahead(q[stop], base) - ReadUnits >= - Back
      BY <1>3, <1>5, <2>1, StopIsFar
    <2>3. CASE j = stop
      BY <2>2, <2>3
    <2>4. CASE j > stop
      <3>1. stop \in 1 .. j - 1
        BY <2>1, <2>4
      <3>2. Ahead(q[stop], base) < Ahead(q[j], base)
        BY <1>4, <2>1, <3>1
      <3>3. Ahead(q[stop], base) \in Int /\ Ahead(q[j], base) \in Int /\ Back \in Int
        BY <1>3, <2>1, Distances
      <3>. QED BY <2>2, <3>2, <3>3, Constants
    <2>. QED BY <2>1, <2>3, <2>4
  <1>7. r \in Seq(Node) /\ Len(r) = Len(q) - f /\ \A i \in 1 .. Len(q) - f : r[i] = q[f + i]
    <2>. HIDE DEF f
    <2>1. CASE f = Len(q)
      BY <2>1, <1>1, <1>2, LenProperties
    <2>2. CASE f < Len(q)
      BY <2>2, <1>1, <1>2, LenProperties
    <2>. QED BY <1>1, <1>2, <2>1, <2>2
  <1>8. left = IF cut THEN [r EXCEPT ![1] = CutAt(r[1], lim)] ELSE r
    BY DEF LeftAfter
  <1>. HIDE DEF f, cut, r, left
  <1>9. /\ Len(left) = Len(q) - f
        /\ \A i \in 1 .. Len(left) : left[i] = IF cut /\ i = 1 THEN CutAt(q[f + 1], lim) ELSE q[f + i]
    <2>1. CASE cut
      <3>1. r # <<>> /\ Len(r) >= 1 /\ 1 \in 1 .. Len(r) /\ r[1] = q[f + 1]
        <4>1. Len(q) - f >= 1 /\ 1 \in 1 .. Len(q) - f
          BY <2>1, <1>1, <1>2
        <4>. QED BY <1>7, <4>1
      <3>2. \A e : LET x == [r EXCEPT ![1] = e] IN
               Len(x) = Len(r) /\ \A i \in 1 .. Len(r) : x[i] = IF i = 1 THEN e ELSE r[i]
        BY <1>7, <3>1
      <3>3. left = [r EXCEPT ![1] = CutAt(q[f + 1], lim)]
        BY <2>1, <1>8, <3>1
      <3>4. /\ Len(left) = Len(r)
            /\ \A i \in 1 .. Len(r) : left[i] = IF i = 1 THEN CutAt(q[f + 1], lim) ELSE r[i]
        BY <3>2, <3>3, Zenon
      <3>. QED BY <2>1, <1>7, <3>4
    <2>2. CASE ~cut
      BY <2>2, <1>7, <1>8
    <2>. QED BY <2>1, <2>2
  <1>10. ASSUME NEW i \in 1 .. Len(left)
         PROVE  /\ f + i \in 1 .. Len(q)
                /\ Near(left[i], lim) /\ Ahead(left[i], lim) = Ahead(q[f + i], base) - ReadUnits
    <2>. DEFINE n == q[f + i]
    <2>1. f + i \in stop .. Len(q) /\ f + i \in 1 .. Len(q)
      BY <1>1, <1>2, <1>9
    <2>2. n \in Node /\ Near(n, base) /\ Ahead(n, base) - ReadUnits >= - Back
      BY <1>3, <1>6, <2>1
    <2>3. CASE cut /\ i = 1
      <3>1. f + i = stop /\ f + 1 = stop /\ stop <= Len(q)
        BY <2>3, <1>1, <1>2
      <3>2. Ready(q[stop], lim) /\ ModGT(End(q[stop]), lim, TSMod) /\ BreaksAt(q[stop], lim)
        BY <2>3, <1>5, <3>1 DEF cut, Capped
      <3>3. left[i] = CutAt(n, lim)
        BY <2>3, <1>9
      <3>4. Ready(n, lim) /\ ModGT(End(n), lim, TSMod) /\ BreaksAt(n, lim)
        BY <3>1, <3>2
      <3>. HIDE DEF n
      <3>5. Near(CutAt(n, lim), lim) /\ Ahead(CutAt(n, lim), lim) = Ahead(n, base) - ReadUnits
        BY <2>2, <3>4, CutIsNear
      <3>. QED BY <2>1, <3>3, <3>5 DEF n
    <2>4. CASE ~(cut /\ i = 1)
      <3>1. left[i] = n
        BY <2>4, <1>9
      <3>. HIDE DEF n
      <3>2. Near(n, lim) /\ Ahead(n, lim) = Ahead(n, base) - ReadUnits
        BY <2>2, LeftIsNear
      <3>. QED BY <2>1, <3>1, <3>2 DEF n
    <2>. QED BY <2>3, <2>4
  <1>11. ASSUME NEW i \in 1 .. Len(left), NEW j \in 1 .. i - 1
         PROVE  Ahead(left[j], lim) < Ahead(left[i], lim)
    <2>1. j \in 1 .. Len(left) /\ f + j \in 1 .. (f + i) - 1
      BY <1>1, <1>2, <1>9
    <2>2. f + i \in 1 .. Len(q) /\ f + j \in 1 .. Len(q)
          /\ Ahead(left[i], lim) = Ahead(q[f + i], base) - ReadUnits
          /\ Ahead(left[j], lim) = Ahead(q[f + j], base) - ReadUnits
      BY <1>10, <2>1
    <2>3. Ahead(q[f + j], base) < Ahead(q[f + i], base)
          /\ Ahead(q[f + j], base) \in Int /\ Ahead(q[f + i], base) \in Int
      BY <1>3, <1>4, <2>1, <2>2
    <2>. QED BY <2>2, <2>3, Constants
  <1>. QED BY <1>10, <1>11 DEF Spread, left

LEMMA ArrivesNear ==
    ASSUME InReach, NEW now \in Times, NEW d \in -Late .. Early, NEW size \in 0 .. Units,
           NEW ts, ts = (now + d) % TSMod,
           NEW e, e = [seq |-> ts, hdr |-> ts, ts |-> ts, skip |-> 0, size |-> size]
    PROVE  Near(e, now) /\ Ahead(e, now) = d + Latency
  <1>. DEFINE h == d + Latency
  <1>1. now \in Int /\ now \in 0 .. TSMod - 1 /\ d \in Int /\ Latency \in Int /\ h \in Int
        /\ - Late <= d /\ d <= Early /\ now + d \in Int
    BY Distances, Constants DEF Times
  <1>2. - Back <= h /\ h <= Front
    BY <1>1, Distances, Constants
  <1>3. Begins(e) = (now + h) % TSMod
    <2>1. Begins(e) = (((now + d) % TSMod) + Latency) % TSMod
      BY DEF Begins
    <2>2. (((now + d) % TSMod) + Latency) % TSMod = ((now + d) + Latency) % TSMod
      BY <1>1, Sums, Zenon
    <2>3. (now + d) + Latency = now + h
      BY <1>1
    <2>. QED BY <2>1, <2>2, <2>3, Zenon
  <1>4. Ahead(e, now) = h
    <2>1. (now + 0) % TSMod = now
      BY <1>1, Constants, ModSmall
    <2>. HIDE DEF h
    <2>2. 2 * (h - 0) < TSMod /\ - TSMod <= 2 * (h - 0)
      BY <1>1, <1>2, Distances, Constants
    <2>3. ModCmp((now + h) % TSMod, (now + 0) % TSMod, TSMod) = h - 0
      BY <1>1, <2>2, Offsets
    <2>4. h - 0 = h
      BY <1>1
    <2>. QED BY <1>3, <2>1, <2>3, <2>4, Zenon DEF Ahead
  <1>5. e.skip = 0 /\ e.size = size /\ size \in Nat /\ size <= Units
    BY Constants
  <1>. HIDE DEF h
  <1>6. Near(e, now)
    BY <1>1, <1>2, <1>4, <1>5 DEF Near, Start
  <1>. QED BY <1>4, <1>6 DEF h

\* A packet that is queued between its neighbours keeps the list in order.
LEMMA ArriveSpreads ==
    ASSUME InReach, NEW now \in Times, NEW q \in Seq(Node), Spread(q, now),
           NEW e \in Node, Near(e, now), NEW k \in 0 .. Len(q),
           k > 0 => ModLT(q[k].hdr, e.hdr, TSMod),
           \A i \in k + 1 .. Len(q) : ModGT(q[i].hdr, e.hdr, TSMod),
           NEW r \in Seq(Node), Len(r) = Len(q) + 1, r[k + 1] = e,
           \A i \in 1 .. k : r[i] = q[i],
           \A i \in k + 2 .. Len(q) + 1 : r[i] = q[i - 1]
    PROVE  Spread(r, now)
  <1>. DEFINE A(n) == Ahead(n, now)
  <1>1. Len(q) \in Nat /\ k \in Nat /\ k <= Len(q) /\ A(e) \in Int
    BY AheadIsNumber
  <1>2. \A j \in 1 .. Len(q) : q[j] \in Node /\ Near(q[j], now) /\ A(q[j]) \in Int
    <2>. TAKE j \in 1 .. Len(q)
    <2>1. q[j] \in Node
      BY ElementOfSeq
    <2>. QED BY <2>1, AheadIsNumber DEF Spread
  <1>3. \A i \in 1 .. Len(q) : \A j \in 1 .. i - 1 : A(q[j]) < A(q[i])
    BY DEF Spread
  <1>4. \A j \in 1 .. Len(q) : ModCmp(q[j].hdr, e.hdr, TSMod) = A(q[j]) - A(e)
    BY <1>2, HdrOrder
  <1>5. \A j \in 1 .. k : A(q[j]) < A(e)
    <2>. TAKE j \in 1 .. k
    <2>1. k \in 1 .. Len(q) /\ j \in 1 .. Len(q) /\ k > 0
      BY <1>1
    <2>2. ModCmp(q[k].hdr, e.hdr, TSMod) < 0
      BY <2>1 DEF ModLT
    <2>3. A(q[k]) - A(e) < 0
      BY <1>4, <2>1, <2>2
    <2>4. j = k \/ j \in 1 .. k - 1
      BY <2>1
    <2>5. A(q[j]) <= A(q[k]) /\ A(q[j]) \in Int /\ A(q[k]) \in Int
      BY <1>2, <1>3, <2>1, <2>4
    <2>. HIDE DEF A
    <2>. QED BY <1>1, <2>3, <2>5
  <1>6. \A j \in k + 1 .. Len(q) : A(e) < A(q[j])
    <2>. TAKE j \in k + 1 .. Len(q)
    <2>1. j \in 1 .. Len(q)
      BY <1>1
    <2>2. ModCmp(q[j].hdr, e.hdr, TSMod) > 0
      BY DEF ModGT
    <2>3. A(q[j]) - A(e) > 0 /\ A(q[j]) \in Int
      BY <1>2, <1>4, <2>1, <2>2
    <2>. HIDE DEF A
    <2>. QED BY <1>1, <2>3
  <1>. HIDE DEF A
  <1>7. \A i \in 1 .. Len(r) : i \in 1 .. k \/ i = k + 1 \/ (i \in k + 2 .. Len(q) + 1 /\ i - 1 \in k + 1 .. Len(q))
    BY <1>1
  <1>8. \A i \in 1 .. Len(r) : Near(r[i], now)
    <2>. TAKE i \in 1 .. Len(r)
    <2>1. CASE i \in 1 .. k
      <3>1. i \in 1 .. Len(q) /\ r[i] = q[i]
        BY <2>1, <1>1
      <3>. QED BY <1>2, <3>1
    <2>2. CASE i = k + 1
      BY <2>2
    <2>3. CASE i \in k + 2 .. Len(q) + 1 /\ i - 1 \in k + 1 .. Len(q)
      <3>1. i - 1 \in 1 .. Len(q) /\ r[i] = q[i - 1]
        BY <2>3, <1>1
      <3>. QED BY <1>2, <3>1
    <2>. QED BY <1>7, <2>1, <2>2, <2>3
  <1>9. ASSUME NEW i \in 1 .. Len(r), NEW j \in 1 .. i - 1
        PROVE  A(r[j]) < A(r[i])
    <2>0. i \in Int /\ j \in Int /\ j < i /\ 1 <= j /\ i <= Len(q) + 1 /\ j \in 1 .. Len(r)
      BY <1>1
    <2>1. CASE i \in 1 .. k
      <3>1. i \in 1 .. Len(q) /\ j \in 1 .. k /\ r[i] = q[i] /\ r[j] = q[j]
        BY <2>0, <2>1, <1>1
      <3>. QED BY <1>3, <3>1
    <2>2. CASE i = k + 1
      <3>1. j \in 1 .. k /\ r[i] = e /\ r[j] = q[j]
        BY <2>0, <2>2, <1>1
      <3>. QED BY <1>5, <3>1
    <2>3. CASE i \in k + 2 .. Len(q) + 1 /\ i - 1 \in k + 1 .. Len(q)
      <3>1. i - 1 \in 1 .. Len(q) /\ r[i] = q[i - 1] /\ A(e) < A(q[i - 1])
        BY <2>3, <1>1, <1>6
      <3>2. CASE j \in 1 .. k
        <4>1. j \in 1 .. (i - 1) - 1 /\ r[j] = q[j]
          BY <2>0, <2>3, <3>2, <1>1
        <4>. QED BY <1>3, <3>1, <4>1
      <3>3. CASE j = k + 1
        BY <3>1, <3>3
      <3>4. CASE j \in k + 2 .. Len(q) + 1
        <4>1. j - 1 \in 1 .. (i - 1) - 1 /\ r[j] = q[j - 1]
          BY <2>0, <3>4, <1>1
        <4>. QED BY <1>3, <3>1, <4>1
      <3>. QED BY <1>7, <2>0, <3>2, <3>3, <3>4
    <2>. QED BY <1>7, <2>1, <2>2, <2>3
  <1>. QED BY <1>8, <1>9 DEF Spread, A

\* The k-th unit of the window is none of the queued ones.
Uncovered(k) ==
    \A i \in 1 .. Len(asked.busy) :
        LET s == Start(asked.busy[i], asked.now)
        IN k - 1 < s \/ k - 1 >= s + asked.busy[i].size

Needed ==
    /\ Spread(asked.busy, asked.now)
    /\ pc = "idle" => Spread(busy, nowTS)
    /\ \A k \in 1 .. Len(buffer) : buffer[k] = Silence => Uncovered(k)
    /\ pc = "fill" => \A k \in Len(buffer) + 1 .. ReadUnits : Uncovered(k)

LEMMA NeededIsEnough ==
    InReach /\ LoopInv /\ Needed => NoNeedlessSilence
  <1>. SUFFICES ASSUME InReach, LoopInv, Needed, NEW k \in 1 .. Len(buffer), buffer[k] = Silence,
                       NEW i \in 1 .. Len(asked.busy)
                PROVE  ((asked.now + (k - 1)) - Src(asked.busy[i])) % TSMod >= asked.busy[i].size
    BY DEF NoNeedlessSilence
  <1>. DEFINE n == asked.busy[i]
              base == asked.now
  <1>1. base \in Times /\ n \in Node /\ Near(n, base) /\ k \in 1 .. ReadUnits
    <2>1. asked.busy \in Seq(Node) /\ asked.now \in Times /\ Len(buffer) <= ReadUnits
          /\ Len(buffer) \in Nat
      BY LenProperties DEF LoopInv, Inv, Types, Position
    <2>2. asked.busy[i] \in Node
      BY <2>1, ElementOfSeq
    <2>. QED BY <2>1, <2>2, Constants DEF Needed, Spread
  <1>2. k - 1 < Start(n, base) \/ k - 1 >= Start(n, base) + n.size
    BY DEF Needed, Uncovered
  <1>. HIDE DEF n, base
  <1>3. ((base + (k - 1)) - Src(n)) % TSMod >= n.size
    BY <1>1, <1>2, MissedUnit
  <1>. QED BY <1>3 DEF n, base

LEMMA InitNeeded == Init => Needed
  <1>1. Len(<<>>) = 0 /\ 1 .. 0 = {}
    OBVIOUS
  <1>. QED BY <1>1 DEF Init, Needed, Spread

LEMMA ArriveNeeds ==
    ASSUME InReach, LoopInv, Needed,
           NEW d \in -Late .. Early, NEW size \in Sizes, Arrive((nowTS + d) % TSMod, size)
    PROVE  Needed'
  <1>. DEFINE ts == (nowTS + d) % TSMod
              node == [seq |-> ts, hdr |-> ts, ts |-> ts, skip |-> 0, size |-> size]
  <1>1. nowTS \in Times /\ busy \in Seq(Node) /\ pc = "idle" /\ Spread(busy, nowTS)
        /\ size \in 0 .. Units
    BY LoopBounds DEF LoopInv, Inv, Types, Needed, Arrive
  <1>2. node \in Node /\ node.hdr = ts
    <2>1. d \in Int
      BY LoopBounds
    <2>. QED BY <1>1, <2>1, ArrivesWhole
  <1>3. Near(node, nowTS)
    <2>1. \A x, y : x = ts /\ y = [seq |-> x, hdr |-> x, ts |-> x, skip |-> 0, size |-> size]
                    => Near(y, nowTS)
      BY <1>1, ArrivesNear
    <2>. QED BY <2>1
  <1>4. PICK k \in 0 .. Len(busy) :
            /\ k > 0 => ModLT(busy[k].hdr, ts, TSMod)
            /\ \A i \in k + 1 .. Len(busy) : ModGT(busy[i].hdr, ts, TSMod)
            /\ busy' = SubSeq(busy, 1, k) \o <<node>> \o SubSeq(busy, k + 1, Len(busy))
    BY DEF Arrive
  <1>5. UNCHANGED <<pc, nowTS, buffer, asked>>
    BY DEF Arrive
  <1>. HIDE DEF ts, node
  <1>. DEFINE w == Inserted(busy, k, node)
  <1>6. w \in Seq(Node) /\ Len(w) = Len(busy) + 1 /\ w[k + 1] = node
        /\ (\A i \in 1 .. k : w[i] = busy[i])
        /\ (\A i \in k + 2 .. Len(busy) + 1 : w[i] = busy[i - 1])
    <2>1. k \in 0 .. Len(busy) /\ busy \in Seq(Node) /\ node \in Node
      BY <1>1, <1>2
    <2>. QED BY <2>1, Inserting, ZenonT(60)
  <1>7. w = busy'
    BY <1>4 DEF Inserted
  <1>. HIDE DEF w
  <1>8. k > 0 => ModLT(busy[k].hdr, node.hdr, TSMod)
    BY <1>2, <1>4
  <1>9. \A i \in k + 1 .. Len(busy) : ModGT(busy[i].hdr, node.hdr, TSMod)
    BY <1>2, <1>4
  <1>10. Spread(w, nowTS)
    <2>1. k \in 0 .. Len(busy)
      BY <1>4
    <2>. QED BY <1>1, <1>2, <1>3, <1>6, <1>8, <1>9, <2>1, ArriveSpreads
  <1>11. Spread(busy, nowTS)'
    BY <1>5, <1>7, <1>10
  <1>. QED BY <1>1, <1>5, <1>11 DEF Needed, Uncovered

LEMMA BeginReadNeeds ==
    ASSUME LoopInv, Needed, BeginRead
    PROVE  Needed'
  <1>1. pc = "idle" /\ pc' = "loop" /\ asked'.busy = busy /\ asked'.now = nowTS /\ buffer' = <<>>
    BY DEF BeginRead
  <1>2. Len(<<>>) = 0 /\ 1 .. 0 = {}
    OBVIOUS
  <1>3. Spread(asked.busy, asked.now)'
    BY <1>1 DEF Needed
  <1>4. 1 .. Len(buffer') = {}
    BY <1>1, <1>2
  <1>. QED BY <1>1, <1>3, <1>4 DEF Needed

\* When nothing more is due, the rest of the window is behind the nodes that were
\* seen and before the others.
LEMMA NothingDueNeeds ==
    ASSUME InReach, LoopInv, Needed, NothingDue
    PROVE  Needed'
  <1>. DEFINE q == asked.busy
              base == asked.now
              L == Len(buffer)
  <1>1. pc = "loop" /\ (busy # <<>> => ~Ready(curr, limTS)) /\ pc' = "fill"
        /\ UNCHANGED <<busy, buffer, asked>>
    BY DEF NothingDue
  <1>2. base \in Times /\ q \in Seq(Node) /\ L \in Nat /\ limTS = (base + ReadUnits) % TSMod
        /\ freed \in 0 .. Len(q) /\ Furthest(q, freed, base, L) /\ Spread(q, base)
        /\ busy = SubSeq(q, freed + 1, Len(q)) /\ Len(q) \in Nat
    BY <1>1, LenProperties DEF LoopInv, Inv, Types, Looping, Seen, Needed, limTS
  <1>3. \A i \in 1 .. Len(q) :
            /\ q[i] \in Node /\ Near(q[i], base) /\ Start(q[i], base) \in Int /\ q[i].size \in Nat
            /\ Ahead(q[i], base) \in Int /\ Ahead(q[i], base) <= Start(q[i], base)
    <2>. TAKE i \in 1 .. Len(q)
    <2>1. q[i] \in Node /\ Near(q[i], base)
      BY <1>2, ElementOfSeq DEF Spread
    <2>. HIDE DEF q, base
    <2>. QED BY <1>2, <2>1, NearPlace
  <1>4. \A i \in 1 .. freed : Undecodable(q[i]) \/ Start(q[i], base) + q[i].size <= L
    <2>. TAKE i \in 1 .. freed
    <2>1. i \in 1 .. Len(q)
      BY <1>2
    <2>2. ~Undecodable(q[i]) => ModCmp(End(q[i]), base, TSMod) <= L
      BY <1>2 DEF Furthest, Reach
    <2>3. ModCmp(End(q[i]), base, TSMod) = Start(q[i], base) + q[i].size
      <3>. HIDE DEF q, base
      <3>. QED BY <1>2, <1>3, <2>1, NearCompares
    <2>. QED BY <2>2, <2>3
  <1>5. \A i \in freed + 1 .. Len(q) : Start(q[i], base) >= ReadUnits
    <2>. TAKE i \in freed + 1 .. Len(q)
    <2>. DEFINE f == freed + 1
    <2>1. f \in 1 .. Len(q) /\ i \in 1 .. Len(q) /\ freed # Len(q)
      BY <1>2
    <2>2. ~Ready(q[f], limTS)
      <3>1. busy # <<>> /\ Head(busy) = q[freed + 1]
        BY <1>2, <2>1, Suffixes, SMTT(60)
      <3>. QED BY <1>1, <3>1 DEF curr
    <2>3. BreaksAt(q[f], limTS)
      BY <2>2 DEF BreaksAt
    <2>4. q[f].skip = 0 /\ Start(q[f], base) >= ReadUnits
      <3>1. \A n : n = q[f] => n.skip = 0 /\ Start(n, base) >= ReadUnits
        BY <1>2, <1>3, <2>1, <2>2, <2>3, StopIsFar
      <3>. QED BY <3>1
    <2>5. Ahead(q[f], base) >= ReadUnits
      BY <1>3, <2>1, <2>4, Constants DEF Start
    <2>6. i = f \/ Ahead(q[f], base) < Ahead(q[i], base)
      <3>1. i # f => f \in 1 .. i - 1
        BY <2>1
      <3>. QED BY <1>2, <2>1, <3>1 DEF Spread
    <2>7. Ahead(q[f], base) \in Int /\ Ahead(q[i], base) \in Int /\ Start(q[i], base) \in Int
          /\ Ahead(q[i], base) <= Start(q[i], base)
      BY <1>3, <2>1
    <2>. HIDE DEF f, q, base
    <2>. QED BY <2>4, <2>5, <2>6, <2>7, Constants
  <1>6. ASSUME NEW k \in L + 1 .. ReadUnits PROVE Uncovered(k)
    <2>1. ASSUME NEW i \in 1 .. Len(q)
          PROVE  k - 1 < Start(q[i], base) \/ k - 1 >= Start(q[i], base) + q[i].size
      <3>0. k \in Int /\ k - 1 >= L /\ k - 1 < ReadUnits
        BY <1>2, Constants
      <3>1. Start(q[i], base) \in Int /\ q[i].size \in Nat
        BY <1>3
      <3>2. CASE i \in 1 .. freed
        <4>1. q[i].size = 0 \/ Start(q[i], base) + q[i].size <= L
          BY <1>4, <3>2 DEF Undecodable
        <4>. HIDE DEF q, base, L
        <4>. QED BY <1>2, <3>0, <3>1, <4>1
      <3>3. CASE i \in freed + 1 .. Len(q)
        <4>1. Start(q[i], base) >= ReadUnits
          BY <1>5, <3>3
        <4>. HIDE DEF q, base, L
        <4>. QED BY <3>0, <3>1, <4>1, Constants
      <3>. QED BY <1>2, <3>2, <3>3
    <2>. QED BY <2>1 DEF Uncovered
  <1>7. pc' # "idle"
    BY <1>1
  <1>. QED BY <1>1, <1>6, <1>7 DEF Needed, Uncovered, L

LEMMA FreesNeed ==
    ASSUME LoopInv, Needed, DecodeFails \/ DiscardOld
    PROVE  Needed'
  BY DEF DecodeFails, DiscardOld, Due, Needed, Uncovered

\* A gap that is played as silence is behind the nodes that were seen and before the
\* current node, so before all later ones, too.
LEMMA GapIsUncovered ==
    ASSUME InReach, LoopInv, Needed, Due, NEW s \in Int,
           Place(curr, asked.now, Len(buffer), s),
           NEW k \in Len(buffer) + 1 .. Len(buffer) + s
    PROVE  Uncovered(k)
  <1>. DEFINE q == asked.busy
              base == asked.now
              L == Len(buffer)
              c == freed + 1
  <1>1. pc = "loop" /\ busy # <<>>
    BY DEF Due
  <1>2. base \in Times /\ q \in Seq(Node) /\ L \in Nat /\ L < ReadUnits
        /\ freed \in 0 .. Len(q) /\ Furthest(q, freed, base, L) /\ Spread(q, base)
        /\ Len(q) \in Nat
    BY <1>1, LenProperties DEF LoopInv, Inv, Types, Position, Looping, Seen, Needed
  <1>3. c \in 1 .. Len(q) /\ curr = q[c]
    BY <1>1, CurrIsNext
  <1>4. \A i \in 1 .. Len(q) :
            /\ q[i] \in Node /\ Near(q[i], base) /\ Start(q[i], base) \in Int /\ q[i].size \in Nat
            /\ Ahead(q[i], base) \in Int /\ Ahead(q[i], base) <= Start(q[i], base)
            /\ ModCmp(Src(q[i]), base, TSMod) = Start(q[i], base)
            /\ ModCmp(End(q[i]), base, TSMod) = Start(q[i], base) + q[i].size
    <2>. TAKE i \in 1 .. Len(q)
    <2>1. q[i] \in Node /\ Near(q[i], base)
      BY <1>2, ElementOfSeq DEF Spread
    <2>. HIDE DEF q, base
    <2>2. /\ Start(q[i], base) \in Int /\ q[i].size \in Nat
          /\ Ahead(q[i], base) \in Int /\ Ahead(q[i], base) <= Start(q[i], base)
      BY <1>2, <2>1, NearPlace
    <2>3. /\ ModCmp(Src(q[i]), base, TSMod) = Start(q[i], base)
          /\ ModCmp(End(q[i]), base, TSMod) = Start(q[i], base) + q[i].size
      BY <1>2, <2>1, NearCompares
    <2>. QED BY <2>1, <2>2, <2>3
  <1>5. ModCmp(Src(curr), base, TSMod) = L + s
    <2>1. curr \in Node
      BY <1>3, <1>4
    <2>. HIDE DEF base, L
    <2>. QED BY <1>2, <2>1, PlaceCompares DEF base, L
  <1>6. Start(q[c], base) = L + s
    BY <1>3, <1>4, <1>5
  <1>7. k \in Int /\ k - 1 >= L /\ k - 1 < L + s /\ s > 0
    BY <1>2
  <1>8. Ahead(q[c], base) = L + s
    <2>1. q[c].skip = 0
      <3>1. ~(Start(q[c], base) <= 0)
        BY <1>2, <1>6, <1>7
      <3>2. Near(q[c], base)
        BY <1>3, <1>4
      <3>. QED BY <3>1, <3>2 DEF Near
    <2>. QED BY <1>3, <1>4, <1>6, <2>1 DEF Start
  <1>9. ASSUME NEW i \in 1 .. Len(q)
        PROVE  k - 1 < Start(q[i], base) \/ k - 1 >= Start(q[i], base) + q[i].size
    <2>1. Start(q[i], base) \in Int /\ q[i].size \in Nat /\ Ahead(q[i], base) \in Int
          /\ Ahead(q[i], base) <= Start(q[i], base)
      BY <1>4
    <2>2. CASE i \in 1 .. freed
      <3>1. ~Undecodable(q[i]) => ModCmp(End(q[i]), base, TSMod) <= L
        BY <1>2, <2>2 DEF Furthest, Reach
      <3>2. q[i].size = 0 \/ Start(q[i], base) + q[i].size <= L
        BY <1>4, <3>1 DEF Undecodable
      <3>. HIDE DEF q, base, L
      <3>. QED BY <1>2, <1>7, <2>1, <3>2, SMTT(60)
    <2>3. CASE i = c
      BY <1>6, <1>7, <2>3
    <2>4. CASE i \in c + 1 .. Len(q)
      <3>1. c \in 1 .. i - 1
        BY <1>3, <2>4
      <3>2. Ahead(q[c], base) < Ahead(q[i], base)
        BY <1>2, <3>1 DEF Spread
      <3>. HIDE DEF q, base, L
      <3>. QED BY <1>2, <1>7, <1>8, <2>1, <3>2
    <2>5. i \in 1 .. freed \/ i = c \/ i \in c + 1 .. Len(q)
      BY <1>2
    <2>. QED BY <2>2, <2>3, <2>4, <2>5
  <1>. QED BY <1>9 DEF Uncovered

LEMMA PlayCurrNeeds ==
    ASSUME InReach, LoopInv, Needed, PlayCurr
    PROVE  Needed'
  <1>. DEFINE L == Len(buffer)
              gap == Gap(curr)
              now == (nowTS + gap) % TSMod
              node == Remaining(curr, now)
              cap == Cap(curr)
              delta == IF cap THEN (limTS - Src(node)) % TSMod ELSE node.size
              T == Times \cup {Silence}
  <1>1. Due /\ ~TooOld /\ Inv /\ pc = "loop" /\ asked' = asked
    BY DEF PlayCurr, Due, LoopInv
  <1>2. PICK s \in Int :
           /\ Place(curr, asked.now, L, s)
           /\ gap \in Nat /\ gap = (IF s > 0 THEN s ELSE 0)
           /\ node \in Node
           /\ delta \in Nat
           /\ L + gap + delta = IF cap THEN ReadUnits ELSE L + s + curr.size
    BY <1>1, PlaysCurr, Zenon
  <1>3. /\ buffer' = buffer \o [i \in 1 .. gap |-> Silence] \o UnitsOf(node, delta)
        /\ pc' = (IF cap \/ Len(buffer') >= ReadUnits THEN "fill" ELSE "loop")
    BY DEF PlayCurr
  <1>4. buffer \in Seq(T) /\ Silence \in T /\ L \in Nat
    BY <1>1, LenProperties DEF Inv, Types
  <1>. HIDE DEF gap, now, node, cap, delta
  <1>5. UnitsOf(node, delta) \in [1 .. delta -> T]
        /\ \A i \in 1 .. delta : UnitsOf(node, delta)[i] # Silence
    <2>1. ASSUME NEW i \in 1 .. delta
          PROVE  UnitsOf(node, delta)[i] \in Times
      <3>1. UnitsOf(node, delta)[i] = (node.hdr + node.skip + (i - 1)) % TSMod
        BY DEF UnitsOf
      <3>2. node.hdr + node.skip + (i - 1) \in Int
        BY <1>2, NodeFields
      <3>. QED BY <3>1, <3>2, Residue
    <2>2. UnitsOf(node, delta) = [i \in 1 .. delta |-> UnitsOf(node, delta)[i]]
      BY DEF UnitsOf
    <2>3. Silence \notin Times
      BY DEF Silence, Times
    <2>. HIDE DEF UnitsOf
    <2>. QED BY <2>1, <2>2, <2>3
  <1>6. /\ Len(buffer') = L + gap + delta
        /\ \A k \in 1 .. L : buffer'[k] = buffer[k]
        /\ \A i \in 1 .. delta : buffer'[L + gap + i] # Silence
    <2>. DEFINE u == UnitsOf(node, delta)
                w == Appending(buffer, gap, u)
    <2>1. u \in [1 .. delta -> T] /\ \A i \in 1 .. delta : u[i] # Silence
      BY <1>5
    <2>. HIDE DEF u, T
    <2>2. /\ Len(w) = Len(buffer) + gap + delta
          /\ \A k \in 1 .. Len(buffer) : w[k] = buffer[k]
          /\ \A i \in 1 .. delta : w[Len(buffer) + gap + i] = u[i]
      <3>1. gap \in Nat /\ delta \in Nat /\ buffer \in Seq(T) /\ Silence \in T
        BY <1>2, <1>4 DEF T
      <3>2. Appends(Appending(buffer, gap, u), buffer, gap, delta, u, T)
        BY <2>1, <3>1, Appended
      <3>. QED BY <3>2 DEF Appends
    <2>3. buffer' = w
      BY <1>3 DEF Appending, u
    <2>. HIDE DEF w
    <2>. QED BY <2>1, <2>2, <2>3
  <1>7. ASSUME NEW k \in 1 .. Len(buffer'), buffer'[k] = Silence PROVE Uncovered(k)
    <2>1. CASE k <= L
      <3>1. k \in 1 .. L /\ buffer[k] = Silence
        BY <1>4, <1>6, <1>7, <2>1
      <3>. QED BY <3>1 DEF Needed
    <2>2. CASE k > L /\ k <= L + gap
      <3>1. k \in L + 1 .. L + s
        BY <1>2, <1>4, <2>2
      <3>. QED BY <1>1, <1>2, <3>1, GapIsUncovered
    <2>3. CASE k > L + gap
      <3>. DEFINE i == k - (L + gap)
      <3>1. i \in 1 .. delta /\ k = L + gap + i
        BY <1>2, <1>4, <1>6, <2>3
      <3>2. buffer'[k] # Silence
        BY <1>6, <3>1
      <3>. QED BY <1>7, <3>2
    <2>. QED BY <1>2, <1>4, <2>1, <2>2, <2>3
  <1>8. pc' = "fill" => Len(buffer') >= ReadUnits
    <2>1. CASE cap
      <3>1. Len(buffer') = ReadUnits
        BY <2>1, <1>2, <1>6
      <3>. QED BY <3>1, Constants
    <2>2. CASE ~cap
      BY <2>2, <1>3, Zenon
    <2>. QED BY <2>1, <2>2
  <1>9. pc' = "fill" => Len(buffer') + 1 .. ReadUnits = {}
    <2>1. Len(buffer') \in Nat
      BY <1>2, <1>4, <1>6
    <2>. QED BY <1>8, <2>1, Constants
  <1>10. pc' # "idle"
    BY <1>3
  <1>11. \A k \in 1 .. Len(buffer') : buffer'[k] = Silence => Uncovered(k)'
    BY <1>1, <1>7 DEF Uncovered
  <1>. QED BY <1>1, <1>9, <1>10, <1>11 DEF Needed

LEMMA FillRestNeeds ==
    ASSUME InReach, LoopInv, Needed, FillRest
    PROVE  Needed'
  <1>. DEFINE L == Len(buffer)
              sil == [i \in 1 .. Rest |-> Silence]
              T == Times \cup {Silence}
  <1>1. pc = "fill" /\ pc' = "idle" /\ busy' = busy /\ asked' = asked
        /\ buffer' = buffer \o sil /\ nowTS' = (nowTS + Rest) % TSMod
    BY DEF FillRest, Rest
  <1>2. Rest = ReadUnits - L /\ Rest \in Nat /\ nowTS' = limTS
    BY <1>1, RestIsLeft DEF LoopInv
  <1>3. buffer \in Seq(T) /\ L \in Nat
    BY LenProperties DEF LoopInv, Inv, Types
  <1>4. sil \in Seq(T) /\ Len(sil) = Rest
    BY <1>2
  <1>. HIDE DEF sil, T
  <1>5. Len(buffer') = ReadUnits /\ \A k \in 1 .. L : buffer'[k] = buffer[k]
    <2>1. Len(buffer \o sil) = Len(buffer) + Len(sil)
          /\ \A k \in 1 .. Len(buffer) : (buffer \o sil)[k] = buffer[k]
      BY <1>3, <1>4, Joined, Zenon
    <2>. QED BY <1>1, <1>2, <1>3, <1>4, <2>1, Constants
  <1>6. ASSUME NEW k \in 1 .. Len(buffer'), buffer'[k] = Silence PROVE Uncovered(k)
    <2>1. CASE k <= L
      <3>1. k \in 1 .. L /\ buffer[k] = Silence
        BY <1>3, <1>5, <1>6, <2>1
      <3>. QED BY <3>1 DEF Needed
    <2>2. CASE k > L
      <3>1. k \in L + 1 .. ReadUnits
        BY <1>3, <1>5, <2>2, Constants
      <3>. QED BY <1>1, <3>1 DEF Needed
    <2>. QED BY <1>3, <2>1, <2>2
  <1>7. \A k \in 1 .. Len(buffer') : buffer'[k] = Silence => Uncovered(k)'
    BY <1>1, <1>6 DEF Uncovered
  <1>8. Spread(busy, nowTS)'
    <2>1. PICK stop \in 1 .. Len(asked.busy) + 1 :
              StopsAt(asked.busy, stop, limTS) /\ busy = LeftAfter(asked.busy, stop, limTS)
      BY <1>1 DEF LoopInv, Filling, Stopped
    <2>2. asked.now \in Times /\ asked.busy \in Seq(Node) /\ Spread(asked.busy, asked.now)
          /\ limTS = (asked.now + ReadUnits) % TSMod
      BY DEF LoopInv, Inv, Types, Needed, limTS
    <2>3. PICK lim : lim = limTS
      OBVIOUS
    <2>4. Spread(LeftAfter(asked.busy, stop, lim), lim)
      BY <2>1, <2>2, <2>3, ReadLeavesSpread
    <2>5. Spread(busy, lim) /\ nowTS' = lim
      BY <1>2, <2>1, <2>3, <2>4
    <2>. QED BY <1>1, <2>5
  <1>. QED BY <1>1, <1>7, <1>8 DEF Needed

LEMMA NeededKept == InReach /\ LoopInv /\ Needed /\ [Next]_vars => Needed'
  <1>. SUFFICES ASSUME InReach, LoopInv, Needed, [Next]_vars PROVE Needed'
    OBVIOUS
  <1>1. CASE \E d \in -Late .. Early, size \in Sizes : Arrive((nowTS + d) % TSMod, size)
    BY <1>1, ArriveNeeds
  <1>2. CASE BeginRead
    BY <1>2, BeginReadNeeds
  <1>3. CASE NothingDue
    BY <1>3, NothingDueNeeds
  <1>4. CASE DecodeFails \/ DiscardOld
    BY <1>4, FreesNeed
  <1>5. CASE PlayCurr
    BY <1>5, PlayCurrNeeds
  <1>6. CASE FillRest
    BY <1>6, FillRestNeeds
  <1>7. CASE UNCHANGED vars
    BY <1>7 DEF vars, Needed, Uncovered
  <1>. QED BY <1>1, <1>2, <1>3, <1>4, <1>5, <1>6, <1>7 DEF Next

\* Packets may come late, early, with gaps and overlapping, be cut by one window and
\* played on in the next, or be rejected by the decoder: where the read plays silence, no
\* packet that was queued when it began has audio for that time.
THEOREM SilenceIsNeeded == InReach => (Spec => []NoNeedlessSilence)
  <1>. SUFFICES ASSUME InReach PROVE Spec => []NoNeedlessSilence
    OBVIOUS
  <1>1. Init => LoopInv /\ Needed
    BY InitLoopInv, InitNeeded
  <1>2. LoopInv /\ Needed /\ [Next]_vars => (LoopInv /\ Needed)'
    BY LoopInvKept, NeededKept
  <1>3. LoopInv /\ Needed => NoNeedlessSilence
    BY NeededIsEnough
  <1>. QED BY <1>1, <1>2, <1>3, PTL DEF Spec
=============================================================================
