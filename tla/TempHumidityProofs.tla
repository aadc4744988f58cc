------------------------- MODULE TempHumidityProofs -------------------------
(***************************************************************************)
(* The temperature and humidity sensor.  First one read of the wire, for   *)
(* every width of a byte and any delays: a read that succeeds publishes    *)
(* what was measured if the host was delayed once at most.  Then the       *)
(* object and the broadcaster in time, for every cycle, gate, number of    *)
(* retries, duration of a read and of a copy that satisfy the assumptions: *)
(* how old the data of a frame that is marked valid may be, in the frame   *)
(* and in the snapshot.                                                    *)
(***************************************************************************)
EXTENDS Snapshot, Am2302, SequenceTheorems, WellFoundedInduction, TLAPS

-----------------------------------------------------------------------------
(***************************************************************************)
(* One read.                                                               *)
(***************************************************************************)

LEMMA UpTo ==
  ASSUME NEW N \in Nat, NEW T, 0 \in T, \A j \in 1 .. N : j - 1 \in T => j \in T
  PROVE  \A j \in 0 .. N : j \in T
<1> DEFINE Bad == {j \in 0 .. N : j \notin T}
<1>1. SUFFICES ASSUME Bad # {} PROVE FALSE
  OBVIOUS
<1>2. Bad \subseteq Nat
  OBVIOUS
<1> HIDE DEF Bad
<1>3. IsWellFoundedOn(OpToRel(<, Nat), Nat)
  BY NatLessThanWellFounded
<1>4. PICK n \in Bad : \A m \in Bad : ~ (<<m, n>> \in OpToRel(<, Nat))
  BY <1>1, <1>2, <1>3, WFMin
<1>5. \A m \in Bad : ~(m < n)
  BY <1>2, <1>4 DEF OpToRel
<1>6. n \in 0 .. N /\ n \notin T
  BY DEF Bad
<1>7. n \in 1 .. N /\ n - 1 \in 0 .. N /\ n - 1 < n
  BY <1>6
<1>8. n - 1 \in T
  BY <1>5, <1>7 DEF Bad
<1>9. QED
  BY <1>6, <1>7, <1>8

(* f is made step by step.                                                 *)
Made(f, N, S, first, step) ==
  /\ f \in [0 .. N -> S]
  /\ f[0] = first
  /\ \A j \in 1 .. N : f[j] = step[j][f[j - 1]]

LEMMA StepByStep ==
  ASSUME NEW N \in Nat, NEW S, NEW first \in S, NEW step \in [1 .. N -> [S -> S]]
  PROVE  \E f : Made(f, N, S, first, step)
<1> DEFINE T == {n \in Nat : \E f \in [0 .. n -> S] : f[0] = first /\ \A j \in 1 .. n : f[j] = step[j][f[j - 1]]}
<1>1. 0 \in T
  <2>1. [i \in 0 .. 0 |-> first] \in [0 .. 0 -> S] /\ [i \in 0 .. 0 |-> first][0] = first /\ 1 .. 0 = {}
    OBVIOUS
  <2>2. QED
    BY <2>1
<1>2. ASSUME NEW n \in 1 .. N, n - 1 \in T PROVE n \in T
  <2>1. PICK f \in [0 .. n - 1 -> S] : f[0] = first /\ \A j \in 1 .. n - 1 : f[j] = step[j][f[j - 1]]
    BY <1>2
  <2> DEFINE g == [i \in 0 .. n |-> IF i = n THEN step[n][f[n - 1]] ELSE f[i]]
  <2>2. n \in Nat /\ n - 1 \in 0 .. n - 1 /\ f[n - 1] \in S /\ step[n] \in [S -> S]
    BY <2>1
  <2>3. step[n][f[n - 1]] \in S
    BY <2>2
  <2>4. \A i \in 0 .. n : i = n \/ i \in 0 .. n - 1
    BY <2>2
  <2>5. g \in [0 .. n -> S]
    BY <2>1, <2>3, <2>4
  <2>6. g[n] = step[n][f[n - 1]] /\ \A i \in 0 .. n - 1 : g[i] = f[i]
    BY <2>2
  <2> HIDE DEF g
  <2>7. g[0] = first
    BY <2>1, <2>2, <2>6
  <2>8. ASSUME NEW j \in 1 .. n PROVE g[j] = step[j][g[j - 1]]
    <3>1. j - 1 \in 0 .. n - 1 /\ (j = n \/ j \in 1 .. n - 1)
      BY <2>2
    <3>2. g[j - 1] = f[j - 1]
      BY <2>6, <3>1
    <3>3. CASE j = n
      BY <2>6, <3>2, <3>3
    <3>4. CASE j \in 1 .. n - 1
      <4>1. g[j] = f[j]
        BY <2>2, <2>6, <3>4
      <4>2. QED
        BY <2>1, <3>2, <3>4, <4>1
    <3>5. QED
      BY <3>1, <3>3, <3>4
  <2>9. QED
    BY <2>2, <2>5, <2>7, <2>8
<1> HIDE DEF T
<1>3. \A j \in 0 .. N : j \in T
  BY <1>1, <1>2, UpTo
<1>4. N \in T
  BY <1>3
<1>5. QED
  BY <1>4 DEF T, Made

-----------------------------------------------------------------------------
(* Arithmetic *)

LEMMA Halving ==
  ASSUME NEW x \in Nat, NEW d \in Nat, d > 0
  PROVE  x \div d = 2 * (x \div (2 * d)) + ((x \div d) % 2)
<1>1. (x \div d) \div 2 = x \div (2 * d) /\ x \div d \in Nat
  OBVIOUS
<1>2. \A y \in Nat : y = 2 * (y \div 2) + (y % 2)
  OBVIOUS
<1>3. QED
  BY <1>1, <1>2

LEMMA Division ==
  ASSUME NEW x \in Nat, NEW d \in Nat, d > 0
  PROVE  /\ x \div d \in Nat /\ x % d \in 0 .. d - 1
         /\ x = (x \div d) * d + (x % d)
OBVIOUS

LEMMA DivOne == \A x \in Nat : x \div 1 = x
OBVIOUS

LEMMA DivSmall ==
  ASSUME NEW d \in Nat, NEW x \in 0 .. d - 1
  PROVE  x \div d = 0
OBVIOUS

LEMMA DivBound ==
  ASSUME NEW d \in Nat, NEW x \in 0 .. d * d - 1, d > 0
  PROVE  x \div d \in 0 .. d - 1
OBVIOUS

(* Two numbers that are apart, but by less than d, differ modulo d.        *)
LEMMA Apart ==
  ASSUME NEW d \in Nat, d > 0, NEW x \in Nat, NEW y \in Nat, x < y, y - x < d
  PROVE  x % d # y % d
<1> SUFFICES ASSUME x % d = y % d PROVE FALSE
  OBVIOUS
<1> DEFINE q == y \div d - x \div d
<1>1. q \in Int /\ y - x = q * d
  BY Division
<1> HIDE DEF q
<1>2. CASE q <= 0
  <2>1. q * d <= 0
    BY <1>1, <1>2
  <2>2. QED
    BY <1>1, <2>1
<1>3. CASE q >= 1
  <2>1. q * d >= d
    BY <1>1, <1>3
  <2>2. QED
    BY <1>1, <2>1
<1>4. QED
  BY <1>1, <1>2, <1>3

LEMMA Distributes == \A x, y, d \in Int : (x - y) * d = x * d - y * d
OBVIOUS

LEMMA SumOfDifferences ==
  ASSUME NEW b, NEW c, \A l \in 1 .. 4 : b[l] \in Int /\ c[l] \in Int
  PROVE  (c[1] + c[2] + c[3] + c[4]) - (b[1] + b[2] + b[3] + b[4]) =
           (c[1] - b[1]) + (c[2] - b[2]) + (c[3] - b[3]) + (c[4] - b[4])
<1>1. PICK x1 \in Int, x2 \in Int, x3 \in Int, x4 \in Int :
        c[1] = x1 /\ c[2] = x2 /\ c[3] = x3 /\ c[4] = x4
  OBVIOUS
<1>2. PICK y1 \in Int, y2 \in Int, y3 \in Int, y4 \in Int :
        b[1] = y1 /\ b[2] = y2 /\ b[3] = y3 /\ b[4] = y4
  OBVIOUS
<1>3. (x1 + x2 + x3 + x4) - (y1 + y2 + y3 + y4) = (x1 - y1) + (x2 - y2) + (x3 - y3) + (x4 - y4)
  OBVIOUS
<1>4. QED
  BY <1>1, <1>2, <1>3

LEMMA Powers ==
  /\ Width \in Nat \ {0}
  /\ TwoTo \in [0 .. Width -> Nat \ {0}]
  /\ TwoTo[0] = 1
  /\ \A j \in 1 .. Width : TwoTo[j] = 2 * TwoTo[j - 1]
<1>1. Width \in Nat \ {0}
  BY Am2302Assumption
<1> DEFINE double == [j \in 1 .. Width |-> [x \in Nat |-> 2 * x]]
<1>2. double \in [1 .. Width -> [Nat -> Nat]] /\ \A j \in 1 .. Width, x \in Nat : double[j][x] = 2 * x
  OBVIOUS
<1> HIDE DEF double
<1>3. PICK f \in [0 .. Width -> Nat] : f[0] = 1 /\ \A j \in 1 .. Width : f[j] = double[j][f[j - 1]]
  <2>1. Width \in Nat /\ 1 \in Nat /\ double \in [1 .. Width -> [Nat -> Nat]]
    BY <1>1, <1>2
  <2>2. \E f : Made(f, Width, Nat, 1, double)
    BY <2>1, StepByStep
  <2>3. QED
    BY <2>2 DEF Made
<1>4. f = [n \in 0 .. Width |-> IF n = 0 THEN 1 ELSE 2 * f[n - 1]]
  <2>1. \A n \in 0 .. Width : f[n] = IF n = 0 THEN 1 ELSE 2 * f[n - 1]
    <3> TAKE n \in 0 .. Width
    <3>1. n = 0 \/ (n \in 1 .. Width /\ n - 1 \in 0 .. Width)
      BY <1>1
    <3>2. QED
      BY <1>2, <1>3, <3>1
  <2>2. QED
    BY <1>3, <2>1
<1>5. TwoTo = [n \in 0 .. Width |-> IF n = 0 THEN 1 ELSE 2 * TwoTo[n - 1]]
  BY <1>4 DEF TwoTo
<1>6. TwoTo[0] = 1 /\ \A j \in 1 .. Width : TwoTo[j] = 2 * TwoTo[j - 1]
  <2>1. 0 \in 0 .. Width /\ \A j \in 1 .. Width : j \in 0 .. Width /\ j # 0
    BY <1>1
  <2>2. QED
    BY <1>5, <2>1
<1>7. \A j \in 0 .. Width : j \in {i \in 0 .. Width : TwoTo[i] \in Nat \ {0}}
  <2> DEFINE T == {i \in 0 .. Width : TwoTo[i] \in Nat \ {0}}
  <2>1. 0 \in T
    BY <1>1, <1>6
  <2>2. \A j \in 1 .. Width : j - 1 \in T => j \in T
    BY <1>1, <1>6, SMTT(30)
  <2> HIDE DEF T
  <2>3. \A j \in 0 .. Width : j \in T
    BY <1>1, <2>1, <2>2, UpTo
  <2>4. QED
    BY <2>3 DEF T
<1>8. TwoTo \in [0 .. Width -> Nat \ {0}]
  BY <1>5, <1>7
<1>9. QED
  BY <1>1, <1>6, <1>8

LEMMA Bases ==
  /\ Base \in Nat /\ Base > 1 /\ SignBit \in Nat /\ SignBit > 0 /\ Base * Base = 2 * SignBit
<1>1. Width \in 1 .. Width /\ Width - 1 \in 0 .. Width /\ Width \in 0 .. Width
  BY Powers
<1>2. PICK half \in Nat \ {0} : Base = 2 * half
  BY <1>1, Powers DEF Base
<1>3. Base * Base = 2 * (half * Base) /\ half * Base \in Nat
  BY <1>2
<1>4. SignBit = half * Base
  BY <1>3 DEF SignBit
<1>5. half * Base > 0
  BY <1>2
<1>6. QED
  BY <1>2, <1>3, <1>4, <1>5

-----------------------------------------------------------------------------
(* Bytes of bits.  f is what has been shifted in, bit by bit.              *)
Shifts(f, bs, k) ==
  /\ f \in [0 .. Width -> Nat]
  /\ f[0] = 0
  /\ \A j \in 1 .. Width : f[j] = 2 * f[j - 1] + bs[(k - 1) * Width + j]

BitsIn(bs, k) == \A j \in 1 .. Width : bs[(k - 1) * Width + j] \in {0, 1}

LEMMA ByteShifts ==
  ASSUME NEW bs, NEW k, BitsIn(bs, k)
  PROVE  \E f : Shifts(f, bs, k) /\ Byte(bs, k) = f[Width]
<1> DEFINE bit(j) == bs[(k - 1) * Width + j]
           add == [j \in 1 .. Width |-> [x \in Nat |-> 2 * x + bit(j)]]
<1>1. Width \in Nat \ {0} /\ \A j \in 1 .. Width : bit(j) \in {0, 1}
  BY Powers DEF BitsIn
<1> HIDE DEF bit
<1>2. add \in [1 .. Width -> [Nat -> Nat]] /\ \A j \in 1 .. Width, x \in Nat : add[j][x] = 2 * x + bit(j)
  BY <1>1
<1> HIDE DEF add
<1>3. PICK h \in [0 .. Width -> Nat] : h[0] = 0 /\ \A j \in 1 .. Width : h[j] = add[j][h[j - 1]]
  <2>1. Width \in Nat /\ 0 \in Nat /\ add \in [1 .. Width -> [Nat -> Nat]]
    BY <1>1, <1>2
  <2>2. \E h : Made(h, Width, Nat, 0, add)
    BY <2>1, StepByStep
  <2>3. QED
    BY <2>2 DEF Made
<1>4. h = [n \in 0 .. Width |-> IF n = 0 THEN 0 ELSE 2 * h[n - 1] + bit(n)]
  <2>1. \A n \in 0 .. Width : h[n] = IF n = 0 THEN 0 ELSE 2 * h[n - 1] + bit(n)
    <3> TAKE n \in 0 .. Width
    <3>1. n = 0 \/ (n \in 1 .. Width /\ n - 1 \in 0 .. Width)
      BY <1>1
    <3>2. QED
      BY <1>2, <1>3, <3>1
  <2>2. QED
    BY <1>3, <2>1
<1>5. PICK f : /\ f = [n \in 0 .. Width |-> IF n = 0 THEN 0 ELSE 2 * f[n - 1] + bit(n)]
               /\ Byte(bs, k) = f[Width]
  BY <1>4 DEF Byte, bit
<1>6. f[0] = 0 /\ \A j \in 1 .. Width : f[j] = 2 * f[j - 1] + bit(j)
  <2>1. 0 \in 0 .. Width /\ \A j \in 1 .. Width : j \in 0 .. Width /\ j # 0
    BY <1>1
  <2>2. QED
    BY <1>5, <2>1
<1>7. \A j \in 0 .. Width : f[j] \in Nat
  <2> DEFINE T == {i \in 0 .. Width : f[i] \in Nat}
  <2>1. 0 \in T
    BY <1>1, <1>6
  <2>2. ASSUME NEW j \in 1 .. Width, j - 1 \in T PROVE j \in T
    <3>1. f[j - 1] \in Nat
      BY <2>2
    <3>2. PICK b \in {0, 1} : f[j] = 2 * f[j - 1] + b
      BY <1>1, <1>6
    <3>3. f[j] \in Nat /\ j \in 0 .. Width
      BY <1>1, <3>1, <3>2, SMTT(30)
    <3>4. QED
      BY <3>3
  <2> HIDE DEF T
  <2>3. \A j \in 0 .. Width : j \in T
    BY <1>1, <2>1, <2>2, UpTo
  <2>4. QED
    BY <2>3 DEF T
<1>8. f \in [0 .. Width -> Nat]
  BY <1>5, <1>7
<1>9. Shifts(f, bs, k)
  BY <1>6, <1>8 DEF Shifts, bit
<1>10. QED
  BY <1>5, <1>9

LEMMA ByteRange ==
  ASSUME NEW bs, NEW k, BitsIn(bs, k)
  PROVE  Byte(bs, k) \in 0 .. Base - 1
<1>1. PICK f : Shifts(f, bs, k) /\ Byte(bs, k) = f[Width]
  BY ByteShifts
<1>2. /\ f \in [0 .. Width -> Nat] /\ f[0] = 0
      /\ \A j \in 1 .. Width : f[j] = 2 * f[j - 1] + bs[(k - 1) * Width + j] /\ bs[(k - 1) * Width + j] \in {0, 1}
  BY <1>1 DEF Shifts, BitsIn
<1> DEFINE T == {i \in 0 .. Width : f[i] < TwoTo[i]}
<1>3. 0 \in T
  BY <1>2, Powers
<1>4. ASSUME NEW j \in 1 .. Width, j - 1 \in T PROVE j \in T
  <2>1. j - 1 \in 0 .. Width /\ j \in 0 .. Width /\ f[j - 1] < TwoTo[j - 1]
    BY <1>4, Powers
  <2>2. f[j - 1] \in Nat /\ TwoTo[j - 1] \in Nat /\ TwoTo[j] = 2 * TwoTo[j - 1]
    BY <1>2, <2>1, Powers
  <2>3. PICK bit \in {0, 1} : f[j] = 2 * f[j - 1] + bit
    BY <1>2
  <2>4. f[j] < TwoTo[j]
    BY <2>1, <2>2, <2>3
  <2>5. QED
    BY <2>1, <2>4
<1> HIDE DEF T
<1>5. \A j \in 0 .. Width : j \in T
  BY <1>3, <1>4, Powers, UpTo
<1>6. Width \in 0 .. Width
  BY Powers
<1>7. f[Width] < TwoTo[Width] /\ f[Width] \in Nat /\ TwoTo[Width] \in Nat
  BY <1>2, <1>5, <1>6, Powers DEF T
<1>8. QED
  BY <1>1, <1>7 DEF Base

(* The same bits make the same byte; the other last bit makes one that is  *)
(* one more or less, the other first bit one that is half the base more or *)
(* less.                                                                   *)
LEMMA SameByte ==
  ASSUME NEW bs, NEW cs, NEW k, BitsIn(bs, k),
         \A j \in 1 .. Width : bs[(k - 1) * Width + j] = cs[(k - 1) * Width + j]
  PROVE  Byte(bs, k) = Byte(cs, k)
<1>1. BitsIn(cs, k)
  BY DEF BitsIn
<1>2. PICK f : Shifts(f, bs, k) /\ Byte(bs, k) = f[Width]
  BY ByteShifts
<1>3. PICK g : Shifts(g, cs, k) /\ Byte(cs, k) = g[Width]
  BY <1>1, ByteShifts
<1> DEFINE T == {i \in 0 .. Width : f[i] = g[i]}
<1>4. 0 \in T
  BY <1>2, <1>3, Powers DEF Shifts
<1>5. ASSUME NEW j \in 1 .. Width, j - 1 \in T PROVE j \in T
  BY <1>2, <1>3, <1>5, Powers DEF Shifts
<1> HIDE DEF T
<1>6. \A j \in 0 .. Width : j \in T
  BY <1>4, <1>5, Powers, UpTo
<1>7. Width \in 0 .. Width
  BY Powers
<1>8. QED
  BY <1>2, <1>3, <1>6, <1>7 DEF T

LEMMA OtherLastBit ==
  ASSUME NEW bs, NEW cs, NEW k, BitsIn(bs, k), BitsIn(cs, k),
         bs[(k - 1) * Width + Width] # cs[(k - 1) * Width + Width],
         \A j \in 1 .. Width - 1 : bs[(k - 1) * Width + j] = cs[(k - 1) * Width + j]
  PROVE  Byte(bs, k) - Byte(cs, k) \in {1, -1}
<1>1. PICK f : Shifts(f, bs, k) /\ Byte(bs, k) = f[Width]
  BY ByteShifts
<1>2. PICK g : Shifts(g, cs, k) /\ Byte(cs, k) = g[Width]
  BY ByteShifts
<1> DEFINE b(j) == bs[(k - 1) * Width + j]
           c(j) == cs[(k - 1) * Width + j]
<1>3. /\ Width \in Nat \ {0} /\ f \in [0 .. Width -> Nat] /\ g \in [0 .. Width -> Nat] /\ f[0] = 0 /\ g[0] = 0
      /\ \A j \in 1 .. Width : f[j] = 2 * f[j - 1] + b(j) /\ g[j] = 2 * g[j - 1] + c(j)
      /\ \A j \in 1 .. Width : b(j) \in {0, 1} /\ c(j) \in {0, 1}
      /\ \A j \in 1 .. Width - 1 : b(j) = c(j)
      /\ b(Width) # c(Width)
  BY <1>1, <1>2, Powers DEF Shifts, BitsIn
<1> HIDE DEF b, c
<1> DEFINE T == {i \in 0 .. Width : f[i] = g[i]}
<1>4. 0 \in T
  BY <1>3
<1>5. ASSUME NEW j \in 1 .. Width - 1, j - 1 \in T PROVE j \in T
  <2>1. j \in 1 .. Width /\ j \in 0 .. Width
    BY <1>3
  <2>2. f[j - 1] = g[j - 1] /\ b(j) = c(j)
    BY <1>3, <1>5
  <2>3. f[j] = g[j]
    BY <1>3, <2>1, <2>2
  <2>4. QED
    BY <2>1, <2>3
<1> HIDE DEF T
<1>6. Width - 1 \in Nat /\ Width - 1 \in 0 .. Width - 1 /\ Width - 1 \in 0 .. Width /\ Width \in 1 .. Width
  BY <1>3
<1>7. \A j \in 0 .. Width - 1 : j \in T
  BY <1>4, <1>5, <1>6, UpTo
<1>8. f[Width - 1] = g[Width - 1] /\ f[Width - 1] \in Nat
  BY <1>3, <1>6, <1>7 DEF T
<1>9. f[Width] = 2 * f[Width - 1] + b(Width) /\ g[Width] = 2 * f[Width - 1] + c(Width)
  BY <1>3, <1>6, <1>8
<1>10. b(Width) \in {0, 1} /\ c(Width) \in {0, 1} /\ b(Width) # c(Width)
  BY <1>3, <1>6
<1>11. f[Width] - g[Width] \in {1, -1}
  BY <1>8, <1>9, <1>10
<1>12. QED
  BY <1>1, <1>2, <1>11

LEMMA FirstBitSet ==
  ASSUME NEW bs, NEW cs, NEW k, BitsIn(bs, k), BitsIn(cs, k),
         bs[(k - 1) * Width + 1] = 1, cs[(k - 1) * Width + 1] = 0,
         \A j \in 2 .. Width : bs[(k - 1) * Width + j] = cs[(k - 1) * Width + j]
  PROVE  Byte(bs, k) = Byte(cs, k) + TwoTo[Width - 1]
<1>1. PICK f : Shifts(f, bs, k) /\ Byte(bs, k) = f[Width]
  BY ByteShifts
<1>2. PICK g : Shifts(g, cs, k) /\ Byte(cs, k) = g[Width]
  BY ByteShifts
<1> DEFINE b(j) == bs[(k - 1) * Width + j]
           c(j) == cs[(k - 1) * Width + j]
<1>3. /\ Width \in Nat \ {0} /\ f \in [0 .. Width -> Nat] /\ g \in [0 .. Width -> Nat] /\ f[0] = 0 /\ g[0] = 0
      /\ \A j \in 1 .. Width : f[j] = 2 * f[j - 1] + b(j) /\ g[j] = 2 * g[j - 1] + c(j)
      /\ \A j \in 1 .. Width : b(j) \in {0, 1} /\ c(j) \in {0, 1}
      /\ \A j \in 2 .. Width : b(j) = c(j)
      /\ b(1) = 1 /\ c(1) = 0
  BY <1>1, <1>2, Powers DEF Shifts, BitsIn
<1> HIDE DEF b, c
<1> DEFINE T == {i \in 0 .. Width : i >= 1 => f[i] = g[i] + TwoTo[i - 1]}
<1>4. 0 \in T
  BY <1>3
<1>5. ASSUME NEW j \in 1 .. Width, j - 1 \in T PROVE j \in T
  <2>0. j \in 0 .. Width /\ j - 1 \in 0 .. Width
    BY <1>3
  <2>1. f[j - 1] \in Nat /\ g[j - 1] \in Nat
    BY <1>3, <2>0
  <2>2. f[j] = 2 * f[j - 1] + b(j) /\ g[j] = 2 * g[j - 1] + c(j) /\ b(j) \in {0, 1} /\ c(j) \in {0, 1}
    BY <1>3
  <2>3. CASE j = 1
    <3>1. f[1] = 1 /\ g[1] = 0 /\ TwoTo[0] = 1
      BY <1>3, <2>2, <2>3, Powers
    <3>2. QED
      BY <2>0, <2>3, <3>1
  <2>4. CASE j # 1
    <3>1. j - 1 >= 1 /\ j \in 2 .. Width /\ j - 1 \in 1 .. Width /\ (j - 1) - 1 \in 0 .. Width
      BY <1>3, <2>4
    <3>2. f[j - 1] = g[j - 1] + TwoTo[(j - 1) - 1]
      BY <1>5, <3>1
    <3>3. TwoTo[j - 1] = 2 * TwoTo[(j - 1) - 1] /\ TwoTo[(j - 1) - 1] \in Nat
      BY <3>1, Powers
    <3>4. b(j) = c(j)
      BY <1>3, <3>1
    <3>5. f[j] = g[j] + TwoTo[j - 1]
      BY <2>1, <2>2, <3>2, <3>3, <3>4
    <3>6. QED
      BY <2>0, <3>5
  <2>5. QED
    BY <2>3, <2>4
<1> HIDE DEF T
<1>6. \A j \in 0 .. Width : j \in T
  BY <1>3, <1>4, <1>5, UpTo
<1>7. Width \in 0 .. Width /\ Width >= 1
  BY <1>3
<1>8. f[Width] = g[Width] + TwoTo[Width - 1]
  BY <1>6, <1>7 DEF T
<1>9. QED
  BY <1>1, <1>2, <1>8

(* Half the base.                                                          *)
Half == TwoTo[Width - 1]

LEMMA OtherFirstBit ==
  ASSUME NEW bs, NEW cs, NEW k, BitsIn(bs, k), BitsIn(cs, k),
         bs[(k - 1) * Width + 1] # cs[(k - 1) * Width + 1],
         \A j \in 2 .. Width : bs[(k - 1) * Width + j] = cs[(k - 1) * Width + j]
  PROVE  Byte(bs, k) - Byte(cs, k) \in {Half, -Half}
<1>1. /\ 1 \in 1 .. Width /\ Width - 1 \in 0 .. Width /\ Half \in Nat
      /\ Byte(bs, k) \in 0 .. Base - 1 /\ Byte(cs, k) \in 0 .. Base - 1
  BY Powers, ByteRange DEF Half
<1>2. bs[(k - 1) * Width + 1] \in {0, 1} /\ cs[(k - 1) * Width + 1] \in {0, 1}
  BY <1>1 DEF BitsIn
<1>3. CASE bs[(k - 1) * Width + 1] = 1 /\ cs[(k - 1) * Width + 1] = 0
  <2>1. Byte(bs, k) = Byte(cs, k) + Half
    BY <1>3, FirstBitSet DEF Half
  <2>2. QED
    BY <1>1, <2>1
<1>4. CASE bs[(k - 1) * Width + 1] = 0 /\ cs[(k - 1) * Width + 1] = 1
  <2>1. Byte(cs, k) = Byte(bs, k) + Half
    BY <1>4, FirstBitSet DEF Half
  <2>2. QED
    BY <1>1, <2>1
<1>5. QED
  BY <1>2, <1>3, <1>4

LEMMA HalfOfBase ==
  Half \in Nat /\ Half > 1 /\ Base = 2 * Half
<1>1. Width \in 1 .. Width /\ Width - 1 \in 1 .. Width /\ (Width - 1) - 1 \in 0 .. Width
  BY Am2302Assumption
<1>2. Base = 2 * Half /\ Half \in Nat
  BY <1>1, Powers DEF Base, Half
<1>3. Half = 2 * TwoTo[(Width - 1) - 1] /\ TwoTo[(Width - 1) - 1] \in Nat \ {0}
  BY <1>1, Powers DEF Half
<1>4. QED
  BY <1>2, <1>3

(* One and half the base, added or subtracted, are no multiple of the base.*)
LEMMA NoMultiple ==
  ASSUME NEW p \in Int, NEW e \in {1, -1}, NEW f \in {Half, -Half}
  PROVE  e + f # p * Base /\ e - f # p * Base
<1>1. Half \in Nat /\ Half > 1 /\ Base = 2 * Half
  BY HalfOfBase
<1>2. CASE p = 0
  BY <1>1, <1>2
<1>3. CASE p >= 1
  <2>1. p * Base >= Base
    BY <1>1, <1>3
  <2>2. QED
    BY <1>1, <2>1
<1>4. CASE p <= -1
  <2>1. p * Base <= -Base
    BY <1>1, <1>4
  <2>2. QED
    BY <1>1, <2>1
<1>5. QED
  BY <1>2, <1>3, <1>4

(* Bit j of byte k in the numbering of the bits of all bytes.              *)
LEMMA Position ==
  ASSUME NEW k \in 1 .. 5, NEW j \in 1 .. Width
  PROVE  LET i == (k - 1) * Width + j
         IN  /\ i \in 1 .. BitCount
             /\ (i - 1) \div Width = k - 1 /\ (i - 1) % Width = j - 1
<1>1. Width \in Nat /\ Width > 0 /\ j - 1 \in 0 .. Width - 1
  BY Powers
<1>2. \A q \in 0 .. 4, r \in 0 .. Width - 1 :
        (q * Width + r) \div Width = q /\ (q * Width + r) % Width = r
  BY <1>1
<1>3. (k - 1) * Width + j - 1 = (k - 1) * Width + (j - 1) /\ k - 1 \in 0 .. 4
  BY <1>1
<1>4. (k - 1) * Width + j \in 1 .. 5 * Width
  BY <1>1
<1>5. QED
  BY <1>1, <1>2, <1>3, <1>4 DEF BitCount

LEMMA OnePosition ==
  ASSUME NEW k \in 1 .. 5, NEW j \in 1 .. Width, NEW l \in 1 .. 5, NEW i \in 1 .. Width,
         (k - 1) * Width + j = (l - 1) * Width + i
  PROVE  k = l /\ j = i
<1> DEFINE p == (k - 1) * Width + j
<1>1. (p - 1) \div Width = k - 1 /\ (p - 1) % Width = j - 1
  BY Position
<1>2. (p - 1) \div Width = l - 1 /\ (p - 1) % Width = i - 1
  <2> DEFINE q == (l - 1) * Width + i
  <2>1. (q - 1) \div Width = l - 1 /\ (q - 1) % Width = i - 1
    BY Position
  <2>2. p = q
    OBVIOUS
  <2> HIDE DEF p, q
  <2>3. QED
    BY <2>1, <2>2
<1> HIDE DEF p
<1>3. i \in Int /\ j \in Int
  BY Powers
<1>4. QED
  BY <1>1, <1>2, <1>3

LEMMA PositionOf ==
  ASSUME NEW i \in 1 .. BitCount
  PROVE  \E k \in 1 .. 5, j \in 1 .. Width : i = (k - 1) * Width + j
<1>1. Width \in Nat /\ Width > 0 /\ i - 1 \in Nat /\ i - 1 < 5 * Width
  BY Powers DEF BitCount
<1>2. (i - 1) \div Width \in Nat /\ (i - 1) % Width \in 0 .. Width - 1
      /\ i - 1 = ((i - 1) \div Width) * Width + ((i - 1) % Width)
  BY <1>1, Division
<1>3. (i - 1) \div Width \in 0 .. 4
  BY <1>1
<1>4. i = ((((i - 1) \div Width) + 1) - 1) * Width + (((i - 1) % Width) + 1)
  BY <1>1, <1>2
<1>5. ((i - 1) \div Width) + 1 \in 1 .. 5 /\ ((i - 1) % Width) + 1 \in 1 .. Width
  BY <1>1, <1>2, <1>3
<1>6. QED
  BY <1>4, <1>5

(* What the sensor sends as the bits of a byte is that byte.               *)
LEMMA ByteOfBits ==
  ASSUME NEW bytes, NEW k \in 1 .. 5, bytes[k] \in 0 .. Base - 1,
         NEW bs, \A j \in 1 .. Width : bs[(k - 1) * Width + j] = BitOf(bytes, (k - 1) * Width + j)
  PROVE  BitsIn(bs, k) /\ Byte(bs, k) = bytes[k]
<1> DEFINE x == bytes[k]
<1>1. Width \in Nat \ {0} /\ x \in Nat /\ x \in 0 .. Base - 1 /\ Base \in Nat
  BY Bases, Powers
<1>2. \A j \in 1 .. Width : bs[(k - 1) * Width + j] = (x \div TwoTo[Width - j]) % 2
  <2> TAKE j \in 1 .. Width
  <2> DEFINE i == (k - 1) * Width + j
  <2>1. (i - 1) \div Width = k - 1 /\ (i - 1) % Width = j - 1
    BY Position
  <2> HIDE DEF i
  <2>2. ((i - 1) \div Width) + 1 = k /\ Width - 1 - ((i - 1) % Width) = Width - j
    BY <1>1, <2>1
  <2>3. BitOf(bytes, i) = (bytes[k] \div TwoTo[Width - j]) % 2
    BY <2>2 DEF BitOf
  <2>4. QED
    BY <2>3 DEF i
<1> HIDE DEF x
<1>3. \A j \in 0 .. Width : TwoTo[j] \in Nat /\ TwoTo[j] > 0
  BY Powers
<1>4. BitsIn(bs, k)
  <2> SUFFICES ASSUME NEW j \in 1 .. Width PROVE (x \div TwoTo[Width - j]) % 2 \in {0, 1}
    BY <1>2 DEF BitsIn
  <2>1. Width - j \in 0 .. Width
    BY <1>1
  <2>2. x \div TwoTo[Width - j] \in Nat
    BY <1>1, <1>3, <2>1, Division
  <2>3. QED
    BY <2>2
<1>5. PICK f : Shifts(f, bs, k) /\ Byte(bs, k) = f[Width]
  BY <1>4, ByteShifts
<1> DEFINE T == {i \in 0 .. Width : f[i] = x \div TwoTo[Width - i]}
<1>6. 0 \in T
  <2>1. x \div TwoTo[Width] = 0
    BY <1>1, DivSmall DEF Base
  <2>2. QED
    BY <1>1, <1>5, <2>1 DEF Shifts
<1>7. ASSUME NEW j \in 1 .. Width, j - 1 \in T PROVE j \in T
  <2>1. f[j] = 2 * f[j - 1] + ((x \div TwoTo[Width - j]) % 2)
    BY <1>2, <1>5 DEF Shifts
  <2>2. Width - j \in 0 .. Width /\ Width - (j - 1) \in 1 .. Width /\ (Width - (j - 1)) - 1 = Width - j
    BY <1>1
  <2>3. TwoTo[Width - (j - 1)] = 2 * TwoTo[Width - j]
    BY <2>2, Powers
  <2>4. f[j - 1] = x \div (2 * TwoTo[Width - j])
    BY <1>7, <2>3
  <2>5. x \div TwoTo[Width - j] = 2 * (x \div (2 * TwoTo[Width - j])) + ((x \div TwoTo[Width - j]) % 2)
    BY <1>1, <1>3, <2>2, Halving
  <2>6. j \in 0 .. Width
    BY <1>1
  <2>7. QED
    BY <2>1, <2>4, <2>5, <2>6
<1> HIDE DEF T
<1>8. \A j \in 0 .. Width : j \in T
  BY <1>1, <1>6, <1>7, UpTo
<1>9. Width \in 0 .. Width /\ Width - Width = 0
  BY <1>1
<1>10. f[Width] = x \div TwoTo[0]
  BY <1>8, <1>9 DEF T
<1>11. f[Width] = x
  BY <1>1, <1>10, Powers, DivOne
<1>12. QED
  BY <1>4, <1>5, <1>11 DEF x

-----------------------------------------------------------------------------
(* Frames *)

LEMMA Temperatures ==
  ASSUME NEW t \in 1 - SignBit .. SignBit - 1
  PROVE  /\ RawTemperature(t) \in 0 .. Base * Base - 1
         /\ t = IF RawTemperature(t) >= SignBit THEN -(RawTemperature(t) - SignBit) ELSE RawTemperature(t)
<1>1. SignBit \in Nat /\ SignBit > 0 /\ Base * Base = 2 * SignBit /\ t \in Int
  BY Bases
<1>2. CASE t < 0
  BY <1>1, <1>2 DEF RawTemperature
<1>3. CASE ~(t < 0)
  BY <1>1, <1>3 DEF RawTemperature
<1>4. QED
  BY <1>2, <1>3

(* What the sensor sends is five bytes, passes the parity check and is     *)
(* decoded to what it has measured.                                        *)
LEMMA BytesSent ==
  ASSUME NEW m \in Measurements
  PROVE  LET b == Bytes(m) IN
         /\ \A k \in 1 .. 5 : b[k] \in 0 .. Base - 1
         /\ (b[1] + b[2] + b[3] + b[4]) % Base = b[5]
         /\ b[1] * Base + b[2] = m.humidity
         /\ b[3] * Base + b[4] = RawTemperature(m.temperature)
<1> DEFINE h == m.humidity
           r == RawTemperature(m.temperature)
           b == Bytes(m)
<1>1. h \in 0 .. Base * Base - 1 /\ r \in 0 .. Base * Base - 1 /\ Base \in Nat /\ Base > 0
  BY Temperatures, Bases DEF Measurements
<1> HIDE DEF h, r
<1>2. h \in Nat /\ r \in Nat
  BY <1>1
<1>3. /\ h \div Base \in 0 .. Base - 1 /\ h % Base \in 0 .. Base - 1 /\ h = (h \div Base) * Base + (h % Base)
      /\ r \div Base \in 0 .. Base - 1 /\ r % Base \in 0 .. Base - 1 /\ r = (r \div Base) * Base + (r % Base)
  BY <1>1, <1>2, Division, DivBound
<1>4. /\ b[1] = h \div Base /\ b[2] = h % Base /\ b[3] = r \div Base /\ b[4] = r % Base
      /\ b[5] = (b[1] + b[2] + b[3] + b[4]) % Base
  BY DEF Bytes, h, r
<1> HIDE DEF b
<1>5. b[1] + b[2] + b[3] + b[4] \in Nat
  BY <1>1, <1>3, <1>4
<1>6. b[5] \in 0 .. Base - 1
  BY <1>1, <1>4, <1>5, Division
<1>7. \A k \in 1 .. 5 : b[k] \in 0 .. Base - 1
  <2> TAKE k \in 1 .. 5
  <2>1. k = 1 \/ k = 2 \/ k = 3 \/ k = 4 \/ k = 5
    OBVIOUS
  <2>2. QED
    BY <1>3, <1>4, <1>6, <2>1
<1>8. QED
  BY <1>3, <1>4, <1>7 DEF h, r, b

LEMMA FrameDecoded ==
  ASSUME NEW m \in Measurements, NEW bs, \A k \in 1 .. 5 : Byte(bs, k) = Bytes(m)[k]
  PROVE  DecodeFrame(bs) = m
<1> DEFINE raw == Byte(bs, 3) * Base + Byte(bs, 4)
<1>1. Byte(bs, 1) * Base + Byte(bs, 2) = m.humidity /\ raw = RawTemperature(m.temperature)
  BY BytesSent
<1>2. m.temperature = IF raw >= SignBit THEN -(raw - SignBit) ELSE raw
  BY <1>1, Temperatures DEF Measurements
<1>3. m = [humidity |-> m.humidity, temperature |-> m.temperature]
  BY DEF Measurements
<1>4. QED
  BY <1>1, <1>2, <1>3 DEF DecodeFrame

LEMMA Counts ==
  /\ BitCount \in Nat /\ BitCount = 5 * Width
  /\ LastWait = 2 * BitCount + 3 /\ LastPhase = 2 * BitCount + 4
  /\ LastWait \in Nat /\ LastPhase \in Nat
BY Powers DEF BitCount, LastWait, LastPhase

AllBits(bs) == \A i \in 1 .. BitCount : bs[i] \in {0, 1}

LEMMA DecodeType ==
  ASSUME NEW bs, AllBits(bs)
  PROVE  DecodeFrame(bs) \in Measurements
<1>1. \A k \in 1 .. 5 : BitsIn(bs, k)
  BY Position DEF AllBits, BitsIn
<1>2. \A k \in 1 .. 5 : Byte(bs, k) \in 0 .. Base - 1
  BY <1>1, ByteRange
<1>3. Base \in Nat /\ Base > 1 /\ SignBit \in Nat /\ SignBit > 0 /\ Base * Base = 2 * SignBit
  BY Bases
<1>4. \A x, y \in 0 .. Base - 1 : x * Base + y \in 0 .. Base * Base - 1
  <2> TAKE x, y \in 0 .. Base - 1
  <2>1. x * Base <= (Base - 1) * Base /\ x * Base \in Nat
    BY <1>3
  <2>2. (Base - 1) * Base = Base * Base - Base
    BY <1>3
  <2>3. QED
    BY <1>3, <2>1, <2>2
<1> DEFINE raw == Byte(bs, 3) * Base + Byte(bs, 4)
<1>5. raw \in 0 .. Base * Base - 1 /\ Byte(bs, 1) * Base + Byte(bs, 2) \in 0 .. Base * Base - 1
  BY <1>2, <1>4
<1> HIDE DEF raw
<1>6. (IF raw >= SignBit THEN -(raw - SignBit) ELSE raw) \in 1 - SignBit .. SignBit - 1
  BY <1>3, <1>5
<1>7. QED
  BY <1>5, <1>6 DEF DecodeFrame, Measurements, raw

(* One byte that is wrong does not pass the parity check.                  *)
LEMMA OneWrongByte ==
  ASSUME NEW b, NEW c, NEW k \in 1 .. 5,
         \A l \in 1 .. 5 : b[l] \in 0 .. Base - 1 /\ c[l] \in 0 .. Base - 1,
         (b[1] + b[2] + b[3] + b[4]) % Base = b[5],
         (c[1] + c[2] + c[3] + c[4]) % Base = c[5],
         \A l \in 1 .. 5 : l # k => c[l] = b[l]
  PROVE  c[k] = b[k]
<1> SUFFICES ASSUME c[k] # b[k] PROVE FALSE
  OBVIOUS
<1>1. /\ \A l \in 1 .. 5 : b[l] \in 0 .. Base - 1
      /\ (b[1] + b[2] + b[3] + b[4]) % Base = b[5]
  OBVIOUS
<1>7. /\ \A l \in 1 .. 5 : c[l] \in 0 .. Base - 1 /\ (l # k => c[l] = b[l])
      /\ c[k] # b[k]
      /\ (c[1] + c[2] + c[3] + c[4]) % Base = c[5]
  OBVIOUS
<1>8. Base \in Nat /\ Base > 0
  BY Bases
<1> DEFINE S == b[1] + b[2] + b[3] + b[4]
           U == c[1] + c[2] + c[3] + c[4]
<1>9. CASE k = 5
  <2>1. c[1] = b[1] /\ c[2] = b[2] /\ c[3] = b[3] /\ c[4] = b[4]
    BY <1>7, <1>9
  <2>2. QED
    BY <1>1, <1>7, <1>9, <2>1
<1>10. CASE k # 5
  <2>1. b[5] = c[5]
    BY <1>7, <1>10
  <2>2. S % Base = U % Base
    BY <1>1, <1>7, <2>1
  <2>3. S \in Nat /\ U \in Nat
    <3>1. /\ b[1] \in Nat /\ b[2] \in Nat /\ b[3] \in Nat /\ b[4] \in Nat
          /\ c[1] \in Nat /\ c[2] \in Nat /\ c[3] \in Nat /\ c[4] \in Nat
      BY <1>1, <1>7, <1>8
    <3>2. QED
      BY <3>1
  <2>4. S - U = b[k] - c[k]
    <3>1. k = 1 \/ k = 2 \/ k = 3 \/ k = 4
      BY <1>10
    <3>2. /\ b[1] \in Int /\ b[2] \in Int /\ b[3] \in Int /\ b[4] \in Int
          /\ c[1] \in Int /\ c[2] \in Int /\ c[3] \in Int /\ c[4] \in Int
      BY <1>1, <1>7, <1>8
    <3>3. /\ (k # 1 => c[1] = b[1]) /\ (k # 2 => c[2] = b[2])
          /\ (k # 3 => c[3] = b[3]) /\ (k # 4 => c[4] = b[4])
      BY <1>7
    <3>4. CASE k = 1
      BY <3>2, <3>3, <3>4
    <3>5. CASE k = 2
      BY <3>2, <3>3, <3>5
    <3>6. CASE k = 3
      BY <3>2, <3>3, <3>6
    <3>7. CASE k = 4
      BY <3>2, <3>3, <3>7
    <3>8. QED
      BY <3>1, <3>4, <3>5, <3>6, <3>7
  <2>5. b[k] \in 0 .. Base - 1 /\ c[k] \in 0 .. Base - 1 /\ b[k] # c[k]
    BY <1>1, <1>7
  <2> HIDE DEF S, U
  <2>6. (S < U /\ U - S < Base) \/ (U < S /\ S - U < Base)
    BY <1>8, <2>3, <2>4, <2>5
  <2>7. QED
    BY <1>8, <2>2, <2>3, <2>6, Apart
<1>11. QED
  BY <1>9, <1>10

(* Two neighbouring bytes of which one is wrong by one and the other by    *)
(* half the base do not pass it either.                                    *)
LEMMA TwoWrongBytes ==
  ASSUME NEW b, NEW c, NEW k \in 1 .. 4,
         \A l \in 1 .. 5 : b[l] \in 0 .. Base - 1 /\ c[l] \in 0 .. Base - 1,
         (b[1] + b[2] + b[3] + b[4]) % Base = b[5],
         (c[1] + c[2] + c[3] + c[4]) % Base = c[5],
         \A l \in 1 .. 5 : l # k /\ l # k + 1 => c[l] = b[l],
         c[k] - b[k] \in {1, -1}, c[k + 1] - b[k + 1] \in {Half, -Half}
  PROVE  FALSE
<1> DEFINE S == b[1] + b[2] + b[3] + b[4]
           U == c[1] + c[2] + c[3] + c[4]
           p == U \div Base - S \div Base
<1>1. Base \in Nat /\ Base > 0 /\ Half \in Nat
  BY Bases, HalfOfBase
<1>2. /\ b[1] \in Nat /\ b[2] \in Nat /\ b[3] \in Nat /\ b[4] \in Nat /\ b[5] \in Nat
      /\ c[1] \in Nat /\ c[2] \in Nat /\ c[3] \in Nat /\ c[4] \in Nat /\ c[5] \in Nat
  BY <1>1
<1>3. S \in Nat /\ U \in Nat
  BY <1>2
<1>4. p \in Int /\ U - S = p * Base + (c[5] - b[5])
  <2>1. S % Base = b[5] /\ U % Base = c[5]
    OBVIOUS
  <2> HIDE DEF S, U
  <2>2. /\ S = (S \div Base) * Base + b[5] /\ U = (U \div Base) * Base + c[5]
        /\ S \div Base \in Nat /\ U \div Base \in Nat
    BY <1>1, <1>3, <2>1, Division
  <2> DEFINE x == U \div Base
             y == S \div Base
  <2>3. x \in Int /\ y \in Int /\ S = y * Base + b[5] /\ U = x * Base + c[5] /\ p = x - y
    BY <2>2
  <2> HIDE DEF x, y, p
  <2>4. p * Base = x * Base - y * Base
    BY <1>1, <2>3, Distributes
  <2>5. x * Base \in Int /\ y * Base \in Int
    BY <1>1, <2>3
  <2>6. QED
    BY <1>2, <2>3, <2>4, <2>5
<1>5. U - S = (c[1] - b[1]) + (c[2] - b[2]) + (c[3] - b[3]) + (c[4] - b[4])
  <2>1. \A l \in 1 .. 4 : b[l] \in Int /\ c[l] \in Int
    BY <1>1
  <2>2. (c[1] + c[2] + c[3] + c[4]) - (b[1] + b[2] + b[3] + b[4]) =
          (c[1] - b[1]) + (c[2] - b[2]) + (c[3] - b[3]) + (c[4] - b[4])
    BY <2>1, SumOfDifferences, Zenon
  <2>3. QED
    BY <2>2, Zenon
<1> HIDE DEF S, U, p
<1>6. k = 1 \/ k = 2 \/ k = 3 \/ k = 4
  OBVIOUS
<1>7. CASE k # 4
  <2>1. c[5] - b[5] = 0 /\ U - S = (c[k] - b[k]) + (c[k + 1] - b[k + 1])
    <3>1. CASE k = 1
      <4>1. c[3] = b[3] /\ c[4] = b[4] /\ c[5] = b[5]
        BY <3>1
      <4>2. QED
        BY <1>2, <1>5, <3>1, <4>1
    <3>2. CASE k = 2
      <4>1. c[1] = b[1] /\ c[4] = b[4] /\ c[5] = b[5]
        BY <3>2
      <4>2. QED
        BY <1>2, <1>5, <3>2, <4>1
    <3>3. CASE k = 3
      <4>1. c[1] = b[1] /\ c[2] = b[2] /\ c[5] = b[5]
        BY <3>3
      <4>2. QED
        BY <1>2, <1>5, <3>3, <4>1
    <3>4. QED
      BY <1>6, <1>7, <3>1, <3>2, <3>3
  <2>2. (c[k] - b[k]) + (c[k + 1] - b[k + 1]) = p * Base
    <3>1. p * Base \in Int
      BY <1>1, <1>4
    <3>2. QED
      BY <1>4, <2>1, <3>1
  <2>3. QED
    BY <1>4, <2>2, NoMultiple
<1>8. CASE k = 4
  <2>1. U - S = c[4] - b[4]
    <3>1. c[1] = b[1] /\ c[2] = b[2] /\ c[3] = b[3]
      BY <1>8
    <3>2. QED
      BY <1>2, <1>5, <3>1
  <2>2. c[4] - b[4] \in {1, -1} /\ c[5] - b[5] \in {Half, -Half}
    BY <1>8
  <2>3. (c[4] - b[4]) - (c[5] - b[5]) = p * Base
    <3>1. p * Base \in Int
      BY <1>1, <1>4
    <3>2. QED
      BY <1>2, <1>4, <2>1, <3>1
  <2>4. QED
    BY <1>4, <2>2, <2>3, NoMultiple
<1>9. QED
  BY <1>7, <1>8

(* A frame of which at most two neighbouring bits are wrong passes the     *)
(* parity check only if none is.                                           *)
LEMMA TwoWrongBits ==
  ASSUME NEW m \in Measurements, NEW bs, AllBits(bs), ParityCheck(bs),
         NEW w \in Nat,
         \A i \in 1 .. BitCount : i # w /\ i # w + 1 => bs[i] = BitOf(Bytes(m), i)
  PROVE  DecodeFrame(bs) = m
<1> DEFINE b == Bytes(m)
           sent == [i \in 1 .. BitCount |-> BitOf(b, i)]
           c == [l \in 1 .. 5 |-> Byte(bs, l)]
<1>1. /\ \A k \in 1 .. 5 : b[k] \in 0 .. Base - 1
      /\ (b[1] + b[2] + b[3] + b[4]) % Base = b[5]
  BY BytesSent
<1>2. \A i \in 1 .. BitCount : sent[i] = BitOf(b, i) /\ (i # w /\ i # w + 1 => bs[i] = sent[i])
  OBVIOUS
<1> HIDE DEF sent
<1>3. \A k \in 1 .. 5, j \in 1 .. Width : (k - 1) * Width + j \in 1 .. BitCount
  BY Position
<1>4. \A k \in 1 .. 5 : BitsIn(sent, k) /\ Byte(sent, k) = b[k]
  BY <1>1, <1>2, <1>3, ByteOfBits
<1>5. \A k \in 1 .. 5 : BitsIn(bs, k)
  BY <1>3 DEF AllBits, BitsIn
<1>6. /\ \A l \in 1 .. 5 : c[l] = Byte(bs, l) /\ c[l] \in 0 .. Base - 1
      /\ (c[1] + c[2] + c[3] + c[4]) % Base = c[5]
  BY <1>5, ByteRange DEF ParityCheck
<1>7. SUFFICES \A k \in 1 .. 5 : c[k] = b[k]
  BY FrameDecoded
<1> HIDE DEF b, c
<1>8. ASSUME NEW l \in 1 .. 5, \A j \in 1 .. Width : bs[(l - 1) * Width + j] = sent[(l - 1) * Width + j]
      PROVE  c[l] = b[l]
  BY <1>4, <1>5, <1>6, <1>8, SameByte
<1>9. ASSUME NEW k \in 1 .. 5,
             \A l \in 1 .. 5, j \in 1 .. Width :
               l # k => bs[(l - 1) * Width + j] = sent[(l - 1) * Width + j]
      PROVE  \A l \in 1 .. 5 : c[l] = b[l]
  <2>1. \A l \in 1 .. 5 : l # k => c[l] = b[l]
    BY <1>8, <1>9
  <2>2. c[k] = b[k]
    BY <1>1, <1>6, <2>1, OneWrongByte
  <2>3. QED
    BY <2>1, <2>2
<1>10. Width \in Nat /\ Width > 1
  BY Am2302Assumption
(* The bits of two bytes are apart.                                        *)
<1>11. CASE \E k \in 1 .. 4 : w = (k - 1) * Width + Width /\ bs[w] # sent[w] /\ bs[w + 1] # sent[w + 1]
  <2>1. PICK k \in 1 .. 4 : w = (k - 1) * Width + Width /\ bs[w] # sent[w] /\ bs[w + 1] # sent[w + 1]
    BY <1>11
  <2>2. /\ k \in 1 .. 5 /\ k + 1 \in 1 .. 5 /\ Width \in 1 .. Width /\ 1 \in 1 .. Width
        /\ w + 1 = ((k + 1) - 1) * Width + 1
    BY <1>10, <2>1
  <2>3. ASSUME NEW l \in 1 .. 5, NEW j \in 1 .. Width, ~(l = k /\ j = Width), ~(l = k + 1 /\ j = 1)
        PROVE  bs[(l - 1) * Width + j] = sent[(l - 1) * Width + j]
    <3>1. (l - 1) * Width + j # w
      BY <2>1, <2>2, <2>3, OnePosition
    <3>2. (l - 1) * Width + j # w + 1
      <4> DEFINE n == k + 1
      <4>1. n \in 1 .. 5 /\ 1 \in 1 .. Width /\ w + 1 = (n - 1) * Width + 1 /\ ~(l = n /\ j = 1)
        BY <2>2, <2>3
      <4> HIDE DEF n
      <4>2. SUFFICES ASSUME (l - 1) * Width + j = w + 1 PROVE FALSE
        OBVIOUS
      <4>3. (l - 1) * Width + j = (n - 1) * Width + 1
        BY <4>1, <4>2
      <4>4. l = n /\ j = 1
        BY <4>1, <4>3, OnePosition
      <4>5. QED
        BY <4>1, <4>4
    <3>3. QED
      BY <1>2, <1>3, <3>1, <3>2
  <2>4. c[k] - b[k] \in {1, -1}
    <3>1. \A j \in 1 .. Width - 1 : bs[(k - 1) * Width + j] = sent[(k - 1) * Width + j]
      <4> TAKE j \in 1 .. Width - 1
      <4>1. j \in 1 .. Width /\ j # Width /\ k # k + 1
        BY <1>10
      <4>2. QED
        BY <2>2, <2>3, <4>1
    <3>2. Byte(bs, k) - Byte(sent, k) \in {1, -1}
      BY <1>4, <1>5, <2>1, <2>2, <3>1, OtherLastBit
    <3>3. QED
      BY <1>4, <1>6, <2>2, <3>2
  <2>5. c[k + 1] - b[k + 1] \in {Half, -Half}
    <3> DEFINE n == k + 1
    <3>1. n \in 1 .. 5 /\ n # k /\ w + 1 = (n - 1) * Width + 1
      BY <2>2
    <3> HIDE DEF n
    <3>2. \A j \in 2 .. Width : bs[(n - 1) * Width + j] = sent[(n - 1) * Width + j]
      <4> TAKE j \in 2 .. Width
      <4>1. j \in 1 .. Width /\ j # 1
        BY <1>10
      <4>2. QED
        BY <2>3, <3>1, <4>1
    <3>3. bs[(n - 1) * Width + 1] # sent[(n - 1) * Width + 1]
      BY <2>1, <3>1
    <3>4. Byte(bs, n) - Byte(sent, n) \in {Half, -Half}
      BY <1>4, <1>5, <3>1, <3>2, <3>3, OtherFirstBit
    <3>5. c[n] - b[n] \in {Half, -Half}
      BY <1>4, <1>6, <3>1, <3>4
    <3>6. QED
      BY <3>5 DEF n
  <2>6. \A l \in 1 .. 5 : l # k /\ l # k + 1 => c[l] = b[l]
    BY <1>8, <2>3
  <2>7. FALSE
    BY <1>1, <1>6, <2>4, <2>5, <2>6, TwoWrongBytes
  <2>8. QED
    BY <2>7
(* They are in one byte, or one of them is right.                          *)
<1>12. CASE ~ \E k \in 1 .. 4 : w = (k - 1) * Width + Width /\ bs[w] # sent[w] /\ bs[w + 1] # sent[w + 1]
  <2>1. SUFFICES \E k \in 1 .. 5 : \A l \in 1 .. 5, j \in 1 .. Width :
                   l # k => bs[(l - 1) * Width + j] = sent[(l - 1) * Width + j]
    BY <1>9
  <2>2. CASE w \in 1 .. BitCount
    <3>1. PICK k \in 1 .. 5, j \in 1 .. Width : w = (k - 1) * Width + j
      BY <2>2, PositionOf
    <3>2. CASE j # Width
      <4>1. j + 1 \in 1 .. Width /\ w + 1 = (k - 1) * Width + (j + 1)
        BY <1>10, <3>1, <3>2
      <4>2. ASSUME NEW l \in 1 .. 5, NEW i \in 1 .. Width, l # k
            PROVE  bs[(l - 1) * Width + i] = sent[(l - 1) * Width + i]
        <5>1. (l - 1) * Width + i # w /\ (l - 1) * Width + i # w + 1
          BY <3>1, <4>1, <4>2, OnePosition
        <5>2. QED
          BY <1>2, <1>3, <5>1
      <4>3. QED
        BY <4>2
    <3>3. CASE j = Width /\ (bs[w] = sent[w] \/ k = 5)
      <4> DEFINE n == IF k = 5 THEN 5 ELSE k + 1
      <4>1. n \in 1 .. 5 /\ 1 \in 1 .. Width
        BY <1>10
      <4>2. ASSUME NEW l \in 1 .. 5, NEW i \in 1 .. Width, l # n
            PROVE  bs[(l - 1) * Width + i] = sent[(l - 1) * Width + i]
        <5>1. (l - 1) * Width + i # w + 1
          <6>1. CASE k = 5
            <7>1. w + 1 = BitCount + 1 /\ BitCount \in Nat
              BY <1>10, <3>1, <3>3, <6>1 DEF BitCount
            <7>2. (l - 1) * Width + i \in 1 .. BitCount
              BY <1>3
            <7>3. QED
              BY <7>1, <7>2
          <6>2. CASE k # 5
            <7>1. w + 1 = (n - 1) * Width + 1
              BY <1>10, <3>1, <3>3, <6>2
            <7>2. QED
              BY <4>1, <4>2, <7>1, OnePosition
          <6>3. QED
            BY <6>1, <6>2
        <5>2. CASE (l - 1) * Width + i # w
          BY <1>2, <1>3, <5>1, <5>2
        <5>3. CASE (l - 1) * Width + i = w
          <6>1. l = k
            BY <3>1, <5>3, OnePosition
          <6>2. bs[w] = sent[w]
            BY <3>3, <4>2, <6>1
          <6>3. QED
            BY <5>3, <6>2
        <5>4. QED
          BY <5>2, <5>3
      <4>3. QED
        BY <4>1, <4>2
    <3>4. CASE j = Width /\ bs[w] # sent[w] /\ k # 5
      <4>1. k \in 1 .. 4 /\ w = (k - 1) * Width + Width /\ w + 1 = ((k + 1) - 1) * Width + 1
        BY <1>10, <3>1, <3>4
      <4>2. bs[w + 1] = sent[w + 1]
        BY <1>12, <3>4, <4>1
      <4>3. ASSUME NEW l \in 1 .. 5, NEW i \in 1 .. Width, l # k
            PROVE  bs[(l - 1) * Width + i] = sent[(l - 1) * Width + i]
        <5>1. (l - 1) * Width + i # w
          BY <3>1, <4>3, OnePosition
        <5>2. QED
          BY <1>2, <1>3, <4>2, <5>1
      <4>4. QED
        BY <4>3
    <3>5. QED
      BY <3>2, <3>3, <3>4
  <2>3. CASE w \notin 1 .. BitCount
    <3>1. ASSUME NEW l \in 1 .. 5, NEW i \in 1 .. Width, l # 1
          PROVE  bs[(l - 1) * Width + i] = sent[(l - 1) * Width + i]
      <4>1. (l - 1) * Width + i \in 1 .. BitCount /\ (l - 1) * Width + i > 1
        <5>1. (l - 1) * Width + i \in 1 .. BitCount
          BY <1>3
        <5>2. (1 - 1) * Width + 1 = 1 /\ 1 \in 1 .. 5 /\ 1 \in 1 .. Width
          BY <1>10
        <5>3. (l - 1) * Width + i # 1
          BY <3>1, <5>2, OnePosition
        <5>4. QED
          BY <5>1, <5>3
      <4>2. (l - 1) * Width + i # w + 1
        BY <2>3, <4>1, Counts
      <4>3. (l - 1) * Width + i # w
        BY <2>3, <4>1
      <4>4. QED
        BY <1>2, <4>1, <4>2, <4>3
    <3>2. QED
      BY <3>1
  <2>4. QED
    BY <2>2, <2>3
<1>13. QED
  BY <1>11, <1>12

-----------------------------------------------------------------------------
(* The read *)

(* Where in the waveform the host is, by the bits it has.                  *)
Progress ==
  /\ waits < 3 => bits = <<>>
  /\ pulse = "none" /\ waits >= 3 => waits \in {2 * Len(bits) + 3, 2 * Len(bits) + 4}
  /\ pulse # "none" => /\ waits = 2 * Len(bits) + 5
                       /\ rise \in 4 .. LastPhase - 1 /\ High(rise)
  /\ waits <= phase
  /\ waits >= 4 /\ High(waits) => rise \in 4 .. phase /\ High(rise)

(* The sensor is ahead: there is not enough left of its waveform.          *)
FallenBehind == phase >= waits + 2

(* All bits are what the sensor has sent, but for bit w and the next.      *)
RightBut(w) ==
  \A i \in 1 .. Len(bits) : i # w /\ i # w + 1 => bits[i] = BitOf(Bytes(measured), i)

AllRight == \A i \in 1 .. Len(bits) : bits[i] = BitOf(Bytes(measured), i)

(* Where a delay has left its mark.  Before the fall of a pulse was seen it*)
(* spoils the bit of that pulse, after the one that has no time yet that   *)
(* bit and the next.                                                       *)
Spoils(w) ==
  /\ RightBut(w)
  /\ late => w = Len(bits) + (IF pulse = "none" THEN 0 ELSE 1)
  /\ pulse = "spoiled" => w = Len(bits) /\ ~late

(* After one delay the host is behind for good, or only the bits that were *)
(* being read then may be wrong.                                           *)
OneLate ==
  \/ FallenBehind
  \/ /\ phase = waits \/ (phase = waits + 1 /\ late)
     /\ ~late /\ waits >= 4 /\ High(waits) => rise = waits
     /\ pulse = "right" => rise = waits - 1
     /\ \E w \in Nat : Spoils(w)

DelayInv ==
  /\ delays = 0 => phase = waits /\ ~late /\ pulse # "spoiled" /\ AllRight
  /\ delays <= 1 => OneLate

Am2302IInv == Am2302TypeOK /\ Progress /\ DelayInv /\ OneDelayDetected

LEMMA SeenFacts ==
  ASSUME NEW x \in Nat, NEW y \in Nat, phase = x, waits = y
  PROVE  /\ Seen \in Nat /\ x <= Seen /\ (High(Seen) <=> High(y + 1)) /\ (High(y + 1) <=> ~High(y))
         /\ x = y \/ x = y + 1 => Seen = y + 1
         /\ x >= y + 2 => Seen >= y + 3
         /\ x >= y => Seen >= y + 1
BY DEF Seen, High

LEMMA BitOfIsBit ==
  ASSUME NEW m \in Measurements, NEW i \in 1 .. BitCount
  PROVE  BitOf(Bytes(m), i) \in {0, 1}
<1>1. PICK k \in 1 .. 5, j \in 1 .. Width : i = (k - 1) * Width + j
  BY PositionOf
<1>2. (i - 1) \div Width = k - 1 /\ (i - 1) % Width = j - 1
  BY <1>1, Position
<1>3. ((i - 1) \div Width) + 1 = k /\ Width - 1 - ((i - 1) % Width) \in 0 .. Width
  <2> DEFINE q == (i - 1) \div Width
             r == (i - 1) % Width
  <2>1. q = k - 1 /\ r = j - 1 /\ Width \in Nat
    BY <1>2, Powers
  <2> HIDE DEF q, r
  <2>2. q + 1 = k /\ Width - 1 - r \in 0 .. Width
    BY <2>1
  <2>3. QED
    BY <2>2 DEF q, r
<1>4. Bytes(m)[k] \in 0 .. Base - 1 /\ Base \in Nat
  BY BytesSent, Bases
<1> DEFINE x == Bytes(m)[k]
           d == TwoTo[Width - 1 - ((i - 1) % Width)]
<1>5. x \in Nat /\ d \in Nat /\ d > 0
  <2>1. x \in Nat
    BY <1>4
  <2>2. TwoTo[Width - 1 - ((i - 1) % Width)] \in Nat \ {0}
    BY <1>3, Powers, Zenon
  <2>3. QED
    BY <2>1, <2>2
<1>6. BitOf(Bytes(m), i) = (x \div d) % 2
  BY <1>3 DEF BitOf
<1> HIDE DEF x, d
<1>7. x \div d \in Nat
  BY <1>5, Division
<1>8. (x \div d) % 2 \in {0, 1}
  BY <1>7
<1>9. QED
  BY <1>6, <1>8

LEMMA Am2302Types ==
  ASSUME Am2302TypeOK
  PROVE  /\ phase \in Nat /\ phase <= LastPhase /\ rise \in Nat /\ waits \in Nat /\ waits <= LastWait
         /\ Len(bits) \in Nat /\ DOMAIN bits = 1 .. Len(bits) /\ Len(bits) <= BitCount
         /\ \A i \in 1 .. Len(bits) : bits[i] \in {0, 1}
         /\ delays \in Nat /\ pulse \in {"none", "right", "spoiled"} /\ late \in BOOLEAN
<1>1. bits \in Seq({0, 1}) /\ Len(bits) <= BitCount
  BY DEF Am2302TypeOK
<1>2. Len(bits) \in Nat /\ DOMAIN bits = 1 .. Len(bits) /\ \A i \in 1 .. Len(bits) : bits[i] \in {0, 1}
  BY <1>1, LenProperties
<1>3. MaxDelays \in Nat
  BY Am2302Assumption
<1>4. QED
  BY <1>1, <1>2, <1>3, Counts DEF Am2302TypeOK

LEMMA Am2302Start == Am2302Init => Am2302IInv
<1> SUFFICES ASSUME Am2302Init PROVE Am2302IInv
  OBVIOUS
<1>1. /\ phase = 0 /\ waits = 0 /\ rise = 0 /\ pulse = "none" /\ late = FALSE /\ bits = <<>> /\ delays = 0
      /\ status = "reading" /\ measured \in Measurements /\ published = Nothing
  BY DEF Am2302Init
<1>2. bits \in Seq({0, 1}) /\ Len(bits) = 0
  BY <1>1
<1>3. Am2302TypeOK
  <2>1. MaxDelays \in Nat
    BY Am2302Assumption
  <2>2. 0 \in 0 .. LastPhase /\ 0 \in 0 .. LastWait /\ 0 \in 0 .. MaxDelays /\ 0 <= BitCount
    BY <2>1, Counts
  <2>3. QED
    BY <1>1, <1>2, <2>2 DEF Am2302TypeOK
<1>4. Progress
  BY <1>1 DEF Progress
<1>5. AllRight /\ RightBut(0)
  BY <1>2 DEF AllRight, RightBut
<1>6. DelayInv
  <2>1. Spoils(0)
    BY <1>1, <1>5 DEF Spoils
  <2>2. QED
    BY <1>1, <1>5, <2>1 DEF DelayInv, OneLate
<1>7. OneDelayDetected
  BY <1>1 DEF OneDelayDetected
<1>8. QED
  BY <1>3, <1>4, <1>6, <1>7 DEF Am2302IInv

(* Another level, bits as they are.                                        *)
LEMMA LevelStep ==
  ASSUME Am2302IInv, WaitForResponse \/ ReadBitRise
  PROVE  Am2302IInv'
<1>1. /\ Am2302TypeOK /\ Progress /\ DelayInv
      /\ phase \in Nat /\ waits \in Nat /\ rise \in Nat /\ Len(bits) \in Nat /\ delays \in Nat
  BY Am2302Types DEF Am2302IInv
<1>2. /\ status = "reading" /\ pulse = "none" /\ waits < LastWait /\ Seen <= LastPhase
      /\ phase' = Seen /\ waits' = waits + 1
      /\ UNCHANGED <<measured, pulse, late, bits, delays, status, published>>
  BY DEF WaitForResponse, ReadBitRise, LevelSeen
<1>3. \/ waits < 3 /\ rise' = rise
      \/ waits >= 3 /\ ~High(waits) /\ rise' = phase'
  BY DEF WaitForResponse, ReadBitRise
<1>4. /\ phase' \in Nat /\ phase <= phase' /\ (High(phase') <=> High(waits')) /\ (High(waits') <=> ~High(waits))
      /\ phase = waits \/ phase = waits + 1 => phase' = waits'
      /\ phase >= waits + 2 => phase' >= waits' + 2
      /\ phase >= waits => phase' >= waits'
  <2> DEFINE s == Seen
  <2>1. /\ s \in Nat /\ phase <= s /\ (High(s) <=> High(waits + 1)) /\ (High(waits + 1) <=> ~High(waits))
        /\ phase = waits \/ phase = waits + 1 => s = waits + 1
        /\ phase >= waits + 2 => s >= waits + 3
        /\ phase >= waits => s >= waits + 1
    BY <1>1, SeenFacts
  <2>2. phase' = s
    BY <1>2
  <2> HIDE DEF s
  <2>3. QED
    BY <1>1, <1>2, <2>1, <2>2 DEF High
<1>5. Am2302TypeOK'
  <2>1. phase' \in 0 .. LastPhase /\ waits' \in 0 .. LastWait
    BY <1>1, <1>2, <1>4, Counts
  <2>2. rise' \in 0 .. LastPhase
    BY <1>1, <1>3, <2>1 DEF Am2302TypeOK
  <2>3. QED
    BY <1>1, <1>2, <2>1, <2>2 DEF Am2302TypeOK
<1>6. Progress'
  <2>1. CASE waits < 3
    <3>1. bits = <<>> /\ Len(bits) = 0 /\ waits' <= 3 /\ waits <= phase
      BY <1>1, <1>2, <2>1 DEF Progress
    <3>2. QED
      BY <1>1, <1>2, <1>4, <3>1 DEF Progress
  <2>2. CASE waits >= 3
    <3>1. rise' = phase' /\ ~High(waits) /\ waits \in {2 * Len(bits) + 3, 2 * Len(bits) + 4} /\ waits <= phase
      BY <1>1, <1>2, <1>3, <2>2 DEF Progress
    <3>2. waits = 2 * Len(bits) + 3
      BY <1>1, <3>1 DEF High
    <3>3. QED
      BY <1>1, <1>2, <1>4, <2>2, <3>1, <3>2 DEF Progress
  <2>3. QED
    BY <1>1, <2>1, <2>2
<1>7. (AllRight' <=> AllRight) /\ \A w : Spoils(w)' <=> Spoils(w)
  BY <1>2 DEF AllRight, Spoils, RightBut
<1>8. DelayInv'
  <2>1. delays = 0 => phase' = waits' /\ ~late /\ AllRight
    BY <1>1, <1>4 DEF DelayInv
  <2>2. ASSUME delays <= 1 PROVE OneLate'
    <3>1. OneLate
      BY <1>1, <2>2 DEF DelayInv
    <3>2. CASE FallenBehind
      <4>1. FallenBehind'
        BY <1>4, <3>2 DEF FallenBehind
      <4>2. QED
        BY <4>1 DEF OneLate
    <3>3. CASE ~FallenBehind
      <4>1. phase' = waits' /\ \E w \in Nat : Spoils(w)
        BY <1>4, <3>1, <3>3 DEF OneLate
      <4>2. ~late /\ waits' >= 4 /\ High(waits') => rise' = waits'
        BY <1>1, <1>2, <1>3, <4>1
      <4>3. QED
        BY <1>2, <1>7, <4>1, <4>2 DEF OneLate
    <3>4. QED
      BY <3>2, <3>3
  <2>3. QED
    BY <1>2, <1>7, <2>1, <2>2 DEF DelayInv
<1>9. OneDelayDetected'
  BY <1>2 DEF OneDelayDetected
<1>10. QED
  BY <1>5, <1>6, <1>8, <1>9 DEF Am2302IInv

(* The fall of a pulse: what it is worth.                                  *)
LEMMA ReadBitFallStep ==
  ASSUME Am2302IInv, ReadBitFall
  PROVE  Am2302IInv'
<1>1. /\ Am2302TypeOK /\ Progress /\ DelayInv /\ measured \in Measurements /\ bits \in Seq({0, 1})
      /\ phase \in Nat /\ waits \in Nat /\ rise \in Nat /\ Len(bits) \in Nat /\ delays \in Nat
  BY Am2302Types DEF Am2302IInv, Am2302TypeOK
<1> DEFINE n == Len(bits)
<1>2. /\ status = "reading" /\ pulse = "none" /\ waits < LastWait /\ Seen <= LastPhase
      /\ phase' = Seen /\ waits' = waits + 1
      /\ waits >= 3 /\ High(waits) /\ late' = FALSE
      /\ UNCHANGED <<measured, rise, bits, delays, status, published>>
  BY DEF ReadBitFall, LevelSeen
<1>3. pulse' = IF late THEN "spoiled" ELSE "right"
  BY DEF ReadBitFall
<1>4. /\ phase' \in Nat /\ phase <= phase' /\ ~High(phase') /\ ~High(waits')
      /\ phase = waits \/ phase = waits + 1 => phase' = waits'
      /\ phase >= waits + 2 => phase' >= waits' + 2
      /\ phase >= waits => phase' >= waits'
  <2> DEFINE s == Seen
  <2>1. /\ s \in Nat /\ phase <= s /\ (High(s) <=> High(waits + 1)) /\ (High(waits + 1) <=> ~High(waits))
        /\ phase = waits \/ phase = waits + 1 => s = waits + 1
        /\ phase >= waits + 2 => s >= waits + 3
        /\ phase >= waits => s >= waits + 1
    BY <1>1, SeenFacts
  <2>2. phase' = s
    BY <1>2
  <2> HIDE DEF s
  <2>3. QED
    BY <1>1, <1>2, <2>1, <2>2 DEF High
<1>5. waits = 2 * n + 4 /\ waits <= phase /\ rise \in 4 .. phase /\ High(rise)
  <2>1. waits \in {2 * n + 3, 2 * n + 4} /\ waits <= phase
    BY <1>1, <1>2 DEF Progress
  <2>2. waits = 2 * n + 4
    BY <1>1, <1>2, <2>1 DEF High
  <2>3. waits >= 4
    BY <1>1, <2>2
  <2>4. QED
    BY <1>1, <1>2, <2>1, <2>2, <2>3 DEF Progress
<1>6. rise < phase' /\ phase' <= LastPhase /\ LastPhase \in Nat
  <2>1. rise <= phase' /\ rise # phase'
    BY <1>1, <1>4, <1>5
  <2>2. QED
    BY <1>1, <1>2, <1>4, <2>1, Counts
<1>7. Am2302TypeOK'
  <2>1. phase' \in 0 .. LastPhase /\ waits' \in 0 .. LastWait
    BY <1>1, <1>2, <1>4, Counts
  <2>2. QED
    BY <1>1, <1>2, <1>3, <2>1 DEF Am2302TypeOK
<1>8. Progress'
  <2>1. waits' = 2 * n + 5 /\ waits' <= phase' /\ waits' >= 3
    BY <1>1, <1>2, <1>4, <1>5
  <2>2. rise' \in 4 .. LastPhase - 1 /\ High(rise')
    <3>1. rise \in Int /\ rise >= 4 /\ High(rise) /\ rise' = rise
      BY <1>1, <1>2, <1>5
    <3>2. rise < LastPhase
      BY <1>1, <1>4, <1>6
    <3>3. rise \in 4 .. LastPhase - 1
      BY <1>6, <3>1, <3>2
    <3>4. QED
      BY <3>1, <3>3 DEF High
  <2>3. pulse' # "none"
    BY <1>3
  <2>4. QED
    BY <1>2, <1>4, <2>1, <2>2, <2>3 DEF Progress
<1>9. waits >= 4
  BY <1>1, <1>5
<1>10. ASSUME NEW w \in Nat, Spoils(w)
       PROVE  Spoils(w)'
  <2>1. RightBut(w)'
    BY <1>2, <1>10 DEF Spoils, RightBut
  <2>2. late => w = n
    BY <1>1, <1>2, <1>10 DEF Spoils
  <2>3. QED
    BY <1>2, <1>3, <2>1, <2>2 DEF Spoils
<1>11. DelayInv'
  <2>1. ASSUME delays = 0 PROVE phase' = waits' /\ pulse' # "spoiled" /\ AllRight'
    <3>1. phase = waits /\ ~late /\ AllRight
      BY <1>1, <2>1 DEF DelayInv
    <3>2. QED
      BY <1>2, <1>3, <1>4, <3>1 DEF AllRight
  <2>2. ASSUME delays <= 1 PROVE OneLate'
    <3>1. OneLate
      BY <1>1, <2>2 DEF DelayInv
    <3>2. CASE FallenBehind
      <4>1. FallenBehind'
        BY <1>4, <3>2 DEF FallenBehind
      <4>2. QED
        BY <4>1 DEF OneLate
    <3>3. CASE ~FallenBehind
      <4>1. phase' = waits' /\ (~late => rise = waits) /\ \E w \in Nat : Spoils(w)
        BY <1>2, <1>4, <1>9, <3>1, <3>3 DEF OneLate
      <4>2. PICK w \in Nat : Spoils(w)'
        BY <1>10, <4>1
      <4>3. pulse' = "right" => rise' = waits' - 1
        BY <1>1, <1>2, <1>3, <4>1
      <4>4. QED
        BY <1>2, <1>4, <4>1, <4>2, <4>3 DEF OneLate
    <3>4. QED
      BY <3>2, <3>3
  <2>3. QED
    BY <1>2, <2>1, <2>2 DEF DelayInv
<1>12. OneDelayDetected'
  BY <1>2 DEF OneDelayDetected
<1>13. QED
  BY <1>7, <1>8, <1>11, <1>12 DEF Am2302IInv

(* The bit of a pulse that was measured without a delay is right.          *)
LEMMA ReadBitTimeStep ==
  ASSUME Am2302IInv, ReadBitTime
  PROVE  Am2302IInv'
<1>1. /\ Am2302TypeOK /\ Progress /\ DelayInv /\ measured \in Measurements /\ bits \in Seq({0, 1})
      /\ phase \in Nat /\ waits \in Nat /\ waits <= LastWait /\ rise \in Nat
      /\ Len(bits) \in Nat /\ delays \in Nat /\ pulse \in {"none", "right", "spoiled"}
  BY Am2302Types DEF Am2302IInv, Am2302TypeOK
<1> DEFINE n == Len(bits)
<1>2. /\ status = "reading" /\ pulse # "none" /\ pulse' = "none"
      /\ UNCHANGED <<measured, phase, waits, rise, late, delays, status, published>>
  BY DEF ReadBitTime
<1>3. PICK b \in (IF late \/ pulse = "spoiled" THEN {0, 1} ELSE {Pulse(measured, rise)}) :
        bits' = Append(bits, b)
  BY DEF ReadBitTime
<1>4. /\ waits = 2 * n + 5 /\ waits <= phase /\ rise \in 4 .. LastPhase - 1 /\ High(rise)
      /\ ~High(waits)
  <2>1. waits = 2 * n + 5 /\ waits <= phase /\ rise \in 4 .. LastPhase - 1 /\ High(rise)
    BY <1>1, <1>2 DEF Progress
  <2>2. QED
    BY <1>1, <2>1 DEF High
<1>5. n + 1 <= BitCount /\ n + 1 \in 1 .. BitCount
  <2>1. n \in Nat /\ BitCount \in Nat /\ 2 * n + 5 <= 2 * BitCount + 3
    BY <1>1, <1>4, Counts
  <2> HIDE DEF n
  <2>2. QED
    BY <2>1
<1>6. (rise - 2) \div 2 \in 1 .. BitCount
  <2>1. PICK q \in Nat : rise = 2 * q
    BY <1>1, <1>4 DEF High
  <2>2. 4 <= 2 * q /\ 2 * q < 2 * BitCount + 4
    BY <1>1, <1>4, <2>1, Counts
  <2>3. q - 1 \in 1 .. BitCount /\ (rise - 2) \div 2 = q - 1
    BY <2>1, <2>2, Counts
  <2>4. QED
    BY <2>3
<1>7. b \in {0, 1}
  BY <1>1, <1>3, <1>6, BitOfIsBit DEF Pulse
<1>8. /\ bits' \in Seq({0, 1}) /\ Len(bits') = n + 1 /\ bits'[n + 1] = b
      /\ \A i \in 1 .. n : bits'[i] = bits[i]
  BY <1>1, <1>3, <1>7, AppendProperties
<1>9. Am2302TypeOK'
  BY <1>1, <1>2, <1>5, <1>8 DEF Am2302TypeOK
<1>10. Progress'
  <2>1. waits' = 2 * (n + 1) + 3 /\ waits' <= phase' /\ waits' >= 3 /\ ~High(waits')
    BY <1>1, <1>2, <1>4
  <2>2. QED
    BY <1>2, <1>8, <2>1 DEF Progress
<1>11. ASSUME ~late, pulse = "right", rise = waits - 1 PROVE b = BitOf(Bytes(measured), n + 1)
  <2>1. (rise - 2) \div 2 = n + 1
    BY <1>1, <1>4, <1>11
  <2>2. QED
    BY <1>3, <1>11, <2>1 DEF Pulse
<1>12. ASSUME NEW w \in Nat, Spoils(w), pulse = "right" => rise = waits - 1
       PROVE  Spoils(w)'
  <2>1. /\ late => w = n + 1
        /\ pulse = "spoiled" => w = n /\ ~late
    BY <1>1, <1>2, <1>12 DEF Spoils
  <2>2. ASSUME NEW i \in 1 .. n + 1, i # w, i # w + 1 PROVE bits'[i] = BitOf(Bytes(measured), i)
    <3>1. CASE i = n + 1
      <4>1. ~late /\ pulse = "right"
        BY <1>1, <1>2, <2>1, <2>2, <3>1
      <4>2. QED
        BY <1>8, <1>11, <1>12, <3>1, <4>1
    <3>2. CASE i \in 1 .. n
      BY <1>8, <1>12, <2>2, <3>2 DEF Spoils, RightBut
    <3>3. QED
      BY <1>1, <3>1, <3>2
  <2>3. RightBut(w)'
    BY <1>2, <1>8, <2>2 DEF RightBut
  <2>4. late' => w = Len(bits')
    BY <1>2, <1>8, <2>1
  <2>5. n + 1 + 0 = n + 1
    BY <1>1
  <2>6. QED
    BY <1>2, <1>8, <2>3, <2>4, <2>5 DEF Spoils
<1>13. DelayInv'
  <2>1. ASSUME delays = 0 PROVE phase = waits /\ ~late /\ AllRight'
    <3>1. phase = waits /\ ~late /\ pulse = "right" /\ AllRight
      BY <1>1, <1>2, <2>1 DEF DelayInv
    <3>2. ~FallenBehind
      BY <1>1, <3>1 DEF FallenBehind
    <3>3. rise = waits - 1
      BY <1>1, <2>1, <3>1, <3>2 DEF DelayInv, OneLate
    <3>4. b = BitOf(Bytes(measured), n + 1)
      BY <1>11, <3>1, <3>3
    <3>5. ASSUME NEW i \in 1 .. n + 1 PROVE bits'[i] = BitOf(Bytes(measured), i)
      <4>1. i = n + 1 \/ i \in 1 .. n
        BY <1>1
      <4>2. QED
        BY <1>8, <3>1, <3>4, <4>1 DEF AllRight
    <3>6. QED
      BY <1>2, <1>8, <3>1, <3>5 DEF AllRight
  <2>2. ASSUME delays <= 1 PROVE OneLate'
    <3>1. OneLate
      BY <1>1, <2>2 DEF DelayInv
    <3>2. CASE FallenBehind
      <4>1. FallenBehind'
        BY <1>2, <3>2 DEF FallenBehind
      <4>2. QED
        BY <4>1 DEF OneLate
    <3>3. CASE ~FallenBehind
      <4>1. /\ phase = waits \/ (phase = waits + 1 /\ late)
            /\ pulse = "right" => rise = waits - 1
            /\ \E w \in Nat : Spoils(w)
        BY <3>1, <3>3 DEF OneLate
      <4>2. PICK w \in Nat : Spoils(w)'
        BY <1>12, <4>1
      <4>3. QED
        BY <1>2, <1>4, <4>1, <4>2 DEF OneLate, High
    <3>4. QED
      BY <3>2, <3>3
  <2>3. QED
    BY <1>2, <2>1, <2>2 DEF DelayInv
<1>14. OneDelayDetected'
  BY <1>2 DEF OneDelayDetected
<1>15. QED
  BY <1>9, <1>10, <1>13, <1>14 DEF Am2302IInv

(* A host that has fallen behind does not get all bits, and one that has   *)
(* not has at most two neighbouring ones wrong.                            *)
LEMMA FrameCheckedStep ==
  ASSUME Am2302IInv, FrameChecked
  PROVE  Am2302IInv'
<1>1. /\ Am2302TypeOK /\ Progress /\ DelayInv /\ measured \in Measurements
      /\ phase \in Nat /\ phase <= LastPhase /\ waits \in Nat /\ waits <= LastWait /\ delays \in Nat
      /\ \A i \in 1 .. Len(bits) : bits[i] \in {0, 1}
  BY Am2302Types DEF Am2302IInv, Am2302TypeOK
<1>2. Len(bits) = BitCount /\ UNCHANGED <<measured, phase, waits, rise, pulse, late, bits, delays>>
  BY DEF FrameChecked
<1>3. AllBits(bits)
  BY <1>1, <1>2 DEF AllBits
<1>4. Progress' /\ DelayInv'
  <2>1. Progress'
    BY <1>1, <1>2 DEF Progress
  <2>2. DelayInv'
    BY <1>1, <1>2 DEF DelayInv, OneLate, FallenBehind, Spoils, RightBut, AllRight
  <2>3. QED
    BY <2>1, <2>2
<1>5. \/ status' = "successful" /\ published' = DecodeFrame(bits) /\ ParityCheck(bits)
      \/ status' = "failed" /\ published' = published
  BY DEF FrameChecked
<1>6. Am2302TypeOK'
  BY <1>1, <1>2, <1>3, <1>5, DecodeType DEF Am2302TypeOK
<1>7. OneDelayDetected'
  <2>1. SUFFICES ASSUME status' = "successful", delays <= 1 PROVE published' = measured
    BY <1>2 DEF OneDelayDetected
  <2>2. ~FallenBehind
    <3>0. pulse # "none" => waits = 2 * Len(bits) + 5
      BY <1>1 DEF Progress
    <3>5. pulse = "none" /\ waits >= 3 => waits \in {2 * Len(bits) + 3, 2 * Len(bits) + 4}
      BY <1>1 DEF Progress
    <3>1. waits >= 3 => waits >= 2 * BitCount + 3
      BY <1>1, <1>2, <3>0, <3>5, Counts, SMTT(30)
    <3>2. waits < 3 => Len(bits) = 0
      BY <1>1 DEF Progress
    <3>3. BitCount > 0
      BY Powers, Counts
    <3>4. QED
      BY <1>1, <1>2, <3>1, <3>2, <3>3, Counts, SMTT(30) DEF FallenBehind
  <2>3. PICK w \in Nat : RightBut(w)
    BY <1>1, <1>2, <2>1, <2>2 DEF DelayInv, OneLate, Spoils
  <2>4. \A i \in 1 .. BitCount : i # w /\ i # w + 1 => bits[i] = BitOf(Bytes(measured), i)
    BY <1>2, <2>3 DEF RightBut
  <2>5. ParityCheck(bits) /\ published' = DecodeFrame(bits)
    BY <1>5, <2>1
  <2>6. QED
    BY <1>1, <1>3, <2>4, <2>5, TwoWrongBits
<1>8. QED
  BY <1>4, <1>6, <1>7 DEF Am2302IInv

LEMMA DelayStep ==
  ASSUME Am2302IInv, Delay
  PROVE  Am2302IInv'
<1>1. /\ Am2302TypeOK /\ Progress /\ DelayInv
      /\ phase \in Nat /\ phase <= LastPhase /\ waits \in Nat /\ rise \in Nat /\ Len(bits) \in Nat /\ delays \in Nat
  BY Am2302Types DEF Am2302IInv
<1>2. /\ status = "reading" /\ delays' = delays + 1 /\ delays < MaxDelays /\ late' = TRUE
      /\ phase' \in phase .. LastPhase
      /\ UNCHANGED <<measured, waits, rise, pulse, bits, status, published>>
  BY DEF Delay
<1>3. phase' \in Nat /\ phase <= phase' /\ phase' <= LastPhase /\ delays' \in 1 .. MaxDelays
  BY <1>1, <1>2, Counts, Am2302Assumption
<1>4. Am2302TypeOK'
  BY <1>1, <1>2, <1>3 DEF Am2302TypeOK
<1>5. Progress'
  BY <1>1, <1>2, <1>3 DEF Progress
<1>6. DelayInv'
  <2>1. SUFFICES ASSUME delays' <= 1 PROVE OneLate'
    BY <1>3 DEF DelayInv
  <2>2. delays = 0
    BY <1>1, <1>2, <2>1
  <2>3. phase = waits /\ pulse # "spoiled" /\ AllRight
    BY <1>1, <2>2 DEF DelayInv
  <2>4. phase' = waits' \/ phase' = waits' + 1 \/ phase' >= waits' + 2
    BY <1>1, <1>2, <1>3, <2>3
  <2>5. CASE FallenBehind'
    BY <2>5 DEF OneLate
  <2>6. CASE ~FallenBehind'
    <3>1. PICK w \in Nat : w = Len(bits) + (IF pulse = "none" THEN 0 ELSE 1)
      BY <1>1
    <3>2. RightBut(w)'
      BY <1>2, <2>3 DEF RightBut, AllRight
    <3>3. Spoils(w)'
      BY <1>2, <2>3, <3>1, <3>2 DEF Spoils
    <3>4. pulse' = "right" => rise' = waits' - 1
      <4>1. ~FallenBehind
        BY <1>1, <2>3 DEF FallenBehind
      <4>2. OneLate
        BY <1>1, <2>2 DEF DelayInv
      <4>3. QED
        BY <1>2, <4>1, <4>2 DEF OneLate
    <3>5. QED
      BY <1>2, <2>4, <2>6, <3>1, <3>3, <3>4 DEF OneLate, FallenBehind
  <2>7. QED
    BY <2>5, <2>6
<1>7. OneDelayDetected'
  BY <1>2 DEF OneDelayDetected
<1>8. QED
  BY <1>4, <1>5, <1>6, <1>7 DEF Am2302IInv

LEMMA Am2302Step == Am2302IInv /\ [Am2302Next]_am2302Vars => Am2302IInv'
<1> SUFFICES ASSUME Am2302IInv, [Am2302Next]_am2302Vars PROVE Am2302IInv'
  OBVIOUS
<1>1. CASE WaitForResponse \/ ReadBitRise
  BY <1>1, LevelStep
<1>2. CASE ReadBitFall \/ ReadBitTime
  BY <1>2, ReadBitFallStep, ReadBitTimeStep
<1>3. CASE FrameChecked
  BY <1>3, FrameCheckedStep
<1>4. CASE Delay
  BY <1>4, DelayStep
<1>5. ASSUME UNCHANGED <<measured, phase, waits, rise, pulse, late, bits, delays, published>>,
             status' \in {status, "failed"}
      PROVE  Am2302IInv'
  <2>1. Am2302TypeOK'
    BY <1>5 DEF Am2302IInv, Am2302TypeOK
  <2>2. Progress'
    BY <1>5 DEF Am2302IInv, Progress
  <2>3. DelayInv'
    BY <1>5 DEF Am2302IInv, DelayInv, OneLate, FallenBehind, Spoils, RightBut, AllRight
  <2>4. OneDelayDetected'
    BY <1>5 DEF Am2302IInv, OneDelayDetected
  <2>5. QED
    BY <2>1, <2>2, <2>3, <2>4 DEF Am2302IInv
<1>6. CASE WaitFails
  BY <1>5, <1>6 DEF WaitFails
<1>7. CASE UNCHANGED am2302Vars
  BY <1>5, <1>7 DEF am2302Vars
<1>8. QED
  BY <1>1, <1>2, <1>3, <1>4, <1>6, <1>7 DEF Am2302Next

(* However long the host is delayed once in a read, a read that succeeds   *)
(* publishes what the sensor has measured (am2302_read_bit and             *)
(* am2302_parity_check, temperature_humidity_fsm.c:127-179), whatever the  *)
(* width of a byte.                                                        *)
THEOREM DelayIsDetected == Am2302Spec => []Am2302Inv
<1>1. Am2302Init => Am2302IInv
  BY Am2302Start
<1>2. Am2302IInv /\ [Am2302Next]_am2302Vars => Am2302IInv'
  BY Am2302Step
<1>3. Am2302IInv => Am2302Inv
  BY DEF Am2302IInv, Am2302Inv
<1>4. QED
  BY <1>1, <1>2, <1>3, PTL DEF Am2302Spec

-----------------------------------------------------------------------------
(***************************************************************************)
(* The object and the broadcaster in time.                                 *)
(***************************************************************************)

(* Times *)

(* The longest a handler of READ takes.                                    *)
Reading == RetryMax * AttemptTime

(* The longest from the post of a READ to the end of its handler.          *)
Handling == Latency + Reading

LEMMA Times ==
  /\ {Cycle, Gate, AttemptTime, Latency, Horizon, CopyTime, Reading, Handling} \subseteq Nat
  /\ RetryMax \in Nat \ {0}
  /\ Cycle <= Gate
  /\ Handling = Latency + Reading
  /\ Gate + Handling < 2 * Cycle
  /\ MaxAge = 2 * Cycle + Handling
<1>1. Reading \in Nat
  BY TempHumidityAssumption DEF Reading
<1>2. MaxAge = 2 * Cycle + Latency + Reading
  BY DEF MaxAge, Reading
<1>3. Gate + Latency + Reading < 2 * Cycle
  BY TempHumidityAssumption DEF Reading
<1>4. QED
  BY <1>1, <1>2, <1>3, TempHumidityAssumption, SnapshotAssumption DEF Handling

(* What r attempts take.                                                   *)
Attempts(r) == r * AttemptTime

LEMMA AttemptsLemma ==
  ASSUME NEW r \in 0 .. RetryMax - 1
  PROVE  /\ Attempts(r) \in Nat
         /\ Attempts(r + 1) = Attempts(r) + AttemptTime
         /\ Attempts(r) + AttemptTime <= Reading
         /\ Attempts(0) = 0
<1>1. r \in Nat /\ AttemptTime \in Nat /\ RetryMax \in Nat /\ RetryMax - 1 - r \in Nat
  BY TempHumidityAssumption
<1>2. Attempts(r) \in Nat /\ Attempts(0) = 0
  BY <1>1 DEF Attempts
<1>3. (r + 1) * AttemptTime = r * AttemptTime + AttemptTime
  BY <1>1
<1>4. RetryMax * AttemptTime = (r + 1) * AttemptTime + (RetryMax - 1 - r) * AttemptTime
  BY <1>1
<1>5. (RetryMax - 1 - r) * AttemptTime \in Nat
  BY <1>1
<1>6. QED
  BY <1>1, <1>2, <1>3, <1>4, <1>5 DEF Attempts, Reading

LEMMA LaterLemma ==
  ASSUME NEW x \in 0 .. Horizon
  PROVE  /\ Later(x) \in 0 .. Horizon /\ x <= Later(x) /\ Later(x) <= x + 1
         /\ Later(x) = x + 1 \/ (Later(x) = Horizon /\ x = Horizon)
BY Times DEF Later

-----------------------------------------------------------------------------
(* The frame *)

(* A handler of READ ends long before the next READ is posted: at most one *)
(* is queued, for as long as it has been posted, or is being handled.      *)
OneRead ==
  /\ pending => state = "IDLE" /\ sincePost = waited
  /\ state # "IDLE" => sincePost <= Latency + Attempts(retry) + busy

(* The gate opens only if the clocks reach it.                             *)
GateOpens == valid \/ state # "IDLE" => Gate < Horizon

(* The humidity is decoded within the handler.                             *)
Decoded == state = "DECODE" => age["humidity"] <= sincePost

(* The data of a valid frame were read when n READs less were posted, and  *)
(* so long ago the gate was closed last; before a third READ is posted, the*)
(* second finds it open.                                                   *)
ReadBefore(n) ==
  /\ \A f \in Fields : age[f] <= n * Cycle + sincePost
  /\ sinceRead > Gate \/ n * Cycle + sincePost <= sinceRead + Handling
  /\ n = 2 => pending \/ state # "IDLE"

AgeInv == valid => ReadBefore(0) \/ ReadBefore(1) \/ ReadBefore(2)

FrameInv == ReadTypeOK /\ OneRead /\ GateOpens /\ Decoded /\ AgeInv

(* A READ is handled in time.                                              *)
LEMMA InTime ==
  ASSUME FrameInv, pending \/ state # "IDLE"
  PROVE  sincePost <= Handling /\ Handling < Cycle
<1>1. Handling < Cycle
  BY Times
<1>2. CASE pending
  BY <1>1, <1>2, Times DEF FrameInv, ReadTypeOK, OneRead
<1>3. CASE state # "IDLE"
  <2>1. retry \in 0 .. RetryMax - 1 /\ busy \in 0 .. AttemptTime /\ sincePost \in 0 .. Cycle
    BY DEF FrameInv, ReadTypeOK
  <2>2. sincePost <= Latency + Attempts(retry) + busy
    BY <1>3 DEF FrameInv, OneRead
  <2>3. QED
    BY <1>1, <2>1, <2>2, AttemptsLemma, Times
<1>4. QED
  BY <1>2, <1>3

LEMMA FrameIsYoung == FrameInv => AgeBounded
<1> SUFFICES ASSUME FrameInv, valid, NEW f \in Fields PROVE age[f] <= MaxAge
  BY DEF AgeBounded
<1>1. age[f] \in 0 .. Horizon /\ sincePost \in 0 .. Cycle
  BY DEF FrameInv, ReadTypeOK
<1>2. PICK n \in {0, 1, 2} : ReadBefore(n)
  BY DEF FrameInv, AgeInv
<1>3. age[f] <= n * Cycle + sincePost
  BY <1>2 DEF ReadBefore
<1>4. n = 2 => sincePost <= Handling
  BY <1>2, InTime DEF ReadBefore
<1>5. QED
  BY <1>1, <1>2, <1>3, <1>4, Times

LEMMA FrameStart == Init => FrameInv
<1> SUFFICES ASSUME Init PROVE FrameInv
  OBVIOUS
<1>1. ReadTypeOK
  <2>1. age \in [Fields -> 0 .. Horizon]
    BY Times DEF Init
  <2>2. 0 \in 0 .. RetryMax - 1 /\ 0 \in 0 .. Latency /\ 0 \in 0 .. AttemptTime /\ 0 \in 0 .. Horizon
    BY Times
  <2>3. QED
    BY <2>1, <2>2 DEF Init, ReadTypeOK
<1>2. OneRead /\ GateOpens /\ Decoded /\ AgeInv
  BY DEF Init, OneRead, GateOpens, Decoded, AgeInv
<1>3. QED
  BY <1>1, <1>2 DEF FrameInv

LEMMA TickStep ==
  ASSUME FrameInv, Tick
  PROVE  FrameInv'
<1> USE DEF FrameInv
<1>1. /\ sincePost \in 0 .. Cycle - 1 /\ sincePost' = sincePost + 1
      /\ sinceRead' = Later(sinceRead)
      /\ age' = [f \in Fields |-> Later(age[f])]
      /\ waited' = IF pending /\ state = "IDLE" THEN waited + 1 ELSE waited
      /\ busy' = IF state # "IDLE" THEN busy + 1 ELSE busy
      /\ UNCHANGED <<state, pending, retry, valid>>
  BY Times DEF Tick, ReadTypeOK
<1>2. \A f \in Fields : age[f] \in 0 .. Horizon /\ age'[f] \in 0 .. Horizon /\ age'[f] <= age[f] + 1
  BY <1>1, LaterLemma DEF ReadTypeOK
<1>3. sinceRead \in 0 .. Horizon
  BY DEF ReadTypeOK
<1>4. ReadTypeOK'
  <2>1. waited' \in 0 .. Latency
    BY <1>1, Times DEF Tick, ReadTypeOK
  <2>2. busy' \in 0 .. AttemptTime
    BY <1>1, Times DEF Tick, ReadTypeOK
  <2>3. age' \in [Fields -> 0 .. Horizon]
    BY <1>1, <1>2
  <2>4. sinceRead' \in 0 .. Horizon
    BY <1>1, <1>3, LaterLemma
  <2>5. sincePost' \in 0 .. Cycle
    BY <1>1, Times
  <2>6. QED
    BY <1>1, <2>1, <2>2, <2>3, <2>4, <2>5 DEF ReadTypeOK
<1>5. OneRead'
  <2>1. retry \in 0 .. RetryMax - 1 /\ Attempts(retry) \in Nat /\ waited \in Nat /\ busy \in Nat
    BY AttemptsLemma, Times DEF ReadTypeOK
  <2>2. (pending => state = "IDLE" /\ sincePost = waited)'
    BY <1>1, <2>1 DEF OneRead
  <2>3. (state # "IDLE" => sincePost <= Latency + Attempts(retry) + busy)'
    <3>1. Attempts(retry)' = Attempts(retry)
      BY <1>1 DEF Attempts
    <3>2. QED
      BY <1>1, <2>1, <3>1, Times DEF OneRead
  <2>4. QED
    BY <2>2, <2>3 DEF OneRead
<1>6. Decoded'
  BY <1>1, <1>2 DEF Decoded, Fields
<1>7. ASSUME NEW n \in {0, 1, 2}, ReadBefore(n), valid PROVE ReadBefore(n)'
  <2>1. n * Cycle \in Nat
    BY Times
  <2>2. \A f \in Fields : age'[f] <= n * Cycle + sincePost'
    <3>1. \A f \in Fields : age[f] <= n * Cycle + sincePost
      BY <1>7 DEF ReadBefore
    <3>2. QED
      BY <1>1, <1>2, <2>1, <3>1
  <2>3. sinceRead' > Gate \/ n * Cycle + sincePost' <= sinceRead' + Handling
    <3>1. CASE sinceRead' = sinceRead + 1
      BY <1>1, <1>3, <1>7, <2>1, <3>1, Times DEF ReadBefore
    <3>2. CASE sinceRead' = Horizon /\ sinceRead = Horizon
      BY <1>7, <3>2 DEF GateOpens
    <3>3. QED
      BY <1>1, <1>3, <3>1, <3>2, LaterLemma
  <2>4. QED
    BY <1>1, <1>7, <2>2, <2>3 DEF ReadBefore
<1>8. AgeInv'
  BY <1>1, <1>7 DEF AgeInv
<1>9. GateOpens'
  BY <1>1 DEF GateOpens
<1>10. QED
  BY <1>4, <1>5, <1>6, <1>8, <1>9

(* A READ is posted when the last one has been handled: what was read      *)
(* before n posts was read before n + 1.                                   *)
LEMMA PostReadStep ==
  ASSUME FrameInv, PostRead
  PROVE  FrameInv'
<1> USE DEF FrameInv
<1>1. /\ sincePost = Cycle /\ ~pending /\ pending' /\ waited' = 0 /\ sincePost' = 0
      /\ UNCHANGED <<state, busy, retry, valid, sinceRead, age>>
  BY DEF PostRead
<1>2. pending' \in BOOLEAN /\ state = "IDLE"
  BY <1>1, InTime, Times DEF PostRead
<1>3. ReadTypeOK'
  BY <1>1, <1>2, Times DEF ReadTypeOK
<1>4. OneRead' /\ GateOpens' /\ Decoded'
  BY <1>1, <1>2 DEF OneRead, GateOpens, Decoded
<1>5. ASSUME NEW n \in {0, 1, 2}, ReadBefore(n) PROVE n < 2 /\ ReadBefore(n + 1)'
  <2>1. n < 2
    BY <1>1, <1>2, <1>5 DEF ReadBefore
  <2>2. (n + 1) * Cycle + sincePost' = n * Cycle + sincePost
    BY <1>1, <2>1, Times
  <2>3. QED
    BY <1>1, <1>5, <2>1, <2>2 DEF ReadBefore
<1>6. AgeInv'
  BY <1>1, <1>5 DEF AgeInv
<1>7. QED
  BY <1>3, <1>4, <1>6

(* The second READ after one that succeeded finds the gate open.           *)
LEMMA ReadGatedStep ==
  ASSUME FrameInv, ReadGated
  PROVE  FrameInv'
<1> USE DEF FrameInv
<1>1. /\ state = "IDLE" /\ pending /\ ~pending' /\ pending' \in BOOLEAN
      /\ \/ sinceRead > Gate /\ state' = "READ" /\ busy' = 0
         \/ sinceRead <= Gate /\ state' = state /\ busy' = busy
      /\ UNCHANGED <<waited, retry, valid, sincePost, sinceRead, age>>
  BY DEF ReadGated
<1>2. ReadTypeOK'
  BY <1>1, Times DEF ReadTypeOK
<1>3. OneRead'
  <2>1. sincePost = waited /\ waited \in 0 .. Latency /\ Attempts(retry) \in Nat
    BY <1>1, AttemptsLemma DEF OneRead, ReadTypeOK
  <2>2. Attempts(retry)' = Attempts(retry)
    BY <1>1 DEF Attempts
  <2>3. QED
    BY <1>1, <2>1, <2>2, Times DEF OneRead
<1>4. GateOpens' /\ Decoded'
  BY <1>1, Times DEF GateOpens, Decoded, ReadTypeOK
<1>5. ASSUME NEW n \in {0, 1, 2}, ReadBefore(n) PROVE ReadBefore(n)'
  <2>1. n = 2 => state' # "IDLE"
    <3>1. ASSUME n = 2, sinceRead <= Gate PROVE FALSE
      <4>1. sinceRead \in Nat /\ sincePost \in Nat
        BY DEF ReadTypeOK
      <4>2. 2 * Cycle + sincePost <= sinceRead + Handling
        BY <1>5, <3>1, <4>1, Times DEF ReadBefore
      <4>3. QED
        BY <3>1, <4>1, <4>2, Times
    <3>2. QED
      BY <1>1, <3>1
  <2>2. QED
    BY <1>1, <1>5, <2>1 DEF ReadBefore
<1>6. AgeInv'
  BY <1>1, <1>5 DEF AgeInv
<1>7. QED
  BY <1>2, <1>3, <1>4, <1>6

LEMMA ReadSucceedsStep ==
  ASSUME FrameInv, ReadSucceeds
  PROVE  FrameInv'
<1> USE DEF FrameInv
<1>1. /\ state = "READ" /\ state' = "DECODE" /\ age' = [age EXCEPT !["humidity"] = 0]
      /\ UNCHANGED <<pending, waited, busy, retry, valid, sincePost, sinceRead>>
  BY DEF ReadSucceeds
<1>2. age'["humidity"] = 0 /\ \A f \in Fields : age'[f] = 0 \/ age'[f] = age[f]
  BY <1>1 DEF ReadTypeOK, Fields
<1>3. ReadTypeOK'
  <2>1. age' \in [Fields -> 0 .. Horizon]
    <3>1. 0 \in 0 .. Horizon /\ age \in [Fields -> 0 .. Horizon]
      BY Times DEF ReadTypeOK
    <3>2. QED
      BY <1>1, <3>1
  <2>2. QED
    BY <1>1, <2>1 DEF ReadTypeOK
<1>4. OneRead' /\ GateOpens'
  BY <1>1 DEF OneRead, GateOpens, Attempts
<1>5. Decoded'
  BY <1>1, <1>2 DEF Decoded, ReadTypeOK
<1>6. ASSUME NEW n \in {0, 1, 2}, ReadBefore(n) PROVE ReadBefore(n)'
  <2>1. n * Cycle + sincePost \in Nat
    BY Times DEF ReadTypeOK
  <2>2. QED
    BY <1>1, <1>2, <1>6, <2>1 DEF ReadBefore
<1>7. AgeInv'
  BY <1>1, <1>6 DEF AgeInv
<1>8. QED
  BY <1>3, <1>4, <1>5, <1>7

(* The gate closes within the time a READ is handled.                      *)
LEMMA ReadEndsStep ==
  ASSUME FrameInv, ReadEnds
  PROVE  FrameInv'
<1> USE DEF FrameInv
<1>1. /\ state = "DECODE" /\ state' = "IDLE" /\ retry' = 0 /\ valid' = TRUE /\ sinceRead' = 0
      /\ age' = [age EXCEPT !["temperature"] = 0]
      /\ UNCHANGED <<pending, waited, busy, sincePost>>
  BY DEF ReadEnds
<1>2. sincePost \in Nat /\ sincePost <= Handling /\ Gate < Horizon /\ ~pending
  BY <1>1, InTime DEF OneRead, GateOpens, ReadTypeOK
<1>3. \A f \in Fields : age'[f] <= sincePost
  BY <1>1, <1>2 DEF Fields, Decoded, ReadTypeOK
<1>4. ReadTypeOK'
  <2>1. age' \in [Fields -> 0 .. Horizon]
    <3>1. 0 \in 0 .. Horizon /\ age \in [Fields -> 0 .. Horizon]
      BY Times DEF ReadTypeOK
    <3>2. QED
      BY <1>1, <3>1
  <2>2. 0 \in 0 .. RetryMax - 1 /\ 0 \in 0 .. Horizon /\ TRUE \in BOOLEAN
    BY Times
  <2>3. QED
    BY <1>1, <2>1, <2>2 DEF ReadTypeOK
<1>5. OneRead' /\ GateOpens' /\ Decoded'
  BY <1>1, <1>2 DEF OneRead, GateOpens, Decoded
<1>6. ReadBefore(0)'
  BY <1>1, <1>2, <1>3, Times DEF ReadBefore
<1>7. QED
  BY <1>4, <1>5, <1>6 DEF AgeInv

(* A retry has its own time; a read that fails for good invalidates the    *)
(* frame.                                                                  *)
LEMMA ReadFailsStep ==
  ASSUME FrameInv, ReadFails
  PROVE  FrameInv'
<1> USE DEF FrameInv
<1>1. state = "READ" /\ UNCHANGED <<pending, waited, sincePost, sinceRead, age>> /\ ~pending
  BY DEF ReadFails, OneRead
<1>2. CASE /\ retry + 1 < RetryMax /\ retry' = retry + 1 /\ busy' = 0
           /\ UNCHANGED <<state, valid>>
  <2>1. ReadTypeOK'
    <3>1. retry' \in 0 .. RetryMax - 1 /\ busy' \in 0 .. AttemptTime
      BY <1>2, Times DEF ReadTypeOK
    <3>2. UNCHANGED <<state, pending, waited, valid, sincePost, sinceRead, age>>
      BY <1>1, <1>2
    <3>3. QED
      BY <3>1, <3>2 DEF ReadTypeOK
  <2>2. OneRead'
    <3>1. /\ retry \in 0 .. RetryMax - 1 /\ busy \in 0 .. AttemptTime /\ sincePost \in Nat
          /\ Attempts(retry)' = Attempts(retry + 1)
      BY <1>2 DEF ReadTypeOK, Attempts
    <3>2. sincePost <= Latency + Attempts(retry) + busy
      BY <1>1 DEF OneRead
    <3>3. sincePost <= Latency + Attempts(retry + 1) + 0
      BY <3>1, <3>2, AttemptsLemma, Times
    <3>4. QED
      BY <1>1, <1>2, <3>1, <3>3 DEF OneRead
  <2>3. GateOpens' /\ Decoded' /\ AgeInv'
    BY <1>1, <1>2 DEF GateOpens, Decoded, AgeInv, ReadBefore
  <2>4. QED
    BY <2>1, <2>2, <2>3
<1>3. CASE valid' = FALSE /\ state' = "IDLE" /\ retry' = 0 /\ busy' = busy
  <2>1. ReadTypeOK'
    <3>1. retry' \in 0 .. RetryMax - 1 /\ state' \in {"IDLE", "READ", "DECODE"}
      BY <1>3, Times
    <3>2. valid' \in BOOLEAN
      BY <1>3, Zenon
    <3>3. UNCHANGED <<pending, waited, busy, sincePost, sinceRead, age>>
      BY <1>1, <1>3
    <3>4. QED
      BY <3>1, <3>2, <3>3 DEF ReadTypeOK
  <2>2. OneRead' /\ GateOpens' /\ Decoded' /\ AgeInv'
    BY <1>1, <1>3 DEF OneRead, GateOpens, Decoded, AgeInv
  <2>3. QED
    BY <2>1, <2>2
<1>4. QED
  BY <1>2, <1>3 DEF ReadFails

LEMMA ReadStepStep == FrameInv /\ ReadStep => FrameInv'
BY PostReadStep, ReadGatedStep, ReadSucceedsStep, ReadEndsStep, ReadFailsStep DEF ReadStep

-----------------------------------------------------------------------------
(* The snapshot *)

(* The copy is taken from a frame that was valid when it began: it is      *)
(* older by the time the copy has taken since, and once it is complete by  *)
(* the time since the last UPDATE, or the last but one.                    *)
SnapInv ==
  /\ update = "queued" => delay = sinceUpdate /\ delay <= Latency
  /\ update \in {"humidity", "temperature"} => delay <= CopyTime /\ delay <= sinceUpdate
  /\ update \in {"humidity", "temperature"} /\ snap.valid =>
       \A f \in Fields : age[f] <= MaxAge + delay
  /\ update = "temperature" /\ snap.valid => snap.humidity <= MaxAge + delay
  /\ update = "none" /\ snap.valid =>
       snap.humidity <= MaxAge + sinceUpdate /\ snap.temperature <= MaxAge + sinceUpdate
  /\ update = "queued" /\ snap.valid =>
       /\ snap.humidity <= MaxAge + Cycle + sinceUpdate
       /\ snap.temperature <= MaxAge + Cycle + sinceUpdate

CopyIInv == FrameInv /\ TypeOK /\ SnapInv

LEMMA CopyStart == SnapshotInit => CopyIInv
<1> SUFFICES ASSUME SnapshotInit PROVE CopyIInv
  OBVIOUS
<1>1. FrameInv
  BY FrameStart DEF SnapshotInit
<1>2. TypeOK
  BY <1>1, Times DEF SnapshotInit, TypeOK, FrameInv
<1>3. SnapInv
  BY DEF SnapshotInit, SnapInv
<1>4. QED
  BY <1>1, <1>2, <1>3 DEF CopyIInv

LEMMA PassesStep == CopyIInv /\ Passes => CopyIInv'
<1> SUFFICES ASSUME CopyIInv, Passes PROVE CopyIInv'
  OBVIOUS
<1>1. /\ sinceUpdate < Cycle /\ sinceUpdate' = sinceUpdate + 1 /\ update' = update
      /\ update # "none" => delay < IF update = "queued" THEN Latency ELSE CopyTime
      /\ delay' = IF update = "none" THEN 0 ELSE delay + 1
      /\ snap' = [snap EXCEPT !.humidity = Later(@), !.temperature = Later(@)]
      /\ age' = [f \in Fields |-> Later(age[f])]
  BY DEF Passes, Tick
<1>2. FrameInv'
  BY TickStep DEF CopyIInv, Passes
<1>3. /\ snap.humidity \in 0 .. Horizon /\ snap.temperature \in 0 .. Horizon
      /\ snap.valid \in BOOLEAN /\ sinceUpdate \in 0 .. Cycle /\ delay \in Nat
  BY Times DEF CopyIInv, TypeOK
<1>4. /\ snap' = [valid |-> snap.valid, humidity |-> Later(snap.humidity),
                  temperature |-> Later(snap.temperature)]
  BY <1>1 DEF CopyIInv, TypeOK
<1>5. /\ snap'.valid = snap.valid
      /\ snap'.humidity \in 0 .. Horizon /\ snap'.humidity <= snap.humidity + 1
      /\ snap'.temperature \in 0 .. Horizon /\ snap'.temperature <= snap.temperature + 1
  BY <1>3, <1>4, LaterLemma
<1>6. \A f \in Fields : age[f] \in 0 .. Horizon /\ age'[f] \in 0 .. Horizon /\ age'[f] <= age[f] + 1
  BY <1>1, LaterLemma DEF CopyIInv, FrameInv, ReadTypeOK
<1>7. TypeOK'
  <2>1. snap' \in [valid : BOOLEAN, humidity : 0 .. Horizon, temperature : 0 .. Horizon]
    BY <1>3, <1>4, <1>5
  <2>2. delay' \in 0 .. Latency + CopyTime /\ sinceUpdate' \in 0 .. Cycle
    BY <1>1, <1>3, Times
  <2>3. QED
    BY <1>1, <1>2, <2>1, <2>2 DEF CopyIInv, TypeOK, FrameInv
<1>8. SnapInv'
  <2>1. SnapInv /\ MaxAge \in Nat
    BY Times DEF CopyIInv
  <2>2. (update = "queued" => delay = sinceUpdate /\ delay <= Latency)'
    BY <1>1, <1>3, <2>1, Times DEF SnapInv
  <2>3. (update \in {"humidity", "temperature"} => delay <= CopyTime /\ delay <= sinceUpdate)'
    BY <1>1, <1>3, <2>1, Times DEF SnapInv
  <2>4. (update \in {"humidity", "temperature"} /\ snap.valid =>
           \A f \in Fields : age[f] <= MaxAge + delay)'
    <3>1. ASSUME update \in {"humidity", "temperature"}, snap.valid, NEW f \in Fields
          PROVE  age'[f] <= MaxAge + delay'
      <4>1. age[f] <= MaxAge + delay /\ delay' = delay + 1
        BY <1>1, <2>1, <3>1 DEF SnapInv
      <4>2. QED
        BY <1>3, <1>6, <2>1, <4>1
    <3>2. MaxAge' = MaxAge
      BY DEF MaxAge
    <3>3. QED
      BY <1>1, <1>5, <3>1, <3>2
  <2>5. (update = "temperature" /\ snap.valid => snap.humidity <= MaxAge + delay)'
    BY <1>1, <1>3, <1>5, <2>1 DEF SnapInv, MaxAge
  <2>6. (update = "none" /\ snap.valid =>
           snap.humidity <= MaxAge + sinceUpdate /\ snap.temperature <= MaxAge + sinceUpdate)'
    BY <1>1, <1>3, <1>5, <2>1 DEF SnapInv, MaxAge
  <2>7. (update = "queued" /\ snap.valid =>
           /\ snap.humidity <= MaxAge + Cycle + sinceUpdate
           /\ snap.temperature <= MaxAge + Cycle + sinceUpdate)'
    BY <1>1, <1>3, <1>5, <2>1, Times DEF SnapInv, MaxAge
  <2>8. QED
    BY <2>2, <2>3, <2>4, <2>5, <2>6, <2>7 DEF SnapInv
<1>9. QED
  BY <1>2, <1>7, <1>8 DEF CopyIInv

(* The steps of the sensor make the fields younger or leave them.          *)
LEMMA ReadYounger ==
  ASSUME FrameInv, ReadStep, NEW f \in Fields
  PROVE  age'[f] = age[f] \/ age'[f] = 0
BY DEF FrameInv, ReadTypeOK, ReadStep, PostRead, ReadGated, ReadSucceeds, ReadEnds, ReadFails

LEMMA SensorStep == CopyIInv /\ ReadStep /\ UNCHANGED copyVars => CopyIInv'
<1> SUFFICES ASSUME CopyIInv, ReadStep, UNCHANGED copyVars PROVE CopyIInv'
  OBVIOUS
<1>1. FrameInv'
  BY ReadStepStep DEF CopyIInv
<1>2. TypeOK'
  BY <1>1 DEF CopyIInv, TypeOK, FrameInv, copyVars
<1>3. ASSUME update \in {"humidity", "temperature"}, snap.valid, NEW f \in Fields
      PROVE  age'[f] <= MaxAge + delay
  <2>1. age[f] <= MaxAge + delay
    BY <1>3 DEF CopyIInv, SnapInv
  <2>2. MaxAge \in Nat /\ delay \in Nat
    BY Times DEF CopyIInv, TypeOK
  <2>3. QED
    BY <2>1, <2>2, ReadYounger DEF CopyIInv
<1>4. SnapInv'
  BY <1>3 DEF CopyIInv, SnapInv, copyVars, MaxAge
<1>5. QED
  BY <1>1, <1>2, <1>4 DEF CopyIInv

(* The frame stays as it is while a step of the copy is taken.             *)
LEMMA FrameKept == FrameInv /\ UNCHANGED readVars => FrameInv'
BY DEF readVars, FrameInv, ReadTypeOK, OneRead, GateOpens, Decoded, AgeInv, ReadBefore, Attempts

LEMMA CopySteps ==
  CopyIInv /\ (PostUpdate \/ CopyValid \/ CopyHumidity \/ CopyTemperature) => CopyIInv'
<1> SUFFICES ASSUME CopyIInv, PostUpdate \/ CopyValid \/ CopyHumidity \/ CopyTemperature
             PROVE  CopyIInv'
  OBVIOUS
<1>1. FrameInv' /\ UNCHANGED readVars
  BY FrameKept DEF CopyIInv, PostUpdate, CopyValid, CopyHumidity, CopyTemperature
<1>2. /\ snap \in [valid : BOOLEAN, humidity : 0 .. Horizon, temperature : 0 .. Horizon]
      /\ delay \in Nat /\ delay \in 0 .. Latency + CopyTime /\ sinceUpdate \in 0 .. Cycle
      /\ valid \in BOOLEAN /\ age["humidity"] \in 0 .. Horizon /\ age["temperature"] \in 0 .. Horizon
      /\ age' = age /\ MaxAge' = MaxAge /\ MaxAge \in Nat
      /\ SnapInv
  BY <1>1, Times DEF CopyIInv, TypeOK, FrameInv, ReadTypeOK, Fields, readVars, MaxAge
<1>3. CASE PostUpdate
  <2>1. /\ sinceUpdate = Cycle /\ update = "none" /\ update' = "queued" /\ delay' = 0
        /\ sinceUpdate' = 0 /\ snap' = snap
    BY <1>3 DEF PostUpdate
  <2>2. TypeOK'
    BY <1>1, <1>2, <2>1, Times DEF TypeOK, FrameInv
  <2>3. SnapInv'
    BY <1>2, <2>1, Times DEF SnapInv
  <2>4. QED
    BY <1>1, <2>2, <2>3 DEF CopyIInv
<1>4. CASE CopyValid
  <2>1. /\ update' = "humidity" /\ delay' = 0 /\ sinceUpdate' = sinceUpdate
        /\ snap' = [snap EXCEPT !.valid = valid]
    BY <1>4 DEF CopyValid
  <2>2. snap' \in [valid : BOOLEAN, humidity : 0 .. Horizon, temperature : 0 .. Horizon] /\ snap'.valid = valid
    BY <1>2, <2>1
  <2>3. TypeOK'
    BY <1>1, <1>2, <2>1, <2>2, Times DEF TypeOK, FrameInv
  <2>4. valid => \A f \in Fields : age[f] <= MaxAge
    BY FrameIsYoung DEF CopyIInv, AgeBounded
  <2>5. SnapInv'
    BY <1>2, <2>1, <2>2, <2>4, Times DEF SnapInv, Fields
  <2>6. QED
    BY <1>1, <2>3, <2>5 DEF CopyIInv
<1>5. CASE CopyHumidity
  <2>1. /\ update = "humidity" /\ update' = "temperature" /\ delay' = delay
        /\ sinceUpdate' = sinceUpdate
        /\ snap' = [snap EXCEPT !.humidity = age["humidity"]]
    BY <1>5 DEF CopyHumidity
  <2>2. /\ snap' \in [valid : BOOLEAN, humidity : 0 .. Horizon, temperature : 0 .. Horizon]
        /\ snap'.valid = snap.valid /\ snap'.humidity = age["humidity"]
    BY <1>2, <2>1
  <2>3. TypeOK'
    BY <1>1, <1>2, <2>1, <2>2 DEF TypeOK, FrameInv
  <2>4. SnapInv'
    BY <1>2, <2>1, <2>2 DEF SnapInv, Fields
  <2>5. QED
    BY <1>1, <2>3, <2>4 DEF CopyIInv
<1>6. CASE CopyTemperature
  <2>1. /\ update = "temperature" /\ update' = "none" /\ delay' = 0
        /\ sinceUpdate' = sinceUpdate
        /\ snap' = [snap EXCEPT !.temperature = age["temperature"]]
    BY <1>6 DEF CopyTemperature
  <2>2. /\ snap' \in [valid : BOOLEAN, humidity : 0 .. Horizon, temperature : 0 .. Horizon]
        /\ snap'.valid = snap.valid /\ snap'.humidity = snap.humidity
        /\ snap'.temperature = age["temperature"]
    BY <1>2, <2>1
  <2>3. TypeOK'
    BY <1>1, <1>2, <2>1, <2>2, Times DEF TypeOK, FrameInv
  <2>4. ASSUME snap.valid
        PROVE  /\ snap.humidity <= MaxAge + sinceUpdate
               /\ age["temperature"] <= MaxAge + sinceUpdate
    <3>1. /\ delay <= sinceUpdate /\ snap.humidity <= MaxAge + delay
          /\ age["temperature"] <= MaxAge + delay
      BY <1>2, <2>1, <2>4 DEF SnapInv, Fields
    <3>2. snap.humidity \in Nat
      BY <1>2
    <3>3. QED
      BY <1>2, <3>1, <3>2
  <2>5. SnapInv'
    BY <1>2, <2>1, <2>2, <2>4 DEF SnapInv
  <2>6. QED
    BY <1>1, <2>3, <2>5 DEF CopyIInv
<1>7. QED
  BY <1>3, <1>4, <1>5, <1>6

LEMMA CopyStep == CopyIInv /\ [Next]_vars => CopyIInv'
<1> SUFFICES ASSUME CopyIInv, [Next]_vars PROVE CopyIInv'
  OBVIOUS
<1>1. CASE UNCHANGED vars
  <2>1. FrameInv'
    BY <1>1, FrameKept DEF CopyIInv, vars
  <2>2. QED
    BY <1>1, <2>1 DEF vars, copyVars, readVars, CopyIInv, TypeOK, ReadTypeOK, SnapInv, MaxAge
<1>2. QED
  BY <1>1, PassesStep, SensorStep, CopySteps DEF Next

(* A frame marked valid is never older than two cycles and the time one    *)
(* READ may wait and be handled (temperature_humidity_fsm.c:331, the gate, *)
(* and :345, the retries), for every cycle, gate and duration of a read    *)
(* for which the gate can skip one READ and not two.                       *)
THEOREM FrameStaysYoung == Spec => []Inv
<1>1. CopyIInv => Inv
  BY FrameIsYoung DEF CopyIInv, Inv
<1>2. QED
  BY <1>1, CopyStart, CopyStep, PTL DEF Spec

(* The snapshot of the broadcaster is older by one cycle and the time an   *)
(* UPDATE waits at most (broadcaster_fsm.c:13-25), however long the copy   *)
(* takes and whatever is written meanwhile.                                *)
THEOREM SnapshotStaysYoung == Spec => []SnapshotAgeBounded
<1>1. CopyIInv => SnapshotAgeBounded
  <2> SUFFICES ASSUME CopyIInv, update \in {"none", "queued"}, snap.valid
               PROVE  {snap.humidity, snap.temperature} \subseteq 0 .. MaxAge + Cycle + Latency
    BY DEF SnapshotAgeBounded
  <2>1. /\ snap.humidity \in Nat /\ snap.temperature \in Nat /\ sinceUpdate \in 0 .. Cycle
        /\ MaxAge \in Nat /\ SnapInv
    BY Times DEF CopyIInv, TypeOK
  <2>2. /\ snap.humidity <= MaxAge + Cycle + Latency
        /\ snap.temperature <= MaxAge + Cycle + Latency
    BY <2>1, Times DEF SnapInv
  <2>3. QED
    BY <2>1, <2>2, Times
<1>2. QED
  BY <1>1, CopyStart, CopyStep, PTL DEF Spec
=============================================================================
