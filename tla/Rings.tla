-------------------------------- MODULE Rings --------------------------------
(* Arithmetic modulo m, and rings: m places, written and read at counters  *)
(* that wrap at a multiple n of m.  A pipe, the console's buffer and the   *)
(* two rings of the disk are of this kind.                                 *)
EXTENDS Integers, TLAPS

(* Two numbers below m that differ by a multiple of m are equal.           *)
LEMMA Multiple ==
    ASSUME NEW m \in Nat \ {0}, NEW k \in Int,
           NEW r \in 0 .. m - 1, NEW s \in 0 .. m - 1, r = k * m + s
    PROVE  r = s /\ k = 0
<1>1. CASE k >= 1
  <2>1. k * m >= m
    BY <1>1
  <2> QED
    BY <2>1
<1>2. CASE k <= -1
  <2>1. k * m <= -m
    BY <1>2
  <2> QED
    BY <2>1
<1>3. CASE k = 0
  BY <1>3
<1> QED
  BY <1>1, <1>2, <1>3

(* A remainder is below m, ...                                             *)
LEMMA Remainder ==
    ASSUME NEW m \in Nat \ {0}, NEW a \in Int
    PROVE  a % m \in 0 .. m - 1 /\ \E k \in Int : a = k * m + (a % m)
<1>1. a % m \in 0 .. m - 1
  OBVIOUS
<1>2. a \div m \in Int
  OBVIOUS
<1>3. a = (a \div m) * m + (a % m)
  OBVIOUS
<1> QED
  BY <1>1, <1>2, <1>3, Zenon

(* ... and is the only number below m that differs from it by a multiple.  *)
LEMMA Unique ==
    ASSUME NEW m \in Nat \ {0}, NEW k \in Int, NEW r \in 0 .. m - 1
    PROVE  (k * m + r) % m = r
<1> DEFINE a == k * m + r
<1>1. a \in Int
  OBVIOUS
<1> HIDE DEF a
<1>2. a % m \in 0 .. m - 1 /\ \E q \in Int : a = q * m + (a % m)
  BY <1>1, Remainder, Zenon
<1>3. PICK q \in Int : a = q * m + (a % m)
  BY <1>2, Zenon
<1>4. r = (q - k) * m + (a % m)
  <2>1. k * m + r = q * m + (a % m)
    BY <1>3 DEF a
  <2>2. (q - k) * m = q * m - k * m
    OBVIOUS
  <2>3. q * m \in Int /\ k * m \in Int /\ a % m \in Int
    BY <1>2
  <2> HIDE <1>3
  <2> QED
    BY <2>1, <2>2, <2>3
<1>5. r = a % m
  BY <1>2, <1>4, Multiple
<1> QED
  BY <1>5 DEF a

(* A number below m is its own remainder.                                  *)
LEMMA Small == ASSUME NEW m \in Nat \ {0}, NEW r \in 0 .. m - 1 PROVE r % m = r
<1>1. (0 * m + r) % m = r
  BY Unique
<1>2. 0 * m + r = r
  OBVIOUS
<1> QED
  BY <1>1, <1>2

(* Multiples of m do not change a remainder.                               *)
LEMMA Shift ==
    ASSUME NEW m \in Nat \ {0}, NEW a \in Int, NEW k \in Int
    PROVE  (a + k * m) % m = a % m
<1>1. PICK q \in Int : a = q * m + (a % m)
  BY Remainder, Zenon
<1>2. a % m \in 0 .. m - 1
  BY Remainder
<1>3. ((q + k) * m + (a % m)) % m = a % m
  BY <1>2, Unique
<1>4. (q + k) * m = q * m + k * m
  OBVIOUS
<1>5. a + k * m = (q + k) * m + (a % m)
  BY <1>1, <1>2, <1>4
<1> QED
  BY <1>3, <1>5

(* Nor does m itself.                                                      *)
LEMMA FullTurn ==
    ASSUME NEW m \in Nat \ {0}, NEW a \in Int
    PROVE  (a + m) % m = a % m /\ (a - m) % m = a % m
<1>1. PICK k \in Int : k = 1
  OBVIOUS
<1>2. (a + k * m) % m = a % m
  BY Shift, Zenon
<1>3. a + k * m = a + m
  BY <1>1
<1>4. PICK l \in Int : l = -1
  OBVIOUS
<1>5. (a + l * m) % m = a % m
  BY Shift, Zenon
<1>6. a + l * m = a - m
  BY <1>4
<1> QED
  BY <1>2, <1>3, <1>5, <1>6

(* Short of the end of a ring its places are consecutive.                  *)
LEMMA Carry ==
    ASSUME NEW m \in Nat \ {0}, NEW a \in Int, NEW j \in Nat, (a % m) + j < m
    PROVE  (a + j) % m = (a % m) + j
<1>1. PICK q \in Int : a = q * m + (a % m)
  BY Remainder, Zenon
<1>2. a % m \in 0 .. m - 1
  BY Remainder
<1>3. (a % m) + j \in 0 .. m - 1
  BY <1>2
<1>4. (q * m + ((a % m) + j)) % m = (a % m) + j
  BY <1>3, Unique, Zenon
<1>5. a + j = q * m + ((a % m) + j)
  BY <1>1, <1>2
<1> QED
  BY <1>4, <1>5, Zenon

(* Fewer than m steps on, a ring is at another place.                      *)
LEMMA Distinct ==
    ASSUME NEW m \in Nat \ {0}, NEW a \in Int, NEW c \in 1 .. m - 1
    PROVE  (a + c) % m # a % m
<1>1. a % m \in 0 .. m - 1
  BY Remainder
<1>2. CASE (a % m) + c < m
  <2>1. c \in Nat /\ c > 0
    OBVIOUS
  <2>2. (a + c) % m = (a % m) + c
    BY <2>1, <1>2, Carry, Zenon
  <2> QED
    BY <1>1, <2>1, <2>2
<1>3. CASE (a % m) + c >= m
  <2>1. PICK q \in Int : a = q * m + (a % m)
    BY Remainder, Zenon
  <2> DEFINE r == (a % m) + c - m
             p == q + 1
  <2>2. r \in 0 .. m - 1 /\ r < a % m /\ p \in Int
    BY <1>1, <1>3
  <2>3. p * m = q * m + m
    OBVIOUS
  <2>4. a + c = p * m + r
    <3> DEFINE x == a % m
    <3>1. x \in Int /\ a = q * m + x /\ r = x + c - m
      BY <1>1, <2>1
    <3> HIDE DEF x, r, p
    <3>2. q * m \in Int /\ r \in Int
      BY <2>2
    <3> QED
      BY <3>1, <3>2, <2>3
  <2> HIDE DEF r, p
  <2>5. (p * m + r) % m = r
    BY <2>2, Unique
  <2> QED
    BY <2>2, <2>4, <2>5, <1>1
<1> QED
  BY <1>1, <1>2, <1>3

(* A counter that wraps at a multiple of m keeps its place in the ring.    *)
LEMMA Nested ==
    ASSUME NEW m \in Nat \ {0}, NEW n \in Nat \ {0}, n % m = 0, NEW a \in Int, NEW j \in Int
    PROVE  ((a % n) + j) % m = (a + j) % m
<1> DEFINE x == a % n
<1>1. PICK q \in Int : a = q * n + x
  BY Remainder, Zenon
<1>2. \E p \in Int : n = p * m + (n % m)
  <2>1. n \in Int
    OBVIOUS
  <2> QED
    BY <2>1, Remainder, Zenon
<1>3. PICK p \in Int : n = p * m
  BY <1>2
<1>4. x \in Int
  BY Remainder
<1> HIDE DEF x
<1>5. x + j \in Int /\ q * p \in Int
  BY <1>4
<1>6. ((x + j) + (q * p) * m) % m = (x + j) % m
  BY <1>5, Shift, Zenon
<1>7. (q * p) * m = q * n
  BY <1>3
<1>8. a + j = (x + j) + (q * p) * m
  BY <1>1, <1>4, <1>7
<1> QED
  BY <1>6, <1>8, Zenon DEF x

(* In particular, where it is now.                                         *)
LEMMA Twice ==
    ASSUME NEW m \in Nat \ {0}, NEW n \in Nat \ {0}, n % m = 0, NEW a \in Int
    PROVE  (a % n) % m = a % m
<1>1. PICK j \in Int : j = 0
  OBVIOUS
<1>2. ((a % n) + j) % m = (a + j) % m
  BY Nested, ZenonT(60)
<1>3. a % n \in Int
  BY Remainder
<1> QED
  BY <1>1, <1>2, <1>3

(* The same for one ring.                                                  *)
LEMMA Wrap ==
    ASSUME NEW m \in Nat \ {0}, NEW a \in Int, NEW j \in Int
    PROVE  ((a % m) + j) % m = (a + j) % m
<1>1. m % m = 0
  <2>1. (0 + m) % m = 0 % m /\ 0 % m = 0
    BY FullTurn, Small
  <2> QED
    BY <2>1
<1> QED
  BY <1>1, Nested, ZenonT(60)

(* The distance from one counter to another.                               *)
LEMMA Distance ==
    ASSUME NEW m \in Nat \ {0}, NEW a \in 0 .. m - 1, NEW b \in 0 .. m - 1
    PROVE  (b - a) % m = IF a <= b THEN b - a ELSE b - a + m
<1>1. CASE a <= b
  BY <1>1, Small
<1>2. CASE b < a
  <2>1. (b - a + m) % m = b - a + m
    BY <1>2, Small
  <2>2. PICK x \in Int : x = b - a
    OBVIOUS
  <2>3. (x + m) % m = x % m
    BY FullTurn, Zenon
  <2> QED
    BY <1>2, <2>1, <2>2, <2>3
<1> QED
  BY <1>1, <1>2

(* How a counter advances by no more than a whole turn.                    *)
LEMMA Advance ==
    ASSUME NEW m \in Nat \ {0}, NEW a \in 0 .. m - 1, NEW c \in 0 .. m
    PROVE  (a + c) % m = IF a + c < m THEN a + c ELSE a + c - m
<1>1. CASE a + c < m
  BY <1>1, Small
<1>2. CASE a + c >= m
  <2>1. (a + c - m) % m = a + c - m
    BY <1>2, Small
  <2>2. PICK x \in Int : x = a + c
    OBVIOUS
  <2>3. (x - m) % m = x % m
    BY FullTurn, Zenon
  <2> QED
    BY <1>2, <2>1, <2>2, <2>3
<1> QED
  BY <1>1, <1>2

-----------------------------------------------------------------------------
(* The distance stays below the modulus.                                   *)
LEMMA Bounded ==
    ASSUME NEW n \in Nat \ {0}, NEW a \in Int, NEW b \in Int
    PROVE  (b - a) % n \in 0 .. n - 1
<1>1. PICK x \in Int : x = b - a
  OBVIOUS
<1> QED
  BY <1>1, Remainder

(* Counters that are apart have a place between them, ...                  *)
LEMMA Some ==
    ASSUME NEW n \in Nat \ {0}, NEW a \in 0 .. n - 1, NEW b \in 0 .. n - 1, a # b
    PROVE  (b - a) % n \in 1 .. n - 1
  BY Distance

(* ... and the one behind takes it with a step, ...                        *)
LEMMA Shrink ==
    ASSUME NEW n \in Nat \ {0}, NEW a \in 0 .. n - 1, NEW b \in 0 .. n - 1, a # b
    PROVE  (b - ((a + 1) % n)) % n = ((b - a) % n) - 1
<1>1. PICK x \in Int : x = (a + 1) % n
  <2>1. PICK y \in Int : y = a + 1
    OBVIOUS
  <2>2. y % n \in Int
    BY Remainder
  <2> QED
    BY <2>1, <2>2
<1>2. x = IF a + 1 < n THEN a + 1 ELSE a + 1 - n
  <2>1. PICK c \in 0 .. n : c = 1
    OBVIOUS
  <2>2. (a + c) % n = IF a + c < n THEN a + c ELSE a + c - n
    BY Advance, Zenon
  <2> QED
    BY <1>1, <2>1, <2>2
<1>3. x \in 0 .. n - 1
  <2> HIDE <1>1
  <2> QED
    BY <1>2
<1>4. (b - x) % n = IF x <= b THEN b - x ELSE b - x + n
  BY <1>3, Distance
<1>5. (b - a) % n = IF a <= b THEN b - a ELSE b - a + n
  BY Distance
<1>6. (b - x) % n = ((b - a) % n) - 1
  <2> HIDE <1>1
  <2> QED
    BY <1>2, <1>4, <1>5
<1> QED
  BY <1>1, <1>6

(* ... as the one ahead makes one, until a whole turn lies between them.   *)
LEMMA Grow ==
    ASSUME NEW n \in Nat \ {0}, NEW a \in 0 .. n - 1, NEW b \in 0 .. n - 1,
           (b - a) % n < n - 1
    PROVE  (((b + 1) % n) - a) % n = ((b - a) % n) + 1
<1>1. PICK x \in Int : x = (b + 1) % n
  <2>1. PICK y \in Int : y = b + 1
    OBVIOUS
  <2>2. y % n \in Int
    BY Remainder
  <2> QED
    BY <2>1, <2>2
<1>2. x = IF b + 1 < n THEN b + 1 ELSE b + 1 - n
  <2>1. PICK c \in 0 .. n : c = 1
    OBVIOUS
  <2>2. (b + c) % n = IF b + c < n THEN b + c ELSE b + c - n
    BY Advance, Zenon
  <2> QED
    BY <1>1, <2>1, <2>2
<1>3. x \in 0 .. n - 1
  <2> HIDE <1>1
  <2> QED
    BY <1>2
<1>4. (x - a) % n = IF a <= x THEN x - a ELSE x - a + n
  BY <1>3, Distance, Zenon
<1>5. (b - a) % n = IF a <= b THEN b - a ELSE b - a + n
  BY Distance, Zenon
<1>6. (x - a) % n = ((b - a) % n) + 1
  <2> HIDE <1>1
  <2> QED
    BY <1>2, <1>4, <1>5
<1> QED
  BY <1>1, <1>6

(* The place of the counter ahead, counted from the one behind.            *)
LEMMA Meet ==
    ASSUME NEW m \in Nat \ {0}, NEW n \in Nat \ {0}, n % m = 0,
           NEW a \in Int, NEW b \in Int
    PROVE  (a + ((b - a) % n)) % m = b % m
<1>1. PICK x \in Int : x = b - a
  OBVIOUS
<1>2. ((x % n) + a) % m = (x + a) % m
  BY ONLY m \in Nat \ {0}, n \in Nat \ {0}, n % m = 0, x \in Int, a \in Int, Nested, ZenonT(60)
<1>3. x % n \in Int
  BY Remainder
<1> QED
  BY <1>1, <1>2, <1>3

(* The places counted from the counter behind, after its step.             *)
LEMMA Onward ==
    ASSUME NEW m \in Nat \ {0}, NEW n \in Nat \ {0}, n % m = 0,
           NEW a \in Int, NEW k \in Int
    PROVE  (((a + 1) % n) + k) % m = (a + (k + 1)) % m
<1>1. PICK x \in Int : x = a + 1
  OBVIOUS
<1>2. ((x % n) + k) % m = (x + k) % m
  BY ONLY m \in Nat \ {0}, n \in Nat \ {0}, n % m = 0, x \in Int, k \in Int, Nested, ZenonT(60)
<1> QED
  BY <1>1, <1>2

(* Fewer than m places, counted from anywhere, are different ones.         *)
LEMMA Places ==
    ASSUME NEW m \in Nat \ {0}, NEW a \in Int,
           NEW j \in 0 .. m - 1, NEW k \in 0 .. m - 1, j # k
    PROVE  (a + j) % m # (a + k) % m
<1>1. CASE j < k
  <2>1. PICK x \in Int : x = a + j
    OBVIOUS
  <2>2. PICK c \in 1 .. m - 1 : c = k - j
    BY <1>1
  <2>3. (x + c) % m # x % m
    BY Distinct, Zenon
  <2> QED
    BY <2>1, <2>2, <2>3
<1>2. CASE k < j
  <2>1. PICK x \in Int : x = a + k
    OBVIOUS
  <2>2. PICK c \in 1 .. m - 1 : c = j - k
    BY <1>2
  <2>3. (x + c) % m # x % m
    BY Distinct, Zenon
  <2> QED
    BY <2>1, <2>2, <2>3
<1> QED
  BY <1>1, <1>2

(* A place lies in the ring.                                               *)
LEMMA Inside ==
    ASSUME NEW m \in Nat \ {0}, NEW a \in Int, NEW k \in Int
    PROVE  (a + k) % m \in 0 .. m - 1
<1>1. PICK x \in Int : x = a + k
  OBVIOUS
<1> QED
  BY <1>1, Remainder

(* The writer puts an entry where it is ahead: it is none of the unread    *)
(* ones, which are fewer than the places.                                  *)
LEMMA Written ==
    ASSUME NEW m \in Nat \ {0}, NEW n \in Nat \ {0}, n % m = 0,
           NEW a \in Int, NEW b \in Int, (b - a) % n < m, NEW k \in 0 .. ((b - a) % n) - 1
    PROVE  (a + k) % m # b % m
<1>0. (b - a) % n \in 0 .. n - 1
  BY Bounded
<1>1. PICK c \in 0 .. n - 1 : c = (b - a) % n
  BY <1>0
<1>2. c \in 0 .. m - 1 /\ c \in Int
  <2>1. c < m
    BY <1>1
  <2> HIDE <1>1
  <2> QED
    BY <2>1
<1>3. (a + c) % m = b % m
  <2>1. (a + ((b - a) % n)) % m = b % m
    BY ONLY m \in Nat \ {0}, n \in Nat \ {0}, n % m = 0, a \in Int, b \in Int, Meet, ZenonT(60)
  <2> QED
    BY ONLY <1>1, <2>1, Zenon
<1>4. k \in 0 .. m - 1 /\ k # c
  BY <1>1, <1>2
<1> QED
  BY <1>2, <1>3, <1>4, Places, Zenon

(* The k-th position after a counter is k steps away from it.              *)
LEMMA Back ==
    ASSUME NEW n \in Nat \ {0}, NEW a \in Int, NEW k \in 0 .. n - 1
    PROVE  (((a + k) % n) - a) % n = k
<1>1. PICK y \in Int : y = a + k
  OBVIOUS
<1>2. PICK j \in Int : j = -a
  OBVIOUS
<1>3. ((y % n) + j) % n = (y + j) % n
  BY Wrap, Zenon
<1>4. y % n \in Int
  BY Remainder
<1>5. y + j = k /\ (y % n) + j = (y % n) - a
  BY <1>1, <1>2, <1>4
<1>6. k % n = k
  BY Small
<1> QED
  BY <1>1, <1>3, <1>5, <1>6
==============================================================================
