------------------------------- MODULE HeapProofs ------------------------------
(*****************************************************************************)
(* Proofs about module Heap, for a heap of any size, any sizes asked for and *)
(* any number of threads: the type invariant, HeapSound and BlocksApart.     *)
(*                                                                           *)
(* The argument needs the set B of the places where blocks begin, which the  *)
(* code keeps nowhere: the invariant says that there is such a set, that it  *)
(* tiles the heap, and who holds which of its blocks.  That the walk of alloc*)
(* visits exactly this set is proved at the end, by induction over the walk. *)
(* The library's induction theorems take an operator, which the provers do   *)
(* not instantiate; but its theorem that a well-founded set has a minimum    *)
(* does not, and gives induction over the members of a set.                  *)
(*****************************************************************************)
EXTENDS Heap, FiniteSetTheorems, WellFoundedInduction, TLAPS

--------------------------------------------------------------------------------
(* Induction.                                                                *)

\* A set of natural numbers that is not empty has a least element.
LEMMA Least ==
  ASSUME NEW T \in SUBSET Nat, T # {}
  PROVE  \E x \in T : \A y \in T : x <= y
  <1> DEFINE R == OpToRel(<, Nat)
  <1>1. IsWellFoundedOn(R, Nat)
    BY NatLessThanWellFounded
  <1>2. \A x, y \in Nat : <<x, y>> \in R <=> x < y
    BY DEF OpToRel
  <1> HIDE DEF R
  <1>3. PICK x \in T : \A y \in T : ~(<<y, x>> \in R)
    BY <1>1, WFMin
  <1>4. ASSUME NEW y \in T PROVE x <= y
    <2>1. x \in Nat /\ y \in Nat
      OBVIOUS
    <2>2. ~(y < x)
      BY <1>2, <1>3, <2>1
    <2> QED
      BY <2>1, <2>2
  <1> QED
    BY <1>4

\* Induction over the members of a set S.
LEMMA SetInduction ==
  ASSUME NEW S, 0 \in S, \A n \in Nat : n \in S => n + 1 \in S
  PROVE  \A n \in Nat : n \in S
  <1> SUFFICES ASSUME NEW n \in Nat, n \notin S PROVE FALSE
    OBVIOUS
  <1> DEFINE T == {k \in Nat : k \notin S}
  <1>1. T \in SUBSET Nat /\ n \in T
    OBVIOUS
  <1>2. PICK x \in T : \A y \in T : x <= y
    BY <1>1, Least
  <1>3. x \in Nat /\ x # 0 /\ x - 1 \in Nat
    OBVIOUS
  <1>4. x - 1 \notin T
    BY <1>2, <1>3
  <1>5. x - 1 \in S
    BY <1>3, <1>4
  <1> QED
    BY <1>3, <1>5

--------------------------------------------------------------------------------
(* Halves, words and even numbers.                                           *)

\* Division with remainder.
LEMMA DivMod ==
  ASSUME NEW m \in Nat \ {0}, NEW x \in Int
  PROVE  /\ x % m \in 0..(m - 1)
         /\ x \div m \in Int
         /\ x = m * (x \div m) + (x % m)
  OBVIOUS

\* A number below the modulus is its own remainder.
LEMMA SmallRemainder ==
  ASSUME NEW m \in Nat \ {0}, NEW x \in 0..(m - 1)
  PROVE  x % m = x
  OBVIOUS

\* Even numbers are closed under sum and difference.
LEMMA EvenSum ==
  ASSUME NEW x \in Int, NEW y \in Int, x % 2 = 0, y % 2 = 0
  PROVE  (x + y) % 2 = 0 /\ (x - y) % 2 = 0
  OBVIOUS

\* Two different even numbers are at least 2 apart.
LEMMA EvenApart ==
  ASSUME NEW x \in Int, NEW y \in Int, x % 2 = 0, y % 2 = 0, x < y
  PROVE  x + 2 <= y
  OBVIOUS

\* Clearing the lowest bit.
LEMMA RoundDown ==
  ASSUME NEW x \in Int
  PROVE  (x - (x % 2)) % 2 = 0 /\ x % 2 \in {0, 1}
  OBVIOUS

\* The remainder of an even number by an even one is even.
LEMMA EvenMod ==
  ASSUME NEW m \in Nat \ {0}, m % 2 = 0, NEW x \in Int, x % 2 = 0
  PROVE  (x % m) % 2 = 0
  <1> DEFINE h == m \div 2
             q == x \div m
             r == x % m
  <1>1. h \in Int /\ m = 2 * h
    OBVIOUS
  <1>2. q \in Int /\ r \in Int /\ x = m * q + r
    BY DivMod
  <1> HIDE DEF h, q, r
  <1> DEFINE p == h * q
  <1>3. p \in Int /\ m * q = 2 * p
    BY <1>1, <1>2
  <1> HIDE DEF p
  <1>4. r = x - 2 * p
    BY <1>2, <1>3
  <1>5. r % 2 = 0
    BY <1>2, <1>3, <1>4
  <1> QED
    BY <1>5 DEF r

\* The product of even numbers is even.
LEMMA EvenSquare ==
  ASSUME NEW m \in Nat, m % 2 = 0
  PROVE  (m * m) % 2 = 0
  <1> DEFINE h == m \div 2
             p == h * m
  <1>1. h \in Int /\ m = 2 * h
    OBVIOUS
  <1> HIDE DEF h
  <1>2. p \in Int /\ m * m = 2 * p
    BY <1>1
  <1> HIDE DEF p
  <1> QED
    BY <1>2

\* Two halves make a word.
LEMMA Join ==
  ASSUME NEW H \in Nat \ {0}, NEW a \in 0..(H - 1), NEW b \in 0..(H - 1)
  PROVE  a + H * b \in 0..(H * H - 1)
  <1> DEFINE p == H * b
             w == H * H
  <1>1. p \in Nat /\ w \in Nat /\ p + H <= w
    <2>1. b + 1 <= H
      OBVIOUS
    <2>2. H * (b + 1) <= H * H
      BY <2>1
    <2>3. H * (b + 1) = H * b + H
      OBVIOUS
    <2> QED
      BY <2>2, <2>3
  <1> HIDE DEF p, w
  <1>2. a + p \in 0..(w - 1)
    BY <1>1
  <1> QED
    BY <1>2 DEF p, w

\* A word is made of its two halves.
LEMMA Split ==
  ASSUME NEW H \in Nat \ {0}, NEW x \in 0..(H * H - 1)
  PROVE  /\ x % H \in 0..(H - 1) /\ x \div H \in 0..(H - 1)
         /\ (x % H) + H * (x \div H) = x
  <1>0. x \in Int /\ 0 <= x /\ x < H * H /\ H * H \in Nat
    OBVIOUS
  <1> DEFINE q == x \div H
             r == x % H
  <1>2. q \in Int /\ r \in 0..(H - 1) /\ x = H * q + r
    BY <1>0, DivMod
  <1> HIDE DEF q, r
  <1>3. q >= 0
    <2> SUFFICES ASSUME q <= -1 PROVE FALSE
      BY <1>2
    <2>1. H * q <= H * (-1)
      BY <1>2
    <2>2. H * q <= -H /\ H * q \in Int
      BY <1>2, <2>1
    <2> DEFINE p == H * q
    <2> HIDE DEF p
    <2>3. p <= -H /\ p \in Int /\ x = p + r
      BY <2>2, <1>2 DEF p
    <2> QED
      BY <2>3, <1>2, <1>0
  <1>4. q <= H - 1
    <2> SUFFICES ASSUME q >= H PROVE FALSE
      BY <1>2
    <2>1. H * q >= H * H
      BY <1>2
    <2> QED
      BY <2>1, <1>2, <1>0
  <1> QED
    BY <1>2, <1>3, <1>4 DEF q, r

--------------------------------------------------------------------------------
(* Headers in a memory m.                                                    *)

Halves == 0..(HALF - 1)
Mems   == [Cells -> Halves]
Evens  == {w \in Words : w % 2 = 0}

Hd(m, b) == m[b] + HALF * m[b + 2]
Sz(m, b) == Hd(m, b) - (Hd(m, b) % 2)
Al(m, b) == Hd(m, b) % 2 = 1
After(m, b) == b + Sz(m, b) + 4

\* The constants.
LEMMA Constants ==
  /\ HALF \in Nat \ {0} /\ WORD \in Nat \ {0} /\ WORD % 2 = 0
  /\ kHeapStart \in Nat /\ kHeapEnd \in Nat /\ kHeapStart + 4 < kHeapEnd
  /\ kHeapEnd + 4 < WORD
  /\ kHeapStart % 2 = 0 /\ kHeapEnd % 2 = 0
  <1>1. HALF \in Nat /\ HALF % 2 = 0 /\ kHeapEnd \in Nat /\ kHeapEnd + 4 < WORD
    BY HeapAssumption
  <1>2. WORD \in Nat /\ WORD % 2 = 0
    BY <1>1, EvenSquare DEF WORD
  <1>3. HALF # 0
    BY <1>1 DEF WORD
  <1> HIDE DEF WORD
  <1> QED
    BY <1>1, <1>2, <1>3, HeapAssumption

\* The same without the remainders.
LEMMA Bounds ==
  /\ kHeapStart \in Nat /\ kHeapEnd \in Nat /\ WORD \in Nat \ {0}
  /\ kHeapStart + 4 < kHeapEnd /\ kHeapEnd + 4 < WORD
  BY Constants

\* Headers lie at even addresses up to kHeapEnd.
LEMMA HeaderSet ==
  ASSUME NEW b
  PROVE  b \in Headers <=> b \in Int /\ kHeapStart <= b /\ b <= kHeapEnd /\ b % 2 = 0
  <1>1. ASSUME b \in Headers
        PROVE  b \in Int /\ kHeapStart <= b /\ b <= kHeapEnd /\ b % 2 = 0
    BY <1>1, Constants DEF Headers, Cells
  <1>2. ASSUME b \in Int, kHeapStart <= b, b <= kHeapEnd, b % 2 = 0
        PROVE  b \in Headers
    <2>1. (b + 2) % 2 = 0
      BY <1>2
    <2> QED
      BY <1>2, <2>1, Constants DEF Headers, Cells
  <1> QED
    BY <1>1, <1>2

\* A header has two cells.
LEMMA HeaderCells ==
  ASSUME NEW b \in Headers
  PROVE  b \in Cells /\ b + 2 \in Cells
  BY DEF Headers

\* What a header holds: an even size and a flag.
LEMMA HeaderType ==
  ASSUME NEW m \in Mems, NEW b \in Headers
  PROVE  Hd(m, b) \in Words /\ Sz(m, b) \in Evens /\ Sz(m, b) <= Hd(m, b)
  <1>1. m[b] \in Halves /\ m[b + 2] \in Halves
    BY HeaderCells DEF Mems
  <1>2. Hd(m, b) \in Words
    BY <1>1, Join, Constants DEF Hd, Words, WORD, Halves
  <1> DEFINE h == Hd(m, b)
  <1>3. h \in Nat /\ h < WORD
    BY <1>2, Constants DEF Words
  <1> HIDE DEF h
  <1>4. h - (h % 2) \in 0..(WORD - 1) /\ h - (h % 2) <= h /\ (h - (h % 2)) % 2 = 0
    BY <1>3, RoundDown, Constants
  <1> QED
    BY <1>2, <1>4 DEF h, Sz, Evens, Words

\* Recording keeps memory a memory, wherever it writes.
LEMMA RecordType ==
  ASSUME NEW m \in Mems, NEW b, NEW s \in Evens, NEW a \in {0, 1}
  PROVE  record(m, b, s, a) \in Mems /\ s + a \in Words
  <1>1. s \in Nat /\ s % 2 = 0 /\ s < WORD
    BY Constants DEF Evens, Words
  <1>2. s + 2 <= WORD
    BY <1>1, Constants, EvenApart
  <1>3. s + a \in Words
    BY <1>1, <1>2, Constants DEF Words
  <1>4. (s + a) % HALF \in Halves /\ (s + a) \div HALF \in Halves
    BY <1>3, Split, Constants DEF Halves, Words, WORD
  <1> QED
    BY <1>3, <1>4 DEF record, Mems

\* What was recorded is read back.
LEMMA RecordSame ==
  ASSUME NEW m \in Mems, NEW b \in Headers, NEW s \in Evens, NEW a \in {0, 1}
  PROVE  LET n == record(m, b, s, a) IN Sz(n, b) = s /\ (Al(n, b) <=> a = 1)
  <1> DEFINE n == record(m, b, s, a)
             w == s + a
  <1>1. w \in Words
    BY RecordType
  <1>2. b \in Int /\ b # b + 2
    BY HeaderSet
  <1>3. n[b] = w % HALF /\ n[b + 2] = w \div HALF
    BY <1>2, HeaderCells DEF record
  <1>4. (w % HALF) + HALF * (w \div HALF) = w
    BY <1>1, Split, Constants DEF Words, WORD
  <1>5. Hd(n, b) = w
    BY <1>3, <1>4 DEF Hd
  <1>6. s \in Int /\ s % 2 = 0
    BY Constants DEF Evens, Words
  <1>7. w % 2 = a
    BY <1>6
  <1>8. a \in {0, 1} /\ w - a = s
    BY <1>6
  <1> QED
    BY <1>5, <1>7, <1>8 DEF Sz, Al

\* A header that does not overlap the one recorded is left alone.
LEMMA RecordOther ==
  ASSUME NEW m \in Mems, NEW b \in Int, NEW s, NEW a, NEW c \in Headers,
         c + 4 <= b \/ b + 4 <= c
  PROVE  LET n == record(m, b, s, a)
         IN  Hd(n, c) = Hd(m, c) /\ Sz(n, c) = Sz(m, c) /\ (Al(n, c) <=> Al(m, c))
  <1> DEFINE n == record(m, b, s, a)
  <1>1. c \in Int /\ c # b /\ c # b + 2 /\ c + 2 # b /\ c + 2 # b + 2
    BY HeaderSet
  <1>2. n[c] = m[c] /\ n[c + 2] = m[c + 2]
    BY <1>1, HeaderCells DEF record
  <1> QED
    BY <1>2 DEF Hd, Sz, Al

--------------------------------------------------------------------------------
(* The places B of the blocks.                                               *)

\* The blocks at B cover the heap: the first begins at kHeapStart, behind each
\* comes another or kHeapEnd, and none begins inside another.
Tiled(m, B) ==
    /\ B \subseteq Headers /\ kHeapEnd \notin B
    /\ kHeapStart \in B
    /\ \A b \in B : After(m, b) \in B \cup {kHeapEnd}
    /\ \A b, c \in B : b < c => After(m, b) <= c

\* Where a block ends.
LEMMA TiledNext ==
  ASSUME NEW m \in Mems, NEW B, Tiled(m, B), NEW b \in B
  PROVE  /\ b \in Headers /\ b \in Int /\ b % 2 = 0 /\ kHeapStart <= b /\ b < kHeapEnd
         /\ Sz(m, b) \in Nat /\ Sz(m, b) % 2 = 0
         /\ After(m, b) \in Headers
         /\ After(m, b) = b + Sz(m, b) + 4 /\ After(m, b) <= kHeapEnd
         /\ (b + Sz(m, b) + 4) % WORD = After(m, b)
  <1>1. b \in Headers /\ b # kHeapEnd
    BY DEF Tiled
  <1>2. b \in Int /\ b % 2 = 0 /\ kHeapStart <= b /\ b < kHeapEnd
    BY <1>1, HeaderSet, Constants
  <1>3. Sz(m, b) \in Nat /\ Sz(m, b) % 2 = 0
    BY <1>1, HeaderType, Constants DEF Evens, Words
  <1>4. kHeapEnd \in Headers
    BY HeaderSet, Constants
  <1>5. After(m, b) \in Headers
    BY <1>4 DEF Tiled
  <1>6. After(m, b) \in Int /\ After(m, b) <= kHeapEnd
    BY <1>5, HeaderSet
  <1>7. After(m, b) = b + Sz(m, b) + 4
    BY DEF After
  <1>8. After(m, b) \in 0..(WORD - 1)
    BY <1>2, <1>3, <1>6, <1>7, Constants
  <1>9. After(m, b) % WORD = After(m, b)
    BY <1>8, SmallRemainder, Constants
  <1> QED
    BY <1>1, <1>2, <1>3, <1>5, <1>6, <1>7, <1>9

\* The headers of two blocks do not overlap.
LEMMA TiledApart ==
  ASSUME NEW m \in Mems, NEW B, Tiled(m, B), NEW b \in B, NEW c \in B, b # c
  PROVE  c + 4 <= b \/ b + 4 <= c
  <1>1. b < c => After(m, b) <= c
    BY DEF Tiled
  <1>2. c < b => After(m, c) <= b
    BY DEF Tiled
  <1>3. /\ b \in Int /\ Sz(m, b) \in Nat /\ After(m, b) = b + Sz(m, b) + 4
        /\ c \in Int /\ Sz(m, c) \in Nat /\ After(m, c) = c + Sz(m, c) + 4
    BY TiledNext
  <1> QED
    BY <1>1, <1>2, <1>3

\* n differs from m at most in the headers of the blocks X.
SameBut(m, n, B, X) ==
    \A c \in B \ X : Sz(n, c) = Sz(m, c) /\ (Al(n, c) <=> Al(m, c))

\* A block is marked, its size kept.
LEMMA Mark ==
  ASSUME NEW m \in Mems, NEW B, Tiled(m, B), NEW b \in B, NEW a \in {0, 1}
  PROVE  LET n == record(m, b, Sz(m, b), a)
         IN  /\ n \in Mems /\ Tiled(n, B) /\ SameBut(m, n, B, {b})
             /\ Sz(n, b) = Sz(m, b) /\ (Al(n, b) <=> a = 1)
  <1> DEFINE n == record(m, b, Sz(m, b), a)
  <1>1. b \in Headers /\ b \in Int /\ Sz(m, b) \in Evens
    BY TiledNext, HeaderType
  <1>2. n \in Mems /\ Sz(n, b) = Sz(m, b) /\ (Al(n, b) <=> a = 1)
    BY <1>1, RecordType, RecordSame
  <1>3. SameBut(m, n, B, {b})
    <2> SUFFICES ASSUME NEW c \in B, c # b
                 PROVE  Sz(n, c) = Sz(m, c) /\ (Al(n, c) <=> Al(m, c))
      BY DEF SameBut
    <2>1. c \in Headers
      BY TiledNext
    <2>2. c + 4 <= b \/ b + 4 <= c
      BY TiledApart
    <2> QED
      BY <1>1, <2>1, <2>2, RecordOther
  <1>4. \A c \in B : After(n, c) = After(m, c)
    BY <1>2, <1>3 DEF SameBut, After
  <1>5. Tiled(n, B)
    BY <1>4 DEF Tiled
  <1> QED
    BY <1>2, <1>3, <1>5

\* A block is cut in two.
LEMMA Cut ==
  ASSUME NEW m \in Mems, NEW B, Tiled(m, B), NEW b \in B,
         NEW s \in Evens, s + 4 <= Sz(m, b)
  PROVE  LET d == b + s + 4
             n == record(record(m, b, s, 1), d, Sz(m, b) - 4 - s, 0)
         IN  /\ n \in Mems /\ Tiled(n, B \cup {d}) /\ d \notin B
             /\ SameBut(m, n, B, {b})
             /\ Sz(n, b) = s /\ Al(n, b) /\ ~Al(n, d)
  <1> DEFINE d == b + s + 4
             r == Sz(m, b) - 4 - s
             k == record(m, b, s, 1)
             n == record(k, d, r, 0)
  <1>1. /\ b \in Headers /\ b \in Int /\ b % 2 = 0 /\ kHeapStart <= b
        /\ Sz(m, b) \in Nat /\ Sz(m, b) % 2 = 0 /\ Sz(m, b) < WORD
        /\ After(m, b) = b + Sz(m, b) + 4 /\ After(m, b) <= kHeapEnd
    BY TiledNext, HeaderType, Constants DEF Evens, Words
  <1>2. s \in Nat /\ s % 2 = 0
    BY Constants DEF Evens, Words
  <1>3. d \in Int /\ d % 2 = 0 /\ b + 4 <= d /\ d + r + 4 = After(m, b)
    BY <1>1, <1>2
  <1>a. r \in Nat /\ r < WORD
    BY <1>1, <1>2, Bounds
  <1>4. r \in Nat /\ r % 2 = 0 /\ r < WORD
    BY <1>1, <1>2, <1>a
  <1>5. r \in Evens
    BY <1>4, Constants DEF Evens, Words
  <1>6. d < kHeapEnd /\ kHeapStart <= d
    BY <1>1, <1>3, <1>4, Constants
  <1> HIDE DEF d, r
  <1>7. d \in Headers
    BY <1>3, <1>6, Bounds, HeaderSet
  <1>8. k \in Mems /\ Sz(k, b) = s /\ Al(k, b)
    BY <1>1, RecordType, RecordSame
  <1> HIDE DEF k
  <1>9. n \in Mems /\ Sz(n, d) = r /\ ~Al(n, d)
    BY <1>5, <1>7, <1>8, RecordType, RecordSame
  <1>10. Sz(n, b) = s /\ Al(n, b)
    BY <1>1, <1>3, <1>8, RecordOther
  <1>11. ASSUME NEW c \in B, c # b
         PROVE  /\ c \in Int /\ (c + 4 <= b \/ d + 4 <= c)
                /\ Sz(n, c) = Sz(m, c) /\ (Al(n, c) <=> Al(m, c))
    <2>1. c \in Headers /\ c \in Int
      BY TiledNext
    <2>2. c + 4 <= b \/ b + 4 <= c
      BY <1>11, TiledApart
    <2>3. c + 4 <= b \/ After(m, b) <= c
      BY <1>1, <2>1, <2>2 DEF Tiled
    <2>4. c + 4 <= b \/ d + 4 <= c
      BY <1>1, <1>3, <1>4, <2>1, <2>3
    <2>5. c + 4 <= d \/ d + 4 <= c
      BY <1>1, <1>3, <2>1, <2>4
    <2>6. Sz(k, c) = Sz(m, c) /\ (Al(k, c) <=> Al(m, c))
      BY <1>1, <2>1, <2>2, RecordOther DEF k
    <2>7. Sz(n, c) = Sz(k, c) /\ (Al(n, c) <=> Al(k, c))
      BY <1>3, <1>8, <2>1, <2>5, RecordOther
    <2> QED
      BY <2>1, <2>4, <2>6, <2>7
  <1>12. SameBut(m, n, B, {b})
    BY <1>11 DEF SameBut
  <1>13. d \notin B
    BY <1>1, <1>3, <1>11
  <1> HIDE DEF n
  <1>14. /\ After(n, b) = d /\ After(n, d) = After(m, b)
         /\ \A c \in B \ {b} : After(n, c) = After(m, c)
    BY <1>3, <1>9, <1>10, <1>11 DEF After, d
  <1>15. Tiled(n, B \cup {d})
    <2>1. B \cup {d} \subseteq Headers /\ kHeapEnd \notin B \cup {d} /\ kHeapStart \in B \cup {d}
      BY <1>6, <1>7, Constants DEF Tiled
    <2>2. \A c \in B \cup {d} : After(n, c) \in (B \cup {d}) \cup {kHeapEnd}
      BY <1>14 DEF Tiled
    <2>3. ASSUME NEW c \in B \cup {d}, NEW e \in B \cup {d}, c < e
          PROVE  After(n, c) <= e
      <3>1. CASE c = d
        <4>1. e \in B /\ e # b /\ e \in Int
          BY <1>1, <1>3, <2>3, <3>1, <1>11
        <4>2. d + 4 <= e
          BY <1>1, <1>3, <1>11, <2>3, <3>1, <4>1
        <4>3. After(m, b) <= e
          BY <1>1, <1>3, <4>1, <4>2 DEF Tiled
        <4> QED
          BY <1>14, <3>1, <4>3
      <3>2. CASE c = b
        <4>1. CASE e = d
          BY <1>3, <1>14, <3>2, <4>1
        <4>2. CASE e # d
          <5>1. e \in B /\ e # b /\ e \in Int
            BY <1>1, <1>11, <2>3, <3>2, <4>2
          <5>2. d + 4 <= e
            BY <1>1, <1>11, <2>3, <3>2, <5>1
          <5> QED
            BY <1>3, <1>14, <3>2, <5>1, <5>2
        <4> QED
          BY <4>1, <4>2
      <3>3. CASE c # d /\ c # b
        <4>1. c \in B /\ c \in Int /\ After(n, c) = After(m, c)
          BY <1>11, <1>14, <3>3
        <4>2. CASE e # d
          BY <2>3, <4>1, <4>2 DEF Tiled
        <4>3. CASE e = d
          <5>1. c < b
            BY <1>1, <1>3, <1>11, <2>3, <3>3, <4>1, <4>3
          <5>2. After(m, c) <= b
            BY <4>1, <5>1 DEF Tiled
          <5>3. After(m, c) = c + Sz(m, c) + 4 /\ Sz(m, c) \in Nat
            BY <4>1, TiledNext
          <5> QED
            BY <1>1, <1>3, <4>1, <4>3, <5>2, <5>3
        <4> QED
          BY <4>2, <4>3
      <3> QED
        BY <3>1, <3>2, <3>3
    <2> QED
      BY <2>1, <2>2, <2>3 DEF Tiled
  <1> QED
    BY <1>9, <1>10, <1>12, <1>13, <1>15 DEF n, k, d, r

\* A block swallows the one behind it.
LEMMA Merge ==
  ASSUME NEW m \in Mems, NEW B, Tiled(m, B), NEW b \in B, After(m, b) \in B
  PROVE  LET d == After(m, b)
             s == Sz(m, b) + 4 + Sz(m, d)
             n == record(m, b, s, 0)
         IN  /\ s % WORD = s
             /\ n \in Mems /\ Tiled(n, B \ {d}) /\ b # d
             /\ SameBut(m, n, B, {b}) /\ ~Al(n, b)
  <1> DEFINE d == After(m, b)
             s == Sz(m, b) + 4 + Sz(m, d)
             n == record(m, b, s, 0)
  <1>1. /\ b \in Headers /\ b \in Int /\ kHeapStart <= b
        /\ Sz(m, b) \in Nat /\ Sz(m, b) % 2 = 0
        /\ d = b + Sz(m, b) + 4
    BY TiledNext
  <1>2. /\ d \in B /\ d \in Int
        /\ Sz(m, d) \in Nat /\ Sz(m, d) % 2 = 0
        /\ After(m, d) = d + Sz(m, d) + 4 /\ After(m, d) <= kHeapEnd
    BY TiledNext
  <1> HIDE DEF d
  <1>a. Sz(m, b) \in Nat /\ Sz(m, d) \in Nat
    BY <1>1, <1>2
  <1>b. s % 2 = 0
    BY <1>1, <1>2
  <1>3. b + s + 4 = After(m, d) /\ s \in Nat /\ b < d
    BY <1>1, <1>2
  <1>4. s < WORD
    <2>1. b \in Int /\ kHeapStart <= b /\ After(m, d) <= kHeapEnd
      BY <1>1, <1>2
    <2> HIDE DEF s
    <2> QED
      BY <1>3, <2>1, Bounds
  <1> HIDE DEF s
  <1>c. s \in 0..(WORD - 1)
    BY <1>3, <1>4, Bounds
  <1>5. s \in Evens /\ s % WORD = s
    BY <1>b, <1>c, Bounds, SmallRemainder DEF Evens, Words
  <1> HIDE DEF s
  <1>6. n \in Mems /\ Sz(n, b) = s /\ ~Al(n, b)
    BY <1>1, <1>5, RecordType, RecordSame
  <1>7. SameBut(m, n, B, {b})
    <2> SUFFICES ASSUME NEW c \in B, c # b
                 PROVE  Sz(n, c) = Sz(m, c) /\ (Al(n, c) <=> Al(m, c))
      BY DEF SameBut
    <2>1. c \in Headers
      BY TiledNext
    <2>2. c + 4 <= b \/ b + 4 <= c
      BY TiledApart
    <2> QED
      BY <1>1, <2>1, <2>2, RecordOther
  <1> HIDE DEF n
  <1>8. After(n, b) = After(m, d) /\ \A c \in B \ {b} : After(n, c) = After(m, c)
    BY <1>3, <1>6, <1>7 DEF SameBut, After
  <1>9. Tiled(n, B \ {d})
    <2>0. d # kHeapStart
      BY <1>1, <1>2, <1>3, Bounds
    <2>1. B \ {d} \subseteq Headers /\ kHeapEnd \notin B \ {d} /\ kHeapStart \in B \ {d}
      BY <2>0 DEF Tiled
    <2>2. ASSUME NEW c \in B \ {d}
          PROVE  After(n, c) \in (B \ {d}) \cup {kHeapEnd}
      <3>1. CASE c = b
        <4>1. After(m, d) \in B \cup {kHeapEnd} /\ After(m, d) # d
          BY <1>2 DEF Tiled
        <4> QED
          BY <1>8, <3>1, <4>1
      <3>2. CASE c # b
        <4>1. After(n, c) = After(m, c) /\ After(m, c) \in B \cup {kHeapEnd}
          BY <1>8, <3>2 DEF Tiled
        <4>2. After(m, c) # d
          <5>1. c \in Int /\ Sz(m, c) \in Nat /\ After(m, c) = c + Sz(m, c) + 4
            BY TiledNext
          <5>2. c < b => After(m, c) <= b
            BY DEF Tiled
          <5>3. b < c => After(m, b) <= c
            BY DEF Tiled
          <5> QED
            BY <1>1, <1>2, <1>3, <3>2, <5>1, <5>2, <5>3 DEF d
        <4> QED
          BY <4>1, <4>2
      <3> QED
        BY <3>1, <3>2
    <2>3. ASSUME NEW c \in B \ {d}, NEW e \in B \ {d}, c < e
          PROVE  After(n, c) <= e
      <3>1. CASE c = b
        <4>1. After(m, b) <= e /\ e \in Int
          BY <2>3, <3>1, TiledNext DEF Tiled
        <4>2. d < e
          BY <1>2, <4>1 DEF d
        <4>3. After(m, d) <= e
          BY <1>2, <4>2 DEF Tiled
        <4> QED
          BY <1>8, <3>1, <4>3
      <3>2. CASE c # b
        BY <1>8, <2>3, <3>2 DEF Tiled
      <3> QED
        BY <3>1, <3>2
    <2> QED
      BY <2>1, <2>2, <2>3 DEF Tiled
  <1> QED
    BY <1>3, <1>5, <1>6, <1>7, <1>9, <1>1, <1>2 DEF n, s, d

--------------------------------------------------------------------------------
(* The invariant.                                                            *)

Frees(c)   == c.in = "free"
Resting(c) == c.in = "alloc" /\ c.at = "rest"

\* The sizes threads work with are even.
Even(c) == c.in = "alloc" /\ c.at \in {"take", "rest"} => c.found \in Evens

TypeInv == TypeOK /\ \A t \in Threads : Even(call[t])

\* The allocated blocks are those callers hold (lv) or are giving back (cl),
\* each by one of them, and large enough.
Held(m, B, lv, cl) ==
    /\ \A l \in lv : l.pos - 4 \in B /\ Al(m, l.pos - 4) /\ l.size <= Sz(m, l.pos - 4)
    /\ \A l, k \in lv : l.pos = k.pos => l = k
    /\ \A t \in Threads : Frees(cl[t]) =>
         /\ cl[t].block \in B /\ Al(m, cl[t].block)
         /\ \A l \in lv : l.pos - 4 # cl[t].block
    /\ \A t, u \in Threads :
         Frees(cl[t]) /\ Frees(cl[u]) /\ cl[t].block = cl[u].block => t = u
    /\ \A b \in B : Al(m, b) =>
         \/ \E l \in lv : l.pos - 4 = b
         \/ \E t \in Threads : Frees(cl[t]) /\ cl[t].block = b

\* What a call knows of the memory it has read: a walk is at a block, the block
\* found is still free and of the size found, and the block that free will
\* merge is still free.
Knows(m, B, c) ==
    /\ c.in = "alloc" /\ c.at = "walk" => c.cur \in B \cup {kHeapEnd}
    /\ c.in = "alloc" /\ c.at = "take" =>
         /\ c.cur \in B /\ ~Al(m, c.cur)
         /\ c.found = Sz(m, c.cur) /\ Aligned(c.request) <= c.found
    /\ Frees(c) /\ c.merge =>
         After(m, c.block) = kHeapEnd \/ (After(m, c.block) \in B /\ ~Al(m, After(m, c.block)))

\* The remainder that an alloc c is about to record, and the memory behind the
\* one it has left half changed: with the remainder, or, if its size has wrapped
\* around, with the block as it was found.
Rest(c) == remain_size(c.found, Aligned(c.request))
Final(m, c) ==
    IF Rest(c) > c.found THEN record(m, c.cur, c.found, kAllocated)
    ELSE record(m, slice_block(c.cur, Aligned(c.request)), Rest(c), kFree)

\* Memory in order, while no alloc is between its two writes; and what it will be
\* again after them.
Whole(m, lv, cl) ==
    \E B : Tiled(m, B) /\ Held(m, B, lv, cl) /\ \A t \in Threads : Knows(m, B, cl[t])
Mending(m, lv, cl, c) ==
    \E B : Tiled(Final(m, c), B) /\ Held(Final(m, c), B, lv, cl)

Clean ==
    /\ \A t, u \in Threads : Resting(call[t]) /\ Resting(call[u]) => t = u
    /\ (\A t \in Threads : ~Resting(call[t])) => ~lost /\ Whole(mem, live, call)
    /\ \A t \in Threads : Resting(call[t]) => Mending(mem, live, call, call[t])

Inv == TypeInv /\ (damage = 0 => Clean)

--------------------------------------------------------------------------------
(* Types.                                                                    *)

\* The kinds of calls.
LEMMA CallParts ==
  ASSUME NEW c \in Calls
  PROVE  /\ c.in \in {"none", "alloc", "free"}
         /\ c.in = "none" <=> c = None
         /\ c.in = "alloc" =>
              /\ c.at \in {"walk", "take", "rest"} /\ c.request \in Sizes
              /\ c.at = "walk" =>
                   /\ c.cur \in Words
                   /\ c = [in |-> "alloc", at |-> "walk", request |-> c.request, cur |-> c.cur]
              /\ c.at # "walk" =>
                   /\ c.cur \in Headers /\ c.found \in Words
                   /\ c = [in |-> "alloc", at |-> c.at, request |-> c.request,
                            cur |-> c.cur, found |-> c.found]
         /\ c.in = "free" => c.block \in Headers /\ c.merge \in BOOLEAN
  <1>1. CASE c = None
    BY <1>1 DEF None
  <1>2. CASE c \in [in : {"alloc"}, at : {"walk"}, request : Sizes, cur : Words]
    BY <1>2 DEF None
  <1>3. CASE c \in [in : {"alloc"}, at : {"take", "rest"}, request : Sizes,
                    cur : Headers, found : Words]
    BY <1>3 DEF None
  <1>4. CASE c \in [in : {"free"}, block : Headers, merge : BOOLEAN]
    BY <1>4 DEF None
  <1> QED
    BY <1>1, <1>2, <1>3, <1>4 DEF Calls

\* The size a request is rounded up to.
LEMMA AlignedUp ==
  ASSUME NEW r \in Sizes
  PROVE  r \in Nat /\ Aligned(r) \in Evens /\ r <= Aligned(r)
  <1>1. r \in Nat /\ r <= WORD - 2
    BY HeapAssumption, Constants
  <1>2. CASE r % 2 = 1
    <2>1. r + 1 \in 0..(WORD - 1)
      BY <1>1, Constants
    <2>2. (r + 1) % WORD = r + 1
      BY <2>1, SmallRemainder, Constants
    <2>3. (r + 1) % 2 = 0
      BY <1>1, <1>2
    <2> QED
      BY <1>1, <1>2, <2>1, <2>2, <2>3 DEF Aligned, Evens, Words
  <1>3. CASE r % 2 # 1
    <2>1. r % 2 = 0
      BY <1>1, <1>3
    <2>2. r \in 0..(WORD - 1)
      BY <1>1, Constants
    <2> QED
      BY <1>1, <1>3, <2>1, <2>2 DEF Aligned, Evens, Words
  <1> QED
    BY <1>2, <1>3

\* The remainder of two even sizes is even.
LEMMA RestType ==
  ASSUME NEW f \in Evens, NEW s \in Evens
  PROVE  remain_size(f, s) \in Evens
  <1>1. f \in Int /\ s \in Int /\ f % 2 = 0 /\ s % 2 = 0
    BY Constants DEF Evens, Words
  <1> DEFINE x == f - 4 - s
  <1>2. x \in Int /\ x % 2 = 0
    BY <1>1
  <1> HIDE DEF x
  <1>3. x % WORD \in 0..(WORD - 1) /\ (x % WORD) % 2 = 0
    BY <1>2, DivMod, EvenMod, Constants
  <1> QED
    BY <1>3 DEF x, remain_size, Evens, Words

\* How the model's operators on mem and the ones used here correspond.
LEMMA Reads ==
  ASSUME TypeInv, NEW b \in Headers
  PROVE  /\ mem \in Mems
         /\ size_of_block(b) = Sz(mem, b) /\ (is_allocated(b) <=> Al(mem, b))
         /\ next_block(b) = (b + Sz(mem, b) + 4) % WORD
         /\ next_block(b) \in Words
  <1>1. mem \in Mems
    BY DEF TypeInv, TypeOK, Mems, Halves
  <1>2. /\ size_of_block(b) = Sz(mem, b) /\ (is_allocated(b) <=> Al(mem, b))
        /\ next_block(b) = (b + Sz(mem, b) + 4) % WORD
    BY DEF size_of_block, is_allocated, next_block, Header, Sz, Al, Hd
  <1>3. b + Sz(mem, b) + 4 \in Int
    BY <1>1, HeaderType, HeaderSet, Constants DEF Evens, Words
  <1>4. (b + Sz(mem, b) + 4) % WORD \in Words
    BY <1>3, DivMod, Constants DEF Words
  <1> QED
    BY <1>1, <1>2, <1>4

\* Damage is counted within its bound, and is never forgotten.
LEMMA DamageType ==
  ASSUME TypeInv, damage < MaxDamage, NEW now \in BOOLEAN, Damaged(now)
  PROVE  damage' \in 0..MaxDamage /\ (damage' = 0 => damage = 0 /\ ~now)
  <1>1. damage \in Nat /\ MaxDamage \in Nat
    BY HeapAssumption DEF TypeInv, TypeOK
  <1> QED
    BY <1>1 DEF Damaged

\* A step of t leaves the type invariant if the parts it writes have their types.
LEMMA TypeStep ==
  ASSUME TypeInv, NEW t \in Threads, NEW c \in Calls, Even(c),
         call' = call \/ call' = [call EXCEPT ![t] = c],
         mem' \in Mems, live' \subseteq [pos : {b + 4 : b \in Headers}, size : Sizes],
         damage' \in 0..MaxDamage, lost' \in BOOLEAN
  PROVE  TypeInv'
  <1>1. call \in [Threads -> Calls] /\ \A u \in Threads : Even(call[u])
    BY DEF TypeInv, TypeOK
  <1>2. call' \in [Threads -> Calls] /\ \A u \in Threads : Even(call'[u])
    BY <1>1
  <1>3. TypeOK'
    BY <1>2 DEF TypeOK, Mems, Halves
  <1> QED
    BY <1>2, <1>3 DEF TypeInv, Even

--------------------------------------------------------------------------------
(* Who holds what, when one thing changes.                                   *)

\* Calls that are not frees do not matter.
LEMMA HeldFrame ==
  ASSUME NEW m, NEW B, NEW lv, NEW cl, NEW cl2, Held(m, B, lv, cl),
         \A u \in Threads : cl2[u] = cl[u] \/ (~Frees(cl[u]) /\ ~Frees(cl2[u]))
  PROVE  Held(m, B, lv, cl2)
  BY DEF Held

\* A caller gets the block b, all others being out of their calls.
LEMMA HeldTake ==
  ASSUME NEW m, NEW n, NEW B, NEW lv, NEW cl, NEW cl2, NEW b \in B, NEW r,
         NEW D, Held(m, B, lv, cl), B \subseteq Int, ~Al(m, b),
         \A l \in lv : l.pos \in Int,
         \A u \in Threads : ~Frees(cl[u]) /\ ~Frees(cl2[u]),
         SameBut(m, n, B, {b}), Al(n, b), r <= Sz(n, b), \A d \in D : ~Al(n, d)
  PROVE  Held(n, B \cup D, lv \cup {[pos |-> b + 4, size |-> r]}, cl2)
  <1> DEFINE new == [pos |-> b + 4, size |-> r]
  <1>1. new.pos = b + 4 /\ new.size = r /\ new.pos - 4 = b /\ new.pos \in Int
    OBVIOUS
  <1> HIDE DEF new
  <1>2. ASSUME NEW l \in lv
        PROVE  /\ l.pos \in Int /\ l.pos - 4 \in B /\ l.pos - 4 # b
               /\ Al(n, l.pos - 4) /\ l.size <= Sz(n, l.pos - 4)
    <2>1. l.pos - 4 \in B /\ Al(m, l.pos - 4) /\ l.size <= Sz(m, l.pos - 4)
      BY DEF Held
    <2> QED
      BY <2>1 DEF SameBut
  <1>3. \A l \in lv \cup {new} :
          l.pos - 4 \in B \cup D /\ Al(n, l.pos - 4) /\ l.size <= Sz(n, l.pos - 4)
    BY <1>1, <1>2
  <1>4. ASSUME NEW l \in lv \cup {new}, NEW k \in lv \cup {new}, l.pos = k.pos PROVE l = k
    BY <1>1, <1>2, <1>4 DEF Held
  <1>5. ASSUME NEW d \in B \cup D, Al(n, d)
        PROVE  \E l \in lv \cup {new} : l.pos - 4 = d
    <2>1. CASE d = b
      BY <1>1, <2>1
    <2>2. CASE d # b
      <3>1. d \in B /\ Al(m, d)
        BY <1>5, <2>2 DEF SameBut
      <3> QED
        BY <3>1 DEF Held
    <2> QED
      BY <2>1, <2>2
  <1>6. Held(n, B \cup D, lv \cup {new}, cl2)
    BY <1>3, <1>4, <1>5 DEF Held
  <1> QED
    BY <1>6 DEF new

\* A caller starts to give back l.
LEMMA HeldGive ==
  ASSUME NEW m, NEW B, NEW lv, NEW cl, NEW cl2, NEW l \in lv, NEW t \in Threads,
         Held(m, B, lv, cl), \A k \in lv : k.pos \in Int,
         ~Frees(cl[t]), Frees(cl2[t]), cl2[t].block = l.pos - 4,
         \A u \in Threads \ {t} : cl2[u] = cl[u]
  PROVE  Held(m, B, lv \ {l}, cl2)
  <1>1. l.pos - 4 \in B /\ Al(m, l.pos - 4)
    BY DEF Held
  <1>2. \A k \in lv \ {l} : k.pos - 4 # l.pos - 4
    BY DEF Held
  <1>3. \A u \in Threads : Frees(cl[u]) => cl[u].block # l.pos - 4
    BY DEF Held
  <1>4. ASSUME NEW u \in Threads, Frees(cl2[u])
        PROVE  /\ cl2[u].block \in B /\ Al(m, cl2[u].block)
               /\ \A k \in lv \ {l} : k.pos - 4 # cl2[u].block
    BY <1>1, <1>2, <1>4 DEF Held
  <1>5. ASSUME NEW u \in Threads, NEW v \in Threads, Frees(cl2[u]), Frees(cl2[v]),
               cl2[u].block = cl2[v].block
        PROVE  u = v
    BY <1>3, <1>5 DEF Held
  <1>6. ASSUME NEW b \in B, Al(m, b)
        PROVE  \/ \E k \in lv \ {l} : k.pos - 4 = b
               \/ \E u \in Threads : Frees(cl2[u]) /\ cl2[u].block = b
    BY <1>6 DEF Held
  <1> QED
    BY <1>4, <1>5, <1>6 DEF Held

\* The block that t gives back is free.
LEMMA HeldRelease ==
  ASSUME NEW m, NEW n, NEW B, NEW C \in SUBSET B, NEW lv, NEW cl, NEW cl2,
         NEW t \in Threads, Held(m, B, lv, cl), Frees(cl[t]),
         SameBut(m, n, B, {cl[t].block}), ~Al(n, cl[t].block),
         \A c \in B \ C : ~Al(m, c),
         ~Frees(cl2[t]), \A u \in Threads \ {t} : cl2[u] = cl[u]
  PROVE  Held(n, C, lv, cl2)
  <1> DEFINE b == cl[t].block
  <1>1. ASSUME NEW l \in lv
        PROVE  l.pos - 4 \in C /\ Al(n, l.pos - 4) /\ l.size <= Sz(n, l.pos - 4)
    <2>1. /\ l.pos - 4 \in B /\ Al(m, l.pos - 4) /\ l.size <= Sz(m, l.pos - 4)
          /\ l.pos - 4 # b
      BY DEF Held
    <2> QED
      BY <2>1 DEF SameBut
  <1>2. ASSUME NEW u \in Threads, Frees(cl2[u])
        PROVE  /\ u # t /\ cl2[u].block \in C /\ Al(n, cl2[u].block)
               /\ \A l \in lv : l.pos - 4 # cl2[u].block
    <2>1. u # t /\ cl2[u] = cl[u]
      BY <1>2
    <2>2. /\ cl[u].block \in B /\ Al(m, cl[u].block) /\ cl[u].block # b
          /\ \A l \in lv : l.pos - 4 # cl[u].block
      BY <1>2, <2>1 DEF Held
    <2> QED
      BY <2>1, <2>2 DEF SameBut
  <1>3. ASSUME NEW u \in Threads, NEW v \in Threads, Frees(cl2[u]), Frees(cl2[v]),
               cl2[u].block = cl2[v].block
        PROVE  u = v
    BY <1>2, <1>3 DEF Held
  <1>4. ASSUME NEW c \in C, Al(n, c)
        PROVE  \/ \E l \in lv : l.pos - 4 = c
               \/ \E u \in Threads : Frees(cl2[u]) /\ cl2[u].block = c
    <2>1. c \in B /\ c # b /\ Al(m, c)
      BY <1>4 DEF SameBut
    <2>2. \/ \E l \in lv : l.pos - 4 = c
          \/ \E u \in Threads : Frees(cl[u]) /\ cl[u].block = c
      BY <2>1 DEF Held
    <2> QED
      BY <2>1, <2>2
  <1>5. \A l, k \in lv : l.pos = k.pos => l = k
    BY DEF Held
  <1> QED
    BY <1>1, <1>2, <1>3, <1>4, <1>5 DEF Held

--------------------------------------------------------------------------------
(* The steps.                                                                *)

\* What the type invariant says of live.
LEMMA LiveType ==
  ASSUME TypeInv, NEW l \in live
  PROVE  l.pos \in Int /\ l.pos - 4 \in Headers /\ l.size \in Sizes
  <1>1. l \in [pos : {b + 4 : b \in Headers}, size : Sizes]
    BY DEF TypeInv, TypeOK
  <1>2. PICK b \in Headers : l.pos = b + 4
    BY <1>1
  <1>3. b \in Int
    BY HeaderSet
  <1>4. l.pos \in Int /\ l.pos - 4 = b
    BY <1>2, <1>3
  <1> QED
    BY <1>1, <1>4

\* A step that only reads, and changes a call that holds nothing.
LEMMA ReadOnly ==
  ASSUME Inv, NEW t \in Threads, NEW c, call' = [call EXCEPT ![t] = c],
         ~Frees(call[t]), ~Frees(c), ~Resting(call[t]), ~Resting(c),
         UNCHANGED <<mem, live, damage, lost>>,
         \A B : Tiled(mem, B) /\ Knows(mem, B, call[t]) => Knows(mem, B, c)
  PROVE  damage' = 0 => Clean'
  <1> SUFFICES ASSUME damage = 0 PROVE Clean'
    OBVIOUS
  <1>1. Clean /\ call \in [Threads -> Calls]
    BY DEF Inv, TypeInv, TypeOK
  <1>2. call'[t] = c /\ \A u \in Threads \ {t} : call'[u] = call[u]
    BY <1>1
  <1>3. \A u \in Threads : Resting(call'[u]) => u # t /\ Resting(call[u]) /\ call'[u] = call[u]
    BY <1>2
  <1>4. \A u \in Threads : Resting(call[u]) => Resting(call'[u])
    BY <1>2
  <1>5. \A m, B : Held(m, B, live, call) => Held(m, B, live', call')
    BY <1>2, HeldFrame
  <1>6. ASSUME \A u \in Threads : ~Resting(call'[u])
        PROVE  ~lost' /\ Whole(mem', live', call')
    <2>1. ~lost /\ Whole(mem, live, call)
      BY <1>1, <1>4, <1>6 DEF Clean
    <2>2. PICK B : /\ Tiled(mem, B) /\ Held(mem, B, live, call)
                   /\ \A u \in Threads : Knows(mem, B, call[u])
      BY <2>1 DEF Whole
    <2>3. \A u \in Threads : Knows(mem, B, call'[u])
      BY <1>2, <2>2
    <2> QED
      BY <1>5, <2>1, <2>2, <2>3 DEF Whole
  <1>7. ASSUME NEW u \in Threads, Resting(call'[u])
        PROVE  Mending(mem', live', call', call'[u])
    <2>1. Mending(mem, live, call, call[u]) /\ call'[u] = call[u]
      BY <1>1, <1>3, <1>7 DEF Clean
    <2> QED
      BY <1>5, <2>1 DEF Mending
  <1>8. \A u, v \in Threads : Resting(call'[u]) /\ Resting(call'[v]) => u = v
    BY <1>1, <1>3 DEF Clean
  <1> QED
    BY <1>6, <1>7, <1>8 DEF Clean, Resting

\* A walk starts at kHeapStart.
LEMMA AllocStep ==
  ASSUME Inv, NEW t \in Threads, NEW r \in Sizes, alloc(t, r)
  PROVE  Inv'
  <1> DEFINE c == [in |-> "alloc", at |-> "walk", request |-> r, cur |-> kHeapStart]
  <1>1. /\ call[t] = None /\ call' = [call EXCEPT ![t] = c]
        /\ UNCHANGED <<mem, live, damage, lost>>
    BY DEF alloc, Locals
  <1>2. kHeapStart \in Words
    BY Bounds DEF Words
  <1>3. c \in Calls /\ Even(c)
    BY <1>2 DEF Calls, Even
  <1>4. TypeInv'
    BY <1>1, <1>3, TypeStep DEF Inv, TypeInv, TypeOK, Mems, Halves
  <1>5. ~Frees(call[t]) /\ ~Frees(c) /\ ~Resting(call[t]) /\ ~Resting(c)
    BY <1>1 DEF Frees, Resting, None
  <1>6. \A B : Tiled(mem, B) => Knows(mem, B, c)
    BY DEF Tiled, Knows, Frees
  <1> HIDE DEF c
  <1> QED
    BY <1>1, <1>4, <1>5, <1>6, ReadOnly DEF Inv

\* A walk goes from block to block.
LEMMA WalkStep ==
  ASSUME Inv, NEW t \in Threads, AllocWalk(t)
  PROVE  Inv'
  <1> DEFINE c == call[t]
  <1>1. TypeInv /\ c \in Calls /\ c.in = "alloc" /\ c.at = "walk" /\ UNCHANGED <<mem, live, damage>>
    BY DEF Inv, TypeInv, TypeOK, AllocWalk
  <1>2. /\ c.cur \in Words /\ c.request \in Sizes
        /\ c = [in |-> "alloc", at |-> "walk", request |-> c.request, cur |-> c.cur]
    BY <1>1, CallParts
  <1>3. ~Frees(c) /\ ~Resting(c)
    BY <1>1 DEF Frees, Resting
  <1> HIDE DEF c
  <1>4. CASE c.cur = kHeapEnd
    <2>1. call' = [call EXCEPT ![t] = None] /\ UNCHANGED lost
      BY <1>4, Constants, HeaderSet DEF AllocWalk, Locals, c
    <2>2. None \in Calls /\ Even(None) /\ ~Frees(None) /\ ~Resting(None)
      BY DEF Calls, Even, None, Frees, Resting
    <2>3. \A B : Knows(mem, B, None)
      BY DEF Knows, None, Frees
    <2>4. TypeInv'
      BY <1>1, <2>1, <2>2, TypeStep DEF TypeInv, TypeOK, Mems, Halves
    <2> QED
      BY <1>1, <1>3, <2>1, <2>2, <2>3, <2>4, ReadOnly DEF Inv, c
  <1>5. CASE c.cur # kHeapEnd /\ c.cur \notin Headers
    <2>1. lost' = TRUE /\ UNCHANGED call
      BY <1>5 DEF AllocWalk, c
    <2>2. TypeInv'
      BY <1>1, <2>1 DEF TypeInv, TypeOK, Even
    <2>3. ASSUME damage = 0 PROVE Clean'
      <3>1. Clean
        BY <2>3 DEF Inv
      <3>2. \E u \in Threads : Resting(call[u])
        <4> SUFFICES ASSUME \A u \in Threads : ~Resting(call[u]) PROVE FALSE
          OBVIOUS
        <4>1. PICK B : Tiled(mem, B) /\ Knows(mem, B, c)
          BY <3>1 DEF Clean, Whole, c
        <4> QED
          BY <1>1, <1>5, <4>1 DEF Tiled, Knows
      <3> QED
        BY <1>1, <2>1, <3>1, <3>2 DEF Clean, Resting
    <2> QED
      BY <1>1, <2>2, <2>3 DEF Inv
  <1>6. CASE c.cur \in Headers \ {kHeapEnd}
    <2> DEFINE f == [in |-> "alloc", at |-> "take", request |-> c.request,
                     cur |-> c.cur, found |-> size_of_block(c.cur)]
               g == [c EXCEPT !.cur = next_block(c.cur)]
    <2>1. /\ UNCHANGED lost
          /\ call' = [call EXCEPT ![t] = IF Fits(c.cur, Aligned(c.request)) THEN f ELSE g]
      BY <1>6 DEF AllocWalk, Locals, c
    <2>2. /\ size_of_block(c.cur) = Sz(mem, c.cur) /\ (is_allocated(c.cur) <=> Al(mem, c.cur))
          /\ next_block(c.cur) = (c.cur + Sz(mem, c.cur) + 4) % WORD
          /\ next_block(c.cur) \in Words /\ Sz(mem, c.cur) \in Evens
      BY <1>1, <1>6, Reads, HeaderType
    <2>3. /\ f.in = "alloc" /\ f.at = "take" /\ f.request = c.request /\ f.cur = c.cur
          /\ f.found = size_of_block(c.cur)
      OBVIOUS
    <2>4. f \in Calls /\ Even(f) /\ ~Frees(f) /\ ~Resting(f)
      <3>1. size_of_block(c.cur) \in Words /\ size_of_block(c.cur) \in Evens
        BY <2>2 DEF Evens
      <3> QED
        BY <1>2, <1>6, <3>1 DEF Calls, Even, Frees, Resting
    <2>5. g = [in |-> "alloc", at |-> "walk", request |-> c.request, cur |-> next_block(c.cur)]
      BY <1>2
    <2>6. g \in Calls /\ Even(g) /\ ~Frees(g) /\ ~Resting(g)
      BY <1>2, <2>2, <2>5 DEF Calls, Even, Frees, Resting
    <2>7. ASSUME NEW B, Tiled(mem, B), Knows(mem, B, c)
          PROVE  /\ Fits(c.cur, Aligned(c.request)) => Knows(mem, B, f)
                 /\ Knows(mem, B, g)
      <3>1. c.cur \in B
        BY <1>1, <1>6, <2>7 DEF Knows
      <3>2. next_block(c.cur) = After(mem, c.cur)
        BY <1>1, <1>6, <2>2, <2>7, <3>1, Reads, TiledNext
      <3>3. next_block(c.cur) \in B \cup {kHeapEnd}
        BY <2>7, <3>1, <3>2 DEF Tiled
      <3>4. Knows(mem, B, g)
        BY <2>5, <3>3 DEF Knows, Frees
      <3>5. ASSUME Fits(c.cur, Aligned(c.request)) PROVE Knows(mem, B, f)
        BY <2>2, <3>1, <3>5 DEF Knows, Frees, Fits
      <3> QED
        BY <3>4, <3>5
    <2> HIDE DEF f, g
    <2>8. CASE Fits(c.cur, Aligned(c.request))
      <3>1. call' = [call EXCEPT ![t] = f]
        BY <2>1, <2>8
      <3>2. TypeInv'
        BY <1>1, <2>1, <2>4, <3>1, TypeStep DEF TypeInv, TypeOK, Mems, Halves
      <3> QED
        BY <1>1, <1>3, <2>1, <2>4, <2>7, <2>8, <3>1, <3>2, ReadOnly DEF Inv, c
    <2>9. CASE ~Fits(c.cur, Aligned(c.request))
      <3>1. call' = [call EXCEPT ![t] = g]
        BY <2>1, <2>9
      <3>2. TypeInv'
        BY <1>1, <2>1, <2>6, <3>1, TypeStep DEF TypeInv, TypeOK, Mems, Halves
      <3> QED
        BY <1>1, <1>3, <2>1, <2>6, <2>7, <3>1, <3>2, ReadOnly DEF Inv, c
    <2> QED
      BY <2>8, <2>9
  <1> QED
    BY <1>4, <1>5, <1>6, Constants

\* Recording a header again overwrites it.
LEMMA RecordTwice ==
  ASSUME NEW m, NEW b, NEW s, NEW a, NEW s2, NEW a2
  PROVE  record(record(m, b, s, a), b, s2, a2) = record(m, b, s2, a2)
  BY DEF record

\* A remainder of at least nothing is the difference of the sizes; one below
\* nothing wraps around, to more than the block that was found.
LEMMA RestSize ==
  ASSUME NEW f \in Nat, NEW s \in Nat, s <= f, f + 4 < WORD
  PROVE  /\ s + 4 <= f => remain_size(f, s) = f - 4 - s
         /\ ~(s + 4 <= f) => remain_size(f, s) > f
  <1> DEFINE x == f - 4 - s
             q == x \div WORD
             r == x % WORD
  <1>1. ASSUME s + 4 <= f PROVE remain_size(f, s) = x
    <2>1. x \in 0..(WORD - 1)
      BY <1>1, Bounds
    <2> QED
      BY <2>1, SmallRemainder, Bounds DEF remain_size
  <1>2. ASSUME ~(s + 4 <= f) PROVE r > f
    <2>1. x \in Int /\ x < 0 /\ -4 <= x /\ x + s = f - 4
      BY <1>2
    <2> HIDE DEF x
    <2>2. q \in Int /\ r \in 0..(WORD - 1) /\ x = WORD * q + r
      BY <2>1, DivMod, Bounds
    <2> HIDE DEF q, r
    <2>3. q < 0
      <3> SUFFICES ASSUME q >= 0 PROVE FALSE
        BY <2>2
      <3>1. WORD * q >= 0 /\ WORD * q \in Int
        BY <2>2, Bounds
      <3> QED
        BY <2>1, <2>2, <3>1, Bounds
    <2>4. WORD * q <= -WORD /\ WORD * q \in Int
      <3>1. q <= -1
        BY <2>2, <2>3
      <3>2. WORD * q <= WORD * (-1)
        BY <2>2, <3>1, Bounds
      <3> QED
        BY <2>2, <3>2, Bounds
    <2> DEFINE p == WORD * q
    <2>5. p \in Int /\ p <= -WORD /\ x = p + r /\ r \in Int
      BY <2>2, <2>4, Bounds
    <2> HIDE DEF p
    <2>6. r >= WORD - 4
      BY <2>1, <2>5, Bounds
    <2> QED
      BY <2>5, <2>6, Bounds
  <1> QED
    BY <1>1, <1>2 DEF remain_size

\* If t does not overlap, nobody else is in an alloc, and if t is in one,
\* nobody else is in a call.
LEMMA NoOverlap ==
  ASSUME TypeInv, NEW t \in Threads, ~Overlap(t), call[t].in # "none", NEW u \in Threads \ {t}
  PROVE  /\ call[u].in # "alloc"
         /\ call[t].in = "alloc" => call[u] = None
  <1>1. call[u] \in Calls
    BY DEF TypeInv, TypeOK
  <1> QED
    BY <1>1, CallParts DEF Overlap

\* None is a call that holds and knows nothing.
LEMMA NoneFacts ==
  /\ None \in Calls /\ Even(None) /\ ~Frees(None) /\ ~Resting(None)
  /\ None.in = "none" /\ \A m, B : Knows(m, B, None)
  BY DEF Calls, Even, None, Frees, Resting, Knows

\* The block found is cut or taken whole.
LEMMA TakeStep ==
  ASSUME Inv, damage < MaxDamage, ~lost, NEW t \in Threads, AllocTake(t)
  PROVE  Inv'
  <1> DEFINE c == call[t]
             size == Aligned(c.request)
             cut == remain_size(c.found, size) > 0
             new == [pos |-> c.cur + 4, size |-> c.request]
             rest == [c EXCEPT !.at = "rest"]
             now == Overlap(t)
  <1>1. /\ TypeInv /\ c \in Calls /\ c.in = "alloc" /\ c.at = "take"
        /\ call \in [Threads -> Calls] /\ lost' = lost
    BY DEF Inv, TypeInv, TypeOK, AllocTake
  <1>2. /\ c.cur \in Headers /\ c.request \in Sizes /\ c.found \in Evens
        /\ c = [in |-> "alloc", at |-> "take", request |-> c.request,
                 cur |-> c.cur, found |-> c.found]
    BY <1>1, CallParts DEF TypeInv, Even
  <1>3. /\ mem' = record(mem, c.cur, IF cut THEN size ELSE c.found, 1)
        /\ live' = live \cup {new}
        /\ call' = [call EXCEPT ![t] = IF cut THEN rest ELSE None]
    BY DEF AllocTake, Locals, kAllocated
  <1>4. Damaged(now)
    BY DEF AllocTake
  <1>5. size \in Evens /\ c.request \in Nat /\ c.request <= size
    BY <1>2, AlignedUp
  <1>6. now \in BOOLEAN
    BY DEF Overlap
  <1>7. damage' \in 0..MaxDamage /\ (damage' = 0 => damage = 0 /\ ~now)
    BY <1>1, <1>4, <1>6, DamageType
  <1>8. /\ rest = [in |-> "alloc", at |-> "rest", request |-> c.request,
                    cur |-> c.cur, found |-> c.found]
        /\ rest.in = "alloc" /\ rest.at = "rest" /\ rest.request = c.request
        /\ rest.cur = c.cur /\ rest.found = c.found
    BY <1>2
  <1>9. rest \in Calls /\ Even(rest) /\ Resting(rest) /\ ~Frees(rest)
    <2>1. c.found \in Words
      BY <1>2 DEF Evens
    <2> QED
      BY <1>2, <1>8, <2>1 DEF Calls, Even, Resting, Frees
  <1>10. mem \in Mems
    BY <1>1 DEF TypeInv, TypeOK, Mems, Halves
  <1> HIDE DEF c, rest, now
  <1>11. TypeInv'
    <2>1. mem' \in Mems
      BY <1>2, <1>3, <1>5, <1>10, RecordType
    <2>2. new \in [pos : {b + 4 : b \in Headers}, size : Sizes]
      BY <1>2
    <2>3. live' \subseteq [pos : {b + 4 : b \in Headers}, size : Sizes]
      BY <1>1, <1>3, <2>2 DEF TypeInv, TypeOK
    <2>4. lost' \in BOOLEAN
      BY <1>1 DEF TypeInv, TypeOK
    <2>5. (IF cut THEN rest ELSE None) \in Calls /\ Even(IF cut THEN rest ELSE None)
      BY <1>9, NoneFacts
    <2> QED
      BY <1>1, <1>3, <1>7, <2>1, <2>3, <2>4, <2>5, TypeStep
  <1>12. ASSUME damage' = 0 PROVE Clean'
    <2>1. damage = 0 /\ ~Overlap(t) /\ Clean
      BY <1>7, <1>12 DEF Inv, now
    <2>2. \A u \in Threads \ {t} : call[u] = None
      BY <1>1, <2>1, NoOverlap DEF c
    <2>3. \A u \in Threads : ~Resting(call[u]) /\ ~Frees(call[u])
      BY <1>1, <2>2, NoneFacts DEF Resting, Frees, c
    <2>4. PICK B : Tiled(mem, B) /\ Held(mem, B, live, call) /\ Knows(mem, B, c)
      BY <2>1, <2>3 DEF Clean, Whole, c
    <2>5. c.cur \in B /\ ~Al(mem, c.cur) /\ c.found = Sz(mem, c.cur) /\ size <= c.found
      BY <1>1, <2>4 DEF Knows
    <2>6. /\ c.cur \in Int /\ c.found \in Nat /\ size \in Nat
          /\ kHeapStart <= c.cur /\ c.cur + c.found + 4 <= kHeapEnd
      BY <1>5, <1>10, <2>4, <2>5, TiledNext, Bounds DEF Evens, Words
    <2>7. B \subseteq Int /\ \A l \in live : l.pos \in Int
      BY <1>1, LiveType, HeaderSet, <2>4 DEF Tiled
    <2>8. \A u \in Threads \ {t} : call'[u] = None
      BY <1>1, <1>3, <2>2
    <2>9. call'[t] = IF cut THEN rest ELSE None
      BY <1>1, <1>3
    <2>10. \A u \in Threads : ~Frees(call'[u])
      BY <1>9, <2>8, <2>9, NoneFacts
    <2>11. \A u \in Threads : Resting(call'[u]) => u = t
      BY <2>8, NoneFacts
    <2> HIDE DEF size
    <2> DEFINE whole == record(mem, c.cur, c.found, 1)
    <2>12. Tiled(whole, B) /\ Held(whole, B, live', call')
      <3>1. /\ Tiled(whole, B) /\ SameBut(mem, whole, B, {c.cur})
            /\ Sz(whole, c.cur) = c.found /\ Al(whole, c.cur)
        BY <1>10, <2>4, <2>5, Mark
      <3> HIDE DEF whole
      <3>2. c.request <= Sz(whole, c.cur)
        BY <1>5, <2>5, <2>6, <3>1
      <3>3. Held(whole, B \cup {}, live \cup {new}, call')
        BY <2>3, <2>4, <2>5, <2>7, <2>10, <3>1, <3>2, HeldTake
      <3>4. B \cup {} = B
        OBVIOUS
      <3> QED
        BY <1>3, <3>1, <3>3, <3>4
    <2>13. CASE ~cut
      <3>1. mem' = whole /\ call'[t] = None
        BY <1>3, <2>9, <2>13
      <3>2. \A u \in Threads : ~Resting(call'[u]) /\ Knows(mem', B, call'[u])
        BY <2>8, <3>1, NoneFacts
      <3>3. Whole(mem', live', call')
        BY <2>12, <3>1, <3>2 DEF Whole
      <3> QED
        BY <1>1, <2>11, <3>2, <3>3 DEF Clean, Resting
    <2>14. CASE cut
      <3>1. call'[t] = rest /\ mem' = record(mem, c.cur, size, 1)
        BY <1>3, <2>9, <2>14
      <3>2. Rest(rest) = remain_size(c.found, size)
        BY <1>8 DEF Rest, size
      <3>3. Mending(mem', live', call', rest)
        <4>1. c.found + 4 < WORD
          BY <2>6, Bounds
        <4>2. CASE size + 4 <= c.found
          <5> DEFINE d == c.cur + size + 4
                     r == c.found - 4 - size
                     n == record(mem', d, r, 0)
          <5>1. remain_size(c.found, size) = r
            BY <2>5, <2>6, <4>1, <4>2, RestSize
          <5>2. ~(r > c.found)
            BY <2>6
          <5>3. d \in 0..(WORD - 1)
            BY <2>6, <4>2, Bounds
          <5>4. slice_block(c.cur, size) = d
            BY <5>3, SmallRemainder, Bounds DEF slice_block
          <5>5. Final(mem', rest) = n
            BY <1>8, <3>2, <5>1, <5>2, <5>4 DEF Final, kFree, size
          <5>6. size + 4 <= Sz(mem, c.cur) /\ r = Sz(mem, c.cur) - 4 - size
            BY <2>5, <4>2
          <5>7. /\ Tiled(n, B \cup {d}) /\ d \notin B /\ SameBut(mem, n, B, {c.cur})
                /\ Sz(n, c.cur) = size /\ Al(n, c.cur) /\ ~Al(n, d)
            BY <1>5, <1>10, <2>4, <2>5, <3>1, <5>6, Cut
          <5> HIDE DEF n, d
          <5>8. Held(n, B \cup {d}, live \cup {new}, call')
            BY <1>5, <2>3, <2>4, <2>5, <2>7, <2>10, <5>7, HeldTake
          <5> QED
            BY <1>3, <5>5, <5>7, <5>8 DEF Mending
        <4>3. CASE ~(size + 4 <= c.found)
          <5>1. Rest(rest) > c.found
            BY <2>5, <2>6, <3>2, <4>1, <4>3, RestSize
          <5>2. Final(mem', rest) = record(mem', c.cur, c.found, 1)
            BY <1>8, <5>1 DEF Final, kAllocated
          <5>3. Final(mem', rest) = whole
            BY <3>1, <5>2, RecordTwice
          <5> QED
            BY <2>12, <5>3 DEF Mending
        <4> QED
          BY <4>2, <4>3
      <3>4. Resting(call'[t])
        BY <1>9, <3>1
      <3> QED
        BY <2>11, <3>1, <3>3, <3>4 DEF Clean, Resting
    <2> QED
      BY <2>13, <2>14
  <1> QED
    BY <1>11, <1>12 DEF Inv

\* The remainder is recorded: memory is what Mending promised.
LEMMA RestStep ==
  ASSUME Inv, damage < MaxDamage, ~lost, NEW t \in Threads, AllocRest(t)
  PROVE  Inv'
  <1> DEFINE c == call[t]
             size == Aligned(c.request)
             rest == remain_size(c.found, size)
             now == Overlap(t) \/ rest > c.found
  <1>1. /\ TypeInv /\ c \in Calls /\ c.in = "alloc" /\ c.at = "rest"
        /\ call \in [Threads -> Calls] /\ UNCHANGED <<live, lost>>
    BY DEF Inv, TypeInv, TypeOK, AllocRest
  <1>2. c.request \in Sizes /\ c.found \in Evens
    BY <1>1, CallParts DEF TypeInv, Even
  <1>3. /\ mem' = record(mem, slice_block(c.cur, size), rest, 0)
        /\ call' = [call EXCEPT ![t] = None]
    BY DEF AllocRest, Locals, kFree
  <1>4. Damaged(now)
    BY DEF AllocRest
  <1>5. rest \in Evens
    BY <1>2, AlignedUp, RestType
  <1>6. now \in BOOLEAN
    BY DEF Overlap
  <1>7. damage' \in 0..MaxDamage /\ (damage' = 0 => damage = 0 /\ ~now)
    BY <1>1, <1>4, <1>6, DamageType
  <1>8. mem \in Mems
    BY <1>1 DEF TypeInv, TypeOK, Mems, Halves
  <1>9. TypeInv'
    <2>1. mem' \in Mems
      BY <1>3, <1>5, <1>8, RecordType
    <2> QED
      BY <1>1, <1>3, <1>7, <2>1, NoneFacts, TypeStep DEF TypeInv, TypeOK
  <1>10. ASSUME damage' = 0 PROVE Clean'
    <2>1. damage = 0 /\ ~Overlap(t) /\ ~(rest > c.found) /\ Clean
      BY <1>7, <1>10 DEF Inv
    <2>2. \A u \in Threads \ {t} : call[u] = None
      BY <1>1, <2>1, NoOverlap
    <2>3. \A u \in Threads : call'[u] = None
      BY <1>1, <1>3, <2>2
    <2>4. Resting(c) /\ Mending(mem, live, call, c)
      BY <1>1, <2>1 DEF Clean, Resting
    <2>5. Final(mem, c) = mem'
      BY <1>3, <2>1 DEF Final, Rest, kFree
    <2>6. PICK B : Tiled(mem', B) /\ Held(mem', B, live, call)
      BY <2>4, <2>5 DEF Mending
    <2>7. \A u \in Threads : ~Frees(call[u]) /\ ~Frees(call'[u])
      BY <1>1, <2>2, <2>3, NoneFacts DEF Frees
    <2>8. Held(mem', B, live', call')
      BY <1>1, <2>6, <2>7, HeldFrame
    <2>9. \A u \in Threads : ~Resting(call'[u]) /\ Knows(mem', B, call'[u])
      BY <2>3, NoneFacts
    <2>10. Whole(mem', live', call')
      BY <2>6, <2>8, <2>9 DEF Whole
    <2> QED
      BY <1>1, <2>9, <2>10 DEF Clean, Resting
  <1> QED
    BY <1>9, <1>10 DEF Inv

\* A caller starts to give back l; free has read whether the next block is free.
LEMMA FreeStep ==
  ASSUME Inv, ~lost, NEW t \in Threads, NEW l \in live, free(t, l)
  PROVE  Inv'
  <1> DEFINE block == l.pos - 4
             g == Merges(block)
             c == [in |-> "free", block |-> block, merge |-> g]
  <1>1. /\ TypeInv /\ call[t] = None /\ call \in [Threads -> Calls]
        /\ UNCHANGED <<mem, damage>>
    BY DEF Inv, TypeInv, TypeOK, free
  <1>2. block \in Headers /\ \A k \in live : k.pos \in Int
    BY <1>1, LiveType
  <1>3. mem \in Mems /\ next_block(block) = (block + Sz(mem, block) + 4) % WORD
    BY <1>1, <1>2, Reads
  <1>4. CASE next_block(block) \notin Headers
    <2>1. lost' = TRUE /\ UNCHANGED <<call, live>>
      BY <1>4 DEF free
    <2>2. TypeInv'
      BY <1>1, <2>1 DEF TypeInv, TypeOK, Even
    <2>3. ASSUME damage = 0 PROVE Clean'
      <3>1. Clean
        BY <2>3 DEF Inv
      <3>2. \E u \in Threads : Resting(call[u])
        <4> SUFFICES ASSUME \A u \in Threads : ~Resting(call[u]) PROVE FALSE
          OBVIOUS
        <4>1. PICK B : Tiled(mem, B) /\ Held(mem, B, live, call)
          BY <3>1 DEF Clean, Whole
        <4>2. block \in B
          BY <4>1 DEF Held
        <4>3. next_block(block) \in Headers
          BY <1>3, <4>1, <4>2, TiledNext
        <4> QED
          BY <1>4, <4>3
      <3> QED
        BY <1>1, <2>1, <3>1, <3>2 DEF Clean, Resting
    <2> QED
      BY <1>1, <2>2, <2>3 DEF Inv
  <1>5. CASE next_block(block) \in Headers
    <2>1. call' = [call EXCEPT ![t] = c] /\ live' = live \ {l} /\ UNCHANGED lost
      BY <1>5 DEF free, Locals
    <2>2. g \in BOOLEAN /\ (g <=> ~Al(mem, next_block(block)))
      BY <1>1, <1>5, Reads DEF Merges, is_allocated
    <2> HIDE DEF block, g
    <2>3. /\ c.in = "free" /\ c.block = block /\ c.merge = g
          /\ c \in Calls /\ Even(c) /\ Frees(c) /\ ~Resting(c)
      BY <1>2, <2>2 DEF Calls, Even, Frees, Resting
    <2> HIDE DEF c
    <2>4. TypeInv'
      BY <1>1, <2>1, <2>3, TypeStep DEF TypeInv, TypeOK, Mems, Halves
    <2>5. call'[t] = c /\ \A u \in Threads \ {t} : call'[u] = call[u]
      BY <1>1, <2>1
    <2>6. \A u \in Threads : Resting(call'[u]) => Resting(call[u]) /\ call'[u] = call[u]
      BY <2>3, <2>5
    <2>7. \A u \in Threads : Resting(call[u]) => Resting(call'[u])
      BY <1>1, <2>5, NoneFacts
    <2>8. ASSUME NEW m, NEW B, Held(m, B, live, call) PROVE Held(m, B, live', call')
      <3>1. ~Frees(call[t]) /\ Frees(call'[t]) /\ call'[t].block = l.pos - 4
        BY <1>1, <2>3, <2>5, NoneFacts DEF block
      <3> QED
        BY <1>2, <2>1, <2>5, <2>8, <3>1, HeldGive
    <2>9. ASSUME damage = 0 PROVE Clean'
      <3>1. Clean
        BY <2>9 DEF Inv
      <3>2. ASSUME \A u \in Threads : ~Resting(call'[u])
            PROVE  ~lost' /\ Whole(mem', live', call')
        <4>1. PICK B : /\ Tiled(mem, B) /\ Held(mem, B, live, call)
                       /\ \A u \in Threads : Knows(mem, B, call[u])
          BY <2>7, <3>1, <3>2 DEF Clean, Whole
        <4>2. block \in B
          BY <4>1 DEF Held, block
        <4>3. next_block(block) = After(mem, block) /\ After(mem, block) \in B \cup {kHeapEnd}
          BY <1>3, <4>1, <4>2, TiledNext DEF Tiled
        <4>4. Knows(mem, B, c)
          BY <2>2, <2>3, <4>3 DEF Knows
        <4>5. \A u \in Threads : Knows(mem, B, call'[u])
          BY <2>5, <4>1, <4>4
        <4>6. Held(mem, B, live', call')
          BY <2>8, <4>1
        <4> QED
          BY <1>1, <2>1, <4>1, <4>5, <4>6 DEF Whole
      <3>3. ASSUME NEW u \in Threads, Resting(call'[u])
            PROVE  Mending(mem', live', call', call'[u])
        <4>1. Mending(mem, live, call, call[u]) /\ call'[u] = call[u]
          BY <2>6, <3>1, <3>3 DEF Clean
        <4> QED
          BY <1>1, <2>8, <4>1 DEF Mending
      <3>4. \A u, v \in Threads : Resting(call'[u]) /\ Resting(call'[v]) => u = v
        BY <2>6, <3>1 DEF Clean
      <3> QED
        BY <3>2, <3>3, <3>4 DEF Clean, Resting
    <2> QED
      BY <1>1, <2>4, <2>9 DEF Inv
  <1> QED
    BY <1>4, <1>5

\* Two blocks do not end at the same place.
LEMMA TiledEnds ==
  ASSUME NEW m \in Mems, NEW B, Tiled(m, B), NEW b \in B, NEW c \in B, b # c
  PROVE  After(m, b) # After(m, c)
  <1>1. b < c => After(m, b) <= c
    BY DEF Tiled
  <1>2. c < b => After(m, c) <= b
    BY DEF Tiled
  <1>3. /\ b \in Int /\ Sz(m, b) \in Nat /\ After(m, b) = b + Sz(m, b) + 4
        /\ c \in Int /\ Sz(m, c) \in Nat /\ After(m, c) = c + Sz(m, c) + 4
    BY TiledNext
  <1> QED
    BY <1>1, <1>2, <1>3

\* The block is recorded free, with the one behind it if that was free.
LEMMA FreeRecordStep ==
  ASSUME Inv, damage < MaxDamage, ~lost, NEW t \in Threads, FreeRecord(t)
  PROVE  Inv'
  <1> DEFINE c == call[t]
             b == c.block
             next == next_block(b)
             size == IF c.merge THEN (size_of_block(b) + 4 + size_of_block(next)) % WORD
                     ELSE size_of_block(b)
             out == c.merge /\ next \notin Headers
             now == Overlap(t) \/ (c.merge /\ next = kHeapEnd)
  <1>1. /\ TypeInv /\ c \in Calls /\ c.in = "free" /\ call \in [Threads -> Calls]
        /\ UNCHANGED live
    BY DEF Inv, TypeInv, TypeOK, FreeRecord
  <1>2. b \in Headers /\ c.merge \in BOOLEAN
    BY <1>1, CallParts
  <1>3. mem \in Mems /\ size_of_block(b) = Sz(mem, b) /\ next = (b + Sz(mem, b) + 4) % WORD
    BY <1>1, <1>2, Reads
  <1>4. now \in BOOLEAN
    BY <1>2 DEF Overlap
  <1>5. damage' \in 0..MaxDamage /\ (damage' = 0 => damage = 0 /\ ~now)
    <2>1. Damaged(now)
      BY DEF FreeRecord
    <2> QED
      BY <1>1, <1>4, <2>1, DamageType
  <1>6. IF out THEN lost' = TRUE /\ UNCHANGED <<mem, call>>
        ELSE /\ mem' = record(mem, b, size, 0)
             /\ call' = [call EXCEPT ![t] = None]
             /\ lost' = lost
    BY DEF FreeRecord, Locals, kFree
  <1>7. TypeInv'
    <2>1. CASE out
      BY <1>1, <1>5, <1>6, <2>1 DEF TypeInv, TypeOK, Even
    <2>2. CASE ~out
      <3>1. size \in Evens
        <4>1. CASE c.merge
          <5>1. next \in Headers
            BY <2>2, <4>1
          <5>2. Sz(mem, b) \in Evens /\ Sz(mem, next) \in Evens /\ size_of_block(next) = Sz(mem, next)
            BY <1>1, <1>2, <1>3, <5>1, Reads, HeaderType
          <5> DEFINE p == Sz(mem, b)
                     q == Sz(mem, next)
                     x == p + 4 + q
          <5>3. p \in Int /\ q \in Int /\ p % 2 = 0 /\ q % 2 = 0
            BY <5>2, Bounds DEF Evens, Words
          <5> HIDE DEF p, q
          <5>4. x \in Int /\ x % 2 = 0
            BY <5>3
          <5> HIDE DEF x
          <5>5. x % WORD \in 0..(WORD - 1) /\ (x % WORD) % 2 = 0
            BY <5>4, DivMod, EvenMod, Constants
          <5>6. size = x % WORD
            BY <1>3, <4>1, <5>2 DEF x, p, q
          <5> QED
            BY <5>5, <5>6 DEF Evens, Words
        <4>2. CASE ~c.merge
          BY <1>2, <1>3, <4>2, HeaderType
        <4> QED
          BY <4>1, <4>2
      <3>2. mem' \in Mems
        BY <1>3, <1>6, <2>2, <3>1, RecordType
      <3> HIDE DEF size, out
      <3>3. lost' \in BOOLEAN
        <4>1. lost' = lost
          BY <1>6, <2>2
        <4> QED
          BY <1>1, <4>1 DEF TypeInv, TypeOK
      <3> QED
        BY <1>1, <1>5, <1>6, <2>2, <3>2, <3>3, NoneFacts, TypeStep DEF TypeInv, TypeOK
    <2> QED
      BY <2>1, <2>2
  <1>8. ASSUME damage' = 0 PROVE Clean'
    <2>1. damage = 0 /\ ~Overlap(t) /\ ~(c.merge /\ next = kHeapEnd) /\ Clean
      BY <1>5, <1>8 DEF Inv
    <2>2. \A u \in Threads \ {t} : call[u].in # "alloc"
      BY <1>1, <2>1, NoOverlap
    <2>3. \A u \in Threads : ~Resting(call[u]) /\ call[u].in # "alloc"
      BY <1>1, <2>2 DEF Resting
    <2>4. PICK B : /\ Tiled(mem, B) /\ Held(mem, B, live, call)
                   /\ \A u \in Threads : Knows(mem, B, call[u])
      BY <2>1, <2>3 DEF Clean, Whole
    <2>5. Frees(c) /\ b \in B /\ Al(mem, b)
      BY <1>1, <2>4 DEF Held, Frees
    <2>6. next = After(mem, b) /\ next \in Headers
      BY <1>3, <2>4, <2>5, TiledNext
    <2>7. mem' = record(mem, b, size, 0) /\ call' = [call EXCEPT ![t] = None] /\ ~lost'
      BY <1>6, <2>6
    <2>8. call'[t] = None /\ \A u \in Threads \ {t} : call'[u] = call[u]
      BY <1>1, <2>7
    <2>9. \A u \in Threads : ~Resting(call'[u])
      BY <2>3, <2>8, NoneFacts
    <2>a. ASSUME NEW n, NEW C \in SUBSET B, Tiled(n, C), n = mem',
                 SameBut(mem, n, B, {b}), ~Al(n, b), \A d \in B \ C : ~Al(mem, d),
                 \A d \in B \ {b} : After(mem, d) \in B => After(mem, d) \in C
          PROVE  Clean'
      <3>1. Held(n, C, live', call')
        BY <1>1, <2>4, <2>5, <2>8, <2>a, NoneFacts, HeldRelease
      <3>2. ASSUME NEW u \in Threads PROVE Knows(n, C, call'[u])
        <4>1. CASE u = t
          BY <2>8, <4>1, NoneFacts
        <4>2. CASE u # t /\ ~Frees(call[u])
          BY <2>3, <2>8, <4>2 DEF Knows
        <4>3. CASE u # t /\ Frees(call[u])
          <5> DEFINE d == call[u].block
                     e == After(mem, d)
          <5>1. d \in B /\ d # b
            BY <2>4, <2>5, <4>3 DEF Held
          <5>2. After(n, d) = e
            BY <2>a, <5>1 DEF SameBut, After
          <5>3. call[u].merge => e = kHeapEnd \/ (e \in B /\ ~Al(mem, e))
            BY <2>4, <4>3 DEF Knows
          <5>4. e \in B /\ ~Al(mem, e) => e \in C /\ ~Al(n, e)
            BY <2>a, <5>1 DEF SameBut
          <5>5. call[u].merge => After(n, d) = kHeapEnd \/ (After(n, d) \in C /\ ~Al(n, After(n, d)))
            BY <5>2, <5>3, <5>4
          <5>6. call'[u] = call[u] /\ call[u].in # "alloc"
            BY <2>3, <2>8, <4>3
          <5> QED
            BY <5>5, <5>6 DEF Knows
        <4> QED
          BY <4>1, <4>2, <4>3
      <3>3. Whole(mem', live', call')
        BY <2>a, <3>1, <3>2 DEF Whole
      <3> QED
        BY <2>7, <2>9, <3>3 DEF Clean, Resting
    <2>10. CASE c.merge
      <3>1. next # kHeapEnd /\ next \in B /\ ~Al(mem, next)
        BY <2>1, <2>4, <2>5, <2>6, <2>10 DEF Knows
      <3>2. size_of_block(next) = Sz(mem, next)
        BY <1>1, <2>6, Reads
      <3> DEFINE s == Sz(mem, b) + 4 + Sz(mem, next)
                 n == record(mem, b, s, 0)
      <3>3. /\ s % WORD = s /\ Tiled(n, B \ {next}) /\ SameBut(mem, n, B, {b}) /\ ~Al(n, b)
        <4> HIDE DEF b, next
        <4>1. After(mem, b) \in B
          BY <2>6, <3>1
        <4>2. LET d == After(mem, b)
                  k == Sz(mem, b) + 4 + Sz(mem, d)
              IN  /\ k % WORD = k /\ Tiled(record(mem, b, k, 0), B \ {d})
                  /\ SameBut(mem, record(mem, b, k, 0), B, {b}) /\ ~Al(record(mem, b, k, 0), b)
          BY <1>3, <2>4, <2>5, <4>1, Merge
        <4> QED
          BY <2>6, <4>2
      <3>4. n = mem'
        BY <1>3, <2>7, <2>10, <3>2, <3>3
      <3>5. \A d \in B \ {b} : After(mem, d) # next
        BY <1>3, <2>4, <2>5, <2>6, TiledEnds
      <3> HIDE DEF n, next
      <3> QED
        BY <2>a, <3>1, <3>3, <3>4, <3>5
    <2>11. CASE ~c.merge
      <3> DEFINE n == record(mem, b, Sz(mem, b), 0)
      <3>1. Tiled(n, B) /\ SameBut(mem, n, B, {b}) /\ ~Al(n, b)
        <4> HIDE DEF b
        <4>1. 0 \in {0, 1} /\ 0 # 1
          OBVIOUS
        <4> QED
          BY <1>3, <2>4, <2>5, <4>1, Mark
      <3>2. n = mem'
        BY <1>3, <2>7, <2>11
      <3> HIDE DEF n
      <3> QED
        BY <2>a, <3>1, <3>2
    <2> QED
      BY <1>2, <2>10, <2>11
  <1> QED
    BY <1>7, <1>8 DEF Inv

\* The constructor makes one free block.
LEMMA InitStep == Init => Inv
  <1> SUFFICES ASSUME Init PROVE Inv
    OBVIOUS
  <1> DEFINE zero == [a \in Cells |-> 0]
             S == kHeapEnd - kHeapStart - 4
             B == {kHeapStart}
  <1>1. PICK w \in EndWords :
          mem = record(record(zero, kHeapEnd, w, 0), kHeapStart, S, 0)
    BY DEF Init, kFree
  <1> DEFINE m == record(zero, kHeapEnd, w, 0)
             v == w + 0
  <1>2. v \in 0..(HALF * HALF - 1)
    BY HeapAssumption, Bounds DEF WORD
  <1> HIDE DEF v
  <1>3. v % HALF \in Halves /\ v \div HALF \in Halves
    BY <1>2, Split, Constants DEF Halves
  <1>c. 0 \in Halves
    BY Constants DEF Halves
  <1>4. m \in Mems
    BY <1>3, <1>c DEF record, Mems, v
  <1> HIDE DEF m
  <1>a. S \in 0..(WORD - 1)
    BY Bounds
  <1>b. S % 2 = 0
    BY Constants
  <1>5. S \in Evens
    BY <1>a, <1>b DEF Evens, Words
  <1>6. kHeapStart \in Headers /\ kHeapEnd # kHeapStart
    BY HeaderSet, Constants
  <1> HIDE DEF S
  <1>7. mem \in Mems /\ Sz(mem, kHeapStart) = S /\ ~Al(mem, kHeapStart)
    BY <1>1, <1>4, <1>5, <1>6, RecordType, RecordSame DEF m
  <1>8. After(mem, kHeapStart) = kHeapEnd
    BY <1>7, Bounds DEF After, S
  <1>9. Tiled(mem, B)
    BY <1>6, <1>8, Bounds DEF Tiled
  <1>10. /\ live = {} /\ damage = 0 /\ lost = FALSE /\ call = [t \in Threads |-> None]
         /\ \A t \in Threads : call[t] = None
    BY DEF Init
  <1>11. TypeInv
    <2>1. call \in [Threads -> Calls] /\ \A t \in Threads : Even(call[t])
      BY <1>10, NoneFacts
    <2>2. damage \in 0..MaxDamage
      BY <1>10, HeapAssumption
    <2>3. lost \in BOOLEAN /\ live \subseteq [pos : {b + 4 : b \in Headers}, size : Sizes]
      BY <1>10
    <2> QED
      BY <1>7, <2>1, <2>2, <2>3 DEF TypeInv, TypeOK, Mems, Halves
  <1>12. Held(mem, B, live, call)
    BY <1>7, <1>10, NoneFacts DEF Held
  <1>13. Clean
    BY <1>9, <1>10, <1>12, NoneFacts DEF Clean, Whole
  <1> QED
    BY <1>11, <1>13 DEF Inv

\* Every behaviour satisfies the inductive invariant.
THEOREM Invariance == Spec => []Inv
  <1>1. Inv /\ [Next]_vars => Inv'
    <2> SUFFICES ASSUME Inv, [Next]_vars PROVE Inv'
      OBVIOUS
    <2>1. CASE UNCHANGED vars
      <3>1. TypeInv'
        BY <2>1 DEF Inv, TypeInv, TypeOK, Even, vars
      <3>2. damage' = 0 => Clean'
        BY <2>1 DEF Inv, Clean, Resting, vars
      <3> QED
        BY <3>1, <3>2 DEF Inv
    <2>2. ASSUME NEW t \in Threads, Step(t), ~lost, damage < MaxDamage
          PROVE  Inv'
      BY <2>2, AllocStep, WalkStep, TakeStep, RestStep, FreeStep, FreeRecordStep DEF Step
    <2> QED
      BY <2>1, <2>2 DEF Next
  <1> QED
    BY <1>1, InitStep, PTL DEF Spec

\* The type invariant: headers are words, whatever overwrites them, and each call
\* keeps its locals within their ranges.
THEOREM TypeCorrect == Spec => []TypeOK
  <1>1. Inv => TypeOK
    BY DEF Inv, TypeInv
  <1> QED
    BY <1>1, Invariance, PTL

--------------------------------------------------------------------------------
(* The walk.                                                                 *)

\* The bound of the walk, the number of headers, is a number.
LEMMA WalkBound == MaxWalk \in Nat /\ IsFiniteSet(Headers) /\ Cardinality(Headers) = MaxWalk
  <1> DEFINE last == kHeapEnd + 2
  <1>1. kHeapStart \in Int /\ last \in Int /\ Headers \subseteq kHeapStart..last
    BY Bounds DEF Headers, Cells
  <1> HIDE DEF last
  <1>2. IsFiniteSet(kHeapStart..last)
    BY <1>1, FS_Interval
  <1>3. IsFiniteSet(Headers)
    BY <1>1, <1>2, FS_Subset
  <1> QED
    BY <1>3, FS_CardinalityType DEF MaxWalk

\* There is a function that satisfies the recursive definition of Walk.
LEMMA WalkExists ==
  \E f : f = [n \in 0..MaxWalk |-> IF n = 0 THEN kHeapStart ELSE Onward(f[n - 1])]
  <1> DEFINE Upto(f, k) == f = [n \in 0..k |-> IF n = 0 THEN kHeapStart ELSE Onward(f[n - 1])]
             S == {k \in Nat : \E f : Upto(f, k)}
  <1>1. 0 \in S
    <2> DEFINE g == [n \in 0..0 |-> kHeapStart]
    <2>1. Upto(g, 0)
      OBVIOUS
    <2> QED
      BY <2>1
  <1>2. ASSUME NEW k \in Nat, k \in S PROVE k + 1 \in S
    <2>1. PICK f : Upto(f, k)
      BY <1>2
    <2> DEFINE g == [n \in 0..(k + 1) |-> IF n = k + 1 THEN Onward(f[k]) ELSE f[n]]
               h == [n \in 0..(k + 1) |-> IF n = 0 THEN kHeapStart ELSE Onward(g[n - 1])]
    <2>2. ASSUME NEW n \in 0..(k + 1) PROVE g[n] = h[n]
      <3>1. CASE n = 0
        BY <2>1, <3>1
      <3>2. CASE n # 0
        <4>1. n - 1 \in 0..k /\ g[n - 1] = f[n - 1]
          BY <3>2
        <4>2. h[n] = Onward(f[n - 1])
          BY <3>2, <4>1
        <4>3. CASE n = k + 1
          BY <4>2, <4>3
        <4>4. CASE n # k + 1
          <5>1. n \in 0..k /\ g[n] = f[n]
            BY <4>4
          <5>2. f[n] = Onward(f[n - 1])
            BY <2>1, <3>2, <5>1
          <5> QED
            BY <4>2, <5>1, <5>2
        <4> QED
          BY <4>3, <4>4
      <3> QED
        BY <3>1, <3>2
    <2>3. Upto(g, k + 1)
      BY <2>2
    <2> HIDE DEF g, Upto
    <2>4. \E e : Upto(e, k + 1)
      BY <2>3
    <2> QED
      BY <2>4
  <1> HIDE DEF S
  <1>3. MaxWalk \in S
    BY <1>1, <1>2, SetInduction, WalkBound
  <1> QED
    BY <1>3 DEF S

\* So Walk satisfies it.
LEMMA WalkDef ==
  /\ Walk[0] = kHeapStart
  /\ \A n \in Nat : n + 1 \in 0..MaxWalk => Walk[n + 1] = Onward(Walk[n])
  <1> DEFINE P(f) == f = [n \in 0..MaxWalk |-> IF n = 0 THEN kHeapStart ELSE Onward(f[n - 1])]
  <1>1. \E f : P(f)
    BY WalkExists
  <1>2. Walk = CHOOSE f : P(f)
    BY DEF Walk
  <1>3. P(CHOOSE f : P(f))
    BY <1>1, Zenon
  <1>4. P(Walk)
    BY <1>2, <1>3
  <1>5. 0 \in 0..MaxWalk
    BY WalkBound
  <1>6. Walk[0] = kHeapStart
    BY <1>4, <1>5
  <1>7. ASSUME NEW n \in Nat, n + 1 \in 0..MaxWalk PROVE Walk[n + 1] = Onward(Walk[n])
    <2>1. n + 1 # 0 /\ (n + 1) - 1 = n
      OBVIOUS
    <2> QED
      BY <1>4, <1>7, <2>1
  <1> QED
    BY <1>6, <1>7

\* Up to kHeapEnd the walk is at the blocks B, and each is followed by the next.
LEMMA WalkTiles ==
  ASSUME TypeInv, NEW B, Tiled(mem, B)
  PROVE  /\ \A n \in 0..MaxWalk :
              (\A k \in 0..(n - 1) : Walk[k] # kHeapEnd) => Walk[n] \in B \cup {kHeapEnd}
         /\ \A n \in 0..MaxWalk :
              n + 1 <= MaxWalk /\ Walk[n] \in B => Walk[n + 1] = After(mem, Walk[n])
  <1>1. mem \in Mems
    BY DEF TypeInv, TypeOK, Mems, Halves
  <1>2. ASSUME NEW n \in 0..MaxWalk, n + 1 <= MaxWalk, Walk[n] \in B
        PROVE  Walk[n + 1] = After(mem, Walk[n])
    <2>1. n \in Nat /\ n + 1 \in 0..MaxWalk
      BY <1>2, WalkBound
    <2> DEFINE b == Walk[n]
    <2>2. Walk[n + 1] = Onward(b)
      BY <2>1, WalkDef
    <2>3. b \in B
      BY <1>2
    <2> HIDE DEF b
    <2>4. b \in Headers /\ next_block(b) = After(mem, b)
      BY <1>1, <2>3, TiledNext, Reads
    <2> QED
      BY <2>2, <2>4 DEF Onward, b
  <1> DEFINE Good(n) == n \in 0..MaxWalk /\ (\A k \in 0..(n - 1) : Walk[k] # kHeapEnd)
                           => Walk[n] \in B \cup {kHeapEnd}
             S == {n \in Nat : Good(n)}
  <1>3. 0 \in S
    BY WalkDef DEF Tiled
  <1>4. ASSUME NEW n \in Nat, n \in S PROVE n + 1 \in S
    <2> SUFFICES ASSUME n + 1 \in 0..MaxWalk, \A k \in 0..n : Walk[k] # kHeapEnd
                 PROVE  Walk[n + 1] \in B \cup {kHeapEnd}
      BY <1>4
    <2>1. n \in 0..MaxWalk /\ n + 1 <= MaxWalk /\ n \in 0..n
      BY WalkBound
    <2>2. \A k \in 0..(n - 1) : k \in 0..n
      OBVIOUS
    <2>3. Walk[n] \in B
      BY <1>4, <2>1, <2>2
    <2>4. Walk[n + 1] = After(mem, Walk[n])
      BY <1>2, <2>1, <2>3
    <2> QED
      BY <2>3, <2>4 DEF Tiled
  <1> HIDE DEF S
  <1>5. \A n \in Nat : n \in S
    BY <1>3, <1>4, SetInduction
  <1>6. ASSUME NEW n \in 0..MaxWalk, \A k \in 0..(n - 1) : Walk[k] # kHeapEnd
        PROVE  Walk[n] \in B \cup {kHeapEnd}
    BY <1>5, <1>6, WalkBound DEF S
  <1> QED
    BY <1>2, <1>6

\* The visits: each is at a block, and none of them comes later at the same one.
LEMMA VisitsRise ==
  ASSUME TypeInv, NEW B, Tiled(mem, B)
  PROVE  /\ \A n \in Visits : Walk[n] \in B /\ \A k \in 0..n : k \in Visits
         /\ \A n \in Visits : \A k \in 0..(n - 1) : Walk[k] < Walk[n]
  <1>1. mem \in Mems
    BY DEF TypeInv, TypeOK, Mems, Halves
  <1>2. ASSUME NEW n \in Visits
        PROVE  n \in 0..MaxWalk /\ n \in Nat /\ Walk[n] \in B /\ \A k \in 0..n : k \in Visits
    <2>1. n \in 0..MaxWalk /\ n \in Nat /\ \A k \in 0..n : Walk[k] # kHeapEnd
      BY WalkBound DEF Visits
    <2>2. n \in 0..n /\ \A k \in 0..(n - 1) : k \in 0..n
      BY <2>1
    <2>3. Walk[n] \in B
      BY <2>1, <2>2, WalkTiles
    <2>4. ASSUME NEW k \in 0..n PROVE k \in Visits
      <3>1. k \in 0..MaxWalk /\ \A j \in 0..k : j \in 0..n
        BY <2>1, WalkBound
      <3> QED
        BY <2>1, <3>1 DEF Visits
    <2> QED
      BY <2>1, <2>3, <2>4
  <1> DEFINE S == {n \in Nat : n \in Visits => \A k \in 0..(n - 1) : Walk[k] < Walk[n]}
  <1>3. 0 \in S
    OBVIOUS
  <1>4. ASSUME NEW n \in Nat, n \in S PROVE n + 1 \in S
    <2> SUFFICES ASSUME n + 1 \in Visits, NEW k \in 0..n
                 PROVE  Walk[k] < Walk[n + 1]
      BY <1>4
    <2>1. n \in 0..(n + 1) /\ k \in 0..(n + 1)
      OBVIOUS
    <2>2. n \in Visits /\ k \in Visits /\ n + 1 <= MaxWalk
      BY <1>2, <2>1, WalkBound
    <2>3. Walk[n] \in B /\ Walk[k] \in B /\ n \in 0..MaxWalk
      BY <1>2, <2>2
    <2>4. Walk[n + 1] = After(mem, Walk[n])
      BY <2>2, <2>3, WalkTiles
    <2> DEFINE b == Walk[n]
               c == Walk[k]
    <2>5. k = n \/ c < b
      <3>1. k = n \/ k \in 0..(n - 1)
        OBVIOUS
      <3> QED
        BY <1>4, <2>2, <3>1
    <2>6. b \in B /\ c \in B
      BY <2>3
    <2>7. k = n => c = b
      OBVIOUS
    <2> HIDE DEF b, c
    <2>8. b \in Int /\ c \in Int /\ Sz(mem, b) \in Nat /\ After(mem, b) = b + Sz(mem, b) + 4
      BY <1>1, <2>6, TiledNext
    <2>9. c < After(mem, b)
      BY <2>5, <2>7, <2>8
    <2> QED
      BY <2>4, <2>9 DEF b, c
  <1> HIDE DEF S
  <1>5. \A n \in Nat : n \in S
    BY <1>3, <1>4, SetInduction
  <1>6. ASSUME NEW n \in Visits, NEW k \in 0..(n - 1) PROVE Walk[k] < Walk[n]
    BY <1>2, <1>5 DEF S
  <1> QED
    BY <1>2, <1>6

\* alloc's loop ends: a walk that did not come to kHeapEnd would visit more blocks
\* than there are headers.
LEMMA WalkEnds ==
  ASSUME TypeInv, NEW B, Tiled(mem, B)
  PROVE  \E n \in 0..MaxWalk : Walk[n] = kHeapEnd
  <1> SUFFICES ASSUME \A n \in 0..MaxWalk : Walk[n] # kHeapEnd PROVE FALSE
    OBVIOUS
  <1> DEFINE last == MaxWalk
             f == [n \in 0..last |-> Walk[n]]
  <1>1. last \in Nat /\ \A n \in 0..last : n \in Visits
    <2>1. MaxWalk \in Nat
      BY WalkBound
    <2>2. ASSUME NEW n \in 0..MaxWalk PROVE n \in Visits
      <3>1. \A k \in 0..n : k \in 0..MaxWalk
        BY <2>1
      <3> QED
        BY <3>1 DEF Visits
    <2> QED
      BY <2>1, <2>2
  <1>2. \A n \in 0..last : Walk[n] \in B
    BY <1>1, VisitsRise
  <1>3. f \in [0..last -> Headers]
    BY <1>2 DEF Tiled
  <1>4. IsFiniteSet(Headers) /\ Cardinality(Headers) = last
    BY WalkBound
  <1> HIDE DEF last
  <1>5. 0 \in Int /\ last \in Int /\ ~(0 > last)
    BY <1>1
  <1>6. IsFiniteSet(0..last) /\ Cardinality(0..last) = last - 0 + 1
    BY <1>5, FS_Interval
  <1>7. Cardinality(Headers) < Cardinality(0..last)
    BY <1>1, <1>4, <1>6
  <1> HIDE DEF f
  <1>8. PICK x \in 0..last, y \in 0..last : x # y /\ f[x] = f[y]
    BY <1>3, <1>4, <1>6, <1>7, FS_PigeonHole
  <1>9. Walk[x] = Walk[y] /\ Walk[x] \in B
    BY <1>2, <1>8 DEF f
  <1>10. x \in 0..(y - 1) \/ y \in 0..(x - 1)
    BY <1>1, <1>8
  <1>11. Walk[x] < Walk[y] \/ Walk[y] < Walk[x]
    BY <1>1, <1>10, VisitsRise
  <1>12. Walk[x] \in Int
    BY <1>9, HeaderSet DEF Tiled
  <1> QED
    BY <1>9, <1>11, <1>12

\* The walk visits all of B.
LEMMA VisitsAll ==
  ASSUME TypeInv, NEW B, Tiled(mem, B)
  PROVE  Blocks = B
  <1>1. mem \in Mems
    BY DEF TypeInv, TypeOK, Mems, Halves
  <1>2. Blocks \subseteq B
    BY VisitsRise DEF Blocks
  <1>3. ASSUME NEW b \in B PROVE b \in Blocks
    <2> DEFINE E == {n \in 0..MaxWalk : Walk[n] = kHeapEnd}
    <2>1. PICK e \in E : \A n \in E : e <= n
      <3>1. E \in SUBSET Nat /\ E # {}
        BY WalkBound, WalkEnds
      <3> QED
        BY <3>1, Least
    <2>2. e \in Nat /\ e <= MaxWalk /\ Walk[e] = kHeapEnd /\ MaxWalk \in Nat
      BY WalkBound
    <2>3. ASSUME NEW n \in Nat, n < e PROVE n \in Visits /\ Walk[n] \in B
      <3>1. \A k \in 0..n : k \in 0..MaxWalk /\ k \notin E
        BY <2>1, <2>2, <2>3
      <3>2. n \in 0..MaxWalk /\ \A k \in 0..n : Walk[k] # kHeapEnd
        BY <2>2, <2>3, <3>1
      <3>3. n \in Visits
        BY <3>2 DEF Visits
      <3> QED
        BY <3>3, VisitsRise
    <2> HIDE DEF E
    <2>4. b \in Int /\ kHeapStart <= b /\ b < kHeapEnd
      BY <1>1, TiledNext
    <2> DEFINE T == {n \in 0..e : b <= Walk[n]}
    <2>5. T \in SUBSET Nat /\ e \in T
      BY <2>2, <2>4, Bounds
    <2>6. PICK n \in T : \A k \in T : n <= k
      BY <2>5, Least
    <2>7. n \in Nat /\ n <= e /\ b <= Walk[n]
      BY <2>2
    <2>8. Walk[n] = b
      <3>1. CASE n = 0
        BY <2>4, <2>7, <3>1, WalkDef, Bounds
      <3>2. CASE n # 0
        <4>1. n - 1 \in Nat /\ n - 1 < e /\ n - 1 \in 0..e /\ n - 1 \notin T
          BY <2>2, <2>6, <2>7, <3>2
        <4> DEFINE c == Walk[n - 1]
        <4>2. c \in B /\ ~(b <= c)
          BY <2>3, <4>1
        <4>3. Walk[(n - 1) + 1] = After(mem, c)
          BY <2>2, <4>1, <4>2, WalkTiles
        <4>4. (n - 1) + 1 = n
          BY <2>7
        <4> HIDE DEF c
        <4>5. c \in Int /\ After(mem, c) \in Int
          BY <1>1, <4>2, TiledNext
        <4>6. After(mem, c) <= b
          BY <2>4, <4>2, <4>5 DEF Tiled
        <4> QED
          BY <2>4, <2>7, <4>3, <4>4, <4>5, <4>6
      <3> QED
        BY <3>1, <3>2
    <2>9. n # e
      BY <2>2, <2>4, <2>8, Bounds
    <2>10. n \in Visits
      BY <2>2, <2>3, <2>7, <2>9
    <2> QED
      BY <2>8, <2>10 DEF Blocks
  <1> QED
    BY <1>2, <1>3

--------------------------------------------------------------------------------
\* As long as no alloc overlaps another call, no allocation is a tight fit and no
\* free looks behind the heap, alloc's walk ends at mend_ and the blocks it comes
\* by that are allocated are those that callers hold or are giving back, each
\* held once and large enough.
THEOREM HeapSoundHolds == Spec => []HeapSound
  <1>1. ASSUME Inv, damage = 0, ~Cutting
        PROVE  /\ ~lost
               /\ \E n \in 0..MaxWalk : Walk[n] = kHeapEnd
               /\ \A n \in Visits : Walk[n] \in Headers /\ Walk[n] < next_block(Walk[n])
               /\ {b \in Blocks : is_allocated(b)} = {l.pos - 4 : l \in live} \cup BeingFreed
               /\ \A l, k \in live : l.pos = k.pos => l = k
               /\ \A l \in live : size_of_block(l.pos - 4) >= l.size
    <2>1. TypeInv /\ mem \in Mems /\ Clean
      BY <1>1 DEF Inv, TypeInv, TypeOK, Mems, Halves
    <2>2. \A t \in Threads : ~Resting(call[t])
      BY <1>1 DEF Cutting, Resting
    <2>3. PICK B : Tiled(mem, B) /\ Held(mem, B, live, call)
      BY <2>1, <2>2 DEF Clean, Whole
    <2>4. Blocks = B
      BY <2>1, <2>3, VisitsAll
    <2>5. ASSUME NEW n \in Visits
          PROVE  Walk[n] \in Headers /\ Walk[n] < next_block(Walk[n])
      <3> DEFINE b == Walk[n]
      <3>1. b \in B
        BY <2>1, <2>3, VisitsRise
      <3> HIDE DEF b
      <3>2. /\ b \in Headers /\ b \in Int /\ Sz(mem, b) \in Nat
            /\ next_block(b) = b + Sz(mem, b) + 4
        BY <2>1, <2>3, <3>1, TiledNext, Reads
      <3>3. b \in Headers /\ b < next_block(b)
        BY <3>2
      <3> QED
        BY <3>3 DEF b
    <2>6. {b \in Blocks : is_allocated(b)} = {l.pos - 4 : l \in live} \cup BeingFreed
      <3>1. \A b \in B : is_allocated(b) <=> Al(mem, b)
        BY <2>1, <2>3, Reads DEF Tiled
      <3>2. ASSUME NEW b \in B, Al(mem, b)
            PROVE  b \in {l.pos - 4 : l \in live} \cup BeingFreed
        <4>1. \/ \E l \in live : l.pos - 4 = b
              \/ \E t \in Threads : Frees(call[t]) /\ call[t].block = b
          BY <2>3, <3>2 DEF Held
        <4> QED
          BY <4>1 DEF BeingFreed, Frees
      <3>3. ASSUME NEW b \in {l.pos - 4 : l \in live} PROVE b \in B /\ Al(mem, b)
        BY <2>3 DEF Held
      <3>4. ASSUME NEW b \in BeingFreed PROVE b \in B /\ Al(mem, b)
        <4>1. PICK t \in Threads : Frees(call[t]) /\ call[t].block = b
          BY DEF BeingFreed, Frees
        <4> QED
          BY <2>3, <4>1 DEF Held
      <3> QED
        BY <2>4, <3>1, <3>2, <3>3, <3>4
    <2>7. ASSUME NEW l \in live PROVE size_of_block(l.pos - 4) >= l.size
      <3> DEFINE b == l.pos - 4
      <3>1. b \in B /\ l.size <= Sz(mem, b)
        BY <2>3 DEF Held
      <3>2. l.size \in Nat
        BY <2>1, LiveType, AlignedUp
      <3> HIDE DEF b
      <3>3. Sz(mem, b) \in Nat /\ size_of_block(b) = Sz(mem, b)
        BY <2>1, <2>3, <3>1, TiledNext, Reads
      <3>4. size_of_block(b) >= l.size
        BY <3>1, <3>2, <3>3
      <3> QED
        BY <3>4 DEF b
    <2>8. \E n \in 0..MaxWalk : Walk[n] = kHeapEnd
      BY <2>1, <2>3, WalkEnds
    <2>9. /\ ~lost
          /\ \A l, k \in live : l.pos = k.pos => l = k
      BY <2>1, <2>2, <2>3 DEF Clean, Held
    <2> QED
      BY <2>5, <2>6, <2>7, <2>8, <2>9
  <1>2. Inv => HeapSound
    BY <1>1 DEF HeapSound
  <1> QED
    BY <1>2, Invariance, PTL

\* In a tiled heap, what callers hold lies in the heap and apart.
LEMMA HeldApart ==
  ASSUME TypeInv, NEW m \in Mems, NEW B, Tiled(m, B), Held(m, B, live, call)
  PROVE  /\ \A l \in live : l.pos + l.size <= kHeapEnd
         /\ \A l, k \in live : l.pos < k.pos => l.pos + l.size <= k.pos - 4
  <1>1. ASSUME NEW l \in live
        PROVE  /\ l.pos \in Int /\ l.size \in Nat /\ l.pos - 4 \in B
               /\ l.pos + l.size <= After(m, l.pos - 4)
               /\ After(m, l.pos - 4) \in Int /\ After(m, l.pos - 4) <= kHeapEnd
    <2> DEFINE b == l.pos - 4
    <2>1. b \in B /\ l.size <= Sz(m, b)
      BY DEF Held
    <2>2. l.pos \in Int /\ l.size \in Nat
      BY LiveType, AlignedUp
    <2>3. l.pos = b + 4
      BY <2>2
    <2> HIDE DEF b
    <2>4. b \in Int /\ Sz(m, b) \in Nat /\ After(m, b) = b + Sz(m, b) + 4 /\ After(m, b) <= kHeapEnd
      BY <2>1, TiledNext
    <2>5. l.pos + l.size <= After(m, b) /\ After(m, b) \in Int
      BY <2>1, <2>2, <2>3, <2>4
    <2> QED
      BY <2>1, <2>2, <2>4, <2>5 DEF b
  <1>2. ASSUME NEW l \in live PROVE l.pos + l.size <= kHeapEnd
    BY <1>1, Bounds
  <1>3. ASSUME NEW l \in live, NEW k \in live, l.pos < k.pos
        PROVE  l.pos + l.size <= k.pos - 4
    <2>1. l.pos - 4 < k.pos - 4
      BY <1>1, <1>3
    <2>2. After(m, l.pos - 4) <= k.pos - 4
      BY <1>1, <2>1 DEF Tiled
    <2> QED
      BY <1>1, <2>2
  <1> QED
    BY <1>2, <1>3

\* In the same states, also while an alloc is between its two writes, what callers
\* hold lies in the heap and no two of them hold a byte in common.
THEOREM BlocksApartHolds == Spec => []BlocksApart
  <1>1. ASSUME Inv, damage = 0
        PROVE  /\ \A l \in live : l.pos + l.size <= kHeapEnd
               /\ \A l, k \in live : l.pos < k.pos => l.pos + l.size <= k.pos - 4
    <2>1. TypeInv /\ mem \in Mems /\ Clean /\ call \in [Threads -> Calls]
      BY <1>1 DEF Inv, TypeInv, TypeOK, Mems, Halves
    <2>2. CASE \A t \in Threads : ~Resting(call[t])
      <3>1. PICK B : Tiled(mem, B) /\ Held(mem, B, live, call)
        BY <2>1, <2>2 DEF Clean, Whole
      <3> QED
        BY <2>1, <3>1, HeldApart
    <2>3. ASSUME NEW t \in Threads, Resting(call[t])
          PROVE  /\ \A l \in live : l.pos + l.size <= kHeapEnd
                 /\ \A l, k \in live : l.pos < k.pos => l.pos + l.size <= k.pos - 4
      <3> DEFINE c == call[t]
      <3>1. PICK B : Tiled(Final(mem, c), B) /\ Held(Final(mem, c), B, live, call)
        BY <2>1, <2>3 DEF Clean, Mending
      <3>2. c.request \in Sizes /\ c.found \in Evens
        BY <2>1, <2>3, CallParts DEF Resting, TypeInv, Even
      <3>3. Rest(c) \in Evens
        BY <3>2, AlignedUp, RestType DEF Rest
      <3>4. Final(mem, c) \in Mems
        BY <2>1, <3>2, <3>3, RecordType DEF Final, kAllocated, kFree
      <3> QED
        BY <2>1, <3>1, <3>4, HeldApart
    <2> QED
      BY <2>2, <2>3
  <1>2. Inv => BlocksApart
    BY <1>1 DEF BlocksApart
  <1> QED
    BY <1>2, Invariance, PTL

================================================================================
