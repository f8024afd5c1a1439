----------------------------- MODULE LruCacheProofs ----------------------------
(*****************************************************************************)
(* Lemmas about module LruCache, for any number of buffers and blocks.       *)
(*                                                                           *)
(* The operations are operators from state to state, and so are the lemmas   *)
(* about them: first what the pointer assignments of the list do, then what  *)
(* probing finds, then Get, Set and the eviction within it, and last the     *)
(* functions of fs.cc.  The table needs of the ring only that all its        *)
(* pointers lead to nodes of the table: so the proofs stand although the     *)
(* ring breaks (RingWhole).                                                  *)
(*****************************************************************************)
EXTENDS LruCache, FiniteSetTheorems, WellFoundedInduction, TLAPS


--------------------------------------------------------------------------------
(* The states an operation passes through.                                   *)

Pointer  == Nodes \cup {Null}
Pointers == [Nodes -> Pointer]
Keys     == [Nodes -> Blocks \cup {0}]
Values   == [Nodes -> Data]
Tables   == [Index -> Pointer]
Disks    == [Blocks -> Data]
Faults   == Blocks \cup {NoFault}

Caches ==
    [prev : Pointers, next : Pointers, key : Keys, val : Values, table : Tables,
     queue : Pointer, free : Pointer, made : 0..N, count : Int,
     cb : BOOLEAN, halted : BOOLEAN,
     disk : Disks, fault : Faults, failed : SUBSET Blocks, ret : Pointer]

\* The nodes of S point at each other, and queue_ points at one of them.  That
\* the nodes form one ring does not hold, see RingWhole, and is not
\* needed.
Linked(c, S) ==
    /\ \A x \in S : c.prev[x] \in S /\ c.next[x] \in S
    /\ c.queue \in S

\* Between c and d only the ring changed.
Relinked(c, d) ==
    /\ d \in Caches
    /\ d.key = c.key /\ d.val = c.val /\ d.table = c.table /\ d.free = c.free
    /\ d.made = c.made /\ d.cb = c.cb /\ d.halted = c.halted
    /\ d.disk = c.disk /\ d.fault = c.fault /\ d.failed = c.failed /\ d.ret = c.ret

\* What a state is made of.
LEMMA Parts ==
    ASSUME NEW c \in Caches
    PROVE  /\ c.prev \in Pointers /\ c.next \in Pointers /\ c.key \in Keys
           /\ c.val \in Values /\ c.table \in Tables /\ c.queue \in Pointer
           /\ c.free \in Pointer /\ c.made \in 0..N /\ c.count \in Int
           /\ c.cb \in BOOLEAN /\ c.halted \in BOOLEAN /\ c.disk \in Disks
           /\ c.fault \in Faults /\ c.failed \in SUBSET Blocks /\ c.ret \in Pointer
  BY DEF Caches

\* Relinked is transitive.
LEMMA RelinkedTwice ==
    ASSUME NEW c, NEW d, NEW e, Relinked(c, d), Relinked(d, e)
    PROVE  Relinked(c, e)
  BY DEF Relinked

\* detach takes x out of a set of nodes that point at each other.
LEMMA Detached ==
    ASSUME NEW c \in Caches, NEW S \in SUBSET Nodes, Linked(c, S), NEW x \in S
    PROVE  /\ Relinked(c, detach(c, x)) /\ Linked(detach(c, x), S)
           /\ detach(c, x).count = c.count - 1
  <1> DEFINE n == [c.next EXCEPT ![c.prev[x]] = c.next[x]]
             p == [c.prev EXCEPT ![n[x]] = c.prev[x]]
             k == c.count - 1
             d == [c EXCEPT !.next = n, !.prev = p, !.count = k]
  <1>1. /\ c.prev \in Pointers /\ c.next \in Pointers /\ c.count \in Int /\ c.queue \in Pointer
    BY Parts
  <1>2. n \in Pointers /\ \A y \in S : n[y] \in S
    BY <1>1 DEF Linked, Pointers, Pointer
  <1>3. p \in Pointers /\ \A y \in S : p[y] \in S
    BY <1>1, <1>2 DEF Linked, Pointers, Pointer
  <1>4. k \in Int
    BY <1>1
  <1>5. detach(c, x) = d
    BY <1>1, <1>2, <1>3 DEF detach, Caches
  <1> HIDE DEF n, p, k
  <1>6. Relinked(c, d) /\ d.next = n /\ d.prev = p /\ d.queue = c.queue /\ d.count = k
    BY <1>1, <1>2, <1>3, <1>4 DEF Caches, Relinked
  <1> HIDE DEF d
  <1>7. Linked(d, S)
    BY <1>2, <1>3, <1>6 DEF Linked
  <1> QED
    BY <1>5, <1>6, <1>7 DEF k

\* push_back puts x behind the last of S; x may be one of them, with any
\* successor, or new.
LEMMA Pushed ==
    ASSUME NEW c \in Caches, NEW S \in SUBSET Nodes, NEW x \in Nodes, c.count < N,
           c.queue \in S, \A y \in S : c.prev[y] \in S, \A y \in S \ {x} : c.next[y] \in S
    PROVE  /\ Relinked(c, push_back(c, x)) /\ Linked(push_back(c, x), S \cup {x})
           /\ push_back(c, x).count = c.count + 1
  <1> DEFINE q == c.queue
             last == c.prev[q]
             n == [[c.next EXCEPT ![last] = x] EXCEPT ![x] = q]
             p == [[c.prev EXCEPT ![x] = last] EXCEPT ![q] = x]
             k == c.count + 1
             d == [c EXCEPT !.count = k, !.next = n, !.prev = p]
  <1>1. /\ c.prev \in Pointers /\ c.next \in Pointers /\ c.count \in Int /\ N \in Nat
        /\ q \in S /\ last \in S /\ q # Null
    <2>1. 0 \notin Nodes /\ N \in Nat
      BY CacheAssumption DEF Nodes
    <2> QED
      BY <2>1, Parts DEF Null
  <1>2. n \in Pointers /\ \A y \in S \cup {x} : n[y] \in S \cup {x}
    <2>1. n \in Pointers
      BY <1>1 DEF Pointers, Pointer
    <2>2. \A y \in S \cup {x} : n[y] = IF y = x THEN q ELSE IF y = last THEN x ELSE c.next[y]
      BY <1>1 DEF Pointers
    <2> HIDE DEF n, q, last
    <2> QED
      BY <1>1, <2>1, <2>2
  <1>3. p \in Pointers /\ \A y \in S \cup {x} : p[y] \in S \cup {x}
    BY <1>1 DEF Pointers, Pointer
  <1>4. k \in Int
    BY <1>1
  <1>5. ~(c.count >= N)
    BY <1>1
  <1>6. push_back(c, x) = d
    BY <1>1, <1>5 DEF push_back
  <1> HIDE DEF n, p, k
  <1>7. Relinked(c, d) /\ d.next = n /\ d.prev = p /\ d.queue = c.queue /\ d.count = k
    BY <1>1, <1>2, <1>3, <1>4 DEF Caches, Relinked
  <1> HIDE DEF d
  <1>8. Linked(d, S \cup {x})
    BY <1>1, <1>2, <1>3, <1>7 DEF Linked
  <1> QED
    BY <1>6, <1>7, <1>8 DEF k

\* The first node of the queue.
LEMMA PushedFirst ==
    ASSUME NEW c \in Caches, NEW x \in Nodes, c.count < N, c.queue = Null
    PROVE  /\ Relinked(c, push_back(c, x)) /\ Linked(push_back(c, x), {x})
           /\ push_back(c, x).count = c.count + 1
  <1> DEFINE n == [c.next EXCEPT ![x] = x]
             p == [c.prev EXCEPT ![x] = x]
             k == c.count + 1
             d == [c EXCEPT !.count = k, !.queue = x, !.prev = p, !.next = n]
  <1>1. c.prev \in Pointers /\ c.next \in Pointers /\ c.count \in Int /\ N \in Nat
    BY Parts, CacheAssumption
  <1>2. n \in Pointers /\ n[x] = x /\ p \in Pointers /\ p[x] = x /\ x \in Pointer
    BY <1>1 DEF Pointers, Pointer
  <1>3. k \in Int /\ ~(c.count >= N)
    BY <1>1
  <1>4. push_back(c, x) = d
    BY <1>3 DEF push_back, Caches
  <1> HIDE DEF n, p, k
  <1>5. Relinked(c, d) /\ d.next = n /\ d.prev = p /\ d.queue = x /\ d.count = k
    BY <1>1, <1>2, <1>3 DEF Caches, Relinked
  <1> HIDE DEF d
  <1>6. Linked(d, {x})
    BY <1>2, <1>5 DEF Linked
  <1> QED
    BY <1>4, <1>5, <1>6 DEF k

\* pop_front leaves the node it takes out pointing at the others.
LEMMA Popped ==
    ASSUME NEW c \in Caches, NEW S \in SUBSET Nodes, Linked(c, S)
    PROVE  /\ Relinked(c, pop_front(c)) /\ Linked(pop_front(c), S)
           /\ pop_front(c).count = c.count - 1
  <1> DEFINE q == c.queue
             last == c.prev[q]
             successor == c.next[q]
             n == [c.next EXCEPT ![last] = successor]
             p == [c.prev EXCEPT ![successor] = last]
             k == c.count - 1
             d == [c EXCEPT !.count = k, !.prev = p, !.next = n, !.queue = successor]
  <1>1. /\ c.prev \in Pointers /\ c.next \in Pointers /\ c.count \in Int
        /\ q \in S /\ last \in S /\ successor \in S
    BY Parts DEF Linked
  <1>2. n \in Pointers /\ \A y \in S : n[y] \in S
    BY <1>1 DEF Pointers, Pointer, Linked
  <1>3. p \in Pointers /\ \A y \in S : p[y] \in S
    BY <1>1 DEF Pointers, Pointer, Linked
  <1>4. k \in Int /\ successor \in Pointer
    BY <1>1 DEF Pointer
  <1>5. pop_front(c) = d
    BY DEF pop_front, Caches
  <1> HIDE DEF n, p, k, successor
  <1>6. Relinked(c, d) /\ d.next = n /\ d.prev = p /\ d.queue = successor /\ d.count = k
    BY <1>1, <1>2, <1>3, <1>4 DEF Caches, Relinked
  <1> HIDE DEF d
  <1>7. Linked(d, S)
    BY <1>1, <1>2, <1>3, <1>6 DEF Linked
  <1> QED
    BY <1>5, <1>6, <1>7 DEF k

\* if (node == queue_) queue_ = queue_->next
LEMMA Advanced ==
    ASSUME NEW c \in Caches, NEW S \in SUBSET Nodes, Linked(c, S), NEW x \in S
    PROVE  /\ Relinked(c, Advance(c, x)) /\ Linked(Advance(c, x), S)
           /\ Advance(c, x).count = c.count
  <1> DEFINE q == c.next[x]
             d == [c EXCEPT !.queue = q]
  <1>1. q \in S /\ q \in Pointer
    BY DEF Linked, Pointer
  <1> HIDE DEF q
  <1>2. /\ Relinked(c, d) /\ d.queue = q
        /\ d.next = c.next /\ d.prev = c.prev /\ d.count = c.count
    BY <1>1 DEF Caches, Relinked
  <1>3. Linked(d, S)
    BY <1>1, <1>2 DEF Linked
  <1>4. Advance(c, x) \in {c, d}
    BY DEF Advance, q
  <1>5. Relinked(c, c)
    BY DEF Relinked
  <1> QED
    BY <1>2, <1>3, <1>4, <1>5

\* Promote changes the ring only: its detach makes the room its push_back needs.
LEMMA Promoted ==
    ASSUME NEW c \in Caches, NEW S \in SUBSET Nodes, Linked(c, S), c.count <= N,
           NEW h \in Index, c.table[h] \in S
    PROVE  /\ Relinked(c, Promote(c, h)) /\ Linked(Promote(c, h), S)
           /\ Promote(c, h).count = c.count
  <1> DEFINE x == c.table[h]
             d == detach(c, x)
             e == Advance(d, x)
             f == push_back(e, x)
  <1>1. x \in S /\ x \in Nodes /\ c.count \in Int /\ N \in Nat
    BY Parts, CacheAssumption
  <1>2. Promote(c, h) = f
    BY DEF Promote
  <1> HIDE DEF x, f
  <1>3. Relinked(c, d) /\ Linked(d, S) /\ d.count = c.count - 1
    BY <1>1, Detached
  <1> HIDE DEF d
  <1>4. d \in Caches
    BY <1>3 DEF Relinked
  <1>5. Relinked(d, e) /\ Linked(e, S) /\ e.count = d.count
    BY <1>1, <1>3, <1>4, Advanced
  <1> HIDE DEF e
  <1>6. /\ e \in Caches /\ e.count < N /\ e.queue \in S
        /\ \A y \in S : e.prev[y] \in S /\ e.next[y] \in S
    BY <1>1, <1>3, <1>5 DEF Relinked, Linked
  <1>7. Relinked(e, f) /\ Linked(f, S \cup {x}) /\ f.count = e.count + 1
    BY <1>1, <1>6, Pushed DEF f
  <1>8. S \cup {x} = S
    BY <1>1
  <1>9. Relinked(c, f)
    BY <1>3, <1>5, <1>7, RelinkedTwice
  <1>10. f.count = c.count
    BY <1>1, <1>3, <1>5, <1>7
  <1> QED
    BY <1>2, <1>7, <1>8, <1>9, <1>10

--------------------------------------------------------------------------------
(* Probing.                                                                  *)

\* A set of natural numbers that is not empty has a least element, the one
\* that Min gives.
LEMMA MinIsLeast ==
    ASSUME NEW T \in SUBSET Nat, T # {}
    PROVE  Min(T) \in T /\ \A y \in T : Min(T) <= y
  <1> DEFINE R == OpToRel(<, Nat)
  <1>1. IsWellFoundedOn(R, Nat)
    BY NatLessThanWellFounded
  <1>2. \A x, y \in Nat : <<x, y>> \in R <=> x < y
    BY DEF OpToRel
  <1> HIDE DEF R
  <1>3. PICK x \in T : \A y \in T : ~(<<y, x>> \in R)
    BY <1>1, WFMin
  <1>4. \A y \in T : x <= y
    <2> SUFFICES ASSUME NEW y \in T PROVE x <= y
      OBVIOUS
    <2>1. x \in Nat /\ y \in Nat /\ ~(y < x)
      BY <1>2, <1>3
    <2> QED
      BY <2>1
  <1> QED
    BY <1>4 DEF Min

\* rehash never leaves the table.
LEMMA SlotInTable ==
    ASSUME NEW k \in Nat, NEW i \in Nat
    PROVE  Slot(k, i) \in Index
  <1>1. N \in Nat /\ N > 0
    BY CacheAssumption
  <1>2. k % N \in Nat
    BY <1>1
  <1>3. ((k % N) + i) % N \in 0..(N - 1)
    BY <1>1, <1>2
  <1> QED
    BY <1>3 DEF Slot, hash, Index

\* N calls of it see every slot.
LEMMA SlotsOnto ==
    ASSUME NEW k \in Nat, NEW h \in Index
    PROVE  \E i \in Index : Slot(k, i) = h
  <1> DEFINE r == k % N
  <1>1. N \in Nat /\ N > 0 /\ r \in 0..(N - 1) /\ h \in 0..(N - 1)
    BY CacheAssumption DEF Index
  <1>2. \A i : Slot(k, i) = (r + i) % N
    BY DEF Slot, hash
  <1> HIDE DEF r
  <1>3. CASE h >= r
    <2>1. h - r \in Index /\ r + (h - r) = h /\ (h % N) = h
      BY <1>1, <1>3 DEF Index
    <2> QED
      BY <1>2, <2>1
  <1>4. CASE h < r
    <2>1. h + N - r \in Index /\ r + (h + N - r) = h + N /\ ((h + N) % N) = h
      BY <1>1, <1>4 DEF Index
    <2> QED
      BY <1>2, <2>1
  <1> QED
    BY <1>1, <1>3, <1>4

\* The slots in use.
Full(c) == {h \in Index : c.table[h] # Null}

\* Probing for the key in slot h leads there: all slots before it are in use
\* for other keys.
Reached(c, h) ==
    \E i \in Index :
        /\ h = Slot(c.key[c.table[h]], i)
        /\ \A j \in 0..(i - 1) :
             LET g == Slot(c.key[c.table[h]], j)
             IN  c.table[g] # Null /\ c.key[c.table[g]] # c.key[c.table[h]]

\* So Get finds it.
LEMMA Finds ==
    ASSUME NEW c, NEW h \in Full(c), Reached(c, h), NEW k \in Nat,
           k = c.key[c.table[h]]
    PROVE  Hit(c, k) /\ Find(c, k) = h
  <1>1. PICK i \in Index :
            /\ h = Slot(k, i)
            /\ \A j \in 0..(i - 1) : /\ c.table[Slot(k, j)] # Null
                                     /\ c.key[c.table[Slot(k, j)]] # k
    BY DEF Reached
  <1> DEFINE E == Ends(c, k)
             m == Min(E)
  <1>2. Index \subseteq Nat
    BY CacheAssumption DEF Index
  <1>3. i \in E /\ E \subseteq Index
    BY <1>1 DEF Ends
  <1>4. m \in E /\ m <= i
    BY <1>2, <1>3, MinIsLeast
  <1>5. m = i
    <2>1. m \in Nat /\ i \in Nat
      BY <1>2, <1>3, <1>4
    <2>2. CASE m < i
      <3>1. m \in 0..(i - 1)
        BY <2>1, <2>2
      <3>2. c.table[Slot(k, m)] # Null /\ c.key[c.table[Slot(k, m)]] # k
        BY <1>1, <3>1
      <3>3. c.table[Slot(k, m)] = Null \/ c.key[c.table[Slot(k, m)]] = k
        BY <1>4 DEF Ends
      <3> QED
        BY <3>2, <3>3
    <2> QED
      BY <1>4, <2>1, <2>2
  <1> QED
    BY <1>1, <1>3, <1>5 DEF Hit, Find, Full

\* What Get finds is what it looked for.
LEMMA Found ==
    ASSUME NEW c \in Caches, NEW k \in Nat, Hit(c, k)
    PROVE  Find(c, k) \in Full(c) /\ c.key[c.table[Find(c, k)]] = k
  <1> DEFINE m == Min(Ends(c, k))
  <1>1. Index \subseteq Nat /\ Ends(c, k) \subseteq Index /\ Ends(c, k) # {}
    BY CacheAssumption DEF Index, Ends, Hit
  <1>2. m \in Ends(c, k)
    BY <1>1, MinIsLeast
  <1>3. m \in Nat
    BY <1>1, <1>2
  <1>4. Slot(k, m) \in Index
    BY <1>3, SlotInTable
  <1>5. c.table[Slot(k, m)] = Null \/ c.key[c.table[Slot(k, m)]] = k
    BY <1>2 DEF Ends
  <1> QED
    BY <1>4, <1>5 DEF Hit, Find, Full

\* Get looks at the table and the keys only.
LEMMA SameTable ==
    ASSUME NEW c, NEW d, d.table = c.table, d.key = c.key, NEW k
    PROVE  (Hit(d, k) <=> Hit(c, k)) /\ Find(d, k) = Find(c, k)
  <1>1. Ends(d, k) = Ends(c, k)
    BY DEF Ends
  <1> QED
    BY <1>1 DEF Hit, Find

--------------------------------------------------------------------------------
(* The cache between two operations.                                         *)

\* Every node made is in one slot of the table, every slot in use is found by
\* probing for its key.
Tabled(c) ==
    /\ \A h \in Full(c) : c.table[h] \in 1..c.made /\ c.key[c.table[h]] \in Blocks
    /\ \A h \in Full(c) : Reached(c, h)
    /\ \A x \in 1..c.made : \E h \in Full(c) : c.table[h] = x
    /\ \A g, h \in Full(c) : c.table[g] = c.table[h] => g = h
    /\ Cardinality(Full(c)) = c.made

Ringed(c) == IF c.made = 0 THEN c.queue = Null ELSE Linked(c, 1..c.made)

Sound(c) ==
    /\ c \in Caches
    /\ c.halted = FALSE /\ c.free = Null /\ c.count = c.made
    /\ Tabled(c) /\ Ringed(c)

\* What is known of the constants.
LEMMA Constants ==
    /\ N \in Nat /\ N >= 2 /\ Nodes = 1..N /\ Null = 0 /\ Null \notin Nodes
    /\ Blocks \subseteq Nat /\ 0 \notin Blocks /\ NoFault \notin Blocks
    /\ IsFiniteSet(Index) /\ Cardinality(Index) = N
  <1>1. N \in Nat /\ N >= 2
    BY CacheAssumption
  <1>2. 0 \in Int /\ N - 1 \in Int /\ ~(0 > N - 1) /\ (N - 1) - 0 + 1 = N
    BY <1>1
  <1>3. IsFiniteSet(0..(N - 1)) /\ Cardinality(0..(N - 1)) = N
    BY <1>2, FS_Interval
  <1>4. NoFault \notin Blocks
    BY CacheAssumption DEF NoFault
  <1>5. Nodes = 1..N /\ Null = 0 /\ Null \notin Nodes
    BY <1>1 DEF Nodes, Null
  <1>6. Blocks \subseteq Nat /\ 0 \notin Blocks
    BY CacheAssumption
  <1> QED
    BY <1>1, <1>3, <1>4, <1>5, <1>6 DEF Index

\* Of a cache whose table is sound, Get finds each block in its slot, and no
\* block that is not there.
LEMMA Lookup ==
    ASSUME NEW c \in Caches, Tabled(c), NEW b \in Blocks
    PROVE  /\ Hit(c, b) => /\ Find(c, b) \in Full(c) /\ c.key[c.table[Find(c, b)]] = b
                           /\ c.table[Find(c, b)] \in 1..c.made
           /\ \A h \in Full(c) : c.key[c.table[h]] = b => Hit(c, b) /\ Find(c, b) = h
  <1>1. b \in Nat
    BY Constants
  <1>2. ASSUME Hit(c, b)
        PROVE  /\ Find(c, b) \in Full(c) /\ c.key[c.table[Find(c, b)]] = b
               /\ c.table[Find(c, b)] \in 1..c.made
    BY <1>1, <1>2, Found DEF Tabled
  <1>3. ASSUME NEW h \in Full(c), c.key[c.table[h]] = b
        PROVE  Hit(c, b) /\ Find(c, b) = h
    BY <1>1, <1>3, Finds DEF Tabled
  <1> QED
    BY <1>2, <1>3

\* A node that was never used enters the first empty slot of its key's chain.
LEMMA FreshEntry ==
    ASSUME NEW c \in Caches, NEW d \in Caches, Tabled(c), c.made < N,
           NEW k \in Blocks, \A g \in Full(c) : c.key[c.table[g]] # k,
           NEW i \in Index, NEW h, h = Slot(k, i), c.table[h] = Null,
           \A j \in 0..(i - 1) : c.table[Slot(k, j)] # Null,
           NEW x, x = c.made + 1, d.made = x,
           d.table = [c.table EXCEPT ![h] = x], d.key = [c.key EXCEPT ![x] = k]
    PROVE  Tabled(d)
  <1>1. /\ c.table \in Tables /\ c.key \in Keys /\ c.made \in Nat /\ x \in Nat
        /\ x \in Nodes /\ x # Null /\ x \notin 1..c.made /\ 1..x = 1..c.made \cup {x}
    BY Parts, Constants
  <1>2. k \in Nat /\ Index \subseteq Nat /\ h \in Index /\ h \notin Full(c)
    <2>1. k \in Nat /\ i \in Nat /\ Index \subseteq Nat
      BY Constants DEF Index
    <2> QED
      BY <2>1, SlotInTable DEF Full
  <1>3. \A g \in Index : d.table[g] = IF g = h THEN x ELSE c.table[g]
    BY <1>1, <1>2 DEF Tables
  <1>4. Full(d) = Full(c) \cup {h}
    BY <1>1, <1>2, <1>3 DEF Full
  <1>5. \A g \in Full(c) : /\ d.table[g] = c.table[g] /\ c.table[g] \in 1..c.made
                           /\ d.key[d.table[g]] = c.key[c.table[g]]
    <2> SUFFICES ASSUME NEW g \in Full(c)
                 PROVE  /\ d.table[g] = c.table[g] /\ c.table[g] \in 1..c.made
                        /\ d.key[d.table[g]] = c.key[c.table[g]]
      OBVIOUS
    <2>1. d.table[g] = c.table[g] /\ c.table[g] \in 1..c.made
      BY <1>2, <1>3 DEF Full, Tabled
    <2>2. c.table[g] # x /\ c.table[g] \in Nodes
      BY <1>1, <2>1, Constants
    <2> QED
      BY <1>1, <2>1, <2>2 DEF Keys
  <1>6. d.table[h] = x /\ d.key[d.table[h]] = k
    BY <1>1, <1>2, <1>3 DEF Keys
  <1>7. \A g \in Full(d) : d.table[g] \in 1..d.made /\ d.key[d.table[g]] \in Blocks
    BY <1>1, <1>4, <1>5, <1>6 DEF Tabled
  <1>8. ASSUME NEW g \in Full(d) PROVE Reached(d, g)
    <2>1. CASE g \in Full(c)
      <3> DEFINE l == c.key[c.table[g]]
      <3>1. PICK m \in Index :
                /\ g = Slot(l, m)
                /\ \A j \in 0..(m - 1) : /\ c.table[Slot(l, j)] # Null
                                         /\ c.key[c.table[Slot(l, j)]] # l
        BY <2>1 DEF Tabled, Reached
      <3>2. l = d.key[d.table[g]] /\ l \in Nat
        BY <1>5, <2>1, Constants DEF Tabled
      <3> HIDE DEF l
      <3>3. ASSUME NEW j \in 0..(m - 1)
            PROVE  d.table[Slot(l, j)] # Null /\ d.key[d.table[Slot(l, j)]] # l
        <4>1. j \in Nat
          OBVIOUS
        <4>2. Slot(l, j) \in Full(c)
          BY <3>1, <3>2, <4>1, SlotInTable DEF Full
        <4> QED
          BY <1>5, <3>1, <4>2
      <3> QED
        BY <3>1, <3>2, <3>3 DEF Reached
    <2>2. CASE g = h
      <3>1. ASSUME NEW j \in 0..(i - 1)
            PROVE  d.table[Slot(k, j)] # Null /\ d.key[d.table[Slot(k, j)]] # k
        <4>1. j \in Nat
          OBVIOUS
        <4>2. Slot(k, j) \in Full(c)
          BY <1>2, <4>1, SlotInTable DEF Full
        <4> QED
          BY <1>5, <4>2
      <3> QED
        BY <1>6, <2>2, <3>1 DEF Reached
    <2> QED
      BY <1>4, <2>1, <2>2
  <1>9. ASSUME NEW y \in 1..d.made PROVE \E g \in Full(d) : d.table[g] = y
    BY <1>1, <1>4, <1>5, <1>6 DEF Tabled
  <1>10. ASSUME NEW f \in Full(d), NEW g \in Full(d), d.table[f] = d.table[g] PROVE f = g
    BY <1>1, <1>4, <1>5, <1>6, <1>10 DEF Tabled
  <1>11. Cardinality(Full(d)) = d.made
    <2>1. IsFiniteSet(Full(c))
      <3>1. Full(c) \in SUBSET Index
        BY DEF Full
      <3> QED
        BY <3>1, Constants, FS_Subset
    <2>2. Cardinality(Full(c) \cup {h}) = Cardinality(Full(c)) + 1
      BY <1>2, <2>1, FS_AddElement
    <2>3. Cardinality(Full(c)) = c.made
      BY DEF Tabled
    <2> QED
      BY <1>4, <2>2, <2>3
  <1> QED
    BY <1>7, <1>8, <1>9, <1>10, <1>11 DEF Tabled

\* In a full table, the slot of an evicted node is used for another key: no
\* other slot is empty, so no chain is broken.
LEMMA ReusedEntry ==
    ASSUME NEW c \in Caches, NEW d \in Caches, Tabled(c), Full(c) = Index,
           NEW k \in Blocks, \A g \in Full(c) : c.key[c.table[g]] # k,
           NEW i \in Index, NEW h \in Index, h = Slot(k, i),
           \A j \in 0..(i - 1) : Slot(k, j) # h,
           NEW x, x = c.table[h], d.made = c.made,
           d.table = c.table, d.key = [c.key EXCEPT ![x] = k]
    PROVE  Tabled(d)
  <1>1. /\ c.key \in Keys /\ c.made \in 0..N /\ x \in 1..c.made /\ x \in Nodes /\ k \in Nat
        /\ Full(d) = Index /\ Index \subseteq Nat
    BY Parts, Constants DEF Tabled, Full, Index
  <1>2. \A g \in Index : /\ d.table[g] = c.table[g] /\ c.table[g] \in Nodes /\ c.table[g] # Null
                         /\ (g # h => c.table[g] # x)
    BY <1>1, Constants DEF Tabled
  <1>3. \A g \in Index : d.key[d.table[g]] = IF g = h THEN k ELSE c.key[c.table[g]]
    BY <1>1, <1>2 DEF Keys
  <1>4. ASSUME NEW g \in Index PROVE Reached(d, g)
    <2>1. CASE g # h
      <3> DEFINE l == c.key[c.table[g]]
      <3>1. PICK m \in Index :
                /\ g = Slot(l, m)
                /\ \A j \in 0..(m - 1) : /\ c.table[Slot(l, j)] # Null
                                         /\ c.key[c.table[Slot(l, j)]] # l
        BY DEF Tabled, Reached
      <3>2. l = d.key[d.table[g]] /\ l \in Nat /\ l # k
        BY <1>3, <2>1, Constants DEF Tabled
      <3> HIDE DEF l
      <3>3. ASSUME NEW j \in 0..(m - 1)
            PROVE  d.table[Slot(l, j)] # Null /\ d.key[d.table[Slot(l, j)]] # l
        <4>1. j \in Nat
          OBVIOUS
        <4>2. Slot(l, j) \in Index
          BY <3>2, <4>1, SlotInTable
        <4> QED
          BY <1>2, <1>3, <3>1, <3>2, <4>2
      <3>4. /\ g = Slot(d.key[d.table[g]], m)
            /\ \A j \in 0..(m - 1) :
                 /\ d.table[Slot(d.key[d.table[g]], j)] # Null
                 /\ d.key[d.table[Slot(d.key[d.table[g]], j)]] # d.key[d.table[g]]
        BY <3>1, <3>2, <3>3
      <3> QED
        BY <3>4 DEF Reached
    <2>2. CASE g = h
      <3>1. ASSUME NEW j \in 0..(i - 1)
            PROVE  d.table[Slot(k, j)] # Null /\ d.key[d.table[Slot(k, j)]] # k
        <4>1. j \in Nat
          OBVIOUS
        <4>2. Slot(k, j) \in Index
          BY <1>1, <4>1, SlotInTable
        <4> QED
          BY <1>2, <1>3, <4>2
      <3>2. d.key[d.table[g]] = k
        BY <1>3, <2>2
      <3> QED
        BY <2>2, <3>1, <3>2 DEF Reached
    <2> QED
      BY <2>1, <2>2
  <1>5. \A g \in Full(d) : d.table[g] \in 1..d.made /\ d.key[d.table[g]] \in Blocks
    BY <1>1, <1>2, <1>3 DEF Tabled
  <1>6. \A y \in 1..d.made : \E g \in Full(d) : d.table[g] = y
    BY <1>1, <1>2 DEF Tabled
  <1>7. \A f, g \in Full(d) : d.table[f] = d.table[g] => f = g
    BY <1>1, <1>2 DEF Tabled
  <1>8. Cardinality(Full(d)) = d.made
    BY <1>1 DEF Tabled
  <1> QED
    BY <1>1, <1>4, <1>5, <1>6, <1>7, <1>8 DEF Tabled

--------------------------------------------------------------------------------
(* Get and write_block.                                                      *)

\* Every slot in use holds a node of S.
Inside(c, S) == \A h \in Full(c) : c.table[h] \in S

\* Get of a block that is there.
LEMMA Got ==
    ASSUME NEW c \in Caches, NEW S \in SUBSET Nodes, Linked(c, S), Inside(c, S),
           c.count <= N, NEW b \in Blocks, Hit(c, b)
    PROVE  /\ Relinked(c, Get(c, b)) /\ Linked(Get(c, b), S)
           /\ Get(c, b).count = c.count
  <1> DEFINE h == Find(c, b)
  <1>1. h \in Full(c)
    BY Constants, Found
  <1>2. h \in Index /\ c.table[h] \in S
    BY <1>1 DEF Full, Inside
  <1>3. Get(c, b) = Promote(c, h)
    BY DEF Get
  <1> HIDE DEF h
  <1> QED
    BY <1>2, <1>3, Promoted

\* Between c and d the buffer of b went to the disk, unless the drive failed,
\* and the ring may have changed.
Stored(c, d, b) ==
    /\ d \in Caches
    /\ d.key = c.key /\ d.val = c.val /\ d.table = c.table /\ d.free = c.free
    /\ d.made = c.made /\ d.cb = c.cb /\ d.halted = c.halted
    /\ d.fault = c.fault /\ d.ret = c.ret
    /\ d.disk = [c.disk EXCEPT ![b] = IF b = c.fault THEN @ ELSE Buffer(c, b)]
    /\ d.failed = c.failed \cup ({b} \cap {c.fault})

\* write_block of a block that is there.
LEMMA WroteBlock ==
    ASSUME NEW c \in Caches, NEW S \in SUBSET Nodes, Linked(c, S), Inside(c, S),
           c.count <= N, NEW b \in Blocks, Hit(c, b)
    PROVE  /\ Stored(c, write_block(c, b), b) /\ Linked(write_block(c, b), S)
           /\ write_block(c, b).count = c.count
  <1> DEFINE e == Get(c, b)
             k == e.disk
             v == IF b = e.fault THEN k[b] ELSE Buffer(e, b)
             dk == [k EXCEPT ![b] = v]
             fl == e.failed \cup ({b} \cap {e.fault})
             d == [e EXCEPT !.disk = dk, !.failed = fl]
  <1>1. Relinked(c, e) /\ Linked(e, S) /\ e.count = c.count
    BY Got
  <1>2. write_block(c, b) = d
    BY DEF write_block, ide_write_secs, Transferred, Failing
  <1> HIDE DEF e
  <1>3. e \in Caches /\ e.table = c.table /\ e.key = c.key /\ e.val = c.val
    BY <1>1 DEF Relinked
  <1>4. Buffer(e, b) = Buffer(c, b)
    BY <1>3, SameTable DEF Buffer
  <1>5. Buffer(c, b) \in Data
    <2>1. Find(c, b) \in Full(c)
      BY Constants, Found
    <2>2. c.table[Find(c, b)] \in Nodes /\ c.val \in Values
      BY <2>1, Parts DEF Full, Tables, Pointer
    <2> QED
      BY <2>2 DEF Buffer, Values
  <1>6. k \in Disks /\ e.failed \in SUBSET Blocks
    BY <1>3, Parts
  <1>7. v \in Data
    BY <1>4, <1>5, <1>6 DEF Disks
  <1>8. dk \in Disks /\ fl \in SUBSET Blocks
    BY <1>6, <1>7 DEF Disks
  <1>9. dk = [c.disk EXCEPT ![b] = IF b = c.fault THEN c.disk[b] ELSE Buffer(c, b)]
    BY <1>1, <1>4 DEF Relinked
  <1>10. fl = c.failed \cup ({b} \cap {c.fault})
    BY <1>1 DEF Relinked
  <1> HIDE DEF dk, fl
  <1>11. /\ d \in Caches /\ d.disk = dk /\ d.failed = fl
         /\ d.prev = e.prev /\ d.next = e.next /\ d.queue = e.queue /\ d.count = e.count
         /\ d.key = e.key /\ d.val = e.val /\ d.table = e.table /\ d.free = e.free
         /\ d.made = e.made /\ d.cb = e.cb /\ d.halted = e.halted
         /\ d.fault = e.fault /\ d.ret = e.ret
    BY <1>3, <1>8 DEF Caches
  <1> HIDE DEF d
  <1>12. Stored(c, d, b)
    BY <1>1, <1>9, <1>10, <1>11 DEF Stored, Relinked
  <1>13. Linked(d, S)
    BY <1>1, <1>11 DEF Linked
  <1> QED
    BY <1>1, <1>2, <1>11, <1>12, <1>13

--------------------------------------------------------------------------------
(* Set.                                                                      *)

\* The queue S can take x: S is empty, or its nodes point at each other but for
\* the successor of x.
Open(c, S, x) ==
    \/ S = {} /\ c.queue = Null
    \/ /\ c.queue \in S
       /\ \A y \in S : c.prev[y] \in S
       /\ \A y \in S \ {x} : c.next[y] \in S

\* Between c and d node x entered the table at h, with key k, and the queue S.
Occupied(c, d, h, k, x, S) ==
    /\ d \in Caches /\ Linked(d, S \cup {x}) /\ d.count = c.count + 1
    /\ d.table = [c.table EXCEPT ![h] = x]
    /\ d.key = [c.key EXCEPT ![x] = k]
    /\ d.made = IF c.free = Null THEN x ELSE c.made
    /\ d.free = IF c.free = Null THEN Null ELSE c.next[x]
    /\ d.val = c.val /\ d.cb = c.cb /\ d.halted = c.halted
    /\ d.disk = c.disk /\ d.fault = c.fault /\ d.failed = c.failed
    /\ d.ret = c.ret

\* That is alloc() and what Set does with the node.
LEMMA FilledSlot ==
    ASSUME NEW c \in Caches, NEW h \in Index, NEW k \in Blocks, c.count < N, c.count >= 0,
           NEW x \in Nodes, x = IF c.free = Null THEN c.made + 1 ELSE c.free,
           NEW S \in SUBSET Nodes, Open(c, S, x)
    PROVE  Occupied(c, Fill(c, h, k), h, k, x, S)
  <1> DEFINE made == IF c.free = Null THEN x ELSE c.made
             fr == IF c.free = Null THEN Null ELSE c.next[x]
             tb == [c.table EXCEPT ![h] = x]
             a == [c EXCEPT !.made = made, !.free = fr, !.table = tb]
             b == push_back(a, x)
             ky == [b.key EXCEPT ![x] = k]
             e == [b EXCEPT !.key = ky]
             d == Promote(e, h)
  <1>1. made \in 0..N /\ fr \in Pointer /\ tb \in Tables
    BY Parts, Constants DEF Pointer, Pointers, Tables
  <1>2. Fill(c, h, k) = d
    <2>1. CASE c.free = Null
      <3>1. a = [[c EXCEPT !.made = x] EXCEPT !.table[h] = x]
        BY <1>1, <2>1 DEF Caches
      <3> QED
        BY <2>1, <3>1 DEF Fill
    <2>2. CASE c.free # Null
      <3>1. a = [[c EXCEPT !.free = c.next[x]] EXCEPT !.table[h] = x]
        BY <1>1, <2>2 DEF Caches
      <3> QED
        BY <2>2, <3>1 DEF Fill
    <2> QED
      BY <2>1, <2>2
  <1> HIDE DEF made, fr, tb, b, ky
  <1>3. /\ a \in Caches /\ a.made = made /\ a.free = fr /\ a.table = tb
        /\ a.prev = c.prev /\ a.next = c.next /\ a.queue = c.queue /\ a.count = c.count
        /\ a.key = c.key /\ a.val = c.val /\ a.cb = c.cb /\ a.halted = c.halted
        /\ a.disk = c.disk /\ a.fault = c.fault /\ a.failed = c.failed /\ a.ret = c.ret
    BY <1>1 DEF Caches
  <1> HIDE DEF a
  <1>4. Relinked(a, b) /\ Linked(b, S \cup {x}) /\ b.count = a.count + 1
    <2>1. CASE S = {} /\ c.queue = Null
      <3>1. Relinked(a, b) /\ Linked(b, {x}) /\ b.count = a.count + 1
        BY <1>3, <2>1, PushedFirst DEF b
      <3>2. S \cup {x} = {x}
        BY <2>1
      <3> QED
        BY <3>1, <3>2
    <2>2. CASE ~(S = {} /\ c.queue = Null)
      <3>1. /\ a.queue \in S /\ \A y \in S : a.prev[y] \in S
            /\ \A y \in S \ {x} : a.next[y] \in S /\ a.count < N
        BY <1>3, <2>2 DEF Open
      <3> QED
        BY <1>3, <3>1, Pushed DEF b
    <2> QED
      BY <2>1, <2>2
  <1>5. b \in Caches /\ b.key = c.key /\ b.table = tb
    BY <1>3, <1>4 DEF Relinked
  <1>6. ky = [c.key EXCEPT ![x] = k] /\ ky \in Keys
    BY <1>5, Parts DEF ky, Keys
  <1>7. /\ e \in Caches /\ e.key = ky
        /\ e.prev = b.prev /\ e.next = b.next /\ e.queue = b.queue /\ e.count = b.count
        /\ e.val = b.val /\ e.table = b.table /\ e.free = b.free /\ e.made = b.made
        /\ e.cb = b.cb /\ e.halted = b.halted /\ e.disk = b.disk /\ e.fault = b.fault
        /\ e.failed = b.failed /\ e.ret = b.ret
    BY <1>5, <1>6 DEF Caches
  <1> HIDE DEF e
  <1>8. Linked(e, S \cup {x})
    BY <1>4, <1>7 DEF Linked
  <1>9. e.count <= N /\ e.count = c.count + 1 /\ e.table[h] = x
    <2>1. c.count \in Int /\ N \in Nat /\ c.table \in Tables
      BY Parts, Constants
    <2>2. tb[h] = x
      BY <2>1 DEF tb, Tables
    <2> QED
      BY <1>3, <1>4, <1>5, <1>7, <2>1, <2>2
  <1>10. S \cup {x} \in SUBSET Nodes /\ e.table[h] \in S \cup {x}
    BY <1>9
  <1>11. Relinked(e, d) /\ Linked(d, S \cup {x}) /\ d.count = e.count
    BY <1>7, <1>8, <1>9, <1>10, Promoted
  <1> HIDE DEF d
  <1>12. /\ d.table = tb /\ d.key = ky /\ d.made = made /\ d.free = fr
         /\ d.val = c.val /\ d.cb = c.cb /\ d.halted = c.halted
         /\ d.disk = c.disk /\ d.fault = c.fault /\ d.failed = c.failed /\ d.ret = c.ret
         /\ d \in Caches
    BY <1>3, <1>4, <1>7, <1>11 DEF Relinked
  <1> QED
    BY <1>2, <1>6, <1>9, <1>11, <1>12 DEF tb, ky, made, fr, Occupied

\* The table is full when all N nodes are in use, and not before.
LEMMA FullTable ==
    ASSUME NEW c \in Caches, Tabled(c)
    PROVE  c.made = N <=> Full(c) = Index
  <1>1. Full(c) \in SUBSET Index
    BY DEF Full
  <1> QED
    BY <1>1, Constants, FS_Subset DEF Tabled

\* What the cache and the disk hold of block b.
Held(c, b) == IF Hit(c, b) THEN Buffer(c, b) ELSE c.disk[b]

\* When slot h passes to node x and key k, nothing changes for the blocks that
\* are neither k nor the one that was in h.
LEMMA OtherBlocks ==
    ASSUME NEW c \in Caches, NEW d \in Caches, Tabled(c), Tabled(d), d.val = c.val,
           NEW h \in Index, NEW x \in Nodes, NEW k \in Blocks,
           d.table = [c.table EXCEPT ![h] = x], d.key = [c.key EXCEPT ![x] = k],
           \A g \in Full(c) \ {h} : c.table[g] # x,
           NEW b \in Blocks, b # k, h \in Full(c) => c.key[c.table[h]] # b,
           d.disk[b] = c.disk[b]
    PROVE  Held(d, b) = Held(c, b)
  <1>1. c.table \in Tables /\ c.key \in Keys
    BY Parts
  <1>2. \A g \in Index : d.table[g] = IF g = h THEN x ELSE c.table[g]
    BY <1>1 DEF Tables
  <1>3. \A g \in Full(c) \ {h} : /\ g \in Full(d) /\ d.table[g] = c.table[g]
                                 /\ d.key[d.table[g]] = c.key[c.table[g]]
    <2> SUFFICES ASSUME NEW g \in Full(c) \ {h}
                 PROVE  /\ g \in Full(d) /\ d.table[g] = c.table[g]
                        /\ d.key[d.table[g]] = c.key[c.table[g]]
      OBVIOUS
    <2>1. g \in Index /\ c.table[g] # Null /\ c.table[g] \in Nodes
      BY <1>1 DEF Full, Tables, Pointer
    <2>2. d.table[g] = c.table[g] /\ c.table[g] # x
      BY <1>2, <2>1
    <2> QED
      BY <1>1, <2>1, <2>2 DEF Full, Keys
  <1>4. \A g \in Full(d) : d.key[d.table[g]] = b => g \in Full(c) \ {h}
    <2>1. d.key[d.table[h]] = k
      BY <1>1, <1>2 DEF Keys
    <2> QED
      BY <1>2, <2>1 DEF Full
  <1>5. CASE Hit(c, b)
    <2> DEFINE g == Find(c, b)
    <2>1. g \in Full(c) \ {h} /\ c.key[c.table[g]] = b
      BY <1>5, Lookup
    <2>2. g \in Full(d) /\ d.table[g] = c.table[g] /\ d.key[d.table[g]] = b
      BY <1>3, <2>1
    <2> HIDE DEF g
    <2>3. Hit(d, b) /\ Find(d, b) = g
      <3>1. \A f \in Full(d) : d.key[d.table[f]] = b => Hit(d, b) /\ Find(d, b) = f
        BY ONLY d \in Caches, Tabled(d), b \in Blocks, Lookup
      <3> QED
        BY <2>2, <3>1
    <2> QED
      BY <1>5, <2>2, <2>3 DEF Held, Buffer, g
  <1>6. CASE ~Hit(c, b)
    <2>1. ASSUME Hit(d, b) PROVE FALSE
      <3> DEFINE g == Find(d, b)
      <3>1. g \in Full(d) /\ d.key[d.table[g]] = b
        BY <2>1, Lookup
      <3>2. g \in Full(c) \ {h}
        BY <1>4, <3>1
      <3>3. c.key[c.table[g]] = b
        BY <1>3, <3>1, <3>2
      <3> HIDE DEF g
      <3> QED
        BY <1>6, <3>2, <3>3, Lookup
    <2> QED
      BY <1>6, <2>1 DEF Held
  <1> QED
    BY <1>5, <1>6

\* Set evicts the node at the front: its block is written, by the callback, and
\* its slot is empty.
LEMMA Evicted ==
    ASSUME NEW c, Sound(c), c.made = N, c.cb = TRUE
    PROVE  LET q == c.queue
               l == c.key[q]
               g == Evict(c)
           IN  \E h \in Index :
                /\ q \in Nodes /\ c.table[h] = q /\ l \in Blocks
                /\ g \in Caches /\ Open(g, Nodes, q) /\ g.next[q] = Null
                /\ g.table = [c.table EXCEPT ![h] = Null]
                /\ g.free = q /\ g.made = N /\ g.count = N - 1
                /\ g.key = c.key /\ g.val = c.val /\ g.cb = c.cb /\ g.halted = c.halted
                /\ g.fault = c.fault /\ g.ret = c.ret
                /\ g.disk = [c.disk EXCEPT ![l] = IF l = c.fault THEN @ ELSE c.val[q]]
                /\ g.failed = c.failed \cup ({l} \cap {c.fault})
  <1> DEFINE q == c.queue
             l == c.key[q]
             d == pop_front(c)
             e == write_block(d, l)
  <1>1. /\ c \in Caches /\ Tabled(c) /\ Linked(c, Nodes) /\ c.count = N /\ N \in Nat
        /\ Nodes = 1..c.made
    BY Constants DEF Sound, Ringed
  <1>2. PICK h \in Full(c) : c.table[h] = q
    BY <1>1 DEF Tabled, Linked
  <1>3. h \in Index /\ q \in Nodes /\ l \in Blocks
    BY <1>1, <1>2 DEF Tabled, Full, Linked
  <1>4. Hit(c, l) /\ Find(c, l) = h
    BY <1>1, <1>2, <1>3, Lookup
  <1>5. Relinked(c, d) /\ Linked(d, Nodes) /\ d.count = N - 1
    BY <1>1, Popped
  <1>6. /\ d \in Caches /\ d.key = c.key /\ d.val = c.val /\ d.table = c.table
        /\ d.cb = TRUE
    BY <1>5 DEF Relinked
  <1> HIDE DEF d
  <1>7. Hit(d, l) /\ Find(d, l) = h
    BY <1>4, <1>6, SameTable
  <1>8. Buffer(d, l) = c.val[q]
    BY <1>2, <1>6, <1>7 DEF Buffer
  <1>9. Inside(d, Nodes) /\ d.count <= N
    BY <1>1, <1>5, <1>6 DEF Inside, Full, Tabled
  <1> HIDE DEF l
  <1>10. Stored(d, e, l) /\ Linked(e, Nodes) /\ e.count = d.count
    BY <1>3, <1>6, <1>7, <1>5, <1>9, WroteBlock
  <1>11. Evict(c) = [[e EXCEPT !.next[q] = e.free, !.free = q] EXCEPT !.table[h] = Null]
    <2>1. c.count >= N /\ d.table[h] = q /\ d.key[q] = l
      BY <1>1, <1>2, <1>6 DEF l
    <2>2. Evict(c) = erase(d, l)
      BY <2>1 DEF Evict, d, l
    <2>3. erase(d, l) = [free(d, q) EXCEPT !.table[h] = Null]
      BY <1>7, <2>1 DEF erase
    <2>4. free(d, q) = [e EXCEPT !.next[q] = e.free, !.free = q]
      BY <1>6, <2>1 DEF free, Pool
    <2> QED
      BY <2>2, <2>3, <2>4
  <1> HIDE DEF e
  <1>12. /\ e \in Caches /\ e.key = c.key /\ e.val = c.val /\ e.table = c.table
         /\ e.free = Null /\ e.made = N /\ e.cb = c.cb /\ e.halted = c.halted
         /\ e.fault = c.fault /\ e.ret = c.ret /\ e.count = N - 1
         /\ e.disk = [c.disk EXCEPT ![l] = IF l = c.fault THEN @ ELSE c.val[q]]
         /\ e.failed = c.failed \cup ({l} \cap {c.fault})
    BY <1>5, <1>8, <1>10 DEF Stored, Relinked, Sound
  <1> DEFINE nx == [e.next EXCEPT ![q] = Null]
             tb == [e.table EXCEPT ![h] = Null]
             g == [e EXCEPT !.next = nx, !.free = q, !.table = tb]
  <1>13. nx \in Pointers /\ tb \in Tables /\ q \in Pointer /\ nx[q] = Null
         /\ \A y \in Nodes \ {q} : nx[y] = e.next[y]
    BY <1>3, <1>12, Parts DEF Pointers, Tables, Pointer
  <1>14. Evict(c) = g
    BY <1>11, <1>12, <1>13 DEF Caches
  <1>15. tb = [c.table EXCEPT ![h] = Null]
    BY <1>12
  <1> HIDE DEF nx, tb, q
  <1>16. /\ g \in Caches /\ g.next = nx /\ g.free = q /\ g.table = tb
         /\ g.prev = e.prev /\ g.queue = e.queue /\ g.made = e.made /\ g.count = e.count
         /\ g.key = e.key /\ g.val = e.val /\ g.cb = e.cb /\ g.halted = e.halted
         /\ g.disk = e.disk /\ g.fault = e.fault /\ g.failed = e.failed /\ g.ret = e.ret
    BY <1>12, <1>13 DEF Caches
  <1> HIDE DEF g
  <1>17. Open(g, Nodes, q)
    BY <1>10, <1>13, <1>16 DEF Linked, Open
  <1>18. g.next[q] = Null
    BY <1>13, <1>16
  <1> QED
    BY <1>2, <1>3, <1>12, <1>14, <1>15, <1>16, <1>17, <1>18 DEF q, l

\* A block that has no entry.
LEMMA Absent ==
    ASSUME NEW c \in Caches, Tabled(c), NEW k \in Blocks, ~Hit(c, k)
    PROVE  \A g \in Full(c) : c.key[c.table[g]] # k
  BY Lookup

\* Insert takes the first empty slot of the chain of k.
LEMMA InsertedAt ==
    ASSUME NEW c \in Caches, NEW k \in Blocks, c.halted = FALSE, Full(c) # Index
    PROVE  \E i \in Index :
            /\ Slot(k, i) \in Index /\ c.table[Slot(k, i)] = Null
            /\ \A j \in 0..(i - 1) : c.table[Slot(k, j)] # Null
            /\ Insert(c, k) = Fill(c, Slot(k, i), k)
  <1> DEFINE empty == {i \in Index : c.table[Slot(k, i)] = Null}
             m == Min(empty)
  <1>1. k \in Nat /\ Index \subseteq Nat /\ N \in Nat
    BY Constants DEF Index
  <1>2. PICK h \in Index : c.table[h] = Null
    BY DEF Full
  <1>3. empty # {} /\ empty \subseteq Nat
    BY <1>1, <1>2, SlotsOnto
  <1>4. m \in empty /\ \A j \in empty : m <= j
    BY <1>3, MinIsLeast
  <1>5. Insert(c, k) = Fill(c, Slot(k, m), k)
    BY <1>3 DEF Insert
  <1> HIDE DEF m
  <1>6. m \in Index /\ m \in Nat /\ c.table[Slot(k, m)] = Null
    BY <1>1, <1>4
  <1>7. Slot(k, m) \in Index
    BY <1>1, <1>6, SlotInTable
  <1>8. ASSUME NEW j \in 0..(m - 1) PROVE c.table[Slot(k, j)] # Null
    <2>1. j \in Index /\ ~(m <= j)
      BY <1>1, <1>6 DEF Index
    <2> QED
      BY <1>4, <2>1
  <1> QED
    BY <1>5, <1>6, <1>7, <1>8

\* Between c and d block k has got a buffer, whatever is in it; every other
\* block still has its data, in the cache or on the disk, or its transfer
\* failed.
Entered(c, d, k) ==
    /\ Sound(d) /\ Hit(d, k)
    /\ d.cb = c.cb /\ d.fault = c.fault /\ d.ret = c.ret /\ d.val = c.val
    /\ d.made # 0
    /\ c.failed \subseteq d.failed /\ d.failed \subseteq c.failed \cup {c.fault}
    /\ d.disk[k] = c.disk[k]
    /\ \A b \in Blocks : b # k /\ b \notin d.failed => Held(d, b) = Held(c, b)
    /\ \A b \in Blocks : d.disk[b] \in {c.disk[b], Held(c, b)}

\* Set with a node that was never used.
LEMMA AllocatedFresh ==
    ASSUME NEW c, Sound(c), NEW k \in Blocks, ~Hit(c, k), c.made # N
    PROVE  Entered(c, Alloc(c, k), k)
  <1> DEFINE x == c.made + 1
             S == 1..c.made
             d == Alloc(c, k)
  <1>1. /\ c \in Caches /\ Tabled(c) /\ Ringed(c) /\ c.halted = FALSE /\ c.free = Null
        /\ c.count = c.made /\ c.made \in Nat /\ c.made < N /\ N \in Nat
    BY Parts, Constants DEF Sound
  <1>2. x \in Nodes /\ S \in SUBSET Nodes /\ S \cup {x} = 1..x /\ x # 0 /\ x \notin S
        /\ c.count < N /\ c.count >= 0
    BY <1>1, Constants
  <1>3. Evict(c) = c
    BY <1>1, <1>2 DEF Evict
  <1>4. Full(c) # Index
    BY <1>1, FullTable
  <1>5. PICK i \in Index :
            /\ Slot(k, i) \in Index /\ c.table[Slot(k, i)] = Null
            /\ \A j \in 0..(i - 1) : c.table[Slot(k, j)] # Null
            /\ Insert(c, k) = Fill(c, Slot(k, i), k)
    BY <1>1, <1>4, InsertedAt
  <1> DEFINE h == Slot(k, i)
  <1>6. d = Fill(c, h, k)
    BY <1>3, <1>5 DEF Alloc
  <1>7. Open(c, S, x)
    <2>1. CASE c.made = 0
      BY <1>1, <2>1 DEF Open, Ringed
    <2>2. CASE c.made # 0
      BY <1>1, <2>2 DEF Open, Ringed, Linked
    <2> QED
      BY <2>1, <2>2
  <1> HIDE DEF d, h, S, x
  <1>8. x = IF c.free = Null THEN c.made + 1 ELSE c.free
    BY <1>1 DEF x
  <1>9. h \in Index
    BY <1>5 DEF h
  <1>10. /\ d \in Caches /\ Linked(d, S \cup {x}) /\ d.count = c.count + 1
         /\ d.table = [c.table EXCEPT ![h] = x]
         /\ d.key = [c.key EXCEPT ![x] = k]
         /\ d.made = x /\ d.free = Null
         /\ d.val = c.val /\ d.cb = c.cb /\ d.halted = c.halted
         /\ d.disk = c.disk /\ d.fault = c.fault /\ d.failed = c.failed
         /\ d.ret = c.ret
    <2>1. Occupied(c, d, h, k, x, S)
      BY <1>1, <1>2, <1>6, <1>7, <1>8, <1>9, FilledSlot
    <2> QED
      BY <1>1, <2>1 DEF Occupied
  <1>11. \A g \in Full(c) : c.key[c.table[g]] # k
    BY <1>1, Absent
  <1>12. Tabled(d)
    BY <1>1, <1>5, <1>10, <1>11, FreshEntry DEF h, x
  <1>13. Sound(d)
    BY <1>1, <1>2, <1>10, <1>12 DEF Sound, Ringed, x
  <1>14. Hit(d, k)
    <2>1. c.table \in Tables /\ c.key \in Keys /\ x # Null
      BY <1>1, <1>2, Parts, Constants
    <2>2. d.table[h] = x /\ d.key[x] = k
      BY <1>2, <1>9, <1>10, <2>1 DEF Tables, Keys
    <2>3. h \in Full(d) /\ d.key[d.table[h]] = k
      BY <1>9, <2>1, <2>2 DEF Full
    <2> QED
      BY <1>10, <1>12, <2>3, Lookup
  <1>15. ASSUME NEW b \in Blocks, b # k PROVE Held(d, b) = Held(c, b)
    <2>1. \A g \in Full(c) \ {h} : c.table[g] # x
      BY <1>1, <1>2 DEF Tabled, S
    <2>2. h \notin Full(c)
      BY <1>5 DEF Full, h
    <2>3. d.disk[b] = c.disk[b]
      BY <1>10
    <2> QED
      BY <1>1, <1>2, <1>9, <1>10, <1>12, <1>15, <2>1, <2>2, <2>3, OtherBlocks
  <1> QED
    BY <1>2, <1>10, <1>13, <1>14, <1>15 DEF Entered, d

\* Set with the node it evicts from a full table.
LEMMA AllocatedReused ==
    ASSUME NEW c, Sound(c), NEW k \in Blocks, ~Hit(c, k), c.made = N, c.cb = TRUE
    PROVE  Entered(c, Alloc(c, k), k)
  <1> DEFINE x == c.queue
             l == c.key[x]
             e == Evict(c)
             d == Alloc(c, k)
  <1>1. /\ c \in Caches /\ Tabled(c) /\ Ringed(c) /\ c.halted = FALSE /\ c.free = Null
        /\ c.count = N /\ c.made = N /\ N \in Nat /\ N # 0 /\ Nodes = 1..N
        /\ x \in Pointer
    BY Parts, Constants DEF Sound
  <1>2. PICK h \in Index :
            /\ x \in Nodes /\ c.table[h] = x /\ l \in Blocks
            /\ e \in Caches /\ Open(e, Nodes, x) /\ e.next[x] = Null
            /\ e.table = [c.table EXCEPT ![h] = Null]
            /\ e.free = x /\ e.made = N /\ e.count = N - 1
            /\ e.key = c.key /\ e.val = c.val /\ e.cb = c.cb /\ e.halted = c.halted
            /\ e.fault = c.fault /\ e.ret = c.ret
            /\ e.disk = [c.disk EXCEPT ![l] = IF l = c.fault THEN @ ELSE c.val[x]]
            /\ e.failed = c.failed \cup ({l} \cap {c.fault})
    BY Evicted
  <1>3. Full(c) = Index
    BY <1>1, FullTable
  <1> HIDE DEF x, l, e
  <1>4. \A g \in Index : e.table[g] = IF g = h THEN Null ELSE c.table[g]
    BY <1>1, <1>2, Parts DEF Tables
  <1>5. Full(e) = Index \ {h}
    BY <1>3, <1>4 DEF Full
  <1>6. PICK i \in Index :
            /\ Slot(k, i) \in Index /\ e.table[Slot(k, i)] = Null
            /\ \A j \in 0..(i - 1) : e.table[Slot(k, j)] # Null
            /\ Insert(e, k) = Fill(e, Slot(k, i), k)
    <2>1. e \in Caches /\ e.halted = FALSE /\ Full(e) # Index
      BY <1>1, <1>2, <1>5
    <2> QED
      BY <2>1, InsertedAt
  <1>7. Slot(k, i) = h /\ \A j \in 0..(i - 1) : Slot(k, j) # h
    BY <1>3, <1>4, <1>6 DEF Full
  <1>8. d = Fill(e, h, k)
    BY <1>6, <1>7 DEF Alloc, e
  <1> HIDE DEF d
  <1>9. x # Null /\ x = IF e.free = Null THEN e.made + 1 ELSE e.free
    BY <1>2, Constants
  <1>10. e.count < N /\ e.count >= 0 /\ Nodes \in SUBSET Nodes /\ Nodes \cup {x} = Nodes
    BY <1>1, <1>2
  <1>11. /\ d \in Caches /\ Linked(d, Nodes \cup {x}) /\ d.count = e.count + 1
         /\ d.table = [e.table EXCEPT ![h] = x]
         /\ d.key = [e.key EXCEPT ![x] = k]
         /\ d.made = e.made /\ d.free = e.next[x]
         /\ d.val = e.val /\ d.cb = e.cb /\ d.halted = e.halted
         /\ d.disk = e.disk /\ d.fault = e.fault /\ d.failed = e.failed
         /\ d.ret = e.ret
    <2>1. e \in Caches /\ x \in Nodes /\ Open(e, Nodes, x) /\ e.free # Null
      BY <1>2, <1>9
    <2>2. Occupied(e, d, h, k, x, Nodes)
      BY <1>8, <1>9, <1>10, <2>1, FilledSlot
    <2> QED
      BY <2>1, <2>2 DEF Occupied
  <1>12. d.table = c.table /\ d.table = [c.table EXCEPT ![h] = x]
    <2>1. c.table \in Tables /\ e.table \in Tables
      BY <1>1, <1>2, Parts
    <2> QED
      BY <1>2, <1>4, <1>11, <2>1 DEF Tables
  <1>13. d.key = [c.key EXCEPT ![x] = k] /\ d.made = c.made
    BY <1>1, <1>2, <1>11
  <1>14. \A g \in Full(c) : c.key[c.table[g]] # k
    BY <1>1, Absent
  <1>15. Tabled(d)
    <2>1. c \in Caches /\ d \in Caches /\ Tabled(c) /\ d.table = c.table /\ x = c.table[h]
      BY <1>1, <1>2, <1>11, <1>12
    <2> QED
      BY <1>3, <1>7, <1>13, <1>14, <2>1, ReusedEntry
  <1>16. Sound(d)
    <2>1. /\ d \in Caches /\ Linked(d, 1..d.made) /\ d.made # 0 /\ d.halted = FALSE
          /\ d.free = Null /\ d.count = d.made
      <3>1. d.made = N /\ d.free = Null /\ d.halted = FALSE
        BY <1>1, <1>2, <1>11
      <3>2. d.count = N
        BY <1>1, <1>2, <1>11
      <3>3. Nodes \cup {x} = 1..d.made
        BY <1>1, <1>10, <3>1
      <3> QED
        BY <1>1, <1>11, <3>1, <3>2, <3>3
    <2> QED
      BY <1>15, <2>1 DEF Sound, Ringed
  <1>17. Hit(d, k)
    <2>1. c.key \in Keys
      BY <1>1, Parts
    <2>2. d.table[h] = x /\ d.key[x] = k
      BY <1>2, <1>12, <1>13, <2>1 DEF Keys
    <2>3. h \in Full(d) /\ d.key[d.table[h]] = k
      BY <1>9, <2>2 DEF Full
    <2> QED
      BY <1>11, <1>15, <2>3, Lookup
  <1>18. h \in Full(c) /\ c.key[c.table[h]] = l /\ l # k
    BY <1>2, <1>3, <1>14 DEF l
  <1>19. Hit(c, l) /\ Find(c, l) = h
    BY <1>1, <1>2, <1>18, Lookup
  <1>20. c.disk \in Disks
    BY <1>1, Parts
  <1>21. ASSUME NEW b \in Blocks, b # k, b # l PROVE Held(d, b) = Held(c, b)
    <2>1. \A g \in Full(c) \ {h} : c.table[g] # x
      BY <1>1, <1>2, <1>18 DEF Tabled
    <2>2. d.disk[b] = c.disk[b]
      BY <1>2, <1>11, <1>20, <1>21 DEF Disks
    <2>3. d.val = c.val
      BY <1>2, <1>11
    <2>4. c \in Caches /\ d \in Caches /\ Tabled(c) /\ x \in Nodes
          /\ d.table = [c.table EXCEPT ![h] = x] /\ d.key = [c.key EXCEPT ![x] = k]
          /\ c.key[c.table[h]] # b
      BY <1>1, <1>2, <1>11, <1>12, <1>13, <1>18, <1>21
    <2> QED
      BY <1>15, <1>21, <2>1, <2>2, <2>3, <2>4, OtherBlocks
  <1>22. ASSUME l \notin d.failed PROVE Held(d, l) = Held(c, l)
    <2>1. l # c.fault
      BY <1>2, <1>11, <1>22
    <2>2. d.disk[l] = c.val[x]
      BY <1>2, <1>11, <1>20, <2>1 DEF Disks
    <2>3. ASSUME Hit(d, l) PROVE FALSE
      <3> DEFINE g == Find(d, l)
      <3>1. g \in Full(d) /\ d.key[d.table[g]] = l
        <4>1. d \in Caches /\ l \in Blocks
          BY <1>2, <1>11
        <4> QED
          BY <1>15, <2>3, <4>1, Lookup
      <3> HIDE DEF g
      <3>2. g \in Index /\ g \in Full(c) /\ d.table[g] = c.table[g] /\ c.table[g] \in Nodes
        BY <1>1, <1>3, <1>12, <3>1 DEF Full, Tabled
      <3>3. c.key \in Keys
        BY <1>1, Parts
      <3>4. c.table[g] # x
        BY <1>2, <1>13, <1>18, <3>1, <3>2, <3>3 DEF Keys
      <3>5. c.key[c.table[g]] = l
        BY <1>13, <3>1, <3>2, <3>3, <3>4 DEF Keys
      <3>6. g = h
        BY <1>1, <1>2, <1>19, <3>2, <3>5, Lookup
      <3> QED
        BY <1>2, <3>4, <3>6
    <2> QED
      BY <1>2, <1>19, <2>2, <2>3 DEF Held, Buffer
  <1>23. /\ d.disk[k] = c.disk[k] /\ c.failed \subseteq d.failed
         /\ d.failed \subseteq c.failed \cup {c.fault}
    BY <1>2, <1>11, <1>18, <1>20 DEF Disks
  <1>25. Held(c, l) = c.val[x]
    BY <1>2, <1>19 DEF Held, Buffer
  <1>26. \A b \in Blocks : d.disk[b] \in {c.disk[b], Held(c, b)}
    BY <1>2, <1>11, <1>20, <1>25 DEF Disks
  <1>24. /\ d.cb = c.cb /\ d.fault = c.fault /\ d.ret = c.ret /\ d.val = c.val
         /\ d.made # 0
    BY <1>1, <1>2, <1>11
  <1> QED
    BY <1>16, <1>17, <1>21, <1>22, <1>23, <1>24, <1>26 DEF Entered, d

\* Set of a block that is not there.
LEMMA Allocated ==
    ASSUME NEW c, Sound(c), NEW k \in Blocks, ~Hit(c, k), c.made = 0 \/ c.cb = TRUE
    PROVE  Entered(c, Alloc(c, k), k)
  <1>1. 0 # N
    BY Constants
  <1> QED
    BY <1>1, AllocatedFresh, AllocatedReused

--------------------------------------------------------------------------------
(* The operations of fs.cc.                                                  *)

\* The soundness of a cache is about its table, its keys and its ring only.
LEMMA SoundSame ==
    ASSUME NEW c, Sound(c), NEW d \in Caches,
           d.prev = c.prev, d.next = c.next, d.queue = c.queue, d.table = c.table,
           d.key = c.key, d.free = c.free, d.made = c.made, d.count = c.count,
           d.halted = c.halted
    PROVE  Sound(d)
  <1>1. Full(d) = Full(c)
    BY DEF Full
  <1>2. \A h : Reached(d, h) <=> Reached(c, h)
    BY DEF Reached
  <1>3. Tabled(d)
    BY <1>1, <1>2 DEF Sound, Tabled
  <1>4. Ringed(d)
    BY DEF Sound, Ringed, Linked
  <1> QED
    BY <1>3, <1>4 DEF Sound

\* Where table, keys, buffers and disk are the same, so is what is held.
LEMMA HeldSame ==
    ASSUME NEW c, NEW d, d.table = c.table, d.key = c.key, d.val = c.val,
           d.disk = c.disk
    PROVE  \A b : Held(d, b) = Held(c, b)
  BY SameTable DEF Held, Buffer

\* An operation took c to d: the cache is sound, and every block still has its
\* data, and the disk the same or that data, but for those in X and those whose
\* transfer failed.
Kept(c, d, X) ==
    /\ Sound(d)
    /\ d.cb = c.cb /\ d.fault = c.fault /\ c.failed \subseteq d.failed
    /\ d.failed \subseteq c.failed \cup {c.fault}
    /\ \A b \in Blocks \ (X \cup d.failed) :
           Held(d, b) = Held(c, b) /\ d.disk[b] \in {c.disk[b], Held(c, b)}

\* One operation after another.
LEMMA KeptTwice ==
    ASSUME NEW c, NEW d, NEW e, NEW X, NEW Y, Kept(c, d, X), Kept(d, e, Y)
    PROVE  Kept(c, e, X \cup Y)
  <1>1. \A b \in Blocks \ ((X \cup Y) \cup e.failed) :
            Held(e, b) = Held(d, b) /\ e.disk[b] \in {d.disk[b], Held(d, b)}
    BY DEF Kept
  <1>2. \A b \in Blocks \ ((X \cup Y) \cup e.failed) :
            Held(d, b) = Held(c, b) /\ d.disk[b] \in {c.disk[b], Held(c, b)}
    BY DEF Kept
  <1> QED
    BY <1>1, <1>2 DEF Kept

\* A block that is there lies in a node made, and the cache is not empty.
LEMMA Present ==
    ASSUME NEW c, Sound(c), NEW b \in Blocks, Hit(c, b)
    PROVE  /\ c.made # 0 /\ Linked(c, 1..c.made) /\ 1..c.made \in SUBSET Nodes
           /\ Inside(c, 1..c.made) /\ c.count <= N
           /\ Find(c, b) \in Full(c) /\ c.table[Find(c, b)] \in Nodes
           /\ c.key[c.table[Find(c, b)]] = b
  <1>1. /\ c \in Caches /\ Tabled(c) /\ c.made \in 0..N /\ N \in Nat /\ Nodes = 1..N
        /\ c.count = c.made
    BY Parts, Constants DEF Sound
  <1>2. /\ Find(c, b) \in Full(c) /\ c.table[Find(c, b)] \in 1..c.made
        /\ c.key[c.table[Find(c, b)]] = b
    BY <1>1, Lookup
  <1>3. c.made # 0 /\ 1..c.made \in SUBSET Nodes
    BY <1>1, <1>2
  <1>4. Linked(c, 1..c.made)
    BY <1>3 DEF Sound, Ringed
  <1>5. Inside(c, 1..c.made)
    BY <1>1 DEF Inside, Tabled
  <1> QED
    BY <1>1, <1>2, <1>3, <1>4, <1>5

\* Get changes the order of the queue only.
LEMMA GotSound ==
    ASSUME NEW c, Sound(c), NEW b \in Blocks, Hit(c, b)
    PROVE  Kept(c, Get(c, b), {}) /\ Hit(Get(c, b), b) /\ Get(c, b).made = c.made
  <1> DEFINE d == Get(c, b)
             S == 1..c.made
  <1>1. c \in Caches
    BY DEF Sound
  <1>2. /\ c.made # 0 /\ Linked(c, S) /\ S \in SUBSET Nodes /\ Inside(c, S) /\ c.count <= N
    BY Present
  <1> HIDE DEF S
  <1>3. Relinked(c, d) /\ Linked(d, S) /\ d.count = c.count
    BY <1>1, <1>2, Got
  <1> HIDE DEF d
  <1>4. /\ d \in Caches /\ d.table = c.table /\ d.key = c.key /\ d.val = c.val
        /\ d.disk = c.disk /\ d.made = c.made /\ d.free = c.free /\ d.halted = c.halted
        /\ d.cb = c.cb /\ d.fault = c.fault /\ d.failed = c.failed
    BY <1>3 DEF Relinked
  <1>5. Tabled(d)
    <2>1. Full(d) = Full(c)
      BY <1>4 DEF Full
    <2>2. \A h : Reached(d, h) <=> Reached(c, h)
      BY <1>4 DEF Reached
    <2> QED
      BY <1>4, <2>1, <2>2 DEF Sound, Tabled
  <1>6. Ringed(d)
    BY <1>2, <1>3, <1>4 DEF Ringed, S
  <1>7. Sound(d)
    BY <1>3, <1>4, <1>5, <1>6 DEF Sound
  <1>8. \A a : Held(d, a) = Held(c, a)
    BY <1>4, HeldSame
  <1>9. Hit(d, b)
    BY <1>4, SameTable
  <1> QED
    BY <1>4, <1>7, <1>8, <1>9 DEF Kept, d

\* write_block copies a buffer to its block, which holds the same then.
LEMMA WroteSound ==
    ASSUME NEW c, Sound(c), NEW b \in Blocks, Hit(c, b)
    PROVE  Kept(c, write_block(c, b), {}) /\ write_block(c, b).made = c.made
  <1> DEFINE d == write_block(c, b)
             S == 1..c.made
  <1>1. c \in Caches /\ c.disk \in Disks
    BY Parts DEF Sound
  <1>2. /\ c.made # 0 /\ Linked(c, S) /\ S \in SUBSET Nodes /\ Inside(c, S) /\ c.count <= N
    BY Present
  <1> HIDE DEF S
  <1>3. Stored(c, d, b) /\ Linked(d, S) /\ d.count = c.count
    BY <1>1, <1>2, WroteBlock
  <1> HIDE DEF d
  <1>4. /\ d \in Caches /\ d.table = c.table /\ d.key = c.key /\ d.val = c.val
        /\ d.made = c.made /\ d.free = c.free /\ d.halted = c.halted
        /\ d.cb = c.cb /\ d.fault = c.fault /\ c.failed \subseteq d.failed
    BY <1>3 DEF Stored
  <1>5. Tabled(d)
    <2>1. Full(d) = Full(c)
      BY <1>4 DEF Full
    <2>2. \A h : Reached(d, h) <=> Reached(c, h)
      BY <1>4 DEF Reached
    <2> QED
      BY <1>4, <2>1, <2>2 DEF Sound, Tabled
  <1>6. Ringed(d)
    BY <1>2, <1>3, <1>4 DEF Ringed, S
  <1>7. Sound(d)
    BY <1>3, <1>4, <1>5, <1>6 DEF Sound
  <1>8. ASSUME NEW a \in Blocks
        PROVE  Held(d, a) = Held(c, a) /\ d.disk[a] \in {c.disk[a], Held(c, a)}
    <2>1. (Hit(d, a) <=> Hit(c, a)) /\ Buffer(d, a) = Buffer(c, a)
      BY <1>4, SameTable DEF Buffer
    <2>2. a # b => d.disk[a] = c.disk[a]
      BY <1>1, <1>3 DEF Stored, Disks
    <2>3. d.disk[b] \in {c.disk[b], Buffer(c, b)}
      BY <1>1, <1>3 DEF Stored, Disks
    <2> QED
      BY <2>1, <2>2, <2>3 DEF Held
  <1>9. d.failed \subseteq c.failed \cup {c.fault}
    BY <1>3 DEF Stored
  <1> QED
    BY <1>4, <1>7, <1>8, <1>9 DEF Kept, d

\* The node whose buffer is returned.
LEMMA ReturnedSound ==
    ASSUME NEW c, Sound(c), NEW b \in Blocks, Hit(c, b)
    PROVE  LET d == Returned(c, b)
           IN  /\ Kept(c, d, {}) /\ Hit(d, b) /\ d.ret = d.table[Find(d, b)]
               /\ d.made = c.made /\ d.disk = c.disk /\ d.failed = c.failed
  <1> DEFINE x == c.table[Find(c, b)]
             d == [c EXCEPT !.ret = x]
  <1>1. c \in Caches /\ c.halted = FALSE /\ x \in Pointer
    BY Present DEF Sound, Pointer
  <1>2. Returned(c, b) = d
    BY <1>1 DEF Returned
  <1>3. d.table = c.table /\ d.key = c.key
    BY <1>1 DEF Caches
  <1>4. Hit(d, b) /\ Find(d, b) = Find(c, b)
    BY <1>3, SameTable
  <1> HIDE DEF x
  <1>5. /\ d \in Caches /\ d.ret = x
        /\ d.prev = c.prev /\ d.next = c.next /\ d.queue = c.queue /\ d.count = c.count
        /\ d.val = c.val /\ d.free = c.free /\ d.made = c.made /\ d.cb = c.cb
        /\ d.halted = c.halted /\ d.disk = c.disk /\ d.fault = c.fault
        /\ d.failed = c.failed
    BY <1>1 DEF Caches
  <1> HIDE DEF d
  <1>6. Sound(d)
    BY <1>3, <1>5, SoundSame
  <1>7. \A a : Held(d, a) = Held(c, a)
    BY <1>3, <1>5, HeldSame
  <1>8. Kept(c, d, {})
    BY <1>5, <1>6, <1>7 DEF Kept
  <1> QED
    BY <1>2, <1>3, <1>4, <1>5, <1>8 DEF x

\* Between c and d the buffer of b, and which transfers failed, has changed.
Buffered(c, d, b, v, F) ==
    /\ d \in Caches /\ d.failed = F
    /\ \A y \in Nodes : d.val[y] = IF y = c.table[Find(c, b)] THEN v ELSE c.val[y]
    /\ d.prev = c.prev /\ d.next = c.next /\ d.queue = c.queue /\ d.count = c.count
    /\ d.key = c.key /\ d.table = c.table /\ d.free = c.free /\ d.made = c.made
    /\ d.cb = c.cb /\ d.halted = c.halted /\ d.disk = c.disk /\ d.fault = c.fault
    /\ d.ret = c.ret

\* An assignment to a buffer does that.
LEMMA BufferAssigned ==
    ASSUME NEW c \in Caches, NEW b, NEW x \in Nodes, x = c.table[Find(c, b)], NEW v \in Data,
           NEW F \in SUBSET Blocks
    PROVE  Buffered(c, [c EXCEPT !.val = [c.val EXCEPT ![x] = v], !.failed = F], b, v, F)
  <1> DEFINE vl == [c.val EXCEPT ![x] = v]
             d == [c EXCEPT !.val = vl, !.failed = F]
  <1>1. vl \in Values /\ \A y \in Nodes : vl[y] = IF y = x THEN v ELSE c.val[y]
    BY Parts DEF Values
  <1> HIDE DEF vl
  <1>2. /\ d \in Caches /\ d.val = vl /\ d.failed = F
        /\ d.prev = c.prev /\ d.next = c.next /\ d.queue = c.queue /\ d.count = c.count
        /\ d.key = c.key /\ d.table = c.table /\ d.free = c.free /\ d.made = c.made
        /\ d.cb = c.cb /\ d.halted = c.halted /\ d.disk = c.disk /\ d.fault = c.fault
        /\ d.ret = c.ret
    BY <1>1 DEF Caches
  <1> HIDE DEF d
  <1>3. Buffered(c, d, b, v, F)
    BY <1>1, <1>2 DEF Buffered
  <1> QED
    BY <1>3 DEF d, vl

\* The buffer of one block is overwritten.
LEMMA BufferSet ==
    ASSUME NEW c, Sound(c), NEW b \in Blocks, Hit(c, b), NEW v, NEW F,
           c.failed \subseteq F, F \subseteq c.failed \cup {c.fault},
           NEW d, Buffered(c, d, b, v, F)
    PROVE  /\ Kept(c, d, {b}) /\ Hit(d, b) /\ Held(d, b) = v /\ Buffer(d, b) = v
           /\ d.made = c.made /\ d.failed = F
  <1> DEFINE x == c.table[Find(c, b)]
             vl == d.val
  <1>1. c \in Caches /\ x \in Nodes
    BY Present DEF Sound
  <1>2. vl[x] = v /\ \A y \in Nodes : y # x => vl[y] = c.val[y]
    BY <1>1 DEF Buffered
  <1> HIDE DEF x
  <1>3. /\ d \in Caches /\ d.val = vl /\ d.failed = F
        /\ d.prev = c.prev /\ d.next = c.next /\ d.queue = c.queue /\ d.count = c.count
        /\ d.key = c.key /\ d.table = c.table /\ d.free = c.free /\ d.made = c.made
        /\ d.cb = c.cb /\ d.halted = c.halted /\ d.disk = c.disk /\ d.fault = c.fault
    BY DEF Buffered
  <1> HIDE DEF vl
  <1>4. Sound(d)
    BY <1>3, SoundSame
  <1>5. \A a : (Hit(d, a) <=> Hit(c, a)) /\ Find(d, a) = Find(c, a)
    <2>1. d.table = c.table /\ d.key = c.key
      BY <1>3
    <2> QED
      BY ONLY <2>1, SameTable
  <1>6. Hit(d, b) /\ Buffer(d, b) = v
    BY <1>2, <1>3, <1>5 DEF Buffer, x
  <1>7. ASSUME NEW a \in Blocks, a # b PROVE Held(d, a) = Held(c, a)
    <2>1. CASE Hit(c, a)
      <3> DEFINE y == c.table[Find(c, a)]
      <3>1. y \in Nodes /\ c.key[y] = a
        BY <2>1, Present
      <3>2. c.key[x] = b
        BY Present DEF x
      <3>3. Buffer(d, a) = vl[y] /\ Buffer(c, a) = c.val[y]
        BY <1>3, <1>5 DEF Buffer
      <3> HIDE DEF y
      <3>4. y # x
        BY <1>7, <3>1, <3>2
      <3>5. vl[y] = c.val[y]
        BY <1>2, <3>1, <3>4
      <3> QED
        BY <1>5, <2>1, <3>3, <3>5 DEF Held
    <2>2. CASE ~Hit(c, a)
      BY <1>3, <1>5, <2>2 DEF Held
    <2> QED
      BY <2>1, <2>2
  <1> QED
    BY <1>3, <1>4, <1>6, <1>7 DEF Kept, Held

\* The transfer from the disk into the buffer returned.
LEMMA ReadIn ==
    ASSUME NEW c, Sound(c), NEW b \in Blocks, Hit(c, b), c.ret = c.table[Find(c, b)]
    PROVE  LET d == ide_read_secs(c, b)
           IN  /\ Kept(c, d, {b}) /\ Hit(d, b) /\ d.made = c.made
               /\ d.ret = d.table[Find(d, b)] /\ d.disk = c.disk
               /\ b \notin d.failed => Held(d, b) = c.disk[b]
  <1> DEFINE x == c.table[Find(c, b)]
             v == IF b = c.fault THEN c.val[x] ELSE c.disk[b]
             F == c.failed \cup ({b} \cap {c.fault})
             d == [c EXCEPT !.val = [c.val EXCEPT ![x] = v], !.failed = F]
  <1>1. /\ c \in Caches /\ c.halted = FALSE /\ c.val \in Values /\ c.disk \in Disks
        /\ c.failed \in SUBSET Blocks /\ x \in Nodes
    BY Present, Parts DEF Sound
  <1>2. /\ v \in Data /\ F \in SUBSET Blocks /\ c.failed \subseteq F
        /\ F \subseteq c.failed \cup {c.fault}
    BY <1>1 DEF Values, Disks
  <1>3. ide_read_secs(c, b) = d
    BY <1>1 DEF ide_read_secs, Transferred, Failing, Caches
  <1> HIDE DEF v, F
  <1>4. Buffered(c, d, b, v, F)
    BY <1>1, <1>2, BufferAssigned
  <1> HIDE DEF d
  <1>5. /\ Kept(c, d, {b}) /\ Hit(d, b) /\ Held(d, b) = v
        /\ d.made = c.made /\ d.failed = F
    BY <1>2, <1>4, BufferSet
  <1>6. b \notin F => v = c.disk[b]
    BY DEF v, F
  <1>7. d.ret = c.ret /\ d.table = c.table /\ d.key = c.key /\ d.disk = c.disk
    BY <1>4 DEF Buffered
  <1>8. Find(d, b) = Find(c, b)
    BY <1>7, SameTable
  <1> QED
    BY <1>3, <1>5, <1>6, <1>7, <1>8

\* read_block loses nothing: what was evicted is on the disk, and what was read
\* is what the disk held.
LEMMA BlockRead ==
    ASSUME NEW c, Sound(c), NEW b \in Blocks, c.made = 0 \/ c.cb = TRUE
    PROVE  LET d == read_block(c, b)
           IN  /\ Kept(c, d, {}) /\ Hit(d, b) /\ d.made # 0
               /\ d.ret = d.table[Find(d, b)]
  <1>1. CASE Hit(c, b)
    <2> DEFINE d == Get(c, b)
               e == Returned(d, b)
    <2>1. Kept(c, d, {}) /\ Hit(d, b) /\ d.made = c.made /\ c.made # 0
      BY <1>1, GotSound, Present
    <2>2. read_block(c, b) = e
      BY <1>1 DEF read_block
    <2> HIDE DEF d
    <2>3. Kept(d, e, {}) /\ Hit(e, b) /\ e.made = d.made /\ e.ret = e.table[Find(e, b)]
      <3>1. Sound(d)
        BY <2>1 DEF Kept
      <3> QED
        BY <2>1, <3>1, ReturnedSound
    <2> HIDE DEF e
    <2>4. Kept(c, e, {} \cup {})
      BY <2>1, <2>3, KeptTwice
    <2> QED
      BY <2>1, <2>2, <2>3, <2>4
  <1>2. CASE ~Hit(c, b)
    <2> DEFINE d == Alloc(c, b)
               e == Returned(d, b)
               f == ide_read_secs(e, b)
    <2>1. Entered(c, d, b)
      BY <1>2, Allocated
    <2>2. read_block(c, b) = f
      BY <1>2 DEF read_block
    <2> HIDE DEF d
    <2>3. /\ Sound(d) /\ Hit(d, b) /\ d.made # 0 /\ Kept(c, d, {b}) /\ d.disk[b] = c.disk[b]
      BY <2>1 DEF Entered, Kept
    <2>4. /\ Kept(d, e, {}) /\ Hit(e, b) /\ e.ret = e.table[Find(e, b)]
          /\ e.made = d.made /\ e.disk = d.disk
      BY <2>3, ReturnedSound
    <2> HIDE DEF e
    <2>5. Sound(e)
      BY <2>4 DEF Kept
    <2>6. /\ Kept(e, f, {b}) /\ Hit(f, b) /\ f.made = e.made
          /\ f.ret = f.table[Find(f, b)] /\ f.disk = e.disk
          /\ b \notin f.failed => Held(f, b) = e.disk[b]
      BY <2>4, <2>5, ReadIn
    <2> HIDE DEF f
    <2>7. Kept(c, f, ({b} \cup {}) \cup {b})
      BY <2>3, <2>4, <2>6, KeptTwice
    <2>8. b \notin f.failed => Held(f, b) = Held(c, b)
      BY <1>2, <2>3, <2>4, <2>6 DEF Held
    <2>9. Kept(c, f, {})
      <3>1. f.disk[b] = c.disk[b]
        BY <2>3, <2>4, <2>6
      <3> QED
        BY <2>7, <2>8, <3>1 DEF Kept
    <2> QED
      BY <2>2, <2>3, <2>4, <2>6, <2>9
  <1> QED
    BY <1>1, <1>2

\* get_block does not read: a block that was not there holds anything then.
LEMMA BlockGot ==
    ASSUME NEW c, Sound(c), NEW b \in Blocks, c.made = 0 \/ c.cb = TRUE
    PROVE  /\ Kept(c, get_block(c, b), IF Hit(c, b) THEN {} ELSE {b})
           /\ Hit(get_block(c, b), b)
  <1> DEFINE d == IF Hit(c, b) THEN Get(c, b) ELSE Alloc(c, b)
             X == IF Hit(c, b) THEN {} ELSE {b}
             e == Returned(d, b)
  <1>1. Kept(c, d, X) /\ Hit(d, b)
    <2>1. CASE Hit(c, b)
      BY <2>1, GotSound
    <2>2. CASE ~Hit(c, b)
      <3>1. Entered(c, Alloc(c, b), b)
        BY <2>2, Allocated
      <3>2. d = Alloc(c, b) /\ X = {b}
        BY <2>2
      <3> HIDE DEF d, X
      <3> QED
        BY <3>1, <3>2 DEF Entered, Kept
    <2> QED
      BY <2>1, <2>2
  <1>2. get_block(c, b) = e
    BY DEF get_block
  <1> HIDE DEF d, X
  <1>3. Kept(d, e, {}) /\ Hit(e, b)
    <2>1. Sound(d)
      BY <1>1 DEF Kept
    <2> QED
      BY <1>1, <2>1, ReturnedSound
  <1>4. Kept(c, e, X \cup {})
    BY <1>1, <1>3, KeptTwice
  <1>5. X \cup {} = X
    OBVIOUS
  <1> QED
    BY <1>2, <1>3, <1>4, <1>5 DEF X

\* What an operation begins with.
LEMMA Begun ==
    ASSUME NEW a, NEW k, NEW f \in Faults, Sound(Begin(a, k, NoFault))
    PROVE  LET c == Begin(a, k, f)
               d == Begin(a, k, NoFault)
           IN  /\ Sound(c) /\ c.fault = f /\ c.failed = {} /\ c.made = a.made /\ c.cb = a.cb
               /\ c.disk = k /\ \A b : Held(c, b) = Held(d, b)
  <1> DEFINE c == Begin(a, k, f)
             d == Begin(a, k, NoFault)
  <1>1. d \in Caches
    BY DEF Sound
  <1>2. /\ d.prev = a.prev /\ d.next = a.next /\ d.key = a.key /\ d.val = a.val
        /\ d.table = a.table /\ d.queue = a.queue /\ d.free = a.free /\ d.made = a.made
        /\ d.count = a.count /\ d.cb = a.cb /\ d.halted = a.halted /\ d.disk = k
    BY DEF Begin
  <1>3. /\ c.prev = a.prev /\ c.next = a.next /\ c.key = a.key /\ c.val = a.val
        /\ c.table = a.table /\ c.queue = a.queue /\ c.free = a.free /\ c.made = a.made
        /\ c.count = a.count /\ c.cb = a.cb /\ c.halted = a.halted /\ c.disk = k
        /\ c.fault = f /\ c.failed = {}
    BY DEF Begin
  <1>4. c \in Caches
    <2>1. c = [d EXCEPT !.fault = f]
      BY DEF Begin
    <2> HIDE DEF c, d
    <2> QED
      BY <1>1, <2>1 DEF Caches
  <1> HIDE DEF c, d
  <1>5. Sound(c)
    <2>1. Sound(d)
      BY DEF d
    <2> QED
      BY <1>2, <1>3, <1>4, <2>1, SoundSame
  <1>6. \A b : Held(c, b) = Held(d, b)
    BY <1>2, <1>3, HeldSame
  <1> QED
    BY <1>3, <1>5, <1>6 DEF c, d

\* And what it leaves behind.
LEMMA Ended ==
    ASSUME NEW d, Sound(d)
    PROVE  LET e == Begin(End(d), d.disk, NoFault)
           IN  Sound(e) /\ e.disk = d.disk /\ \A b : Held(e, b) = Held(d, b)
  <1> DEFINE e == Begin(End(d), d.disk, NoFault)
  <1>1. d \in Caches
    BY DEF Sound
  <1>2. /\ e.prev = d.prev /\ e.next = d.next /\ e.key = d.key /\ e.val = d.val
        /\ e.table = d.table /\ e.queue = d.queue /\ e.free = d.free /\ e.made = d.made
        /\ e.count = d.count /\ e.cb = d.cb /\ e.halted = d.halted /\ e.disk = d.disk
    BY DEF Begin, End
  <1>3. e \in Caches
    <2>1. NoFault \in Faults /\ {} \in SUBSET Blocks /\ Null \in Pointer
      BY DEF Faults, Pointer
    <2> QED
      BY <1>1, <2>1, Parts DEF Begin, End, Caches
  <1> HIDE DEF e
  <1>4. Sound(e)
    BY <1>2, <1>3, SoundSame
  <1>5. \A b : Held(e, b) = Held(d, b)
    BY <1>2, HeldSame
  <1> QED
    BY <1>2, <1>4, <1>5 DEF e

\* The empty cache.
LEMMA EmptySound ==
    ASSUME NEW v \in Data, NEW k \in Disks
    PROVE  /\ Sound(Begin(Empty(v), k, NoFault)) /\ Empty(v).made = 0
           /\ \A b \in Blocks : Held(Begin(Empty(v), k, NoFault), b) = k[b]
  <1> DEFINE c == Begin(Empty(v), k, NoFault)
  <1>1. /\ c.prev = [x \in Nodes |-> Null] /\ c.next = [x \in Nodes |-> Null]
        /\ c.key = [x \in Nodes |-> 0] /\ c.val = [x \in Nodes |-> v]
        /\ c.table = [h \in Index |-> Null] /\ c.queue = Null /\ c.free = Null
        /\ c.made = 0 /\ c.count = 0 /\ c.cb = FALSE /\ c.halted = FALSE
        /\ c.disk = k /\ c.fault = NoFault /\ c.failed = {} /\ c.ret = Null
    BY DEF Begin, Empty
  <1>2. c \in Caches
    <2>1. /\ [x \in Nodes |-> Null] \in Pointers /\ [x \in Nodes |-> 0] \in Keys
          /\ [x \in Nodes |-> v] \in Values /\ [h \in Index |-> Null] \in Tables
          /\ Null \in Pointer /\ 0 \in 0..N /\ NoFault \in Faults /\ {} \in SUBSET Blocks
      BY Constants DEF Pointers, Pointer, Keys, Values, Tables, Faults
    <2> QED
      BY <2>1 DEF Begin, Empty, Caches
  <1>3. Empty(v).made = 0
    BY DEF Empty
  <1> HIDE DEF c
  <1>4. Full(c) = {}
    BY <1>1 DEF Full
  <1>5. Tabled(c)
    <2>1. 1..c.made = {}
      BY <1>1
    <2> QED
      BY <1>1, <1>4, <2>1, FS_EmptySet DEF Tabled
  <1>6. Sound(c)
    BY <1>1, <1>2, <1>5 DEF Sound, Ringed
  <1>7. ASSUME NEW b \in Blocks PROVE Held(c, b) = k[b]
    <2>1. ~Hit(c, b)
      BY <1>2, <1>4, <1>5, Lookup
    <2> QED
      BY <1>1, <2>1 DEF Held
  <1> QED
    BY <1>3, <1>6, <1>7 DEF c

================================================================================
