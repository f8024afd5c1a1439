---------------------------- MODULE BlockCacheProofs ---------------------------
(*****************************************************************************)
(* Proofs about module BlockCache, for any number of buffers and blocks: the *)
(* type invariant, TableSound and NoLostUpdate.  LruCacheProofs says what    *)
(* each operation does to the cache; this module adds what callers write and *)
(* what a failed transfer spoils.                                            *)
(*****************************************************************************)
EXTENDS BlockCache, LruCacheProofs

\* memcpy into the first bytes of the buffer of b.
LEMMA Overwritten ==
    ASSUME NEW c, Sound(c), NEW b \in Blocks, Hit(c, b), version[b] \in {0, 1}
    PROVE  LET d == Overwrite(c, b)
           IN  /\ Kept(c, d, {b}) /\ Hit(d, b) /\ d.made = c.made /\ d.failed = c.failed
               /\ Held(c, b) = Whole(b, version[b]) => Held(d, b) = Whole(b, 1 - version[b])
  <1> DEFINE x == c.table[Find(c, b)]
             o == Buffer(c, b)
             w == 1 - version[b]
             v == [head |-> b, ver |-> w, rest |-> o.rest]
             d == [c EXCEPT !.val = [c.val EXCEPT ![x] = v], !.failed = c.failed]
  <1>1. /\ c \in Caches /\ c.halted = FALSE /\ c.val \in Values
        /\ c.failed \in SUBSET Blocks /\ x \in Nodes
    BY Present, Parts DEF Sound
  <1>2. o \in Data /\ Held(c, b) = o
    BY <1>1 DEF Values, Buffer, Held
  <1>3. Overwrite(c, b) = d
    BY <1>1 DEF Overwrite, SetBuffer, Caches
  <1>4. w \in {0, 1}
    OBVIOUS
  <1> HIDE DEF o, w
  <1>5. v \in Data
    BY <1>2, <1>4, DataAssumption DEF BlockData
  <1>6. ASSUME o = Whole(b, version[b]) PROVE v = Whole(b, w)
    <2> DEFINE u == version[b]
    <2>1. o.rest = b
      <3>1. o = [head |-> b, ver |-> u, rest |-> b]
        BY <1>6 DEF Whole
      <3> HIDE DEF u
      <3> QED
        BY ONLY <3>1
    <2> QED
      BY <2>1 DEF Whole
  <1> HIDE DEF v
  <1>7. Buffered(c, d, b, v, c.failed)
    BY <1>1, <1>5, BufferAssigned
  <1> HIDE DEF d
  <1>8. /\ Kept(c, d, {b}) /\ Hit(d, b) /\ Held(d, b) = v
        /\ d.made = c.made /\ d.failed = c.failed
    BY <1>7, BufferSet
  <1> QED
    BY <1>2, <1>3, <1>6, <1>8 DEF w

--------------------------------------------------------------------------------
(* The actions.                                                              *)

\* The cache at rest, as an operation finds it.
Resting == Begin(cache, disk, NoFault)

Inv ==
    /\ Sound(Resting)
    /\ cache.made = 0 \/ cache.cb = TRUE
    /\ version \in [Blocks -> {0, 1}] /\ spoilt \subseteq Blocks
    /\ \A b \in Blocks \ spoilt : Held(Resting, b) = Whole(b, version[b])

\* An operation that leaves every block what it should hold, but for those that
\* are spoilt, preserves the invariant.
LEMMA DoneStep ==
    ASSUME Inv, NEW d, Sound(d), d.made = 0 \/ d.cb = TRUE,
           NEW bs \in SUBSET Blocks, NEW ts \in SUBSET Blocks, Done(d, bs, ts),
           \A b \in Blocks \ (spoilt \cup ts \cup d.failed) :
               Held(d, b) = Whole(b, IF b \in bs THEN 1 - version[b] ELSE version[b])
    PROVE  Inv'
  <1>1. /\ cache' = End(d) /\ disk' = d.disk /\ spoilt' = spoilt \cup ts \cup d.failed
        /\ version' = [b \in Blocks |-> IF b \in bs THEN 1 - version[b] ELSE version[b]]
    BY DEF Done
  <1>2. Resting' = Begin(End(d), d.disk, NoFault)
    BY <1>1 DEF Resting
  <1>3. Sound(Resting') /\ \A b : Held(Resting', b) = Held(d, b)
    BY <1>2, Ended
  <1>4. cache'.made = 0 \/ cache'.cb = TRUE
    BY <1>1 DEF End
  <1>5. version' \in [Blocks -> {0, 1}]
    BY <1>1 DEF Inv
  <1>6. spoilt' \subseteq Blocks
    <2>1. d.failed \in SUBSET Blocks
      BY Parts DEF Sound
    <2> QED
      BY <1>1, <2>1 DEF Inv
  <1>7. \A b \in Blocks \ spoilt' : Held(Resting', b) = Whole(b, version'[b])
    BY <1>1, <1>3
  <1> QED
    BY <1>3, <1>4, <1>5, <1>6, <1>7 DEF Inv

\* What every operation starts from.
Starts(c) ==
    /\ Sound(c) /\ (c.made = 0 \/ c.cb = TRUE)
    /\ \A b \in Blocks \ spoilt : Held(c, b) = Whole(b, version[b])

\* The state an operation is begun in.
LEMMA BegunRight ==
    ASSUME Inv, NEW f \in Faults
    PROVE  Starts(Begin(cache, disk, f)) /\ Begin(cache, disk, f).cb = cache.cb
  <1> DEFINE c == Begin(cache, disk, f)
  <1>1. /\ Sound(c) /\ c.made = cache.made /\ c.cb = cache.cb
        /\ \A b : Held(c, b) = Held(Resting, b)
    BY Begun DEF Inv, Resting
  <1> HIDE DEF c
  <1>2. Starts(c)
    BY <1>1 DEF Inv, Starts
  <1> QED
    BY <1>1, <1>2 DEF c

\* init_fs reads the super block into the empty cache and sets the callback.
LEMMA InitFsStep ==
    ASSUME Inv, NEW c, Starts(c), init_fs(c)
    PROVE  Inv'
  <1> DEFINE e == read_block(c, kSuperBlockBNO)
             d == [e EXCEPT !.cb = TRUE]
  <1>1. kSuperBlockBNO \in Blocks /\ {} \in SUBSET Blocks
    BY BlocksAssumption
  <1>2. Kept(c, e, {})
    BY <1>1, BlockRead DEF Starts
  <1>3. Done(d, {}, {})
    BY DEF init_fs
  <1> HIDE DEF e
  <1>4. e \in Caches /\ TRUE \in BOOLEAN
    BY <1>2 DEF Kept, Sound
  <1>5. /\ d \in Caches /\ d.cb = TRUE
        /\ d.prev = e.prev /\ d.next = e.next /\ d.queue = e.queue /\ d.count = e.count
        /\ d.key = e.key /\ d.table = e.table /\ d.free = e.free /\ d.made = e.made
        /\ d.halted = e.halted /\ d.val = e.val /\ d.disk = e.disk /\ d.failed = e.failed
    BY <1>4 DEF Caches
  <1> HIDE DEF d
  <1>6. Sound(d)
    BY <1>2, <1>5, SoundSame DEF Kept
  <1>7. \A b : Held(d, b) = Held(e, b)
    BY <1>5, HeldSame
  <1>8. \A b \in Blocks \ (spoilt \cup {} \cup d.failed) :
            Held(d, b) = Whole(b, IF b \in {} THEN 1 - version[b] ELSE version[b])
    BY <1>2, <1>5, <1>7 DEF Kept, Starts
  <1> QED
    BY <1>1, <1>3, <1>5, <1>6, <1>8, DoneStep

\* read_block.
LEMMA ReadBlockStep ==
    ASSUME Inv, NEW c, Starts(c), c.cb = TRUE, NEW b \in Blocks, ReadBlock(c, b)
    PROVE  Inv'
  <1> DEFINE d == read_block(c, b)
  <1>1. Kept(c, d, {})
    BY BlockRead DEF Starts
  <1>2. Done(d, {}, {})
    BY DEF ReadBlock
  <1> HIDE DEF d
  <1>3. Sound(d) /\ d.cb = TRUE /\ {} \in SUBSET Blocks
    BY <1>1 DEF Kept
  <1>4. \A a \in Blocks \ (spoilt \cup {} \cup d.failed) :
            Held(d, a) = Whole(a, IF a \in {} THEN 1 - version[a] ELSE version[a])
    BY <1>1 DEF Kept, Starts
  <1> QED
    BY <1>2, <1>3, <1>4, DoneStep

\* read_block and a change to the buffer it returns.
LEMMA ModifyBlockStep ==
    ASSUME Inv, NEW c, Starts(c), c.cb = TRUE, NEW b \in Blocks, ModifyBlock(c, b)
    PROVE  Inv'
  <1> DEFINE e == read_block(c, b)
             d == Overwrite(e, b)
  <1>1. Kept(c, e, {}) /\ Hit(e, b)
    BY BlockRead DEF Starts
  <1>2. Done(d, {b}, {})
    BY DEF ModifyBlock
  <1> HIDE DEF e
  <1>3. Sound(e) /\ version[b] \in {0, 1}
    BY <1>1 DEF Kept, Inv
  <1>4. /\ Kept(e, d, {b}) /\ d.failed = e.failed
        /\ Held(e, b) = Whole(b, version[b]) => Held(d, b) = Whole(b, 1 - version[b])
    BY <1>1, <1>3, Overwritten
  <1> HIDE DEF d
  <1>5. Kept(c, d, {} \cup {b})
    BY <1>1, <1>4, KeptTwice
  <1>6. Sound(d) /\ d.cb = TRUE /\ {} \in SUBSET Blocks /\ {b} \in SUBSET Blocks
    BY <1>5 DEF Kept
  <1>7. ASSUME NEW a \in Blocks \ (spoilt \cup {} \cup d.failed)
        PROVE  Held(d, a) = Whole(a, IF a \in {b} THEN 1 - version[a] ELSE version[a])
    <2>1. Held(c, a) = Whole(a, version[a])
      BY <1>7 DEF Starts
    <2>2. CASE a = b
      <3>1. Held(e, b) = Held(c, b)
        BY <1>1, <1>4, <1>7, <2>2 DEF Kept
      <3> QED
        BY <1>4, <2>1, <2>2, <3>1
    <2>3. CASE a # b
      BY <1>5, <1>7, <2>1, <2>3 DEF Kept
    <2> QED
      BY <2>2, <2>3
  <1> QED
    BY <1>2, <1>6, <1>7, DoneStep

\* write_block of a block that is there.
LEMMA WriteBlockStep ==
    ASSUME Inv, NEW c, Starts(c), c.cb = TRUE, NEW b \in Blocks, WriteBlock(c, b)
    PROVE  Inv'
  <1> DEFINE d == write_block(c, b)
  <1>1. Hit(c, b) /\ Done(d, {}, {})
    BY DEF WriteBlock
  <1>2. Kept(c, d, {})
    BY <1>1, WroteSound DEF Starts
  <1> HIDE DEF d
  <1>3. Sound(d) /\ d.cb = TRUE /\ {} \in SUBSET Blocks
    BY <1>2 DEF Kept
  <1>4. \A a \in Blocks \ (spoilt \cup {} \cup d.failed) :
            Held(d, a) = Whole(a, IF a \in {} THEN 1 - version[a] ELSE version[a])
    BY <1>2 DEF Kept, Starts
  <1> QED
    BY <1>1, <1>3, <1>4, DoneStep

\* get_block, a change to the buffer, write_block.
LEMMA SyncBlockStep ==
    ASSUME Inv, NEW c, Starts(c), c.cb = TRUE, NEW b \in Blocks, SyncBlock(c, b)
    PROVE  Inv'
  <1> DEFINE X == IF Hit(c, b) THEN {} ELSE {b}
             g == get_block(c, b)
             e == Overwrite(g, b)
             d == write_block(e, b)
  <1>1. Kept(c, g, X) /\ Hit(g, b)
    BY BlockGot DEF Starts
  <1>2. Done(d, {b}, X) /\ X \in SUBSET Blocks
    BY DEF SyncBlock
  <1> HIDE DEF X, g
  <1>3. Sound(g) /\ version[b] \in {0, 1}
    BY <1>1 DEF Kept, Inv
  <1>4. /\ Kept(g, e, {b}) /\ Hit(e, b) /\ e.failed = g.failed
        /\ Held(g, b) = Whole(b, version[b]) => Held(e, b) = Whole(b, 1 - version[b])
    BY <1>1, <1>3, Overwritten
  <1> HIDE DEF e
  <1>5. Sound(e)
    BY <1>4 DEF Kept
  <1>6. Kept(e, d, {})
    BY <1>4, <1>5, WroteSound
  <1> HIDE DEF d
  <1>7. Kept(c, d, (X \cup {b}) \cup {})
    BY <1>1, <1>4, <1>6, KeptTwice
  <1>8. Sound(d) /\ d.cb = TRUE /\ {b} \in SUBSET Blocks
    BY <1>7 DEF Kept
  <1>9. ASSUME NEW a \in Blocks \ (spoilt \cup X \cup d.failed)
        PROVE  Held(d, a) = Whole(a, IF a \in {b} THEN 1 - version[a] ELSE version[a])
    <2>1. Held(c, a) = Whole(a, version[a])
      BY <1>9 DEF Starts
    <2>2. CASE a = b
      <3>1. b \notin g.failed /\ b \notin X
        BY <1>4, <1>6, <1>9, <2>2 DEF Kept
      <3>2. Held(g, b) = Held(c, b)
        BY <1>1, <3>1 DEF Kept
      <3>3. Held(d, b) = Held(e, b)
        BY <1>6, <1>9, <2>2 DEF Kept
      <3> QED
        BY <1>4, <2>1, <2>2, <3>2, <3>3
    <2>3. CASE a # b
      BY <1>7, <1>9, <2>1, <2>3 DEF Kept
    <2> QED
      BY <2>2, <2>3
  <1> QED
    BY <1>2, <1>8, <1>9, DoneStep

\* The empty cache.
LEMMA InitStep ==
    ASSUME Init
    PROVE  Inv
  <1> DEFINE k == [b \in Blocks |-> Whole(b, 0)]
             c == Begin(Empty(Garbage), k, NoFault)
  <1>1. Resting = c /\ cache = Empty(Garbage)
    BY DEF Init, Resting
  <1>2. version \in [Blocks -> {0, 1}] /\ spoilt = {} /\ \A b \in Blocks : version[b] = 0
    BY DEF Init
  <1>3. Garbage \in Data /\ k \in Disks
    BY DataAssumption DEF Garbage, BlockData, Disks, Whole
  <1>4. Sound(c) /\ cache.made = 0 /\ \A b \in Blocks : Held(c, b) = k[b]
    BY <1>1, <1>3, EmptySound
  <1>5. \A b \in Blocks : Held(c, b) = Whole(b, 0)
    <2> HIDE DEF c
    <2> QED
      BY <1>4
  <1> HIDE DEF c
  <1> QED
    BY <1>1, <1>2, <1>4, <1>5 DEF Inv

--------------------------------------------------------------------------------
(* The theorems.                                                             *)

\* Every sequence of block operations, with the transfers of any of them
\* failing, keeps the cache sound and the blocks' data in it or on the disk.
THEOREM Invariance == Spec => []Inv
  <1>1. Init => Inv
    BY InitStep
  <1>2. Inv /\ [Next]_vars => Inv'
    <2> SUFFICES ASSUME Inv, [Next]_vars PROVE Inv'
      OBVIOUS
    <2>1. CASE UNCHANGED vars
      BY <2>1 DEF vars, Inv, Resting
    <2>2. CASE Next
      <3>1. PICK f \in (Unreliable \ spoilt) \cup {NoFault} :
                LET c == Begin(cache, disk, f) IN
                \/ init_fs(c)
                \/ /\ cache.cb /\ ~cache.halted
                   /\ \/ \E b \in Blocks : ReadBlock(c, b)
                      \/ \E b \in Written : ModifyBlock(c, b) \/ WriteBlock(c, b) \/ SyncBlock(c, b)
        BY <2>2 DEF Next
      <3> DEFINE c == Begin(cache, disk, f)
      <3>2. f \in Faults /\ Written \subseteq Blocks
        BY BlocksAssumption DEF Faults
      <3>3. Starts(c) /\ c.cb = cache.cb
        BY <3>2, BegunRight
      <3>4. c.cb \in BOOLEAN
        BY <3>3, Parts DEF Starts, Sound
      <3> HIDE DEF c
      <3>5. CASE init_fs(c)
        BY <3>3, <3>5, InitFsStep
      <3>6. CASE cache.cb /\ \E b \in Blocks : ReadBlock(c, b)
        <4>1. c.cb = TRUE
          BY <3>3, <3>4, <3>6
        <4> QED
          BY <3>3, <3>6, <4>1, ReadBlockStep
      <3>7. CASE /\ cache.cb
                 /\ \E b \in Written : ModifyBlock(c, b) \/ WriteBlock(c, b) \/ SyncBlock(c, b)
        <4>1. c.cb = TRUE
          BY <3>3, <3>4, <3>7
        <4>2. PICK b \in Blocks : ModifyBlock(c, b) \/ WriteBlock(c, b) \/ SyncBlock(c, b)
          BY <3>2, <3>7
        <4> QED
          BY <3>3, <4>1, <4>2, ModifyBlockStep, WriteBlockStep, SyncBlockStep
      <3> QED
        BY <3>1, <3>5, <3>6, <3>7 DEF c
    <2> QED
      BY <2>1, <2>2
  <1> QED
    BY <1>1, <1>2, PTL DEF Spec

\* Pointers, keys, buffers and counters of LRUCache keep their types.
THEOREM TypeCorrect == Spec => []TypeOK
  <1>1. Inv => TypeOK
    <2> SUFFICES ASSUME Inv PROVE TypeOK
      OBVIOUS
    <2> DEFINE c == Resting
    <2>1. Sound(c)
      BY DEF Inv
    <2>2. /\ c.prev = cache.prev /\ c.next = cache.next /\ c.key = cache.key
          /\ c.val = cache.val /\ c.table = cache.table /\ c.queue = cache.queue
          /\ c.free = cache.free /\ c.made = cache.made /\ c.count = cache.count
          /\ c.disk = disk
      BY DEF Resting, Begin
    <2> HIDE DEF c
    <2>3. /\ c.prev \in Pointers /\ c.next \in Pointers /\ c.key \in Keys
          /\ c.val \in Values /\ c.table \in Tables /\ c.queue \in Pointer
          /\ c.free \in Pointer /\ c.made \in 0..N /\ c.count = c.made /\ c.disk \in Disks
      BY <2>1, Parts DEF Sound
    <2> QED
      BY <2>2, <2>3 DEF TypeOK, Inv, Pointers, Pointer, Keys, Values, Tables, Disks
  <1> QED
    BY <1>1, Invariance, PTL

\* The open-addressing table of LRUCache survives every eviction, re-entrant
\* callback included: every entry is found by probing, no two share a node,
\* count_ is right, no assert fires, and the front of the queue is an entry.
THEOREM TableSoundHolds == Spec => []TableSound
  <1>1. Inv => TableSound
    <2> SUFFICES ASSUME Inv PROVE TableSound
      OBVIOUS
    <2> DEFINE c == Resting
    <2>1. Sound(c)
      BY DEF Inv
    <2>2. /\ c.key = cache.key /\ c.table = cache.table /\ c.queue = cache.queue
          /\ c.made = cache.made /\ c.count = cache.count /\ c.halted = cache.halted
      BY DEF Resting, Begin
    <2> HIDE DEF c
    <2>3. /\ c \in Caches /\ Tabled(c) /\ c.halted = FALSE /\ c.count = c.made
          /\ c.made \in 0..N /\ N \in Nat
      BY <2>1, Parts, Constants DEF Sound
    <2>4. Full(c) = Filled
      BY <2>2 DEF Full, Filled
    <2>5. ASSUME NEW h \in Filled PROVE Hit(cache, KeyAt(h)) /\ Find(cache, KeyAt(h)) = h
      <3> DEFINE k == KeyAt(h)
      <3>1. h \in Full(c) /\ k = c.key[c.table[h]] /\ k \in Blocks
        BY <2>2, <2>3, <2>4 DEF KeyAt, Tabled
      <3> HIDE DEF k
      <3>2. Hit(c, k) /\ Find(c, k) = h
        BY <2>3, <3>1, Lookup
      <3>3. Hit(cache, k) /\ Find(cache, k) = h
        BY <2>2, <3>2, SameTable
      <3> QED
        BY <3>3 DEF k
    <2>6. \A g, h \in Filled : cache.table[g] = cache.table[h] => g = h
      BY <2>2, <2>3, <2>4 DEF Tabled
    <2>7. cache.count = Cardinality(Filled)
      BY <2>2, <2>3, <2>4 DEF Tabled
    <2>8. Filled # {} => cache.queue \in {cache.table[h] : h \in Filled}
      <3>1. SUFFICES ASSUME NEW g \in Filled PROVE \E h \in Filled : c.table[h] = c.queue
        BY <2>2
      <3>2. c.made # 0
        BY <2>3, <2>4, <3>1 DEF Tabled
      <3>3. c.queue \in 1..c.made
        BY <2>1, <3>2 DEF Sound, Ringed, Linked
      <3> QED
        BY <2>3, <2>4, <3>3 DEF Tabled
    <2>9. ~cache.halted
      BY <2>2, <2>3
    <2> QED
      BY <2>5, <2>6, <2>7, <2>8, <2>9 DEF TableSound
  <1> QED
    BY <1>1, Invariance, PTL

\* No write to a block is lost: its last version is in its buffer or on the
\* disk through every eviction, and a failed transfer or a buffer that was not
\* read harms no other block.
THEOREM NoLostUpdateHolds == Spec => []NoLostUpdate
  <1>1. Inv => NoLostUpdate
    <2> SUFFICES ASSUME Inv, NEW b \in Blocks \ spoilt PROVE Current(b) = Whole(b, version[b])
      BY DEF NoLostUpdate
    <2> DEFINE c == Resting
    <2>1. /\ c.key = cache.key /\ c.table = cache.table /\ c.val = cache.val
          /\ c.disk = disk
      BY DEF Resting, Begin
    <2>2. Held(c, b) = Whole(b, version[b])
      BY DEF Inv
    <2> HIDE DEF c
    <2>3. (Hit(cache, b) <=> Hit(c, b)) /\ Find(cache, b) = Find(c, b)
      BY <2>1, SameTable
    <2>4. Current(b) = Held(c, b)
      BY <2>1, <2>3 DEF Current, Held, Buffer
    <2> QED
      BY <2>2, <2>4
  <1> QED
    BY <1>1, Invariance, PTL

================================================================================
