-------------------------------- MODULE FsProofs -------------------------------
(*****************************************************************************)
(* Proofs about module Fs, for every well-formed disk, number of buffers and *)
(* size of a block: the type invariant, NameiRight and Durable.              *)
(*                                                                           *)
(* Between two steps no buffer differs from its block on the disk (Clean):   *)
(* whoever changes one writes it at once.  So reading changes nothing but    *)
(* the cache, whichever blocks it evicts, and what it returns is what the    *)
(* disk holds (LruCacheProofs).  What the disk holds is the image but for    *)
(* the sizes and the first bytes of edited files.                            *)
(*****************************************************************************)
EXTENDS Fs, LruCacheProofs

\* The cache as an operation finds it.
Resting == Begin(cache, disk, NoFault)

\* A state in which every buffer holds what the disk holds.
Clean(c) ==
    /\ Sound(c) /\ c.fault = NoFault /\ c.failed = {}
    /\ \A b \in Blocks : Held(c, b) = c.disk[b]

\* The versions of an inode: what test_fs does to a file is change its size.
Versions(ino) ==
    {InodeOf(ino)} \cup {[InodeOf(f) EXCEPT !.size = 12] : f \in Files \cap {ino}}

\* How many items the tables have.
imap_count == SuperBlock.num_inodes \div kByte
zmap_count == SuperBlock.num_zones \div kByte

\* The cache is clean, and empty until init_fs has run.
CacheInv ==
    /\ Clean(Resting)
    /\ IF pc = "off" THEN cache.made = 0 ELSE cache.cb = TRUE

\* The tables in memory are what init_fs has read, but for the sizes of files.
TableInv ==
    /\ g_super_block = SuperBlock
    /\ DOMAIN g_inode_table = {0} \cup Inos
    /\ pc # "off" =>
         /\ g_imap = [i \in 1..imap_count |-> At(Image, imap_start, i - 1)]
         /\ g_zmap = [i \in 1..zmap_count |-> At(Image, zmap_start(SuperBlock), i - 1)]
         /\ g_inode_table[0] = NoInode
         /\ \A ino \in Inos : g_inode_table[ino] \in Versions(ino)

\* So are the tables on the disk, and the data but for the edits.
DiskInv ==
    /\ disk[kSuperBlockBNO][0] = SuperBlock
    /\ \A i \in 0..(imap_count - 1) : At(disk, imap_start, i) = At(Image, imap_start, i)
    /\ \A i \in 0..(zmap_count - 1) :
           At(disk, zmap_start(SuperBlock), i) = At(Image, zmap_start(SuperBlock), i)
    /\ \A ino \in Inos : DiskInode(ino) \in Versions(ino)
    /\ \A b \in DataBlocks : disk[b] = text[b]
    /\ \A b \in DirBlocks : text[b] = Image[b]
    /\ DOMAIN text = Blocks

\* Each inode on the disk is that of the last sync, or that of the sync under
\* way; the sync has got as far as block.
SyncInv ==
    /\ pc \in {"off", "ready", "list", "wild"} \cup DOMAIN After
    /\ block \in Nat /\ (pc \in DOMAIN After => block < BlocksFor(Len(Table(pc).items)))
    /\ \A ino \in Inos :
           \/ DiskInode(ino) = was[ino]
           \/ pc \in {"inodes", "off"} /\ DiskInode(ino) = g_inode_table[ino]
    /\ pc = "inodes" => \A ino \in Inos : (ino - 1) \div kPerBlock < block
                                          => DiskInode(ino) = g_inode_table[ino]

\* Every traversal under way is of a directory.
FrameInv == stack \in Seq([dir : Dirs, i : Nat, node : Nodes])

\* What namei returned is what the path names.
FoundInv ==
    /\ found.ino \in {0, None} \cup Inos
    /\ pc \notin {"ready", "wild"} => found.path = <<>>
    /\ pc = "ready" /\ found.path # <<>> => found.ino \in Walk(found.path)

Inv == CacheInv /\ TableInv /\ DiskInv /\ SyncInv /\ FrameInv /\ FoundInv

--------------------------------------------------------------------------------
(* Arithmetic of blocks and items.                                           *)

\* Quotient and remainder.
LEMMA DivMod ==
    ASSUME NEW k \in Nat \ {0}, NEW i \in Nat
    PROVE  i \div k \in Nat /\ i % k \in 0..(k - 1) /\ i = k * (i \div k) + (i % k)
  OBVIOUS

\* Multiples of k are k apart.
LEMMA Apart ==
    ASSUME NEW k \in Nat \ {0}, NEW a \in Nat, NEW b \in Nat, a < b
    PROVE  k * b >= k * a + k /\ k * a \in Nat /\ k * b \in Nat
  <1>1. PICK e \in Nat : b = a + 1 + e
    <2>1. b - a - 1 \in Nat
      OBVIOUS
    <2> QED
      BY <2>1
  <1>2. k * b = k * a + k + k * e /\ k * e \in Nat
    BY <1>1
  <1> QED
    BY <1>2

\* They are determined.
LEMMA DivUnique ==
    ASSUME NEW k \in Nat \ {0}, NEW q \in Nat, NEW r \in 0..(k - 1),
           NEW p \in Nat, NEW s \in 0..(k - 1), k * q + r = k * p + s
    PROVE  q = p /\ r = s
  <1>1. k * q \in Nat /\ k * p \in Nat
    OBVIOUS
  <1>2. ~(q < p) /\ ~(p < q)
    BY <1>1, Apart
  <1> QED
    BY <1>1, <1>2

\* Item i of block j.
LEMMA ItemOf ==
    ASSUME NEW k \in Nat \ {0}, NEW j \in Nat, NEW i \in 0..(k - 1)
    PROVE  /\ j * k + i \in Nat /\ (j * k + i) \div k = j /\ (j * k + i) % k = i
  <1> DEFINE m == j * k + i
  <1>1. m \in Nat /\ m = k * j + i
    OBVIOUS
  <1> HIDE DEF m
  <1>2. m \div k \in Nat /\ m % k \in 0..(k - 1) /\ m = k * (m \div k) + (m % k)
    BY <1>1, DivMod
  <1>3. m \div k = j /\ m % k = i
    BY <1>1, <1>2, DivUnique
  <1> QED
    BY <1>1, <1>3 DEF m

\* Within a block the quotient stays.
LEMMA DivStays ==
    ASSUME NEW k \in Nat \ {0}, NEW i \in Nat \ {0}, i % k # 0
    PROVE  (i - 1) \div k = i \div k
  <1> DEFINE j == i - 1
             q == i \div k
             r == i % k
             p == j \div k
             s == j % k
  <1>1. j \in Nat /\ i = j + 1
    OBVIOUS
  <1>2. q \in Nat /\ r \in 0..(k - 1) /\ i = k * q + r /\ r # 0
    BY DivMod
  <1>3. p \in Nat /\ s \in 0..(k - 1) /\ j = k * p + s
    BY <1>1, DivMod
  <1> HIDE DEF j, q, r, p, s
  <1>4. r - 1 \in 0..(k - 1) /\ k * q \in Nat /\ k * p \in Nat
    BY <1>2, <1>3
  <1>5. k * q + (r - 1) = k * p + s
    BY <1>1, <1>2, <1>3, <1>4
  <1>6. q = p
    BY <1>2, <1>3, <1>4, <1>5, DivUnique
  <1> QED
    BY <1>6 DEF j, q, p

\* The blocks that count items take.
LEMMA BlocksForRight ==
    ASSUME NEW count \in Nat, kPerBlock \in Nat \ {0}
    PROVE  /\ BlocksFor(count) \in Nat \ {0}
           /\ \A i \in 0..(count - 1) : i \div kPerBlock \in 0..(BlocksFor(count) - 1)
  <1> DEFINE k == kPerBlock
             m == count + k - 1
             b == m \div k
  <1>0. k \in Nat \ {0}
    OBVIOUS
  <1>1. CASE count = 0
    BY <1>1 DEF BlocksFor
  <1>2. CASE count # 0
    <2>1. m \in Nat /\ m >= k /\ BlocksFor(count) = b
      BY <1>0, <1>2 DEF BlocksFor
    <2>2. b \in Nat /\ m % k \in 0..(k - 1) /\ m = k * b + (m % k)
      BY <1>0, <2>1, DivMod
    <2> DEFINE r == m % k
    <2> HIDE DEF b, r, k, m
    <2>3. b # 0
      <3>1. b = 0 => k * b = 0
        BY <1>0
      <3> QED
        BY <1>0, <2>1, <2>2, <3>1 DEF r
    <2>4. ASSUME NEW i \in 0..(count - 1) PROVE i \div k \in 0..(b - 1)
      <3> DEFINE q == i \div k
                 s == i % k
      <3>0. i \in Nat
        BY <2>4
      <3>1. i \in Nat /\ q \in Nat /\ s \in 0..(k - 1) /\ i = k * q + s
        BY <1>0, <3>0, DivMod
      <3> HIDE DEF q, s
      <3>2. m - i >= k
        BY <1>0, <2>4 DEF m
      <3>3. k * q \in Nat /\ k * b \in Nat /\ b \in Nat /\ r \in 0..(k - 1) /\ m = k * b + r
        BY <1>0, <2>2, <3>1 DEF r
      <3>4. ASSUME ~(q < b) PROVE FALSE
        <4>1. k * b <= k * q
          <5>1. b = q \/ b < q
            BY <3>1, <3>3, <3>4
          <5> QED
            BY <1>0, <3>1, <3>3, <5>1, Apart
        <4> QED
          BY <1>0, <3>1, <3>2, <3>3, <4>1
      <3> QED
        BY <3>1, <3>3, <3>4 DEF q
    <2> QED
      BY <2>1, <2>2, <2>3, <2>4 DEF k
  <1> QED
    BY <1>1, <1>2

--------------------------------------------------------------------------------
(* The layout of the disk.                                                   *)

\* What the assumptions say of the sizes and of where the tables lie.
LEMMA Layout ==
    /\ kPerBlock \in Nat \ {0} /\ kDirect \in Nat \ {0} /\ kByte \in Nat \ {0} /\ 0 \in Items
    /\ SuperBlock.num_inodes \in Nat \ {0} /\ imap_count \in Nat /\ zmap_count \in Nat
    /\ zmap_start(SuperBlock) \in Nat /\ inode_start(SuperBlock) \in Nat
    /\ data_start(SuperBlock) \in Nat
    /\ imap_start = 2 /\ kSuperBlockBNO = 1
    /\ imap_start + BlocksFor(imap_count) <= zmap_start(SuperBlock)
    /\ zmap_start(SuperBlock) + BlocksFor(zmap_count) <= inode_start(SuperBlock)
    /\ inode_start(SuperBlock) + BlocksFor(SuperBlock.num_inodes) = data_start(SuperBlock)
    /\ \A b \in 1..(data_start(SuperBlock) - 1) : b \in Blocks
    /\ Image \in Disks
  <1> DEFINE sb == SuperBlock
  <1>1. /\ kPerBlock \in Nat \ {0} /\ kDirect \in Nat \ {0} /\ kByte \in Nat \ {0}
        /\ sb \in SuperBlocks /\ Image \in Disks
    BY FsAssumption DEF Disks
  <1>2. /\ sb.num_inodes \in Nat \ {0} /\ sb.num_zones \in Nat /\ sb.num_imap_blocks \in Nat
        /\ sb.num_zmap_blocks \in Nat
    BY <1>1 DEF SuperBlocks
  <1>3. imap_count \in Nat /\ zmap_count \in Nat
    BY <1>1, <1>2, DivMod DEF imap_count, zmap_count
  <1>4. /\ BlocksFor(imap_count) <= sb.num_imap_blocks
        /\ BlocksFor(zmap_count) <= sb.num_zmap_blocks
        /\ \A b \in 1..(data_start(sb) - 1) : b \in Blocks
    BY ImageAssumption DEF imap_count, zmap_count
  <1>5. /\ BlocksFor(imap_count) \in Nat /\ BlocksFor(zmap_count) \in Nat
        /\ BlocksFor(sb.num_inodes) \in Nat
    BY <1>1, <1>2, <1>3, BlocksForRight
  <1> HIDE DEF sb
  <1>6. /\ zmap_start(sb) = 2 + sb.num_imap_blocks
        /\ inode_start(sb) = zmap_start(sb) + sb.num_zmap_blocks
        /\ data_start(sb) = inode_start(sb) + BlocksFor(sb.num_inodes)
        /\ imap_start = 2 /\ kSuperBlockBNO = 1
    BY DEF zmap_start, inode_start, data_start, imap_start, kSuperBlockBNO
  <1>7. /\ zmap_start(sb) \in Nat /\ inode_start(sb) \in Nat /\ data_start(sb) \in Nat
        /\ 2 + BlocksFor(imap_count) <= zmap_start(sb)
        /\ zmap_start(sb) + BlocksFor(zmap_count) <= inode_start(sb)
    BY <1>2, <1>4, <1>5, <1>6
  <1>8. 0 \in Items
    BY <1>1 DEF Items
  <1> QED
    BY <1>1, <1>2, <1>3, <1>4, <1>6, <1>7, <1>8 DEF sb

--------------------------------------------------------------------------------
(* Operations on a clean cache.                                              *)

\* Between c and d blocks were read, and nothing else happened.
Quietly(c, d) == Clean(d) /\ d.disk = c.disk /\ d.cb = c.cb /\ d.made # 0

\* The drive works: no transfer fails.
LEMMA NoneFailed ==
    ASSUME NEW c, NEW d, NEW X, Kept(c, d, X), c.fault = NoFault, c.failed = {}
    PROVE  d.fault = NoFault /\ d.failed = {}
  <1>1. d.failed \in SUBSET Blocks
    BY Parts DEF Kept, Sound
  <1>2. d.failed \subseteq {NoFault} /\ NoFault \notin Blocks
    BY Constants DEF Kept
  <1> QED
    BY <1>1, <1>2 DEF Kept

\* read_block returns a buffer with what the disk holds.
LEMMA CleanRead ==
    ASSUME NEW c, Clean(c), c.made = 0 \/ c.cb = TRUE, NEW b \in Blocks
    PROVE  LET d == read_block(c, b)
           IN  Quietly(c, d) /\ d.ret \in Nodes /\ d.val[d.ret] = c.disk[b] /\ Hit(d, b)
  <1> DEFINE d == read_block(c, b)
  <1>1. Sound(c) /\ c.fault = NoFault /\ c.failed = {} /\ c.disk \in Disks
    BY Parts DEF Clean, Sound
  <1>2. Kept(c, d, {}) /\ Hit(d, b) /\ d.made # 0 /\ d.ret = d.table[Find(d, b)]
    BY <1>1, BlockRead
  <1> HIDE DEF d
  <1>3. Sound(d) /\ d.disk \in Disks /\ d.cb = c.cb
    BY <1>2, Parts DEF Kept, Sound
  <1>4. d.fault = NoFault /\ d.failed = {}
    BY <1>1, <1>2, NoneFailed
  <1>5. \A a \in Blocks : Held(d, a) = c.disk[a] /\ d.disk[a] = c.disk[a]
    BY <1>2, <1>4 DEF Kept, Clean
  <1>6. d.disk = c.disk
    BY <1>1, <1>3, <1>5 DEF Disks
  <1>7. d.ret \in Nodes
    BY <1>2, <1>3, Present
  <1>8. d.val[d.ret] = c.disk[b]
    BY <1>2, <1>5 DEF Held, Buffer
  <1> QED
    BY <1>2, <1>3, <1>4, <1>5, <1>6, <1>7, <1>8 DEF Quietly, Clean, d

\* A buffer is overwritten and written to the disk: then the cache is clean, if
\* it was so but for that buffer.
LEMMA Rewritten ==
    ASSUME NEW g, Sound(g), g.fault = NoFault, g.failed = {}, NEW b \in Blocks, Hit(g, b),
           NEW k \in Disks,
           \A a \in Blocks \ {b} : Held(g, a) = k[a] /\ g.disk[a] = k[a],
           NEW v \in Data
    PROVE  LET d == write_block(SetBuffer(g, b, v), b)
           IN  Clean(d) /\ d.disk = [k EXCEPT ![b] = v] /\ d.cb = g.cb /\ d.made = g.made
  <1> DEFINE x == g.table[Find(g, b)]
             e == [g EXCEPT !.val = [g.val EXCEPT ![x] = v], !.failed = {}]
             d == write_block(e, b)
  <1>1. g \in Caches /\ x \in Nodes
    BY Present DEF Sound
  <1>2. SetBuffer(g, b, v) = e
    BY <1>1 DEF SetBuffer, Caches
  <1>3. Buffered(g, e, b, v, {})
    BY <1>1, BufferAssigned
  <1> HIDE DEF e
  <1>4. Kept(g, e, {b}) /\ Hit(e, b) /\ Buffer(e, b) = v /\ e.made = g.made /\ e.failed = {}
    BY <1>3, BufferSet
  <1>5. Sound(e) /\ e.cb = g.cb /\ e.fault = NoFault /\ e.disk = g.disk /\ e \in Caches
    BY <1>3, <1>4 DEF Kept, Buffered, Sound
  <1>6. Kept(e, d, {}) /\ d.made = e.made
    BY <1>4, <1>5, WroteSound
  <1>7. Stored(e, d, b)
    <2> DEFINE S == 1..e.made
    <2>1. Linked(e, S) /\ S \in SUBSET Nodes /\ Inside(e, S) /\ e.count <= N
      BY <1>4, <1>5, Present
    <2> HIDE DEF S
    <2> QED
      BY <1>4, <1>5, <2>1, WroteBlock
  <1> HIDE DEF d
  <1>8. Sound(d) /\ d.cb = g.cb /\ d.fault = NoFault /\ d.failed = {} /\ d.disk \in Disks
    <2>1. Sound(d) /\ d.cb = e.cb
      BY <1>6 DEF Kept
    <2>2. d.fault = NoFault /\ d.failed = {}
      BY <1>4, <1>5, <1>6, NoneFailed
    <2> QED
      BY <1>5, <2>1, <2>2, Parts DEF Sound
  <1>9. d.disk = [g.disk EXCEPT ![b] = v]
    <2>1. b # NoFault
      BY Constants
    <2> QED
      BY <1>4, <1>5, <1>7, <2>1 DEF Stored
  <1>10. d.disk = [k EXCEPT ![b] = v]
    <2>1. g.disk \in Disks
      BY <1>1, Parts
    <2> QED
      BY <1>9, <2>1 DEF Disks
  <1>11. ASSUME NEW a \in Blocks PROVE Held(d, a) = d.disk[a]
    <2>1. Held(d, a) = Held(e, a)
      BY <1>6, <1>8 DEF Kept
    <2>2. a # b => Held(e, a) = Held(g, a)
      BY <1>4 DEF Kept
    <2>3. Held(e, b) = v
      BY <1>4 DEF Held
    <2> QED
      BY <1>10, <2>1, <2>2, <2>3 DEF Disks
  <1> QED
    BY <1>2, <1>4, <1>6, <1>8, <1>10, <1>11 DEF Clean, d

\* One read after another.
LEMMA QuietlyTwice ==
    ASSUME NEW c, NEW d, NEW e, Quietly(c, d), Quietly(d, e)
    PROVE  Quietly(c, e)
  BY DEF Quietly

\* A state in which directories can be read.
Ready(c) ==
    /\ Clean(c) /\ c.cb = TRUE
    /\ \A b \in DirBlocks : c.disk[b] = Image[b]

\* Reading does not change that.
LEMMA ReadyStill ==
    ASSUME NEW c, NEW d, Ready(c), Quietly(c, d)
    PROVE  Ready(d)
  BY DEF Ready, Quietly

\* A block of a directory.
LEMMA DirRead ==
    ASSUME NEW c, Ready(c), NEW b \in Blocks \cap DirBlocks
    PROVE  LET d == read_block(c, b)
           IN  Quietly(c, d) /\ Ready(d) /\ d.ret \in Nodes /\ d.val[d.ret] = Image[b]
  <1> DEFINE d == read_block(c, b)
  <1>1. Clean(c) /\ c.cb = TRUE /\ c.disk[b] = Image[b]
    BY DEF Ready
  <1>2. Quietly(c, d) /\ d.ret \in Nodes /\ d.val[d.ret] = c.disk[b]
    BY <1>1, CleanRead
  <1> HIDE DEF d
  <1>3. Ready(d)
    BY <1>2, ReadyStill
  <1> QED
    BY <1>1, <1>2, <1>3 DEF d

\* The blocks on the way to a zone.
LEMMA OnTheWay ==
    ASSUME NEW d \in Dirs, NEW z \in Zones(InodeOf(d))
    PROVE  \A b \in Range(Way(InodeOf(d), z)) : b \in Blocks \cap DirBlocks
  <1>1. Range(Way(InodeOf(d), z)) \subseteq DataBlocks
    BY ImageAssumption
  <1> QED
    BY <1>1 DEF DataBlocks, DirBlocks

\* The zones that the entries of a directory are in.
LEMMA ZoneNumbers ==
    ASSUME NEW d \in Dirs
    PROVE  /\ InodeOf(d) \in d_inode /\ InodeOf(d).size \in Nat
           /\ 0 \in Zones(InodeOf(d)) /\ Zones(InodeOf(d)) \subseteq Nat
           /\ \A i \in 0..(InodeOf(d).size - 1) : i \div kPerBlock \in Zones(InodeOf(d))
  <1>1. InodeOf(d) \in d_inode
    BY ImageAssumption DEF Dirs
  <1>2. InodeOf(d).size \in Nat
    BY <1>1 DEF d_inode
  <1> DEFINE count == InodeOf(d).size
  <1>3. kPerBlock \in Nat \ {0} /\ count \in Nat
    BY <1>2, Layout
  <1> HIDE DEF count
  <1>4. /\ BlocksFor(count) \in Nat \ {0}
        /\ \A i \in 0..(count - 1) : i \div kPerBlock \in 0..(BlocksFor(count) - 1)
    BY <1>3, BlocksForRight
  <1>5. Zones(InodeOf(d)) = 0..(BlocksFor(count) - 1)
    BY DEF Zones, count
  <1>6. 0 \in Zones(InodeOf(d)) /\ Zones(InodeOf(d)) \subseteq Nat
    BY <1>4, <1>5
  <1> QED
    BY <1>1, <1>2, <1>4, <1>5, <1>6 DEF count

\* read_zone of a directory's zone returns a buffer that holds it.
LEMMA ZoneRead ==
    ASSUME NEW c, Ready(c), NEW i \in Dirs, NEW z \in Zones(InodeOf(i))
    PROVE  LET d == read_zone(c, InodeOf(i), z)
           IN  /\ Quietly(c, d) /\ Ready(d) /\ d.ret \in Nodes
               /\ d.val[d.ret] = Image[ZoneBlock(InodeOf(i), z)]
  <1> DEFINE inode == InodeOf(i)
             single == inode.zone[kDirect]
             double == inode.zone[kDirect + 1]
             n == z - kDirect
             m == n - kPerBlock
             w == Way(inode, z)
  <1>1. kDirect \in Nat /\ kPerBlock \in Nat \ {0} /\ z \in Nat
    BY Layout, ZoneNumbers
  <1>2. \A j \in DOMAIN w : w[j] \in Blocks \cap DirBlocks
    BY OnTheWay DEF Range
  <1> HIDE DEF inode
  <1>3. CASE z < kDirect
    <2> DEFINE b == inode.zone[z]
    <2>1. w = <<b>>
      BY <1>3 DEF Way
    <2>2. b \in Blocks \cap DirBlocks /\ ZoneBlock(inode, z) = b
      BY <1>2, <2>1 DEF ZoneBlock, Last
    <2>3. read_zone(c, inode, z) = read_block(c, b)
      BY <1>3 DEF read_zone
    <2> QED
      BY <2>2, <2>3, DirRead DEF inode
  <1>4. CASE ~(z < kDirect) /\ n < kPerBlock
    <2> DEFINE b == Image[single][n].no
               d == read_block(c, single)
    <2>1. w = <<single, b>>
      BY <1>4 DEF Way
    <2>2. single \in Blocks \cap DirBlocks /\ b \in Blocks \cap DirBlocks
          /\ ZoneBlock(inode, z) = b
      BY <1>2, <2>1 DEF ZoneBlock, Last
    <2>4. Quietly(c, d) /\ Ready(d) /\ d.val[d.ret] = Image[single]
      BY <2>2, DirRead
    <2>3. read_zone(c, inode, z) = read_block(d, b)
      <3>1. z < kDirect + kPerBlock
        BY <1>1, <1>4
      <3>2. read_zone(c, inode, z) = Follow(d, n)
        BY <1>4, <3>1 DEF read_zone
      <3>3. Follow(d, n) = read_block(d, b)
        BY <2>4 DEF Follow, Item
      <3> QED
        BY <3>2, <3>3
    <2> HIDE DEF d
    <2>5. LET e == read_block(d, b)
          IN  Quietly(d, e) /\ Ready(e) /\ e.ret \in Nodes /\ e.val[e.ret] = Image[b]
      BY <2>2, <2>4, DirRead
    <2> QED
      BY <2>2, <2>3, <2>4, <2>5, QuietlyTwice DEF inode
  <1>5. CASE ~(z < kDirect) /\ ~(n < kPerBlock)
    <2> DEFINE q == m \div kPerBlock
               r == m % kPerBlock
               second == Image[double][q].no
               b == Image[second][r].no
               d == read_block(c, double)
               e == read_block(d, second)
    <2>1. w = <<double, second, b>>
      BY <1>5 DEF Way
    <2>2. double \in Blocks \cap DirBlocks /\ second \in Blocks \cap DirBlocks
          /\ b \in Blocks \cap DirBlocks /\ ZoneBlock(inode, z) = b
      <3> HIDE DEF second, b, double, w
      <3>1. DOMAIN w = 1..3 /\ Len(w) = 3 /\ w[1] = double /\ w[2] = second /\ w[3] = b
        BY <2>1
      <3>2. ZoneBlock(inode, z) = w[Len(w)]
        BY DEF ZoneBlock, Last, w
      <3> QED
        BY <1>2, <3>1, <3>2
    <2>3. Quietly(c, d) /\ Ready(d) /\ d.val[d.ret] = Image[double]
      BY <2>2, DirRead
    <2>4. Quietly(d, e) /\ Ready(e) /\ e.val[e.ret] = Image[second]
      BY <2>2, <2>3, DirRead
    <2>5. read_zone(c, inode, z) = read_block(e, b)
      <3>1. ~(z < kDirect + kPerBlock)
        BY <1>1, <1>5
      <3>2. read_zone(c, inode, z) = Follow(Follow(d, q), r)
        BY <1>5, <3>1 DEF read_zone
      <3>3. Follow(d, q) = e
        BY <2>3 DEF Follow, Item
      <3>4. Follow(e, r) = read_block(e, b)
        BY <2>4 DEF Follow, Item
      <3> QED
        BY <3>2, <3>3, <3>4
    <2> HIDE DEF d, e
    <2>6. LET f == read_block(e, b)
          IN  Quietly(e, f) /\ Ready(f) /\ f.ret \in Nodes /\ f.val[f.ret] = Image[b]
      BY <2>2, <2>4, DirRead
    <2> QED
      BY <2>2, <2>3, <2>4, <2>5, <2>6, QuietlyTwice DEF inode
  <1> QED
    BY <1>3, <1>4, <1>5

--------------------------------------------------------------------------------
(* The loops, which the model writes as recursive functions.                 *)

\* A set that holds 0 and is closed under the successor holds every number.
LEMMA NatClosed ==
    ASSUME NEW S, 0 \in S, \A n \in Nat : n \in S => n + 1 \in S
    PROVE  \A n \in Nat : n \in S
  <1> DEFINE T == {k \in Nat : k \notin S}
  <1>1. ASSUME T # {} PROVE FALSE
    <2>1. T \in SUBSET Nat
      OBVIOUS
    <2>2. Min(T) \in T /\ \A y \in T : Min(T) <= y
      <3> HIDE DEF T
      <3> QED
        BY <1>1, <2>1, MinIsLeast
    <2> DEFINE x == Min(T)
    <2>3. x \in T /\ \A y \in T : x <= y
      BY <2>2
    <2> HIDE DEF x
    <2>4. x \in Nat /\ x # 0 /\ x - 1 \in Nat /\ x - 1 < x /\ (x - 1) + 1 = x
      BY <2>3
    <2>5. x - 1 \in T
      BY <2>3, <2>4
    <2> QED
      BY <2>3, <2>4, <2>5
  <1> QED
    BY <1>1

\* Turn j of a loop, by the function that has it.
Step(loop, p, x, j) ==
    IF loop = "read_blocks" THEN read_block(x, p + j - 1)
    ELSE IF loop = "Search" THEN Turn(x, j - 1, p.dir, p.name)
    ELSE IF loop = "namei" THEN Descend(x, p[j])
    ELSE IF loop = "Destination" THEN Taken(x, p[j])
    ELSE UNION {Leads(ino, p[j]) : ino \in x}

\* f[j] is the state after j of n turns, from x on.
Runs(f, loop, p, x, n) == f = [j \in 0..n |-> IF j = 0 THEN x ELSE Step(loop, p, f[j - 1], j)]

\* There is such a function.
LEMMA LoopRuns ==
    ASSUME NEW loop, NEW p, NEW x, NEW n \in Nat
    PROVE  \E f : Runs(f, loop, p, x, n)
  <1> DEFINE S == {k \in Nat : \E f : Runs(f, loop, p, x, k)}
  <1>1. 0 \in S
    <2>1. Runs([i \in 0..0 |-> x], loop, p, x, 0)
      BY DEF Runs
    <2> QED
      BY <2>1
  <1>2. ASSUME NEW k \in Nat, k \in S PROVE k + 1 \in S
    <2>1. PICK f : Runs(f, loop, p, x, k)
      BY <1>2
    <2> DEFINE G(y, i) == Step(loop, p, y, i)
               g == [i \in 0..(k + 1) |-> IF i = k + 1 THEN G(f[k], i) ELSE f[i]]
    <2>2. f[0] = x /\ \A i \in 0..k : i # 0 => f[i] = G(f[i - 1], i)
      BY <2>1 DEF Runs
    <2> HIDE DEF G
    <2>3. ASSUME NEW i \in 0..(k + 1)
          PROVE  g[i] = IF i = 0 THEN x ELSE G(g[i - 1], i)
      <3>1. i # 0 => i - 1 \in 0..k /\ g[i - 1] = f[i - 1]
        OBVIOUS
      <3>2. i # k + 1 => i \in 0..k /\ g[i] = f[i]
        OBVIOUS
      <3>3. i = k + 1 => g[i] = G(f[k], i) /\ i - 1 = k /\ i # 0
        OBVIOUS
      <3> QED
        BY <2>2, <3>1, <3>2, <3>3
    <2>4. g = [i \in 0..(k + 1) |-> IF i = 0 THEN x ELSE G(g[i - 1], i)]
      BY <2>3
    <2>5. Runs(g, loop, p, x, k + 1)
      BY <2>4 DEF Runs, G
    <2> HIDE DEF g
    <2> QED
      BY <2>5
  <1>3. n \in S
    <2> HIDE DEF S
    <2> QED
      BY <1>1, <1>2, NatClosed
  <1> QED
    BY <1>3

\* The loop of read_blocks: f[j] is after its j-th block.
ReadOff(f, r, c, start, count, n) ==
    /\ f[0] = c
    /\ \A j \in 1..n : f[j] = read_block(f[j - 1], start + j - 1)
    /\ r.c = f[n]
    /\ r.items = [i \in 1..count |-> r.items[i]]
    /\ \A i \in 1..count :
           LET d == f[1 + (i - 1) \div kPerBlock]
           IN  r.items[i] = d.val[d.ret][(i - 1) % kPerBlock]

\* The loop of read_blocks runs: it is its function of the blocks read.
LEMMA ReadsRun ==
    ASSUME NEW c, NEW start, NEW count, NEW n \in Nat, n = BlocksFor(count),
           NEW r, r = read_blocks(c, start, count)
    PROVE  \E f : ReadOff(f, r, c, start, count, n)
  <1> DEFINE P(g) == g = [j \in 0..n |-> IF j = 0 THEN c ELSE read_block(g[j - 1], start + j - 1)]
             f == CHOOSE g : P(g)
  <1>1. \E g : P(g)
    <2>1. PICK g : Runs(g, "read_blocks", start, c, n)
      BY LoopRuns
    <2>2. \A x, j : Step("read_blocks", start, x, j) = read_block(x, start + j - 1)
      BY DEF Step
    <2> QED
      BY <2>1, <2>2 DEF Runs
  <1>2. P(f)
    BY <1>1, Zenon
  <1>3. read_blocks(c, start, count) =
            [c |-> f[n],
             items |-> [i \in 1..count |-> Item(f[1 + (i - 1) \div kPerBlock],
                                                f[1 + (i - 1) \div kPerBlock].ret,
                                                (i - 1) % kPerBlock)]]
    BY DEF read_blocks
  <1> HIDE DEF f
  <1>4. f[0] = c /\ \A j \in 1..n : f[j] = read_block(f[j - 1], start + j - 1)
    BY <1>2
  <1>5. /\ r.c = f[n] /\ r.items = [i \in 1..count |-> r.items[i]]
        /\ \A i \in 1..count : r.items[i] = Item(f[1 + (i - 1) \div kPerBlock],
                                                f[1 + (i - 1) \div kPerBlock].ret,
                                                (i - 1) % kPerBlock)
    BY <1>3
  <1>6. ReadOff(f, r, c, start, count, n)
    BY <1>4, <1>5 DEF ReadOff, Item
  <1> QED
    BY <1>6

\* read_blocks returns what the disk holds.
Loaded(r, c, k, start, count) ==
    Quietly(c, r.c) /\ r.items = [i \in 1..count |-> At(k, start, i - 1)]

\* From a clean cache read_blocks reads the items of the table, and changes
\* nothing but the cache.
LEMMA BlocksRead ==
    ASSUME NEW c, Clean(c), c.cb = TRUE, c.made # 0, NEW start \in Nat, NEW count \in Nat,
           \A j \in 0..(BlocksFor(count) - 1) : start + j \in Blocks
    PROVE  Loaded(read_blocks(c, start, count), c, c.disk, start, count)
  <1> DEFINE n == BlocksFor(count)
             r == read_blocks(c, start, count)
  <1>1. /\ kPerBlock \in Nat \ {0} /\ n \in Nat \ {0}
        /\ \A i \in 0..(count - 1) : i \div kPerBlock \in 0..(n - 1)
    BY Layout, BlocksForRight
  <1>0. n = BlocksFor(count) /\ r = read_blocks(c, start, count)
        /\ \A j \in 0..(n - 1) : start + j \in Blocks
    OBVIOUS
  <1> HIDE DEF n, r
  <1>2. PICK f : ReadOff(f, r, c, start, count, n)
    BY <1>0, <1>1, ReadsRun
  <1> DEFINE Here(j) == Quietly(c, f[j]) /\ f[j].val[f[j].ret] = c.disk[start + j - 1]
             S == {j \in Nat : j <= n => Quietly(c, f[j]) /\ (j # 0 => Here(j))}
  <1>3. 0 \in S
    <2>1. f[0] = c
      BY <1>2 DEF ReadOff
    <2> QED
      BY <2>1 DEF Quietly
  <1>4. ASSUME NEW j \in Nat, j \in S PROVE j + 1 \in S
    <2> SUFFICES ASSUME j + 1 <= n PROVE Here(j + 1)
      BY <1>4
    <2> DEFINE e == f[j]
               b == start + j
    <2>1. Quietly(c, e) /\ j + 1 \in 1..n /\ (j + 1) - 1 = j /\ start + (j + 1) - 1 = b
      BY <1>1, <1>4
    <2>2. b \in Blocks
      BY <1>0, <1>1
    <2>3. f[j + 1] = read_block(e, b)
      BY <1>2, <2>1 DEF ReadOff
    <2> HIDE DEF e, b
    <2>4. Clean(e) /\ e.cb = TRUE /\ e.disk = c.disk
      BY <2>1 DEF Quietly
    <2>5. LET d == read_block(e, b)
          IN  Quietly(e, d) /\ d.val[d.ret] = c.disk[b]
      BY <2>2, <2>4, CleanRead
    <2> QED
      BY <2>1, <2>3, <2>5, QuietlyTwice
  <1>5. \A j \in Nat : j \in S
    <2> HIDE DEF S
    <2> QED
      BY <1>3, <1>4, NatClosed
  <1>6. Quietly(c, r.c)
    <2>1. r.c = f[n]
      BY <1>2 DEF ReadOff
    <2> QED
      BY <1>1, <1>5, <2>1
  <1>7. ASSUME NEW i \in 1..count PROVE r.items[i] = At(c.disk, start, i - 1)
    <2> DEFINE q == (i - 1) \div kPerBlock
               j == 1 + q
    <2>1. i - 1 \in 0..(count - 1)
      OBVIOUS
    <2>2. q \in 0..(n - 1)
      BY <1>1, <2>1
    <2>3. r.items[i] = f[j].val[f[j].ret][(i - 1) % kPerBlock]
      BY <1>2 DEF ReadOff
    <2>4. At(c.disk, start, i - 1) = c.disk[start + q][(i - 1) % kPerBlock]
      BY DEF At
    <2> HIDE DEF q
    <2>5. j \in Nat /\ j <= n /\ j # 0 /\ start + j - 1 = start + q
      BY <1>1, <2>2
    <2>6. f[j].val[f[j].ret] = c.disk[start + q]
      BY <1>5, <2>5
    <2> QED
      BY <2>3, <2>4, <2>6
  <1>8. r.items = [i \in 1..count |-> r.items[i]]
    BY <1>2 DEF ReadOff
  <1>9. r.items = [i \in 1..count |-> At(c.disk, start, i - 1)]
    BY <1>7, <1>8
  <1> QED
    BY <1>6, <1>9 DEF Loaded, r

--------------------------------------------------------------------------------
(* The walk of namei.                                                        *)

\* The zone that traverse_dir has read when it comes to entry k.
ZoneSoFar(k) == IF k = 0 THEN 0 ELSE (k - 1) \div kPerBlock

\* Before it looks at entry k it has the zone of that entry.
LEMMA EntryRead ==
    ASSUME NEW b, Ready(b), NEW c, Quietly(b, c), NEW d \in Dirs,
           NEW k \in 0..(InodeOf(d).size - 1), NEW node \in Nodes,
           c.val[node] = Image[ZoneBlock(InodeOf(d), ZoneSoFar(k))]
    PROVE  LET z == NextZone(c, node, InodeOf(d), k)
           IN  /\ Quietly(b, z.c) /\ z.node \in Nodes
               /\ z.c.val[z.node] = Image[ZoneBlock(InodeOf(d), k \div kPerBlock)]
               /\ Item(z.c, z.node, k % kPerBlock) = EntryAt(InodeOf(d), k)
  <1> DEFINE dir == InodeOf(d)
             z == NextZone(c, node, dir, k)
             q == k \div kPerBlock
  <1>1. kPerBlock \in Nat \ {0} /\ k \in Nat /\ q \in Zones(dir) /\ dir.size \in Nat
    BY Layout, ZoneNumbers
  <1>2. Quietly(b, z.c) /\ z.node \in Nodes /\ z.c.val[z.node] = Image[ZoneBlock(dir, q)]
    <2>1. CASE k = 0 \/ k % kPerBlock # 0
      <3>1. z.c = c /\ z.node = node
        BY <2>1 DEF NextZone
      <3>2. ZoneSoFar(k) = q
        <4>1. CASE k = 0
          <5>1. 0 \div kPerBlock = 0
            BY <1>1
          <5> QED
            BY <4>1, <5>1 DEF ZoneSoFar
        <4>2. CASE k # 0
          <5>1. k % kPerBlock # 0 /\ k \in Nat \ {0}
            BY <1>1, <2>1, <4>2
          <5>2. (k - 1) \div kPerBlock = k \div kPerBlock
            BY <1>1, <5>1, DivStays
          <5> QED
            BY <4>2, <5>2 DEF ZoneSoFar
        <4> QED
          BY <4>1, <4>2
      <3> QED
        BY <3>1, <3>2
    <2>2. CASE ~(k = 0 \/ k % kPerBlock # 0)
      <3> DEFINE e == read_zone(c, dir, q)
      <3>1. Ready(c)
        BY ReadyStill
      <3>2. Quietly(c, e) /\ e.ret \in Nodes /\ e.val[e.ret] = Image[ZoneBlock(dir, q)]
        BY <1>1, <3>1, ZoneRead
      <3>3. z.c = e /\ z.node = e.ret
        BY <2>2 DEF NextZone, Zone
      <3> HIDE DEF e
      <3> QED
        BY <3>2, <3>3, QuietlyTwice
    <2> QED
      BY <2>1, <2>2
  <1> HIDE DEF z, dir
  <1>3. Item(z.c, z.node, k % kPerBlock) = EntryAt(dir, k)
    BY <1>2 DEF Item, EntryAt
  <1> QED
    BY <1>2, <1>3 DEF z, dir

\* ino is the inode of the first of k entries that matches, or none does.
First(ino, dir, name, k) ==
    \/ ino = None /\ \A i \in 0..(k - 1) : ~Matches(EntryAt(dir, i), name)
    \/ \E i \in 0..(k - 1) : /\ Matches(EntryAt(dir, i), name) /\ ino = EntryAt(dir, i).inode
                             /\ \A j \in 0..(i - 1) : ~Matches(EntryAt(dir, j), name)

\* The entries of a directory.
LEMMA EntriesOfDir ==
    ASSUME NEW d \in Dirs, NEW i \in 0..(InodeOf(d).size - 1)
    PROVE  LET e == EntryAt(InodeOf(d), i)
           IN  e.inode \in {0} \cup Inos /\ e.inode # None /\ e.name \in Seq(STRING)
  <1> DEFINE e == EntryAt(InodeOf(d), i)
  <1>1. e \in dir_entry
    BY ImageAssumption
  <1>2. SuperBlock.num_inodes \in Nat
    BY Layout
  <1> HIDE DEF e
  <1>3. e.inode \in 0..SuperBlock.num_inodes /\ e.name \in Seq(STRING)
    BY <1>1 DEF dir_entry
  <1> QED
    BY <1>2, <1>3 DEF Inos, None, e

\* The state of Search after k entries.
Searched(r, b, dir, name, k) ==
    /\ Quietly(b, r.c) /\ First(r.ino, dir, name, k)
    /\ r.ino = None => r.node \in Nodes /\ r.c.val[r.node] = Image[ZoneBlock(dir, ZoneSoFar(k))]

\* One entry more.
LEMMA TurnRight ==
    ASSUME NEW b, Ready(b), NEW d \in Dirs, NEW k \in 0..(InodeOf(d).size - 1), NEW name, NEW r,
           Searched(r, b, InodeOf(d), name, k)
    PROVE  Searched(Turn(r, k, InodeOf(d), name), b, InodeOf(d), name, k + 1)
  <1> DEFINE dir == InodeOf(d)
             s == Turn(r, k, dir, name)
             z == NextZone(r.c, r.node, dir, k)
             e == EntryAt(dir, k)
  <1>0. k \in Nat /\ dir.size \in Nat
    BY ZoneNumbers
  <1>1. e.inode # None
    BY EntriesOfDir
  <1>2. CASE r.ino # None
    <2>1. s = r
      BY <1>2 DEF Turn
    <2>2. First(r.ino, dir, name, k + 1)
      BY <1>0, <1>2 DEF Searched, First
    <2> HIDE DEF s, dir
    <2> QED
      BY <1>2, <2>1, <2>2 DEF Searched, s, dir
  <1>3. CASE r.ino = None
    <2>1. Quietly(b, r.c) /\ r.node \in Nodes /\ r.c.val[r.node] = Image[ZoneBlock(dir, ZoneSoFar(k))]
      BY <1>3 DEF Searched
    <2>2. /\ Quietly(b, z.c) /\ z.node \in Nodes
          /\ z.c.val[z.node] = Image[ZoneBlock(dir, k \div kPerBlock)]
          /\ Item(z.c, z.node, k % kPerBlock) = e
      BY <2>1, EntryRead
    <2>3. s = Compare(z, e, name)
      BY <1>3, <2>2 DEF Turn, Visit
    <2>4. s.c = z.c /\ s.node = z.node /\ s.ino = IF Matches(e, name) THEN e.inode ELSE None
      BY <2>3 DEF Compare
    <2>5. ZoneSoFar(k + 1) = k \div kPerBlock
      BY <1>0 DEF ZoneSoFar
    <2>6. \A i \in 0..(k - 1) : ~Matches(EntryAt(dir, i), name)
      <3>1. ASSUME NEW i \in 0..(k - 1), None = EntryAt(dir, i).inode PROVE FALSE
        <4>1. i \in 0..(InodeOf(d).size - 1)
          BY <1>0
        <4> QED
          BY <3>1, <4>1, EntriesOfDir
      <3> QED
        BY <1>3, <3>1 DEF Searched, First
    <2> HIDE DEF s, z, dir, e
    <2>7. First(s.ino, dir, name, k + 1)
      <3>1. \A i \in 0..((k + 1) - 1) : i = k \/ i \in 0..(k - 1)
        BY <1>0
      <3>2. k \in 0..((k + 1) - 1)
        BY <1>0
      <3> QED
        BY <2>4, <2>6, <3>1, <3>2 DEF First, e
    <2> QED
      BY <2>2, <2>4, <2>5, <2>7 DEF Searched, s, dir
  <1> QED
    BY <1>2, <1>3

\* The loop of Search.
SearchRuns(f, zone, dir, name) ==
    /\ f[0] = [c |-> zone.c, node |-> zone.node, ino |-> None]
    /\ \A k \in 1..dir.size : f[k] = Turn(f[k - 1], k - 1, dir, name)
    /\ Search(zone, dir, name) = f[dir.size]

\* The loop of traverse_dir under find_entry runs, entry by entry.
LEMMA SearchRun ==
    ASSUME NEW zone, NEW dir, dir.size \in Nat, NEW name
    PROVE  \E f : SearchRuns(f, zone, dir, name)
  <1> DEFINE n == dir.size
             x == [c |-> zone.c, node |-> zone.node, ino |-> None]
             p == [dir |-> dir, name |-> name]
             P(g) == g = [k \in 0..n |-> IF k = 0 THEN x ELSE Turn(g[k - 1], k - 1, dir, name)]
             f == CHOOSE g : P(g)
  <1>1. \E g : P(g)
    <2> HIDE DEF x
    <2>1. PICK g : Runs(g, "Search", p, x, n)
      BY LoopRuns
    <2>2. \A y, k : Step("Search", p, y, k) = Turn(y, k - 1, dir, name)
      BY DEF Step
    <2> HIDE DEF p
    <2> QED
      BY <2>1, <2>2 DEF Runs
  <1>2. P(f)
    BY <1>1, Zenon
  <1>3. Search(zone, dir, name) = f[n]
    BY DEF Search
  <1> HIDE DEF f
  <1>4. f[0] = x /\ \A k \in 1..n : f[k] = Turn(f[k - 1], k - 1, dir, name)
    <2> HIDE DEF x
    <2> QED
      BY <1>2
  <1>5. SearchRuns(f, zone, dir, name)
    BY <1>3, <1>4 DEF SearchRuns
  <1> QED
    BY <1>5

\* find_entry finds the first entry that matches.
LEMMA EntryFound ==
    ASSUME NEW b, Ready(b), NEW d \in Dirs, NEW name
    PROVE  LET f == find_entry(b, InodeOf(d), name)
           IN  Quietly(b, f.c) /\ First(f.ino, InodeOf(d), name, InodeOf(d).size)
  <1> DEFINE dir == InodeOf(d)
             n == dir.size
             e == read_zone(b, dir, 0)
  <1>1. is_directory(dir) /\ n \in Nat /\ 0 \in Zones(dir)
    BY ZoneNumbers DEF Dirs
  <1>2. Quietly(b, e) /\ e.ret \in Nodes /\ e.val[e.ret] = Image[ZoneBlock(dir, 0)]
    BY <1>1, ZoneRead
  <1>3. find_entry(b, dir, name) = Search(Zone(e), dir, name)
    BY <1>1 DEF find_entry
  <1> DEFINE zone == Zone(e)
  <1>4. zone.c = e /\ zone.node = e.ret
    BY DEF Zone
  <1> HIDE DEF e, zone, dir
  <1>5. PICK f : SearchRuns(f, zone, dir, name)
    BY <1>1, SearchRun
  <1> DEFINE S == {k \in Nat : k <= n => Searched(f[k], b, dir, name, k)}
  <1>6. 0 \in S
    <2>1. f[0] = [c |-> zone.c, node |-> zone.node, ino |-> None]
      BY <1>5 DEF SearchRuns
    <2>2. f[0].c = e /\ f[0].node = e.ret /\ f[0].ino = None
      BY <1>4, <2>1
    <2>3. ZoneSoFar(0) = 0 /\ \A i \in 0..(0 - 1) : FALSE
      BY DEF ZoneSoFar
    <2>4. First(None, dir, name, 0)
      BY <2>3 DEF First
    <2> QED
      BY <1>2, <2>2, <2>3, <2>4 DEF Searched
  <1>7. ASSUME NEW k \in Nat, k \in S PROVE k + 1 \in S
    <2> SUFFICES ASSUME k + 1 <= n PROVE Searched(f[k + 1], b, dir, name, k + 1)
      OBVIOUS
    <2>1. k \in 0..(n - 1) /\ k + 1 \in 1..n /\ (k + 1) - 1 = k
      BY <1>1
    <2>2. Searched(f[k], b, dir, name, k)
      BY <1>1, <1>7, <2>1
    <2>3. f[k + 1] = Turn(f[k], k, dir, name)
      BY <1>5, <2>1 DEF SearchRuns
    <2> QED
      BY <2>1, <2>2, <2>3, TurnRight DEF dir
  <1>8. Searched(f[n], b, dir, name, n)
    <2>1. n \in S
      <3> HIDE DEF S
      <3> QED
        BY <1>1, <1>6, <1>7, NatClosed
    <2> QED
      BY <1>1, <2>1
  <1> QED
    BY <1>3, <1>5, <1>8 DEF Searched, SearchRuns, zone, dir

\* What is found is one of the inodes that the name leads to.
LEMMA FirstLeads ==
    ASSUME NEW d \in Dirs, NEW name \in Seq(STRING), NEW ino,
           First(ino, InodeOf(d), name, InodeOf(d).size)
    PROVE  ino \in Leads(d, name) /\ ino \in {0, None} \cup Inos
  <1> DEFINE dir == InodeOf(d)
             n == dir.size
             E(i) == EntryAt(dir, i)
             M == Named(dir, name)
  <1>1. n \in Nat /\ d # None /\ is_directory(dir) /\ d \in Nat
    <2>1. SuperBlock.num_inodes \in Nat
      BY Layout
    <2> QED
      BY <2>1, ZoneNumbers DEF Dirs, Inos, None
  <1>2. \A i \in 0..(n - 1) : /\ E(i).inode \in {0, None} \cup Inos /\ E(i).name \in Seq(STRING)
    BY EntriesOfDir
  <1>3. ino \in {0, None} \cup Inos
    BY <1>2 DEF First
  <1>4. Leads(d, name) = IF Shadowed(dir, name) THEN {0, None} \cup Inos
                         ELSE IF M = {} THEN {None} ELSE {E(Min(M)).inode}
    BY <1>1 DEF Leads
  <1>5. M \in SUBSET Nat /\ M \subseteq 0..(n - 1) /\ \A i \in 0..(n - 1) : i \in M <=> E(i).name = name
    BY <1>1 DEF Named
  <1>6. Shadowed(dir, name) <=> \E i \in 0..(n - 1) : /\ IsPrefix(E(i).name, name) /\ E(i).name # name
                                                     /\ \A j \in M : i < j
    BY DEF Shadowed, IsStrictPrefix
  <1>7. \A i \in 0..(n - 1) : Matches(E(i), name) <=> IsPrefix(E(i).name, name)
    BY DEF Matches
  <1>8. IsPrefix(name, name)
    BY DEF IsPrefix
  <1>9. /\ ino = None /\ (\A i \in 0..(n - 1) : ~Matches(E(i), name))
        \/ \E i \in 0..(n - 1) : /\ Matches(E(i), name) /\ ino = E(i).inode
                                 /\ \A j \in 0..(i - 1) : ~Matches(E(j), name)
    BY DEF First
  <1> HIDE DEF dir, n, E, M
  <1>10. CASE Shadowed(dir, name)
    BY <1>3, <1>4, <1>10
  <1>11. CASE ~Shadowed(dir, name) /\ M = {}
    <2>1. \A i \in 0..(n - 1) : ~Matches(E(i), name)
      BY <1>5, <1>6, <1>7, <1>11
    <2>2. ino = None
      BY <1>9, <2>1
    <2> QED
      BY <1>3, <1>4, <1>11, <2>2
  <1>12. CASE ~Shadowed(dir, name) /\ M # {}
    <2> DEFINE m == Min(M)
    <2>1. m \in M /\ \A j \in M : m <= j
      BY <1>5, <1>12, MinIsLeast
    <2> HIDE DEF m
    <2>2. m \in 0..(n - 1) /\ m \in Nat /\ Matches(E(m), name)
      BY <1>1, <1>5, <1>7, <1>8, <2>1
    <2>3. PICK i \in 0..(n - 1) : /\ Matches(E(i), name) /\ ino = E(i).inode
                                  /\ \A j \in 0..(i - 1) : ~Matches(E(j), name)
      BY <1>9, <2>2
    <2>4. i <= m
      BY <1>1, <2>2, <2>3
    <2>5. E(i).name = name
      <3> SUFFICES ASSUME E(i).name # name PROVE FALSE
        OBVIOUS
      <3>1. PICK j \in M : ~(i < j)
        BY <1>6, <1>7, <1>12, <2>3
      <3>2. m <= i /\ m \in Nat /\ i \in Nat
        BY <1>1, <1>5, <2>1, <2>2, <3>1
      <3>3. m = i
        BY <2>4, <3>2
      <3> QED
        BY <1>5, <2>1, <2>2, <3>3
    <2>6. i \in M /\ m <= i
      BY <1>5, <2>1, <2>5
    <2>7. i = m
      BY <1>1, <2>2, <2>4, <2>6
    <2> QED
      BY <1>3, <1>4, <1>12, <2>3, <2>7 DEF m
  <1> QED
    BY <1>10, <1>11, <1>12

\* It is the one that the name is taken for.
LEMMA FirstTaken ==
    ASSUME NEW d \in Dirs, NEW name, NEW ino, First(ino, InodeOf(d), name, InodeOf(d).size)
    PROVE  ino = Taken(d, name)
  <1> DEFINE dir == InodeOf(d)
             n == dir.size
             E(i) == EntryAt(dir, i)
             M == Beginning(dir, name)
  <1>1. n \in Nat /\ d # None /\ is_directory(dir)
    <2>1. SuperBlock.num_inodes \in Nat
      BY Layout
    <2> QED
      BY <2>1, ZoneNumbers DEF Dirs, Inos, None
  <1>2. Taken(d, name) = IF M = {} THEN None ELSE E(Min(M)).inode
    BY <1>1 DEF Taken
  <1>3. M \in SUBSET Nat /\ \A i : i \in M <=> i \in 0..(n - 1) /\ Matches(E(i), name)
    BY <1>1 DEF Beginning, Matches
  <1>4. \/ ino = None /\ \A i \in 0..(n - 1) : ~Matches(E(i), name)
        \/ \E i \in 0..(n - 1) : /\ Matches(E(i), name) /\ ino = E(i).inode
                                 /\ \A j \in 0..(i - 1) : ~Matches(E(j), name)
    BY DEF First
  <1> HIDE DEF dir, n, E, M
  <1>5. CASE M = {}
    BY <1>2, <1>3, <1>4, <1>5
  <1>6. CASE M # {}
    <2> DEFINE m == Min(M)
    <2>1. m \in M /\ \A j \in M : m <= j
      BY <1>3, <1>6, MinIsLeast
    <2> HIDE DEF m
    <2>2. PICK i \in 0..(n - 1) : /\ Matches(E(i), name) /\ ino = E(i).inode
                                  /\ \A j \in 0..(i - 1) : ~Matches(E(j), name)
      BY <1>3, <1>4, <2>1
    <2>3. i \in M /\ m \in 0..(n - 1) /\ m <= i /\ m \notin 0..(i - 1)
      BY <1>3, <2>1, <2>2
    <2>4. i = m
      BY <1>1, <2>3
    <2> QED
      BY <1>2, <1>6, <2>2, <2>4 DEF m
  <1> QED
    BY <1>5, <1>6

\* The inodes in memory: those of directories are as they were on the disk.
InodesInMemory ==
    /\ g_inode_table[0] = NoInode
    /\ \A ino \in Inos : g_inode_table[ino] \in Versions(ino)

\* An inode in memory is a directory exactly if the image's is; it is then
\* the image's.
LEMMA InodeInMemory ==
    ASSUME InodesInMemory, NEW ino \in {0} \cup Inos
    PROVE  /\ is_directory(g_inode_table[ino]) <=> ino \in Dirs
           /\ ino \in Dirs => g_inode_table[ino] = InodeOf(ino)
           /\ ino \notin Dirs => ~is_directory(InodeOf(ino))
  <1>1. CASE ino = 0
    <2>1. 0 \notin Dirs
      <3>1. SuperBlock.num_inodes \in Nat
        BY Layout
      <3> QED
        BY <3>1 DEF Dirs, Inos
    <2>2. InodeOf(0) = NoInode /\ ~is_directory(NoInode) /\ g_inode_table[0] = NoInode
      BY DEF InodesInMemory, InodeOf, NoInode, is_directory
    <2> QED
      BY <1>1, <2>1, <2>2
  <1>2. CASE ino \in Inos
    <2> DEFINE x == InodeOf(ino)
               y == g_inode_table[ino]
    <2>1. x \in d_inode
      BY <1>2, ImageAssumption
    <2>2. y \in Versions(ino)
      BY <1>2 DEF InodesInMemory
    <2>3. ino \in Dirs <=> is_directory(x)
      BY <1>2 DEF Dirs
    <2>4. y = x \/ (ino \in Files /\ y = [x EXCEPT !.size = 12])
      BY <2>2 DEF Versions
    <2>5. ino \in Files => ~is_directory(x)
      BY DEF Files
    <2> HIDE DEF x, y
    <2>6. [x EXCEPT !.size = 12].dir = x.dir
      BY <2>1 DEF d_inode
    <2>7. is_directory(y) <=> is_directory(x)
      BY <2>4, <2>6 DEF is_directory
    <2> QED
      BY <2>3, <2>4, <2>5, <2>7 DEF x, y
  <1> QED
    BY <1>1, <1>2

\* What namei has after some names of a path: it looks for the rest from ino.
Walked(r, b) == (r.c = b \/ Quietly(b, r.c)) /\ r.ino \in {0, None} \cup Inos

\* One name more.
LEMMA Descended ==
    ASSUME InodesInMemory, NEW b, Ready(b), NEW r, Walked(r, b), NEW name \in Seq(STRING)
    PROVE  LET s == Descend(r, name)
           IN  Walked(s, b) /\ s.ino \in Leads(r.ino, name) /\ s.ino = Taken(r.ino, name)
  <1> DEFINE s == Descend(r, name)
             f == find_entry(r.c, g_inode_table[r.ino], name)
  <1>0. Ready(r.c)
    BY ReadyStill DEF Walked
  <1>1. CASE r.ino = None
    <2>1. s.c = r.c /\ s.ino = None
      BY <1>1 DEF Descend
    <2>2. Leads(None, name) = {None} /\ Taken(None, name) = None
      BY DEF Leads, Taken
    <2> HIDE DEF s
    <2> QED
      BY <1>1, <2>1, <2>2 DEF Walked, s
  <1>2. CASE r.ino # None
    <2>1. s = Took(f, r.null) /\ s.c = f.c /\ s.ino = f.ino
      BY <1>2 DEF Descend, Took
    <2>2. r.ino \in {0} \cup Inos
      BY <1>2 DEF Walked
    <2>3. CASE r.ino \in Dirs
      <3>1. f = find_entry(r.c, InodeOf(r.ino), name)
        BY <2>2, <2>3, InodeInMemory
      <3>2. Quietly(r.c, f.c) /\ First(f.ino, InodeOf(r.ino), name, InodeOf(r.ino).size)
        BY <1>0, <2>3, <3>1, EntryFound
      <3>3. /\ f.ino \in Leads(r.ino, name) /\ f.ino \in {0, None} \cup Inos
            /\ f.ino = Taken(r.ino, name)
        BY <2>3, <3>2, FirstLeads, FirstTaken
      <3> HIDE DEF s, f
      <3>4. Quietly(b, f.c)
        BY <3>2, QuietlyTwice DEF Walked
      <3> QED
        BY <2>1, <2>3, <3>2, <3>3, <3>4 DEF Walked, s
    <2>4. CASE r.ino \notin Dirs
      <3>1. ~is_directory(g_inode_table[r.ino]) /\ ~is_directory(InodeOf(r.ino))
        BY <2>2, <2>4, InodeInMemory
      <3>2. f.c = r.c /\ f.ino = None
        BY <3>1 DEF find_entry
      <3>3. Leads(r.ino, name) = {None} /\ Taken(r.ino, name) = None
        BY <3>1 DEF Leads, Taken
      <3> HIDE DEF s, f
      <3> QED
        BY <2>1, <3>2, <3>3 DEF Walked, s
    <2> QED
      BY <2>3, <2>4
  <1> QED
    BY <1>1, <1>2

\* The loop of namei, and those of Walk and Destination.
NameiRuns(f, c, path) ==
    /\ f[0] = [c |-> c, ino |-> kRootINO, null |-> FALSE]
    /\ \A k \in 1..Len(path) : f[k] = Descend(f[k - 1], path[k])
    /\ namei(c, path) = f[Len(path)]

WalkRuns(g, path) ==
    /\ g[0] = {kRootINO}
    /\ \A k \in 1..Len(path) : g[k] = UNION {Leads(ino, path[k]) : ino \in g[k - 1]}
    /\ Walk(path) = g[Len(path)]

DestinationRuns(h, path) ==
    /\ h[0] = kRootINO
    /\ \A k \in 1..Len(path) : h[k] = Taken(h[k - 1], path[k])
    /\ Destination(path) = h[Len(path)]

\* The loop of namei runs, name by name.
LEMMA NameiRun ==
    ASSUME NEW c, NEW path, Len(path) \in Nat
    PROVE  \E f : NameiRuns(f, c, path)
  <1> DEFINE n == Len(path)
             x == [c |-> c, ino |-> kRootINO, null |-> FALSE]
             P(g) == g = [k \in 0..n |-> IF k = 0 THEN x ELSE Descend(g[k - 1], path[k])]
             f == CHOOSE g : P(g)
  <1>1. \E g : P(g)
    <2> HIDE DEF x
    <2>1. PICK g : Runs(g, "namei", path, x, n)
      BY LoopRuns
    <2>2. \A y, k : Step("namei", path, y, k) = Descend(y, path[k])
      BY DEF Step
    <2> QED
      BY <2>1, <2>2 DEF Runs
  <1>2. P(f)
    BY <1>1, Zenon
  <1>3. namei(c, path) = f[n]
    BY DEF namei
  <1> HIDE DEF f
  <1>4. f[0] = x /\ \A k \in 1..n : f[k] = Descend(f[k - 1], path[k])
    <2> HIDE DEF x
    <2> QED
      BY <1>2
  <1>5. NameiRuns(f, c, path)
    BY <1>3, <1>4 DEF NameiRuns
  <1> QED
    BY <1>5

\* So does the walk that NameiRight measures it against.
LEMMA WalkRun ==
    ASSUME NEW path, Len(path) \in Nat
    PROVE  \E g : WalkRuns(g, path)
  <1> DEFINE n == Len(path)
             x == {kRootINO}
             On(y, k) == UNION {Leads(ino, path[k]) : ino \in y}
             P(g) == g = [k \in 0..n |-> IF k = 0 THEN x ELSE On(g[k - 1], k)]
             f == CHOOSE g : P(g)
  <1>1. \E g : P(g)
    <2> HIDE DEF x
    <2>1. PICK g : Runs(g, "Walk", path, x, n)
      BY LoopRuns
    <2>2. \A y, k : Step("Walk", path, y, k) = On(y, k)
      BY DEF Step
    <2> HIDE DEF On
    <2> QED
      BY <2>1, <2>2 DEF Runs
  <1>2. P(f)
    <2> HIDE DEF On
    <2> QED
      BY <1>1, Zenon
  <1>3. Walk(path) = f[n]
    BY DEF Walk
  <1> HIDE DEF f
  <1>4. f[0] = x /\ \A k \in 1..n : f[k] = On(f[k - 1], k)
    <2> HIDE DEF x, On
    <2> QED
      BY <1>2
  <1>5. WalkRuns(f, path)
    BY <1>3, <1>4 DEF WalkRuns
  <1> QED
    BY <1>5

\* And the one that the assumption about the paths of test_fs speaks of.
LEMMA DestinationRun ==
    ASSUME NEW path, Len(path) \in Nat
    PROVE  \E h : DestinationRuns(h, path)
  <1> DEFINE n == Len(path)
             P(g) == g = [k \in 0..n |-> IF k = 0 THEN kRootINO ELSE Taken(g[k - 1], path[k])]
             f == CHOOSE g : P(g)
  <1>1. \E g : P(g)
    <2>1. PICK g : Runs(g, "Destination", path, kRootINO, n)
      BY LoopRuns
    <2>2. \A y, k : Step("Destination", path, y, k) = Taken(y, path[k])
      BY DEF Step
    <2> QED
      BY <2>1, <2>2 DEF Runs
  <1>2. P(f)
    BY <1>1, Zenon
  <1>3. Destination(path) = f[n]
    BY DEF Destination
  <1> HIDE DEF f
  <1>4. f[0] = kRootINO /\ \A k \in 1..n : f[k] = Taken(f[k - 1], path[k])
    BY <1>2
  <1>5. DestinationRuns(f, path)
    BY <1>3, <1>4 DEF DestinationRuns
  <1> QED
    BY <1>5

\* namei reads directories only, and returns an inode that the path leads to;
\* for the paths of test_fs, a file.
LEMMA PathFound ==
    ASSUME InodesInMemory, NEW b, Ready(b), NEW path \in Paths \cup EditPaths
    PROVE  LET r == namei(b, path)
           IN  /\ Walked(r, b) /\ r.ino \in Walk(path)
               /\ path \in EditPaths => r.ino \in Files \cup {None}
  <1> DEFINE n == Len(path)
             r == namei(b, path)
  <1>1. n \in Nat \ {0} /\ path \in Seq(Seq(STRING)) /\ path # <<>>
    BY ImageAssumption
  <1>2. \A k \in 1..n : path[k] \in Seq(STRING)
    BY <1>1
  <1>3. PICK f : NameiRuns(f, b, path)
    BY <1>1, NameiRun
  <1>4. PICK g : WalkRuns(g, path)
    BY <1>1, WalkRun
  <1>5. /\ f[0] = [c |-> b, ino |-> kRootINO, null |-> FALSE]
        /\ \A k \in 1..n : f[k] = Descend(f[k - 1], path[k])
        /\ r = f[n]
    BY <1>3 DEF NameiRuns
  <1>6. /\ kRootINO \in g[0]
        /\ \A k \in 1..n : \A ino \in g[k - 1] : Leads(ino, path[k]) \subseteq g[k]
        /\ Walk(path) = g[n]
    BY <1>4 DEF WalkRuns
  <1>7. PICK h : DestinationRuns(h, path)
    BY <1>1, DestinationRun
  <1>8. /\ h[0] = kRootINO /\ Destination(path) = h[n]
        /\ \A k \in 1..n : h[k] = Taken(h[k - 1], path[k])
    BY <1>7 DEF DestinationRuns
  <1> HIDE DEF n, r
  <1> DEFINE Right(k) == Walked(f[k], b) /\ f[k].ino \in g[k] /\ f[k].ino = h[k]
             S == {k \in Nat : k <= n => Right(k)}
  <1>9. 0 \in S
    <2>1. kRootINO \in Inos
      BY ImageAssumption DEF Dirs
    <2>2. f[0].c = b /\ f[0].ino = kRootINO
      BY <1>5
    <2> QED
      BY <1>6, <1>8, <2>1, <2>2 DEF Walked
  <1>10. ASSUME NEW k \in Nat, k \in S PROVE k + 1 \in S
    <2> SUFFICES ASSUME k + 1 <= n PROVE Right(k + 1)
      OBVIOUS
    <2>1. k + 1 \in 1..n /\ (k + 1) - 1 = k /\ k <= n
      BY <1>1
    <2>2. Walked(f[k], b) /\ f[k].ino \in g[k] /\ f[k].ino = h[k]
      BY <1>10, <2>1
    <2> DEFINE name == path[k + 1]
    <2>3. /\ f[k + 1] = Descend(f[k], name) /\ name \in Seq(STRING)
          /\ Leads(f[k].ino, name) \subseteq g[k + 1] /\ h[k + 1] = Taken(h[k], name)
      BY <1>2, <1>5, <1>6, <1>8, <2>1, <2>2
    <2> HIDE DEF name
    <2>4. /\ Walked(f[k + 1], b) /\ f[k + 1].ino \in Leads(f[k].ino, name)
          /\ f[k + 1].ino = Taken(f[k].ino, name)
      BY <2>2, <2>3, Descended
    <2> QED
      BY <2>2, <2>3, <2>4
  <1>11. Right(n)
    <2>1. n \in S
      <3> HIDE DEF S
      <3> QED
        BY <1>1, <1>9, <1>10, NatClosed
    <2> QED
      BY <1>1, <2>1
  <1>12. Walked(r, b) /\ r.ino \in Walk(path)
    BY <1>5, <1>6, <1>11
  <1>13. ASSUME path \in EditPaths PROVE r.ino \in Files \cup {None}
    <2>1. r.ino = Destination(path)
      BY <1>5, <1>11, <1>8
    <2> QED
      BY <1>13, <2>1, ImageAssumption
  <1> QED
    BY <1>12, <1>13 DEF r

--------------------------------------------------------------------------------
(* Writing.                                                                  *)

\* Where item i of a table of n items is.
LEMMA InTableAt ==
    ASSUME NEW n \in Nat, NEW i \in 0..(n - 1)
    PROVE  /\ i \in Nat /\ i \div kPerBlock \in 0..(BlocksFor(n) - 1) /\ i % kPerBlock \in Items
           /\ i = (i \div kPerBlock) * kPerBlock + (i % kPerBlock) /\ BlocksFor(n) \in Nat \ {0}
  <1>1. kPerBlock \in Nat \ {0}
    BY Layout
  <1>2. i \in Nat
    OBVIOUS
  <1>3. i \div kPerBlock \in 0..(BlocksFor(n) - 1) /\ BlocksFor(n) \in Nat \ {0}
    BY <1>1, BlocksForRight
  <1>4. /\ i \div kPerBlock \in Nat /\ i % kPerBlock \in 0..(kPerBlock - 1)
        /\ i = kPerBlock * (i \div kPerBlock) + (i % kPerBlock)
    BY <1>1, <1>2, DivMod
  <1>5. kPerBlock * (i \div kPerBlock) = (i \div kPerBlock) * kPerBlock
    <2> DEFINE q == i \div kPerBlock
    <2>1. q \in Nat
      BY <1>4
    <2> HIDE DEF q
    <2>2. kPerBlock * q = q * kPerBlock
      BY <1>1, <2>1
    <2> QED
      BY <2>2 DEF q
  <1> QED
    BY <1>2, <1>3, <1>4, <1>5 DEF Items

\* What is in a block.
LEMMA Kinds ==
    /\ Data = [Items -> Contents] /\ Edited \in Contents /\ SuperBlock \in Contents
    /\ \A b \in Blocks : \A i \in Items : Image[b][i] \in Contents
    /\ \A ino \in Inos : Versions(ino) \subseteq Contents
  <1>1. Data = [Items -> Contents] /\ Edited \in Contents
    BY FsAssumption DEF BlockData, Contents
  <1>2. ASSUME NEW b \in Blocks, NEW i \in Items PROVE Image[b][i] \in Contents
    BY DEF Contents
  <1>3. SuperBlock \in Contents
    <2>1. kSuperBlockBNO \in Blocks /\ 0 \in Items
      <3>1. data_start(SuperBlock) \in Nat /\ 1 <= data_start(SuperBlock) - 1
        <4>1. BlocksFor(imap_count) \in Nat /\ BlocksFor(zmap_count) \in Nat /\ BlocksFor(SuperBlock.num_inodes) \in Nat
          BY Layout, BlocksForRight
        <4> QED
          BY Layout, <4>1
      <3> QED
        BY <3>1, Layout
    <2> QED
      BY <1>2, <2>1 DEF SuperBlock
  <1>4. ASSUME NEW ino \in Inos PROVE Versions(ino) \subseteq Contents
    <2> DEFINE n == SuperBlock.num_inodes
               s == inode_start(SuperBlock)
               i == ino - 1
    <2>1. n \in Nat /\ s \in Nat
      BY Layout
    <2>2. i \in 0..(n - 1) /\ ino # 0
      BY <2>1 DEF Inos
    <2>3. i \div kPerBlock \in 0..(BlocksFor(n) - 1) /\ i % kPerBlock \in Items
          /\ BlocksFor(n) \in Nat
      BY <2>1, <2>2, InTableAt
    <2>4. s + i \div kPerBlock \in Blocks
      <3>1. s + BlocksFor(n) = data_start(SuperBlock) /\ s >= 1
        <4>1. BlocksFor(imap_count) \in Nat /\ BlocksFor(zmap_count) \in Nat
          BY Layout, BlocksForRight
        <4> QED
          BY Layout, <4>1
      <3> HIDE DEF n, s, i
      <3>2. s + i \div kPerBlock \in 1..(data_start(SuperBlock) - 1)
        BY <2>1, <2>3, <3>1
      <3> QED
        BY <3>2, Layout
    <2>5. InodeOf(ino) = Image[s + i \div kPerBlock][i % kPerBlock]
      BY <2>2 DEF InodeOf, At
    <2>6. InodeOf(ino) \in Contents
      BY <1>2, <2>3, <2>4, <2>5
    <2>7. [InodeOf(ino) EXCEPT !.size = 12] \in Contents
      BY DEF Contents
    <2> QED
      BY <2>6, <2>7 DEF Versions
  <1> QED
    BY <1>1, <1>2, <1>3, <1>4

\* d is c after block b was overwritten by v.
Wrote(c, d, b, v) == Clean(d) /\ d.cb = c.cb /\ d.disk = [c.disk EXCEPT ![b] = v]

\* Block j of table t goes to the disk, and nothing else changes there.
Copied(c, d, t, j) ==
    \E v \in Data : /\ Wrote(c, d, t.start + j, v)
                    /\ \A i \in Items : j * kPerBlock + i < Len(t.items)
                                        => v[i] = t.items[j * kPerBlock + i + 1]

\* One block of write_blocks changes that block of the disk and no other, and
\* its items are those of the table.
LEMMA TableWritten ==
    ASSUME NEW c, Clean(c), c.cb = TRUE, NEW t, NEW j \in Nat, t.start + j \in Blocks,
           Len(t.items) \in Nat, \A i \in 1..Len(t.items) : t.items[i] \in Contents
    PROVE  Copied(c, write_blocks(c, t, j), t, j)
  <1> DEFINE b == t.start + j
             g == get_block(c, b)
             n == j * kPerBlock
             v == [i \in Items |-> IF n + i < Len(t.items) THEN t.items[n + i + 1]
                                   ELSE Buffer(g, b)[i]]
             d == write_block(SetBuffer(g, b, v), b)
             X == IF Hit(c, b) THEN {} ELSE {b}
  <1>1. write_blocks(c, t, j) = d
    BY DEF write_blocks, Copy
  <1>2. Sound(c) /\ c.fault = NoFault /\ c.failed = {} /\ c.disk \in Disks
    BY Parts DEF Clean, Sound
  <1>3. Kept(c, g, X) /\ Hit(g, b)
    BY <1>2, BlockGot
  <1> HIDE DEF g
  <1>4. Sound(g) /\ g.cb = c.cb /\ g \in Caches
    BY <1>3 DEF Kept, Sound
  <1>5. g.fault = NoFault /\ g.failed = {}
    BY <1>2, <1>3, NoneFailed
  <1>6. \A a \in Blocks \ {b} : Held(g, a) = c.disk[a] /\ g.disk[a] = c.disk[a]
    BY <1>2, <1>3, <1>5 DEF Kept, Clean
  <1>7. v \in Data
    <2>1. Buffer(g, b) \in Data
      <3>1. g.table[Find(g, b)] \in Nodes /\ g.val \in Values
        BY <1>3, <1>4, Present, Parts
      <3> QED
        BY <3>1 DEF Buffer, Values
    <2>2. Buffer(g, b) \in [Items -> Contents]
      BY <2>1, Kinds
    <2>3. n \in Nat /\ Items \subseteq Nat
      BY Layout DEF Items
    <2> HIDE DEF n
    <2>4. ASSUME NEW i \in Items, n + i < Len(t.items) PROVE t.items[n + i + 1] \in Contents
      <3>1. n + i + 1 \in 1..Len(t.items)
        BY <2>3, <2>4
      <3> QED
        BY <3>1
    <2>5. v \in [Items -> Contents]
      BY <2>2, <2>4
    <2> QED
      BY <2>5, Kinds
  <1>8. \A i \in Items : n + i < Len(t.items) => v[i] = t.items[n + i + 1]
    OBVIOUS
  <1> HIDE DEF v
  <1>9. Clean(d) /\ d.disk = [c.disk EXCEPT ![b] = v] /\ d.cb = g.cb
    BY <1>2, <1>3, <1>4, <1>5, <1>6, <1>7, Rewritten
  <1>10. Wrote(c, d, b, v)
    BY <1>4, <1>9 DEF Wrote
  <1> QED
    BY <1>1, <1>7, <1>8, <1>10 DEF Copied

\* test_fs: the first item of the block is overwritten, and nothing else.
LEMMA EditWritten ==
    ASSUME NEW c, Clean(c), c.cb = TRUE, NEW inode, NEW b \in Blocks, b = inode.zone[0]
    PROVE  LET z == read_zone(c, inode, 0)
               d == write_block(SetBuffer(z, b, [Buffer(z, b) EXCEPT ![0] = Edited]), b)
           IN  Wrote(c, d, b, [c.disk[b] EXCEPT ![0] = Edited])
  <1> DEFINE z == read_zone(c, inode, 0)
             v == [c.disk[b] EXCEPT ![0] = Edited]
             d == write_block(SetBuffer(z, b, [Buffer(z, b) EXCEPT ![0] = Edited]), b)
  <1>1. z = read_block(c, b)
    BY Layout DEF read_zone
  <1>2. Quietly(c, z) /\ Hit(z, b)
    BY <1>1, CleanRead
  <1> HIDE DEF z
  <1>3. /\ Sound(z) /\ z.fault = NoFault /\ z.failed = {} /\ z.disk = c.disk /\ z.cb = c.cb
        /\ \A a \in Blocks : Held(z, a) = c.disk[a]
    BY <1>2 DEF Quietly, Clean
  <1>4. Buffer(z, b) = c.disk[b]
    BY <1>2, <1>3 DEF Held
  <1>5. c.disk \in Disks
    BY Parts DEF Clean, Sound
  <1>6. v \in Data
    <2>1. c.disk[b] \in [Items -> Contents]
      BY <1>5, Kinds DEF Disks
    <2>2. v \in [Items -> Contents]
      BY <2>1, Kinds
    <2> QED
      BY <2>2, Kinds
  <1>7. d = write_block(SetBuffer(z, b, v), b)
    BY <1>4
  <1> HIDE DEF d, v
  <1>8. Clean(d) /\ d.disk = [c.disk EXCEPT ![b] = v] /\ d.cb = z.cb
    BY <1>2, <1>3, <1>5, <1>6, <1>7, Rewritten
  <1>9. Wrote(c, d, b, v)
    BY <1>3, <1>8 DEF Wrote
  <1> QED
    BY <1>9 DEF d, v, z

--------------------------------------------------------------------------------
(* The steps.                                                                *)

\* A step that ends in a clean state leaves a clean cache behind.
LEMMA Settled ==
    ASSUME NEW d, Clean(d), Quiet(d)
    PROVE  Clean(Resting)' /\ disk' = d.disk /\ cache'.cb = d.cb
  <1> DEFINE e == Begin(End(d), d.disk, NoFault)
  <1>1. Sound(d) /\ \A b \in Blocks : Held(d, b) = d.disk[b]
    BY DEF Clean
  <1>2. Sound(e) /\ e.disk = d.disk /\ \A b : Held(e, b) = Held(d, b)
    BY <1>1, Ended
  <1>3. e.fault = NoFault /\ e.failed = {}
    BY DEF Begin
  <1>4. Clean(e)
    <2> HIDE DEF e
    <2> QED
      BY <1>1, <1>2, <1>3 DEF Clean
  <1>5. Resting' = e /\ disk' = d.disk /\ cache' = End(d)
    BY DEF Quiet, Resting
  <1>6. cache'.cb = d.cb
    BY <1>5 DEF End
  <1> QED
    BY <1>4, <1>5, <1>6

\* In a state of the running system.
LEMMA Running ==
    ASSUME Inv, pc # "off"
    PROVE  /\ Ready(Resting) /\ InodesInMemory /\ Resting.disk = disk /\ Clean(Resting)
           /\ Resting.cb = TRUE /\ disk \in Disks
  <1>1. Clean(Resting) /\ cache.cb = TRUE
    BY DEF Inv, CacheInv
  <1>2. Resting.disk = disk /\ Resting.cb = cache.cb
    BY DEF Resting, Begin
  <1>3. InodesInMemory
    BY DEF Inv, TableInv, InodesInMemory
  <1>4. DirBlocks \subseteq DataBlocks
    BY ImageAssumption DEF DirBlocks
  <1>5. \A b \in DirBlocks : disk[b] = Image[b]
    BY <1>4 DEF Inv, DiskInv
  <1>6. Resting.disk \in Disks
    BY <1>1, Parts DEF Clean, Sound
  <1> HIDE DEF Resting
  <1> QED
    BY <1>1, <1>2, <1>3, <1>5, <1>6 DEF Ready

\* Nothing but the cache and what the callers keep has changed.
LEMMA Calm ==
    ASSUME Inv, UNCHANGED <<disk, block, tables, was, text>>,
           pc \in {"ready", "list", "wild"}, pc' \in {"ready", "list", "wild"},
           Clean(Resting)', cache'.cb = TRUE, FrameInv', FoundInv'
    PROVE  Inv'
  <1>1. pc # "off" /\ pc \notin DOMAIN After /\ pc \notin {"inodes", "off"}
        /\ pc' # "off" /\ pc' \notin DOMAIN After /\ pc' \notin {"inodes", "off"}
    BY DEF After
  <1>2. /\ g_super_block' = g_super_block /\ g_imap' = g_imap /\ g_zmap' = g_zmap
        /\ g_inode_table' = g_inode_table /\ disk' = disk /\ was' = was /\ text' = text
        /\ block' = block
    BY DEF tables
  <1>3. CacheInv'
    BY <1>1 DEF CacheInv
  <1>4. TableInv'
    BY <1>1, <1>2 DEF Inv, TableInv
  <1>5. \A ino : DiskInode(ino)' = DiskInode(ino)
    BY <1>2 DEF DiskInode
  <1>6. DiskInv'
    BY <1>2, <1>5 DEF Inv, DiskInv
  <1>7. SyncInv'
    BY <1>1, <1>2, <1>5 DEF Inv, SyncInv
  <1> QED
    BY <1>3, <1>4, <1>6, <1>7 DEF Inv

\* A caller has read blocks, or none.
LEMMA Reading ==
    ASSUME Inv, pc # "off", NEW d, d = Resting \/ Quietly(Resting, d), Quiet(d)
    PROVE  Clean(Resting)' /\ disk' = disk /\ cache'.cb = TRUE
  <1>1. Clean(Resting) /\ Resting.cb = TRUE /\ Resting.disk = disk
    BY Running
  <1> HIDE DEF Resting
  <1>2. Clean(d) /\ d.cb = TRUE /\ d.disk = disk
    BY <1>1 DEF Quietly
  <1> QED
    BY <1>2, Settled

\* The root.
LEMMA Root ==
    ASSUME InodesInMemory
    PROVE  kRootINO \in Dirs /\ g_inode_table[kRootINO] = InodeOf(kRootINO)
  <1>1. kRootINO \in Dirs /\ kRootINO \in Inos
    BY ImageAssumption DEF Dirs
  <1> QED
    BY <1>1, InodeInMemory

\* list_entries reads the first zone of the root directory.
LEMMA ListEntriesStep ==
    ASSUME Inv, ListEntries
    PROVE  Inv'
  <1> DEFINE c == read_zone(Resting, g_inode_table[kRootINO], 0)
  <1>1. /\ pc = "ready" /\ pc' = "list" /\ found' = NoPath
        /\ Quiet(c) /\ stack' = <<Frame(c, kRootINO)>>
        /\ UNCHANGED <<block, tables, was, text>>
    BY DEF ListEntries, Called, Resting
  <1>2. Ready(Resting) /\ InodesInMemory
    BY <1>1, Running
  <1>3. 0 \in Zones(InodeOf(kRootINO)) /\ kRootINO \in Dirs
        /\ g_inode_table[kRootINO] = InodeOf(kRootINO)
    BY <1>2, Root, ZoneNumbers
  <1>4. Quietly(Resting, c) /\ c.ret \in Nodes
    BY <1>2, <1>3, ZoneRead
  <1> HIDE DEF c
  <1>5. Clean(Resting)' /\ disk' = disk /\ cache'.cb = TRUE
    BY <1>1, <1>4, Reading
  <1>6. FrameInv'
    <2>1. Frame(c, kRootINO) \in [dir : Dirs, i : Nat, node : Nodes]
      BY <1>3, <1>4 DEF Frame
    <2> QED
      BY <1>1, <2>1 DEF FrameInv
  <1>7. FoundInv'
    BY <1>1 DEF FoundInv, NoPath
  <1> QED
    BY <1>1, <1>5, <1>6, <1>7, Calm

\* traverse_dir returns to the traversal that called list_entries.
LEMMA ListEndStep ==
    ASSUME Inv, ListEnd
    PROVE  Inv'
  <1>1. /\ pc = "list" /\ pc' = pc /\ stack # <<>> /\ stack' = Front(stack) /\ found' = found
        /\ UNCHANGED <<disk, block, tables, was, text>> /\ cache' = cache
    BY DEF ListEnd
  <1>2. Clean(Resting)' /\ cache'.cb = TRUE
    <2>1. Clean(Resting) /\ cache.cb = TRUE
      BY <1>1 DEF Inv, CacheInv
    <2>2. Resting' = Resting
      BY <1>1 DEF Resting
    <2> QED
      BY <1>1, <2>1, <2>2
  <1>3. FrameInv'
    <2> DEFINE F == [dir : Dirs, i : Nat, node : Nodes]
    <2>1. stack \in Seq(F)
      BY DEF Inv, FrameInv
    <2> HIDE DEF F
    <2>2. Front(stack) \in Seq(F)
      BY <1>1, <2>1 DEF Front
    <2> QED
      BY <1>1, <2>2 DEF FrameInv, F
  <1>4. FoundInv'
    BY <1>1 DEF Inv, FoundInv
  <1> QED
    BY <1>1, <1>2, <1>3, <1>4, Calm

\* The listing ends.
LEMMA ListReturnStep ==
    ASSUME Inv, ListReturn
    PROVE  Inv'
  <1>1. /\ pc = "list" /\ pc' = "ready" /\ stack' = stack /\ found' = found
        /\ UNCHANGED <<disk, block, tables, was, text>> /\ cache' = cache
    BY DEF ListReturn
  <1>2. Clean(Resting)' /\ cache'.cb = TRUE
    <2>1. Clean(Resting) /\ cache.cb = TRUE
      BY <1>1 DEF Inv, CacheInv
    <2>2. Resting' = Resting
      BY <1>1 DEF Resting
    <2> QED
      BY <1>1, <2>1, <2>2
  <1>3. FrameInv'
    BY <1>1 DEF Inv, FrameInv
  <1>4. FoundInv'
    BY <1>1 DEF Inv, FoundInv
  <1> QED
    BY <1>1, <1>2, <1>3, <1>4, Calm

\* A lookup changes nothing but the cache, and finds what the path names.
LEMMA NameiStep ==
    ASSUME Inv, NEW path \in Paths, Namei(path)
    PROVE  Inv'
  <1> DEFINE r == namei(Resting, path)
  <1>1. /\ pc = "ready" /\ pc' \in Outcomes(r) /\ Quiet(r.c) /\ stack' = stack
        /\ found' = [path |-> path, ino |-> r.ino]
        /\ UNCHANGED <<block, tables, was, text>>
    BY DEF Namei, Called, Resting
  <1>2. Ready(Resting) /\ InodesInMemory
    BY <1>1, Running
  <1>3. Walked(r, Resting) /\ r.ino \in Walk(path)
    BY <1>2, PathFound
  <1> HIDE DEF r
  <1>4. Clean(Resting)' /\ disk' = disk /\ cache'.cb = TRUE
    BY <1>1, <1>3, Reading DEF Walked
  <1>5. FrameInv'
    BY <1>1 DEF Inv, FrameInv
  <1>6. pc' \in {"ready", "wild"}
    BY <1>1 DEF Outcomes
  <1>7. FoundInv'
    BY <1>1, <1>3, <1>6 DEF FoundInv, Walked
  <1> QED
    BY <1>1, <1>4, <1>5, <1>6, <1>7, Calm

\* One turn of traverse_dir under list_entries: whatever is behind the pointer
\* into the buffer, what it prints and descends into is an inode in the table.
LEMMA TraverseDirStep ==
    ASSUME Inv, TraverseDir
    PROVE  Inv'
  <1> DEFINE F == [dir : Dirs, i : Nat, node : Nodes]
             f == Last(stack)
             z == NextZone(Resting, f.node, g_inode_table[f.dir], f.i)
             g == [f EXCEPT !.i = @ + 1, !.node = z.node]
             frames == Append(Front(stack), g)
             entry == Item(z.c, z.node, f.i % kPerBlock)
             node == g_inode_table[entry.inode]
             d == read_zone(z.c, node, 0)
  <1>1. /\ pc = "list" /\ stack # <<>> /\ f.i < g_inode_table[f.dir].size /\ found' = found
        /\ UNCHANGED <<block, tables, was, text>>
    BY DEF TraverseDir
  <1>2. \/ pc' = "wild" /\ Quiet(z.c) /\ stack' = stack
        \/ pc' = pc /\ Quiet(z.c) /\ stack' = frames
        \/ /\ pc' = pc /\ "name" \in DOMAIN entry /\ is_directory(node) /\ Quiet(d)
           /\ stack' = Append(frames, Frame(d, entry.inode))
    BY DEF TraverseDir, Resting
  <1>3. Ready(Resting) /\ InodesInMemory /\ Clean(Resting)
    BY <1>1, Running
  <1>4. stack \in Seq(F) /\ Len(stack) \in Nat \ {0}
    BY <1>1 DEF Inv, FrameInv
  <1>5. f \in F /\ Front(stack) \in Seq(F)
    <2> HIDE DEF F
    <2> QED
      BY <1>4 DEF Last, Front
  <1> HIDE DEF f
  <1>6. f.dir \in Dirs /\ f.i \in Nat /\ f.node \in Nodes
    BY <1>5
  <1>7. g_inode_table[f.dir] = InodeOf(f.dir)
    BY <1>3, <1>6, InodeInMemory DEF Dirs
  <1>8. (z.c = Resting \/ Quietly(Resting, z.c)) /\ z.node \in Nodes
    <2> DEFINE q == f.i \div kPerBlock
    <2>1. q \in Zones(InodeOf(f.dir))
      <3>1. f.i \in 0..(InodeOf(f.dir).size - 1)
        <4>1. InodeOf(f.dir).size \in Nat
          BY <1>6, ZoneNumbers
        <4> QED
          BY <1>1, <1>6, <1>7, <4>1
      <3> QED
        BY <1>6, <3>1, ZoneNumbers
    <2> DEFINE e == read_zone(Resting, InodeOf(f.dir), q)
    <2>2. Quietly(Resting, e) /\ e.ret \in Nodes
      BY <1>3, <1>6, <2>1, ZoneRead
    <2> HIDE DEF e
    <2>3. (z.c = Resting /\ z.node = f.node) \/ (z.c = e /\ z.node = e.ret)
      BY <1>7 DEF NextZone, Zone, e
    <2> QED
      BY <1>6, <2>2, <2>3
  <1> HIDE DEF z
  <1>9. Clean(z.c) /\ Ready(z.c)
    <2>1. Ready(z.c)
      BY <1>3, <1>8, ReadyStill
    <2> QED
      BY <2>1 DEF Ready
  <1>10. "name" \in DOMAIN entry => entry.inode \in {0} \cup Inos
    <2>1. z.c.val \in Values
      BY <1>9, Parts DEF Clean, Sound
    <2>2. z.c.val[z.node] \in [Items -> Contents]
      BY <1>8, <2>1, Kinds DEF Values
    <2>3. f.i % kPerBlock \in Items
      BY <1>6, Layout, DivMod DEF Items
    <2>4. entry \in Contents
      BY <2>2, <2>3 DEF Item
    <2> HIDE DEF entry
    <2>5. "name" \in DOMAIN entry => entry \in dir_entry
      BY <2>4, ImageAssumption
    <2>6. SuperBlock.num_inodes \in Nat
      BY Layout
    <2> QED
      BY <2>5, <2>6 DEF dir_entry, Inos
  <1> HIDE DEF entry
  <1>11. g \in F /\ frames \in Seq(F)
    <2>1. g \in F
      <3> DEFINE y == z.node
                 k == f.i + 1
      <3>1. y \in Nodes /\ k \in Nat
        BY <1>6, <1>8
      <3>2. g = [f EXCEPT !.i = k, !.node = y]
        OBVIOUS
      <3> HIDE DEF y, k
      <3> QED
        BY <1>5, <3>1, <3>2
    <2> HIDE DEF g, F
    <2> QED
      BY <1>5, <2>1
  <1> HIDE DEF g, frames
  <1>12. Clean(Resting)' /\ disk' = disk /\ cache'.cb = TRUE /\ stack' \in Seq(F)
         /\ pc' \in {"list", "wild"}
    <2>1. CASE Quiet(z.c) /\ (stack' = stack \/ stack' = frames) /\ pc' \in {pc, "wild"}
      <3>1. Clean(Resting)' /\ disk' = disk /\ cache'.cb = TRUE
        BY <1>1, <1>8, <2>1, Reading
      <3> HIDE DEF F
      <3> QED
        BY <1>1, <1>4, <1>11, <2>1, <3>1
    <2>2. CASE /\ pc' = pc /\ "name" \in DOMAIN entry /\ is_directory(node) /\ Quiet(d)
               /\ stack' = Append(frames, Frame(d, entry.inode))
      <3>1. entry.inode \in Dirs /\ node = InodeOf(entry.inode)
        BY <1>3, <1>10, <2>2, InodeInMemory
      <3>2. Quietly(z.c, d) /\ d.ret \in Nodes
        BY <1>9, <3>1, ZoneNumbers, ZoneRead
      <3> HIDE DEF d
      <3>3. Quietly(Resting, d)
        BY <1>8, <3>2, QuietlyTwice
      <3>4. Clean(Resting)' /\ disk' = disk /\ cache'.cb = TRUE
        BY <1>1, <2>2, <3>3, Reading
      <3>5. Frame(d, entry.inode) \in F
        BY <3>1, <3>2 DEF Frame
      <3>6. Append(frames, Frame(d, entry.inode)) \in Seq(F)
        <4> DEFINE h == Frame(d, entry.inode)
        <4>1. h \in F
          BY <3>5
        <4> HIDE DEF h, F
        <4> QED
          BY <1>11, <4>1 DEF h
      <3> QED
        BY <1>1, <2>2, <3>4, <3>6
    <2> QED
      BY <1>2, <2>1, <2>2
  <1>13. FrameInv'
    BY <1>12 DEF FrameInv
  <1>14. FoundInv'
    BY <1>1, <1>12 DEF Inv, FoundInv
  <1> QED
    BY <1>1, <1>12, <1>13, <1>14, Calm

\* The tables lie before the data.
LEMMA TableBlocks ==
    /\ \A i \in 0..(imap_count - 1) : imap_start + i \div kPerBlock \in 2..(zmap_start(SuperBlock) - 1)
    /\ \A i \in 0..(zmap_count - 1) :
           zmap_start(SuperBlock) + i \div kPerBlock
               \in zmap_start(SuperBlock)..(inode_start(SuperBlock) - 1)
    /\ \A ino \in Inos :
           /\ ino - 1 \in 0..(SuperBlock.num_inodes - 1)
           /\ inode_start(SuperBlock) + (ino - 1) \div kPerBlock
               \in inode_start(SuperBlock)..(data_start(SuperBlock) - 1)
    /\ 2 < zmap_start(SuperBlock) /\ zmap_start(SuperBlock) < inode_start(SuperBlock)
    /\ inode_start(SuperBlock) < data_start(SuperBlock)
  <1> DEFINE im == imap_count
             zm == zmap_count
             n == SuperBlock.num_inodes
             zs == zmap_start(SuperBlock)
             is == inode_start(SuperBlock)
             ds == data_start(SuperBlock)
  <1>1. /\ im \in Nat /\ zm \in Nat /\ n \in Nat \ {0} /\ zs \in Nat /\ is \in Nat /\ ds \in Nat
        /\ 2 + BlocksFor(im) <= zs /\ zs + BlocksFor(zm) <= is /\ is + BlocksFor(n) = ds
        /\ imap_start = 2
    BY Layout
  <1>2. /\ BlocksFor(im) \in Nat \ {0} /\ BlocksFor(zm) \in Nat \ {0} /\ BlocksFor(n) \in Nat \ {0}
    BY <1>1, Layout, BlocksForRight
  <1>3. ASSUME NEW i \in 0..(im - 1) PROVE i \div kPerBlock \in 0..(BlocksFor(im) - 1)
    BY <1>1, InTableAt
  <1>4. ASSUME NEW i \in 0..(zm - 1) PROVE i \div kPerBlock \in 0..(BlocksFor(zm) - 1)
    BY <1>1, InTableAt
  <1>5. ASSUME NEW ino \in Inos
        PROVE  ino - 1 \in 0..(n - 1) /\ (ino - 1) \div kPerBlock \in 0..(BlocksFor(n) - 1)
    <2>1. ino - 1 \in 0..(n - 1)
      BY <1>1 DEF Inos
    <2> QED
      BY <1>1, <2>1, InTableAt
  <1> HIDE DEF im, zm, n, zs, is, ds
  <1>6. \A i \in 0..(im - 1) : 2 + i \div kPerBlock \in 2..(zs - 1)
    <2> SUFFICES ASSUME NEW i \in 0..(im - 1) PROVE 2 + i \div kPerBlock \in 2..(zs - 1)
      OBVIOUS
    <2> DEFINE q == i \div kPerBlock
    <2>1. q \in 0..(BlocksFor(im) - 1)
      BY <1>3
    <2> HIDE DEF q
    <2>2. 2 + q \in 2..(zs - 1)
      BY <1>1, <1>2, <2>1
    <2> QED
      BY <2>2 DEF q
  <1>7. \A i \in 0..(zm - 1) : zs + i \div kPerBlock \in zs..(is - 1)
    <2> SUFFICES ASSUME NEW i \in 0..(zm - 1) PROVE zs + i \div kPerBlock \in zs..(is - 1)
      OBVIOUS
    <2> DEFINE q == i \div kPerBlock
    <2>1. q \in 0..(BlocksFor(zm) - 1)
      BY <1>4
    <2> HIDE DEF q
    <2>2. zs + q \in zs..(is - 1)
      BY <1>1, <1>2, <2>1
    <2> QED
      BY <2>2 DEF q
  <1>8. \A ino \in Inos : is + (ino - 1) \div kPerBlock \in is..(ds - 1)
    <2> SUFFICES ASSUME NEW ino \in Inos PROVE is + (ino - 1) \div kPerBlock \in is..(ds - 1)
      OBVIOUS
    <2> DEFINE q == (ino - 1) \div kPerBlock
    <2>1. q \in 0..(BlocksFor(n) - 1)
      BY <1>5
    <2> HIDE DEF q
    <2>2. is + q \in is..(ds - 1)
      BY <1>1, <1>2, <2>1
    <2> QED
      BY <2>2 DEF q
  <1>9. 2 < zs /\ zs < is /\ is < ds
    BY <1>1, <1>2
  <1> QED
    BY <1>1, <1>5, <1>6, <1>7, <1>8, <1>9 DEF im, zm, n, zs, is, ds

\* A step that changes only data on the disk.
LEMMA TablesSame ==
    ASSUME Inv, g_super_block' = g_super_block,
           \A a \in 1..(data_start(SuperBlock) - 1) : disk'[a] = disk[a]
    PROVE  /\ disk'[kSuperBlockBNO][0] = SuperBlock
           /\ \A i \in 0..(imap_count - 1) : At(disk', imap_start, i) = At(Image, imap_start, i)
           /\ \A i \in 0..(zmap_count - 1) :
                  At(disk', zmap_start(SuperBlock), i) = At(Image, zmap_start(SuperBlock), i)
           /\ \A ino \in Inos : DiskInode(ino)' = DiskInode(ino)
  <1> DEFINE zs == zmap_start(SuperBlock)
             is == inode_start(SuperBlock)
             ds == data_start(SuperBlock)
             D == 1..(ds - 1)
  <1>1. zs \in Nat /\ is \in Nat /\ ds \in Nat /\ kSuperBlockBNO = 1 /\ imap_start = 2
    BY Layout
  <1>2. 2 < zs /\ zs < is /\ is < ds
    BY TableBlocks
  <1> HIDE DEF zs, is, ds
  <1>3. 1 \in D /\ 2..(zs - 1) \subseteq D /\ zs..(is - 1) \subseteq D /\ is..(ds - 1) \subseteq D
    BY <1>1, <1>2
  <1>4. \A a \in D : disk'[a] = disk[a]
    BY DEF ds
  <1> HIDE DEF D
  <1>5. disk'[kSuperBlockBNO][0] = SuperBlock
    BY <1>1, <1>3, <1>4 DEF Inv, DiskInv
  <1>6. ASSUME NEW i \in 0..(imap_count - 1)
        PROVE  At(disk', imap_start, i) = At(Image, imap_start, i)
    <2>1. imap_start + i \div kPerBlock \in D
      BY <1>1, <1>3, TableBlocks DEF zs
    <2>2. At(disk', imap_start, i) = At(disk, imap_start, i)
      BY <1>4, <2>1 DEF At
    <2> QED
      BY <2>2 DEF Inv, DiskInv
  <1>7. ASSUME NEW i \in 0..(zmap_count - 1) PROVE At(disk', zs, i) = At(Image, zs, i)
    <2>1. zs + i \div kPerBlock \in D
      BY <1>3, TableBlocks DEF zs, is
    <2>2. At(disk', zs, i) = At(disk, zs, i)
      BY <1>4, <2>1 DEF At
    <2> QED
      BY <2>2 DEF Inv, DiskInv, zs
  <1>8. ASSUME NEW ino \in Inos PROVE DiskInode(ino)' = DiskInode(ino)
    <2>1. is + (ino - 1) \div kPerBlock \in D
      BY <1>3, TableBlocks DEF is, ds
    <2>2. At(disk', is, ino - 1) = At(disk, is, ino - 1)
      BY <1>4, <2>1 DEF At
    <2>3. g_super_block = SuperBlock /\ g_super_block' = SuperBlock
      BY DEF Inv, TableInv
    <2> QED
      BY <2>2, <2>3 DEF DiskInode, is
  <1> QED
    BY <1>5, <1>6, <1>7, <1>8 DEF zs

\* Edits change data only.
LEMMA EditStep ==
    ASSUME Inv, NEW path \in EditPaths, Edit(path)
    PROVE  Inv'
  <1> DEFINE r == namei(Resting, path)
             node == g_inode_table[r.ino]
             b == node.zone[0]
             z == read_zone(r.c, node, 0)
             d == write_block(SetBuffer(z, b, [Buffer(z, b) EXCEPT ![0] = Edited]), b)
  <1>1. /\ pc = "ready" /\ pc' \in Outcomes(r) /\ stack' = stack /\ block' = block /\ was' = was
        /\ g_super_block' = g_super_block /\ g_imap' = g_imap /\ g_zmap' = g_zmap
        /\ found' = [path |-> path, ino |-> r.ino]
    BY DEF Edit, Called, Resting
  <1>2. \/ r.ino = None /\ Quiet(r.c) /\ UNCHANGED <<g_inode_table, text>>
        \/ /\ r.ino # None /\ Quiet(d)
           /\ g_inode_table' = [g_inode_table EXCEPT ![r.ino].size = 12]
           /\ text' = [text EXCEPT ![b][0] = Edited]
    BY DEF Edit, Resting
  <1>3. Ready(Resting) /\ InodesInMemory /\ Clean(Resting) /\ Resting.cb = TRUE /\ Resting.disk = disk
        /\ disk \in Disks
    BY <1>1, Running
  <1>4. Walked(r, Resting) /\ r.ino \in Walk(path) /\ r.ino \in Files \cup {None}
    BY <1>3, PathFound
  <1> HIDE DEF r
  <1>5. FrameInv'
    BY <1>1 DEF Inv, FrameInv
  <1>6. pc' \in {"ready", "wild"}
    BY <1>1 DEF Outcomes
  <1>7. FoundInv'
    BY <1>1, <1>4, <1>6 DEF FoundInv, Walked
  <1>8. CASE r.ino = None
    <2>1. Quiet(r.c) /\ g_inode_table' = g_inode_table /\ text' = text
      BY <1>2, <1>8
    <2>2. Clean(Resting)' /\ disk' = disk /\ cache'.cb = TRUE
      BY <1>1, <1>4, <2>1, Reading DEF Walked
    <2>3. UNCHANGED <<disk, block, tables, was, text>>
      BY <1>1, <2>1, <2>2 DEF tables
    <2> QED
      BY <1>1, <1>5, <1>6, <1>7, <2>2, <2>3, Calm
  <1>9. CASE r.ino # None
    <2> DEFINE ino == r.ino
               v == [disk[b] EXCEPT ![0] = Edited]
               x == InodeOf(ino)
    <2>1. /\ Quiet(d) /\ g_inode_table' = [g_inode_table EXCEPT ![ino].size = 12]
          /\ text' = [text EXCEPT ![b][0] = Edited]
      BY <1>2, <1>9
    <2>2. ino \in Files /\ ino \in Inos /\ x \in d_inode /\ x.zone[0] \in DataBlocks \ DirBlocks
      BY <1>4, <1>9, ImageAssumption DEF Files
    <2>3. node = x \/ node = [x EXCEPT !.size = 12]
      BY <1>3, <2>2 DEF InodesInMemory, Versions
    <2> HIDE DEF node, x, ino
    <2>4. node.zone = x.zone /\ [node EXCEPT !.size = 12] = [x EXCEPT !.size = 12]
      BY <2>2, <2>3 DEF d_inode
    <2>5. b \in DataBlocks \ DirBlocks /\ b \in Blocks
      BY <2>2, <2>4 DEF DataBlocks
    <2>6. Clean(r.c) /\ r.c.cb = TRUE /\ r.c.disk = disk
      <3> HIDE DEF Resting
      <3> QED
        BY <1>3, <1>4 DEF Walked, Quietly
    <2>7. Wrote(r.c, d, b, v)
      <3> DEFINE c == r.c
      <3>1. Wrote(c, d, b, [c.disk[b] EXCEPT ![0] = Edited])
        <4>1. Clean(c) /\ c.cb = TRUE
          BY <2>6
        <4> HIDE DEF c
        <4> QED
          BY <2>5, <4>1, EditWritten DEF c
      <3> QED
        BY <2>6, <3>1
    <2> HIDE DEF d, b
    <2>8. Clean(d) /\ d.cb = TRUE /\ d.disk = [disk EXCEPT ![b] = v]
      BY <2>6, <2>7 DEF Wrote
    <2>9. Clean(Resting)' /\ disk' = [disk EXCEPT ![b] = v] /\ cache'.cb = TRUE
      BY <2>1, <2>8, Settled
    <2> HIDE DEF v
    <2>10. disk'[b] = v /\ \A a \in Blocks \ {b} : disk'[a] = disk[a]
      BY <1>3, <2>5, <2>9 DEF Disks
    <2>11. \A a \in 1..(data_start(SuperBlock) - 1) : disk'[a] = disk[a]
      <3> SUFFICES ASSUME NEW a \in 1..(data_start(SuperBlock) - 1) PROVE disk'[a] = disk[a]
        OBVIOUS
      <3>1. a \in Blocks /\ data_start(SuperBlock) \in Nat
        BY Layout
      <3>2. b >= data_start(SuperBlock) /\ b \in Nat
        BY <2>5, Constants DEF DataBlocks
      <3>3. a # b
        BY <3>1, <3>2
      <3> QED
        BY <2>10, <3>1, <3>3
    <2>12. /\ disk'[kSuperBlockBNO][0] = SuperBlock
           /\ \A i \in 0..(imap_count - 1) : At(disk', imap_start, i) = At(Image, imap_start, i)
           /\ \A i \in 0..(zmap_count - 1) :
                  At(disk', zmap_start(SuperBlock), i) = At(Image, zmap_start(SuperBlock), i)
           /\ \A i \in Inos : DiskInode(i)' = DiskInode(i)
      BY <1>1, <2>11, TablesSame
    <2>13. CacheInv'
      BY <1>6, <2>9 DEF CacheInv
    <2>14. TableInv'
      <3>1. /\ DOMAIN g_inode_table = {0} \cup Inos /\ g_inode_table[0] = NoInode
            /\ \A i \in Inos : g_inode_table[i] \in Versions(i)
        BY <1>1 DEF Inv, TableInv
      <3>2. 0 \notin Inos
        BY Layout DEF Inos
      <3>3. g_inode_table'[ino] = [node EXCEPT !.size = 12]
        BY <2>1, <2>2, <3>1 DEF node, ino
      <3>4. [x EXCEPT !.size = 12] \in Versions(ino)
        BY <2>2 DEF Versions, x
      <3>5. DOMAIN g_inode_table' = {0} \cup Inos
            /\ \A i \in ({0} \cup Inos) \ {ino} : g_inode_table'[i] = g_inode_table[i]
        BY <2>1, <3>1
      <3>6. \A i \in Inos : g_inode_table'[i] \in Versions(i)
        BY <2>4, <3>1, <3>3, <3>4, <3>5
      <3>7. g_inode_table'[0] = NoInode
        BY <2>2, <3>1, <3>2, <3>5
      <3> QED
        BY <1>1, <3>5, <3>6, <3>7 DEF Inv, TableInv
    <2>15. DiskInv'
      <3>1. /\ \A i \in Inos : DiskInode(i)' \in Versions(i)
        BY <2>12 DEF Inv, DiskInv
      <3>2. text'[b] = v /\ \A a \in Blocks \ {b} : text'[a] = text[a]
        <4>1. DOMAIN text = Blocks /\ text[b] = disk[b]
          BY <2>5 DEF Inv, DiskInv
        <4> QED
          BY <2>1, <2>5, <4>1 DEF v
      <3>3. DOMAIN text' = Blocks
        BY <2>1 DEF Inv, DiskInv
      <3>4. \A a \in DataBlocks : disk'[a] = text'[a]
        <4>1. \A a \in DataBlocks : a \in Blocks /\ disk[a] = text[a]
          BY DEF Inv, DiskInv, DataBlocks
        <4> QED
          BY <2>10, <3>2, <4>1
      <3>5. \A a \in DirBlocks : text'[a] = Image[a]
        <4>1. \A a \in DirBlocks : a \in Blocks /\ a # b
          BY <2>5, ImageAssumption DEF DirBlocks, DataBlocks
        <4> QED
          BY <3>2, <4>1 DEF Inv, DiskInv
      <3> QED
        BY <2>12, <3>1, <3>3, <3>4, <3>5 DEF DiskInv
    <2>16. SyncInv'
      <3>1. pc' \notin DOMAIN After /\ pc' # "inodes" /\ pc \notin {"inodes", "off"}
        BY <1>1, <1>6 DEF After
      <3>2. \A i \in Inos : DiskInode(i)' = was'[i]
        BY <1>1, <2>12, <3>1 DEF Inv, SyncInv
      <3> QED
        BY <1>1, <1>6, <3>1, <3>2 DEF Inv, SyncInv
    <2> QED
      BY <1>5, <1>7, <2>13, <2>14, <2>15, <2>16 DEF Inv
  <1> QED
    BY <1>8, <1>9

\* sync_all starts with nothing written.
LEMMA SyncAllStep ==
    ASSUME Inv, SyncAll
    PROVE  Inv'
  <1>1. /\ pc = "ready" /\ pc' = "super" /\ block' = 0 /\ found' = NoPath
        /\ cache' = cache /\ disk' = disk /\ g_super_block' = g_super_block /\ g_imap' = g_imap
        /\ g_zmap' = g_zmap /\ g_inode_table' = g_inode_table /\ stack' = stack
        /\ was' = was /\ text' = text
    BY DEF SyncAll, Called, tables
  <1>2. CacheInv'
    <2>1. Resting' = Resting
      BY <1>1 DEF Resting
    <2> QED
      BY <1>1, <2>1 DEF Inv, CacheInv
  <1>3. TableInv'
    BY <1>1 DEF Inv, TableInv
  <1>4. \A ino : DiskInode(ino)' = DiskInode(ino)
    BY <1>1 DEF DiskInode
  <1>5. DiskInv'
    BY <1>1, <1>4 DEF Inv, DiskInv
  <1>6. SyncInv'
    <2> DEFINE m == Len(Table(pc)'.items)
    <2>1. m = 1
      BY <1>1 DEF Table
    <2> HIDE DEF m
    <2>2. BlocksFor(1) \in Nat \ {0}
      BY Layout, BlocksForRight
    <2>3. block' < BlocksFor(m)
      BY <1>1, <2>1, <2>2
    <2>4. \A ino \in Inos : DiskInode(ino)' = was'[ino]
      BY <1>1, <1>4 DEF Inv, SyncInv
    <2> QED
      BY <1>1, <2>3, <2>4 DEF SyncInv, After, m
  <1>7. FrameInv' /\ FoundInv'
    BY <1>1 DEF Inv, FrameInv, FoundInv, NoPath
  <1> QED
    BY <1>2, <1>3, <1>5, <1>6, <1>7 DEF Inv

\* The cache when the machine starts.
LEMMA ColdCache ==
    ASSUME NEW k \in Disks
    PROVE  Clean(Begin(Empty(Garbage), k, NoFault)) /\ Empty(Garbage).made = 0
  <1> DEFINE c == Begin(Empty(Garbage), k, NoFault)
  <1>1. Garbage \in Data
    <2>1. Data = [Items -> Contents] /\ NoInode \in Contents
      BY Kinds DEF Contents
    <2> QED
      BY <2>1 DEF Garbage
  <1>2. Sound(c) /\ Empty(Garbage).made = 0 /\ \A b \in Blocks : Held(c, b) = k[b]
    BY <1>1, EmptySound
  <1>3. c.fault = NoFault /\ c.failed = {} /\ c.disk = k
    BY DEF Begin
  <1> HIDE DEF c
  <1> QED
    BY <1>2, <1>3 DEF Clean, c

\* Power fails with some blocks of the sync written and others not.
LEMMA PowerOffStep ==
    ASSUME Inv, PowerOff
    PROVE  Inv'
  <1>1. /\ pc' = "off" /\ block' = 0 /\ found' = NoPath /\ stack' = <<>>
        /\ cache' = Empty(Garbage) /\ disk' = disk /\ g_super_block' = g_super_block
        /\ g_inode_table' = g_inode_table /\ was' = was /\ text' = text /\ pc # "off"
    BY DEF PowerOff, tables
  <1>2. CacheInv'
    <2>1. disk \in Disks
      BY <1>1, Running
    <2>2. Resting' = Begin(Empty(Garbage), disk, NoFault)
      BY <1>1 DEF Resting
    <2> QED
      BY <1>1, <2>1, <2>2, ColdCache DEF CacheInv
  <1>3. TableInv'
    BY <1>1 DEF Inv, TableInv
  <1>4. \A ino : DiskInode(ino)' = DiskInode(ino)
    BY <1>1 DEF DiskInode
  <1>5. DiskInv'
    BY <1>1, <1>4 DEF Inv, DiskInv
  <1>6. SyncInv'
    BY <1>1, <1>4 DEF Inv, SyncInv, After
  <1>7. FrameInv' /\ FoundInv'
    BY <1>1 DEF FrameInv, FoundInv, NoPath
  <1> QED
    BY <1>2, <1>3, <1>5, <1>6, <1>7 DEF Inv

\* The blocks of the tables.
LEMMA TableRanges ==
    /\ \A j \in 0..(BlocksFor(imap_count) - 1) : imap_start + j \in 2..(zmap_start(SuperBlock) - 1)
    /\ \A j \in 0..(BlocksFor(zmap_count) - 1) :
           zmap_start(SuperBlock) + j \in zmap_start(SuperBlock)..(inode_start(SuperBlock) - 1)
    /\ \A j \in 0..(BlocksFor(SuperBlock.num_inodes) - 1) :
           inode_start(SuperBlock) + j \in inode_start(SuperBlock)..(data_start(SuperBlock) - 1)
    /\ 1 \in Blocks /\ 2..(zmap_start(SuperBlock) - 1) \subseteq Blocks
    /\ zmap_start(SuperBlock)..(inode_start(SuperBlock) - 1) \subseteq Blocks
    /\ inode_start(SuperBlock)..(data_start(SuperBlock) - 1) \subseteq Blocks
  <1> DEFINE im == BlocksFor(imap_count)
             zm == BlocksFor(zmap_count)
             n == BlocksFor(SuperBlock.num_inodes)
             zs == zmap_start(SuperBlock)
             is == inode_start(SuperBlock)
             ds == data_start(SuperBlock)
  <1>1. /\ zs \in Nat /\ is \in Nat /\ ds \in Nat
        /\ 2 + im <= zs /\ zs + zm <= is /\ is + n = ds /\ imap_start = 2
        /\ \A b \in 1..(ds - 1) : b \in Blocks
    BY Layout
  <1>2. im \in Nat \ {0} /\ zm \in Nat \ {0} /\ n \in Nat \ {0}
    BY Layout, BlocksForRight
  <1> HIDE DEF im, zm, n, zs, is, ds
  <1>3. /\ \A j \in 0..(im - 1) : imap_start + j \in 2..(zs - 1)
        /\ \A j \in 0..(zm - 1) : zs + j \in zs..(is - 1)
        /\ \A j \in 0..(n - 1) : is + j \in is..(ds - 1)
    BY <1>1, <1>2
  <1>4. 1 \in 1..(ds - 1) /\ 2..(zs - 1) \subseteq 1..(ds - 1) /\ zs..(is - 1) \subseteq 1..(ds - 1)
        /\ is..(ds - 1) \subseteq 1..(ds - 1)
    BY <1>1, <1>2
  <1> QED
    BY <1>1, <1>3, <1>4 DEF im, zm, n, zs, is, ds

\* init_fs sets the callback.
LEMMA CallbackSet ==
    ASSUME NEW s, Clean(s)
    PROVE  LET c == [s EXCEPT !.cb = TRUE]
           IN  Clean(c) /\ c.cb = TRUE /\ c.made = s.made /\ c.disk = s.disk
  <1> DEFINE c == [s EXCEPT !.cb = TRUE]
  <1>1. Sound(s) /\ s \in Caches
    BY DEF Clean, Sound
  <1>2. c \in Caches
    BY <1>1 DEF Caches
  <1>3. /\ c.prev = s.prev /\ c.next = s.next /\ c.queue = s.queue /\ c.table = s.table
        /\ c.key = s.key /\ c.free = s.free /\ c.made = s.made /\ c.count = s.count
        /\ c.halted = s.halted /\ c.val = s.val /\ c.disk = s.disk /\ c.fault = s.fault
        /\ c.failed = s.failed /\ c.cb = TRUE
    BY <1>1 DEF Caches
  <1> HIDE DEF c
  <1>4. Sound(c)
    BY <1>1, <1>2, <1>3, SoundSame
  <1>5. \A b : Held(c, b) = Held(s, b)
    BY <1>3, HeldSame
  <1> QED
    BY <1>3, <1>4, <1>5 DEF Clean, c

\* init_fs reads the tables that are on the disk.
LEMMA init_fsStep ==
    ASSUME Inv, init_fs
    PROVE  Inv'
  <1> DEFINE s == read_block(Resting, kSuperBlockBNO)
             c == [s EXCEPT !.cb = TRUE]
             n == SuperBlock.num_inodes
             zs == zmap_start(SuperBlock)
             is == inode_start(SuperBlock)
             inodes == read_blocks(c, is, n)
             imap == read_blocks(inodes.c, imap_start, imap_count)
             zmap == read_blocks(imap.c, zs, zmap_count)
  <1>1. /\ pc = "off" /\ pc' = "ready" /\ was' = g_inode_table' /\ block' = block
        /\ stack' = stack /\ found' = found /\ text' = text
    BY DEF init_fs
  <1>2. /\ Clean(Resting) /\ Resting.made = 0 /\ Resting.disk = disk /\ g_super_block = SuperBlock
    BY <1>1 DEF Inv, CacheInv, TableInv, Resting, Begin
  <1>3. /\ kSuperBlockBNO = 1 /\ n \in Nat /\ zs \in Nat /\ is \in Nat /\ imap_start \in Nat
        /\ imap_count \in Nat /\ zmap_count \in Nat
    BY Layout
  <1>4. /\ 1 \in Blocks /\ \A j \in 0..(BlocksFor(imap_count) - 1) : imap_start + j \in Blocks
        /\ \A j \in 0..(BlocksFor(zmap_count) - 1) : zs + j \in Blocks
        /\ \A j \in 0..(BlocksFor(n) - 1) : is + j \in Blocks
    BY TableRanges
  <1>5. Quietly(Resting, s) /\ s.val[s.ret] = disk[1]
    BY <1>2, <1>3, <1>4, CleanRead
  <1>6. Item(s, s.ret, 0) = SuperBlock
    BY <1>3, <1>5 DEF Item, Inv, DiskInv
  <1>7. /\ g_super_block' = SuperBlock
        /\ g_inode_table' = [i \in 0..n |-> IF i = 0 THEN NoInode ELSE inodes.items[i]]
        /\ g_imap' = imap.items /\ g_zmap' = zmap.items /\ Quiet(zmap.c)
    BY <1>6 DEF init_fs, Resting, imap_count, zmap_count
  <1> HIDE DEF s
  <1>8. Clean(c) /\ c.cb = TRUE /\ c.made # 0 /\ c.disk = disk
    <2>1. Clean(s) /\ s.made # 0 /\ s.disk = disk
      BY <1>2, <1>5 DEF Quietly
    <2> QED
      BY <2>1, CallbackSet
  <1> HIDE DEF c
  <1>9. Loaded(inodes, c, disk, is, n)
    BY <1>3, <1>4, <1>8, BlocksRead
  <1> HIDE DEF inodes
  <1>10. Clean(inodes.c) /\ inodes.c.cb = TRUE /\ inodes.c.made # 0 /\ inodes.c.disk = disk
    BY <1>8, <1>9 DEF Loaded, Quietly
  <1>11. Loaded(imap, inodes.c, disk, imap_start, imap_count)
    BY <1>3, <1>4, <1>10, BlocksRead
  <1> HIDE DEF imap
  <1>12. Clean(imap.c) /\ imap.c.cb = TRUE /\ imap.c.made # 0 /\ imap.c.disk = disk
    BY <1>10, <1>11 DEF Loaded, Quietly
  <1>13. Loaded(zmap, imap.c, disk, zs, zmap_count)
    BY <1>3, <1>4, <1>12, BlocksRead
  <1> HIDE DEF zmap
  <1>14. Clean(zmap.c) /\ zmap.c.cb = TRUE /\ zmap.c.disk = disk
    BY <1>12, <1>13 DEF Loaded, Quietly
  <1>15. Clean(Resting)' /\ disk' = disk /\ cache'.cb = TRUE
    BY <1>7, <1>14, Settled
  <1>16. CacheInv'
    BY <1>1, <1>15 DEF CacheInv
  <1>17. ASSUME NEW ino \in Inos
         PROVE  /\ g_inode_table'[ino] = DiskInode(ino) /\ DiskInode(ino)' = DiskInode(ino)
                /\ DiskInode(ino) \in Versions(ino)
    <2>1. ino \in 1..n /\ ino \in 0..n /\ ino # 0
      BY <1>3 DEF Inos
    <2>2. g_inode_table'[ino] = inodes.items[ino] /\ inodes.items[ino] = At(disk, is, ino - 1)
      BY <1>7, <1>9, <2>1 DEF Loaded
    <2>3. DiskInode(ino) = At(disk, is, ino - 1) /\ DiskInode(ino)' = At(disk, is, ino - 1)
      BY <1>2, <1>7, <1>15 DEF DiskInode
    <2> QED
      BY <2>2, <2>3 DEF Inv, DiskInv
  <1>18. TableInv'
    <2>1. 0..n = {0} \cup Inos
      BY <1>3 DEF Inos
    <2>2. DOMAIN g_inode_table' = {0} \cup Inos /\ g_inode_table'[0] = NoInode
      BY <1>3, <1>7, <2>1
    <2>3. g_imap' = [i \in 1..imap_count |-> At(Image, imap_start, i - 1)]
      <3>1. \A i \in 1..imap_count : At(disk, imap_start, i - 1) = At(Image, imap_start, i - 1)
        <4> SUFFICES ASSUME NEW i \in 1..imap_count
                     PROVE  At(disk, imap_start, i - 1) = At(Image, imap_start, i - 1)
          OBVIOUS
        <4>1. i - 1 \in 0..(imap_count - 1)
          BY <1>3
        <4> QED
          BY <4>1 DEF Inv, DiskInv
      <3> QED
        BY <1>7, <1>11, <3>1 DEF Loaded
    <2>4. g_zmap' = [i \in 1..zmap_count |-> At(Image, zs, i - 1)]
      <3>1. \A i \in 1..zmap_count : At(disk, zs, i - 1) = At(Image, zs, i - 1)
        <4> SUFFICES ASSUME NEW i \in 1..zmap_count
                     PROVE  At(disk, zs, i - 1) = At(Image, zs, i - 1)
          OBVIOUS
        <4>1. i - 1 \in 0..(zmap_count - 1)
          BY <1>3
        <4> QED
          BY <4>1 DEF Inv, DiskInv
      <3> QED
        BY <1>7, <1>13, <3>1 DEF Loaded
    <2>5. \A ino \in Inos : g_inode_table'[ino] \in Versions(ino)
      BY <1>17
    <2> QED
      BY <1>7, <2>2, <2>3, <2>4, <2>5 DEF TableInv
  <1>19. DiskInv'
    BY <1>1, <1>15, <1>17 DEF Inv, DiskInv
  <1>20. SyncInv'
    <2>1. pc' \notin DOMAIN After /\ pc' # "inodes"
      BY <1>1 DEF After
    <2>2. \A ino \in Inos : DiskInode(ino)' = was'[ino]
      BY <1>1, <1>17
    <2> QED
      BY <1>1, <2>1, <2>2 DEF Inv, SyncInv
  <1>21. FrameInv' /\ FoundInv'
    BY <1>1 DEF Inv, FrameInv, FoundInv
  <1> QED
    BY <1>16, <1>18, <1>19, <1>20, <1>21 DEF Inv

\* The tables as sync_all writes them.
LEMMA SyncTable ==
    ASSUME Inv, pc # "off", NEW x \in DOMAIN After
    PROVE  LET t == Table(x)
           IN  /\ Len(t.items) \in Nat /\ t.start \in Nat
               /\ \A i \in 1..Len(t.items) : t.items[i] \in Contents
               /\ x = "super" => /\ t.start = 1 /\ Len(t.items) = 1 /\ t.items[1] = SuperBlock
               /\ x = "imap" =>
                    /\ t.start = imap_start /\ Len(t.items) = imap_count
                    /\ \A i \in 0..(imap_count - 1) : t.items[i + 1] = At(Image, imap_start, i)
               /\ x = "zmap" =>
                    /\ t.start = zmap_start(SuperBlock) /\ Len(t.items) = zmap_count
                    /\ \A i \in 0..(zmap_count - 1) :
                           t.items[i + 1] = At(Image, zmap_start(SuperBlock), i)
               /\ x = "inodes" =>
                    /\ t.start = inode_start(SuperBlock) /\ Len(t.items) = SuperBlock.num_inodes
                    /\ \A ino \in Inos : t.items[ino] = g_inode_table[ino]
  <1> DEFINE t == Table(x)
             n == SuperBlock.num_inodes
             zs == zmap_start(SuperBlock)
             is == inode_start(SuperBlock)
  <1>1. /\ n \in Nat /\ zs \in Nat /\ is \in Nat /\ imap_start = 2
        /\ kSuperBlockBNO = 1 /\ imap_count \in Nat /\ zmap_count \in Nat
    BY Layout
  <1>2. /\ g_super_block = SuperBlock
        /\ g_imap = [i \in 1..imap_count |-> At(Image, imap_start, i - 1)]
        /\ g_zmap = [i \in 1..zmap_count |-> At(Image, zs, i - 1)]
        /\ \A ino \in Inos : g_inode_table[ino] \in Versions(ino)
    BY DEF Inv, TableInv
  <1>3. x \in {"super", "imap", "zmap", "inodes"}
    BY DEF After
  <1>4. CASE x = "super"
    <2>1. t = [start |-> 1, items |-> <<SuperBlock>>]
      BY <1>1, <1>2, <1>4 DEF Table
    <2>2. SuperBlock \in Contents
      BY Kinds
    <2> HIDE DEF t
    <2>3. t.start = 1 /\ t.items = <<SuperBlock>>
      BY <2>1
    <2>4. Len(t.items) = 1 /\ t.items[1] = SuperBlock
      BY <2>3
    <2> QED
      BY <1>4, <2>2, <2>3, <2>4 DEF t
  <1>5. CASE x = "imap"
    <2>1. t.start = imap_start /\ t.items = g_imap
      BY <1>5 DEF Table
    <2> HIDE DEF t
    <2>2. Len(t.items) = imap_count
      BY <1>1, <1>2, <2>1
    <2>3. ASSUME NEW i \in 0..(imap_count - 1)
          PROVE  t.items[i + 1] = At(Image, imap_start, i) /\ At(Image, imap_start, i) \in Contents
      <3>1. i + 1 \in 1..imap_count /\ (i + 1) - 1 = i
        BY <1>1
      <3>2. t.items[i + 1] = At(Image, imap_start, (i + 1) - 1)
        BY <1>2, <2>1, <3>1
      <3>3. imap_start + i \div kPerBlock \in Blocks /\ i % kPerBlock \in Items
        BY <1>1, TableBlocks, TableRanges, InTableAt
      <3>4. At(Image, imap_start, i) \in Contents
        BY <3>3, Kinds DEF At
      <3> QED
        BY <3>1, <3>2, <3>4
    <2>4. \A i \in 1..imap_count : t.items[i] \in Contents
      <3> SUFFICES ASSUME NEW i \in 1..imap_count PROVE t.items[i] \in Contents
        OBVIOUS
      <3>1. i - 1 \in 0..(imap_count - 1) /\ (i - 1) + 1 = i
        BY <1>1
      <3> QED
        BY <2>3, <3>1
    <2> QED
      BY <1>1, <1>5, <2>1, <2>2, <2>3, <2>4 DEF t
  <1>6. CASE x = "zmap"
    <2>1. t.start = zs /\ t.items = g_zmap
      BY <1>2, <1>6 DEF Table
    <2> HIDE DEF t
    <2>2. Len(t.items) = zmap_count
      BY <1>1, <1>2, <2>1
    <2>3. ASSUME NEW i \in 0..(zmap_count - 1)
          PROVE  t.items[i + 1] = At(Image, zs, i) /\ At(Image, zs, i) \in Contents
      <3>1. i + 1 \in 1..zmap_count /\ (i + 1) - 1 = i
        BY <1>1
      <3>2. t.items[i + 1] = At(Image, zs, (i + 1) - 1)
        BY <1>2, <2>1, <3>1
      <3>3. zs + i \div kPerBlock \in Blocks /\ i % kPerBlock \in Items
        BY <1>1, TableBlocks, TableRanges, InTableAt
      <3>4. At(Image, zs, i) \in Contents
        BY <3>3, Kinds DEF At
      <3> QED
        BY <3>1, <3>2, <3>4
    <2>4. \A i \in 1..zmap_count : t.items[i] \in Contents
      <3> SUFFICES ASSUME NEW i \in 1..zmap_count PROVE t.items[i] \in Contents
        OBVIOUS
      <3>1. i - 1 \in 0..(zmap_count - 1) /\ (i - 1) + 1 = i
        BY <1>1
      <3> QED
        BY <2>3, <3>1
    <2> QED
      BY <1>1, <1>6, <2>1, <2>2, <2>3, <2>4 DEF t
  <1>7. CASE x = "inodes"
    <2>1. t.start = is /\ t.items = [i \in 1..n |-> g_inode_table[i]]
      BY <1>2, <1>7 DEF Table, Inodes
    <2> HIDE DEF t
    <2>2. Len(t.items) = n
      BY <1>1, <2>1
    <2>3. ASSUME NEW ino \in 1..n
          PROVE  t.items[ino] = g_inode_table[ino] /\ g_inode_table[ino] \in Contents
      BY <1>2, <2>1, Kinds DEF Inos
    <2>4. Inos = 1..n
      BY DEF Inos
    <2> QED
      BY <1>1, <1>7, <2>1, <2>2, <2>3, <2>4 DEF t
  <1> QED
    BY <1>3, <1>4, <1>5, <1>6, <1>7

\* A table of one item takes one block.
LEMMA OneBlock ==
    BlocksFor(1) = 1
  <1>1. kPerBlock \in Nat \ {0}
    BY Layout
  <1>2. (1 * kPerBlock + 0) \div kPerBlock = 1
    BY <1>1, ItemOf
  <1>3. 1 + kPerBlock - 1 = 1 * kPerBlock + 0
    BY <1>1
  <1> QED
    BY <1>2, <1>3 DEF BlocksFor

\* Where the block lies that sync_all is at.
LEMMA SyncPlace ==
    ASSUME Inv, pc \in DOMAIN After
    PROVE  LET t == Table(pc)
               b == t.start + block
           IN  /\ block \in Nat /\ block < BlocksFor(Len(t.items)) /\ b \in Blocks
               /\ b \in 1..(data_start(SuperBlock) - 1)
               /\ pc = "super" => b = 1 /\ block = 0
               /\ pc = "imap" => b \in 2..(zmap_start(SuperBlock) - 1)
               /\ pc = "zmap" => b \in zmap_start(SuperBlock)..(inode_start(SuperBlock) - 1)
               /\ pc = "inodes" => b \in inode_start(SuperBlock)..(data_start(SuperBlock) - 1)
  <1> DEFINE t == Table(pc)
             m == BlocksFor(Len(t.items))
             n == SuperBlock.num_inodes
             zs == zmap_start(SuperBlock)
             is == inode_start(SuperBlock)
             ds == data_start(SuperBlock)
  <1>1. pc # "off" /\ pc \in {"super", "imap", "zmap", "inodes"}
    BY DEF After
  <1>2. /\ Len(t.items) \in Nat
        /\ pc = "super" => t.start = 1 /\ Len(t.items) = 1
        /\ pc = "imap" => t.start = imap_start /\ Len(t.items) = imap_count
        /\ pc = "zmap" => t.start = zs /\ Len(t.items) = zmap_count
        /\ pc = "inodes" => t.start = is /\ Len(t.items) = n
    BY <1>1, SyncTable
  <1>3. block \in Nat /\ block < m /\ m \in Nat
    BY <1>2, Layout, BlocksForRight DEF Inv, SyncInv
  <1>4. /\ pc = "super" => m = 1
        /\ pc = "imap" => m = BlocksFor(imap_count)
        /\ pc = "zmap" => m = BlocksFor(zmap_count)
        /\ pc = "inodes" => m = BlocksFor(n)
    BY <1>2, OneBlock
  <1> HIDE DEF t, m, zs, is, ds
  <1>5. block \in 0..(m - 1)
    BY <1>3
  <1>6. /\ pc = "super" => t.start + block = 1 /\ block = 0
        /\ pc = "imap" => t.start + block \in 2..(zs - 1)
        /\ pc = "zmap" => t.start + block \in zs..(is - 1)
        /\ pc = "inodes" => t.start + block \in is..(ds - 1)
    <2>1. CASE pc = "super"
      BY <1>2, <1>3, <1>4, <2>1
    <2>2. CASE pc = "imap"
      BY <1>2, <1>4, <1>5, <2>2, TableRanges DEF zs
    <2>3. CASE pc = "zmap"
      BY <1>2, <1>4, <1>5, <2>3, TableRanges DEF zs, is
    <2>4. CASE pc = "inodes"
      BY <1>2, <1>4, <1>5, <2>4, TableRanges DEF is, ds
    <2> QED
      BY <1>1, <2>1, <2>2, <2>3, <2>4
  <1>7. t.start + block \in Blocks
    <2>1. 1 \in Blocks /\ 2..(zs - 1) \subseteq Blocks /\ zs..(is - 1) \subseteq Blocks
          /\ is..(ds - 1) \subseteq Blocks
      BY TableRanges DEF zs, is, ds
    <2> QED
      BY <1>1, <1>6, <2>1
  <1>8. t.start + block \in 1..(ds - 1)
    <2>1. zs \in Nat /\ is \in Nat /\ ds \in Nat /\ 2 < zs /\ zs < is /\ is < ds
      BY Layout, TableBlocks DEF zs, is, ds
    <2> QED
      BY <1>1, <1>6, <2>1
  <1> QED
    BY <1>3, <1>6, <1>7, <1>8 DEF t, m, zs, is, ds

\* A block of a table goes to its place on the disk: the items in it are those
\* of the table, and no other item changes.
LEMMA SyncWrote ==
    ASSUME Inv, SyncBlock
    PROVE  /\ Clean(Resting)' /\ cache'.cb = TRUE
           /\ disk'[kSuperBlockBNO][0] = SuperBlock
           /\ \A i \in 0..(imap_count - 1) : At(disk', imap_start, i) = At(Image, imap_start, i)
           /\ \A i \in 0..(zmap_count - 1) :
                  At(disk', zmap_start(SuperBlock), i) = At(Image, zmap_start(SuperBlock), i)
           /\ \A ino \in Inos :
                  DiskInode(ino)' = IF pc = "inodes" /\ (ino - 1) \div kPerBlock = block
                                    THEN g_inode_table[ino] ELSE DiskInode(ino)
           /\ \A a \in DataBlocks : disk'[a] = disk[a]
  <1> DEFINE t == Table(pc)
             b == t.start + block
             d == write_blocks(Resting, t, block)
             n == SuperBlock.num_inodes
             zs == zmap_start(SuperBlock)
             is == inode_start(SuperBlock)
             ds == data_start(SuperBlock)
  <1>1. pc \in DOMAIN After /\ Quiet(d) /\ g_super_block' = g_super_block
    BY DEF SyncBlock, Resting, tables
  <1>2. pc # "off" /\ pc \in {"super", "imap", "zmap", "inodes"}
    BY <1>1 DEF After
  <1>3. /\ Len(t.items) \in Nat /\ t.start \in Nat
        /\ \A i \in 1..Len(t.items) : t.items[i] \in Contents
        /\ pc = "super" => /\ t.start = 1 /\ Len(t.items) = 1 /\ t.items[1] = SuperBlock
        /\ pc = "imap" =>
             /\ t.start = imap_start /\ Len(t.items) = imap_count
             /\ \A i \in 0..(imap_count - 1) : t.items[i + 1] = At(Image, imap_start, i)
        /\ pc = "zmap" =>
             /\ t.start = zs /\ Len(t.items) = zmap_count
             /\ \A i \in 0..(zmap_count - 1) : t.items[i + 1] = At(Image, zs, i)
        /\ pc = "inodes" =>
             /\ t.start = is /\ Len(t.items) = n
             /\ \A ino \in Inos : t.items[ino] = g_inode_table[ino]
    BY <1>1, <1>2, SyncTable
  <1>4. /\ block \in Nat /\ b \in Blocks /\ b \in 1..(ds - 1)
        /\ pc = "super" => b = 1 /\ block = 0
        /\ pc = "imap" => b \in 2..(zs - 1)
        /\ pc = "zmap" => b \in zs..(is - 1)
        /\ pc = "inodes" => b \in is..(ds - 1)
    BY <1>1, SyncPlace
  <1>5. Clean(Resting) /\ Resting.cb = TRUE /\ Resting.disk = disk /\ disk \in Disks
    BY <1>2, Running
  <1> HIDE DEF t, zs, is, ds, n
  <1>6. PICK v \in Data :
            /\ Wrote(Resting, d, b, v)
            /\ \A i \in Items : block * kPerBlock + i < Len(t.items)
                                => v[i] = t.items[block * kPerBlock + i + 1]
    <2>1. Copied(Resting, d, t, block)
      BY <1>3, <1>4, <1>5, TableWritten
    <2> HIDE DEF d
    <2> QED
      BY <2>1 DEF Copied
  <1> HIDE DEF d
  <1>7. Clean(d) /\ d.cb = TRUE /\ d.disk = [disk EXCEPT ![b] = v]
    BY <1>5, <1>6 DEF Wrote
  <1>8. Clean(Resting)' /\ disk' = [disk EXCEPT ![b] = v] /\ cache'.cb = TRUE
    BY <1>1, <1>7, Settled
  <1>9. disk'[b] = v /\ \A a \in Blocks \ {b} : disk'[a] = disk[a]
    BY <1>4, <1>5, <1>8 DEF Disks
  <1>10. kPerBlock \in Nat \ {0} /\ zs \in Nat /\ is \in Nat /\ ds \in Nat /\ 2 < zs /\ zs < is
         /\ is < ds /\ imap_start = 2 /\ kSuperBlockBNO = 1
         /\ imap_count \in Nat /\ zmap_count \in Nat /\ n \in Nat
    BY Layout, TableBlocks DEF zs, is, ds, n
  <1>11. ASSUME NEW i \in 0..(Len(t.items) - 1), t.start + i \div kPerBlock \in Blocks
         PROVE  At(disk', t.start, i) = IF i \div kPerBlock = block THEN t.items[i + 1]
                                        ELSE At(disk, t.start, i)
    <2> DEFINE q == i \div kPerBlock
               r == i % kPerBlock
    <2>1. q \in Nat /\ r \in Items /\ i = q * kPerBlock + r
      <3>1. q \in 0..(BlocksFor(Len(t.items)) - 1) /\ r \in Items /\ i = q * kPerBlock + r
        BY <1>3, InTableAt
      <3> HIDE DEF q
      <3> QED
        BY <3>1
    <2>2. At(disk', t.start, i) = disk'[t.start + q][r] /\ At(disk, t.start, i) = disk[t.start + q][r]
      BY DEF At
    <2> HIDE DEF q, r
    <2>3. CASE q = block
      <3>1. block * kPerBlock + r = i /\ i < Len(t.items)
        BY <1>3, <2>1, <2>3
      <3>2. v[r] = t.items[i + 1]
        <4> DEFINE m == block * kPerBlock + r
        <4>1. m < Len(t.items) => v[r] = t.items[m + 1]
          BY <1>6, <2>1
        <4> HIDE DEF m
        <4>2. m = i
          BY <3>1 DEF m
        <4> QED
          BY <3>1, <4>1, <4>2
      <3>3. disk'[t.start + q] = v
        BY <1>9, <2>3
      <3> QED
        BY <2>2, <2>3, <3>2, <3>3 DEF q
    <2>4. CASE q # block
      <3>1. t.start + q # b
        BY <1>3, <1>4, <2>1, <2>4
      <3>2. disk'[t.start + q] = disk[t.start + q]
        BY <1>9, <1>11, <3>1 DEF q
      <3> QED
        BY <2>2, <2>4, <3>2 DEF q
    <2> QED
      BY <2>3, <2>4
  <1>12. disk'[kSuperBlockBNO][0] = SuperBlock
    <2>1. CASE pc = "super"
      <3>1. 0 \in Items /\ block * kPerBlock + 0 = 0
        BY <1>4, <1>10, <2>1 DEF Items
      <3> DEFINE m == block * kPerBlock + 0
      <3>2. m < Len(t.items) => v[0] = t.items[m + 1]
        BY <1>6, <3>1
      <3> HIDE DEF m
      <3>3. m = 0
        BY <3>1 DEF m
      <3>4. v[0] = SuperBlock
        BY <1>3, <2>1, <3>2, <3>3
      <3> QED
        BY <1>4, <1>9, <1>10, <2>1, <3>4
    <2>2. CASE pc # "super"
      <3>1. b # 1
        BY <1>2, <1>4, <1>10, <2>2
      <3>2. 1 \in Blocks /\ disk[1][0] = SuperBlock
        BY <1>10, TableRanges DEF Inv, DiskInv
      <3> QED
        BY <1>9, <1>10, <3>1, <3>2
    <2> QED
      BY <2>1, <2>2
  <1>13. ASSUME NEW i \in 0..(imap_count - 1)
         PROVE  At(disk', imap_start, i) = At(Image, imap_start, i)
    <2> DEFINE a == imap_start + i \div kPerBlock
    <2>1. a \in 2..(zs - 1) /\ a \in Blocks
      BY TableBlocks, TableRanges DEF zs
    <2>2. At(disk, imap_start, i) = At(Image, imap_start, i)
      BY DEF Inv, DiskInv
    <2>3. CASE pc = "imap"
      BY <1>3, <1>11, <2>1, <2>2, <2>3
    <2>4. CASE pc # "imap"
      <3>1. At(disk', imap_start, i) = disk'[a][i % kPerBlock]
            /\ At(disk, imap_start, i) = disk[a][i % kPerBlock]
        BY DEF At
      <3> HIDE DEF a
      <3>2. a # b
        BY <1>2, <1>4, <1>10, <2>1, <2>4
      <3> QED
        BY <1>9, <2>1, <2>2, <3>1, <3>2
    <2> QED
      BY <2>3, <2>4
  <1>14. ASSUME NEW i \in 0..(zmap_count - 1) PROVE At(disk', zs, i) = At(Image, zs, i)
    <2> DEFINE a == zs + i \div kPerBlock
    <2>1. a \in zs..(is - 1) /\ a \in Blocks
      BY TableBlocks, TableRanges DEF zs, is
    <2>2. At(disk, zs, i) = At(Image, zs, i)
      BY DEF Inv, DiskInv, zs
    <2>3. CASE pc = "zmap"
      BY <1>3, <1>11, <2>1, <2>2, <2>3
    <2>4. CASE pc # "zmap"
      <3>1. At(disk', zs, i) = disk'[a][i % kPerBlock] /\ At(disk, zs, i) = disk[a][i % kPerBlock]
        BY DEF At
      <3> HIDE DEF a
      <3>2. a # b
        BY <1>2, <1>4, <1>10, <2>1, <2>4
      <3> QED
        BY <1>9, <2>1, <2>2, <3>1, <3>2
    <2> QED
      BY <2>3, <2>4
  <1>15. ASSUME NEW ino \in Inos
         PROVE  DiskInode(ino)' = IF pc = "inodes" /\ (ino - 1) \div kPerBlock = block
                                  THEN g_inode_table[ino] ELSE DiskInode(ino)
    <2> DEFINE i == ino - 1
               a == is + i \div kPerBlock
    <2>1. a \in is..(ds - 1) /\ a \in Blocks /\ i \in 0..(n - 1) /\ i + 1 = ino
      <3>1. ino \in Int
        BY <1>10 DEF Inos
      <3> QED
        BY <3>1, TableBlocks, TableRanges DEF is, ds, n
    <2>2. DiskInode(ino) = At(disk, is, i) /\ DiskInode(ino)' = At(disk', is, i)
      BY <1>1 DEF DiskInode, is, Inv, TableInv
    <2>3. CASE pc = "inodes"
      <3>1. t.start = is /\ Len(t.items) = n /\ t.items[i + 1] = g_inode_table[ino]
        BY <1>3, <2>1, <2>3
      <3>2. At(disk', is, i) = IF i \div kPerBlock = block THEN t.items[i + 1] ELSE At(disk, is, i)
        BY <1>11, <2>1, <3>1
      <3> QED
        BY <2>2, <2>3, <3>1, <3>2
    <2>4. CASE pc # "inodes"
      <3>1. At(disk', is, i) = disk'[a][i % kPerBlock] /\ At(disk, is, i) = disk[a][i % kPerBlock]
        BY DEF At
      <3> HIDE DEF a
      <3>2. a # b
        BY <1>2, <1>4, <1>10, <2>1, <2>4
      <3>3. At(disk', is, i) = At(disk, is, i)
        BY <1>9, <2>1, <3>1, <3>2
      <3> QED
        BY <2>2, <2>4, <3>3
    <2> QED
      BY <2>3, <2>4
  <1>16. ASSUME NEW a \in DataBlocks PROVE disk'[a] = disk[a]
    <2>1. a \in Blocks /\ a >= ds /\ a \in Nat
      BY Constants DEF DataBlocks, ds
    <2>2. a # b
      BY <1>4, <1>10, <2>1
    <2> QED
      BY <1>9, <2>1, <2>2
  <1> QED
    BY <1>8, <1>12, <1>13, <1>14, <1>15, <1>16 DEF zs

\* Writing the next block of a table keeps each inode on the disk an old or a
\* new one, and all else what it was.
LEMMA SyncBlockStep ==
    ASSUME Inv, SyncBlock
    PROVE  Inv'
  <1> DEFINE m == BlocksFor(Len(Table(pc).items))
             done == block + 1 = m
             n == SuperBlock.num_inodes
  <1>1. /\ pc \in DOMAIN After
        /\ block' = IF done THEN 0 ELSE block + 1
        /\ pc' = IF done THEN After[pc] ELSE pc
        /\ was' = IF pc' = "ready" THEN g_inode_table ELSE was
        /\ g_super_block' = g_super_block /\ g_imap' = g_imap /\ g_zmap' = g_zmap
        /\ g_inode_table' = g_inode_table /\ stack' = stack /\ found' = found /\ text' = text
    BY DEF SyncBlock, tables
  <1>2. pc \in {"super", "imap", "zmap", "inodes"} /\ pc # "off"
        /\ pc' \in {"super", "imap", "zmap", "inodes", "ready"}
        /\ (pc' = "ready" <=> done /\ pc = "inodes")
        /\ (pc' = "inodes" => (pc = "zmap" /\ block' = 0) \/ (pc = "inodes" /\ block' = block + 1))
    BY <1>1 DEF After
  <1>3. /\ Clean(Resting)' /\ cache'.cb = TRUE
        /\ disk'[kSuperBlockBNO][0] = SuperBlock
        /\ \A i \in 0..(imap_count - 1) : At(disk', imap_start, i) = At(Image, imap_start, i)
        /\ \A i \in 0..(zmap_count - 1) :
               At(disk', zmap_start(SuperBlock), i) = At(Image, zmap_start(SuperBlock), i)
        /\ \A ino \in Inos :
               DiskInode(ino)' = IF pc = "inodes" /\ (ino - 1) \div kPerBlock = block
                                 THEN g_inode_table[ino] ELSE DiskInode(ino)
        /\ \A a \in DataBlocks : disk'[a] = disk[a]
    BY SyncWrote
  <1>4. block \in Nat /\ block < m /\ m \in Nat
    <2>1. Len(Table(pc).items) \in Nat
      BY <1>1, <1>2, SyncTable
    <2> QED
      BY <1>1, <2>1, SyncPlace, Layout, BlocksForRight
  <1>5. pc = "inodes" => m = BlocksFor(n)
    BY <1>1, <1>2, SyncTable
  <1>6. CacheInv'
    BY <1>2, <1>3 DEF CacheInv
  <1>7. TableInv'
    BY <1>1, <1>2 DEF Inv, TableInv
  <1>8. DiskInv'
    <2>1. \A ino \in Inos : DiskInode(ino)' \in Versions(ino)
      BY <1>2, <1>3 DEF Inv, DiskInv, TableInv
    <2>2. \A a \in DataBlocks : disk'[a] = text'[a]
      BY <1>1, <1>3 DEF Inv, DiskInv
    <2> QED
      BY <1>1, <1>3, <2>1, <2>2 DEF Inv, DiskInv
  <1>9. SyncInv'
    <2>1. block' \in Nat
      BY <1>1, <1>4
    <2>2. pc' \in DOMAIN After => block' < BlocksFor(Len(Table(pc)'.items))
      <3> SUFFICES ASSUME pc' \in DOMAIN After PROVE block' < BlocksFor(Len(Table(pc)'.items))
        OBVIOUS
      <3> DEFINE x == pc'
      <3>1. Table(pc)' = Table(x)
        BY <1>1 DEF Table, Inodes
      <3>2. Len(Table(x).items) \in Nat
        BY <1>2, SyncTable
      <3>3. BlocksFor(Len(Table(x).items)) \in Nat \ {0}
        BY <3>2, Layout, BlocksForRight
      <3>4. CASE done
        BY <1>1, <3>1, <3>3, <3>4
      <3>5. CASE ~done
        <4>1. x = pc /\ block' = block + 1
          BY <1>1, <3>5
        <4>2. block + 1 < m
          BY <1>4, <3>5
        <4> QED
          BY <3>1, <4>1, <4>2
      <3> QED
        BY <3>4, <3>5
    <2> HIDE DEF m
    <2>3. ASSUME NEW ino \in Inos
          PROVE  \/ DiskInode(ino)' = was'[ino]
                 \/ pc' \in {"inodes", "off"} /\ DiskInode(ino)' = g_inode_table'[ino]
      <3> DEFINE q == (ino - 1) \div kPerBlock
      <3>1. CASE pc # "inodes"
        BY <1>1, <1>2, <1>3, <3>1 DEF Inv, SyncInv
      <3>2. CASE pc = "inodes" /\ ~done
        <4>1. pc' = "inodes" /\ was' = was
          BY <1>1, <3>2
        <4> QED
          BY <1>1, <1>3, <3>2, <4>1 DEF Inv, SyncInv
      <3>3. CASE pc = "inodes" /\ done
        <4>1. was' = g_inode_table
          BY <1>1, <1>2, <3>3
        <4>2. q \in 0..(m - 1)
          <5>1. ino - 1 \in 0..(n - 1) /\ n \in Nat
            BY TableBlocks, Layout
          <5> QED
            BY <1>5, <3>3, <5>1, InTableAt
        <4>3. q < block => DiskInode(ino) = g_inode_table[ino]
          BY <3>3 DEF Inv, SyncInv
        <4>4. DiskInode(ino)' = IF q = block THEN g_inode_table[ino] ELSE DiskInode(ino)
          BY <1>3, <3>3
        <4> HIDE DEF q
        <4>5. q < block \/ q = block
          BY <1>4, <3>3, <4>2
        <4> QED
          BY <4>1, <4>3, <4>4, <4>5
      <3> QED
        BY <3>1, <3>2, <3>3
    <2>4. ASSUME pc' = "inodes", NEW ino \in Inos, (ino - 1) \div kPerBlock < block'
          PROVE  DiskInode(ino)' = g_inode_table'[ino]
      <3> DEFINE q == (ino - 1) \div kPerBlock
      <3>1. q \in Nat
        <4>1. ino - 1 \in 0..(n - 1) /\ n \in Nat
          BY TableBlocks, Layout
        <4>2. q \in 0..(BlocksFor(n) - 1)
          BY <4>1, InTableAt
        <4> HIDE DEF q
        <4> QED
          BY <4>2
      <3>2. q < block' /\ DiskInode(ino)' = IF pc = "inodes" /\ q = block
                                            THEN g_inode_table[ino] ELSE DiskInode(ino)
        BY <1>3, <2>4
      <3>3. pc = "inodes" /\ q < block => DiskInode(ino) = g_inode_table[ino]
        BY DEF Inv, SyncInv
      <3> HIDE DEF q
      <3>4. pc = "inodes" /\ block' = block + 1
        BY <1>2, <2>4, <3>1, <3>2
      <3>5. q < block \/ q = block
        BY <1>4, <3>1, <3>2, <3>4
      <3> QED
        BY <1>1, <3>2, <3>3, <3>4, <3>5
    <2>5. pc' \in {"off", "ready", "list", "wild"} \cup DOMAIN After
      BY <1>2 DEF After
    <2> QED
      BY <2>1, <2>2, <2>3, <2>4, <2>5 DEF SyncInv
  <1>10. FrameInv' /\ FoundInv'
    BY <1>1, <1>2 DEF Inv, FrameInv, FoundInv
  <1> QED
    BY <1>6, <1>7, <1>8, <1>9, <1>10 DEF Inv

\* The machine is off and the disk is the image.
LEMMA InitStep ==
    ASSUME Init
    PROVE  Inv
  <1>1. /\ disk = Image /\ cache = Empty(Garbage) /\ pc = "off" /\ block = 0 /\ text = Image
        /\ g_super_block = SuperBlock /\ stack = <<>> /\ found = NoPath
        /\ g_inode_table = [i \in 0..SuperBlock.num_inodes |-> NoInode]
        /\ was = [i \in 1..SuperBlock.num_inodes |-> DiskInode(i)]
    BY DEF Init
  <1>2. Image \in Disks /\ SuperBlock.num_inodes \in Nat \ {0}
    BY Layout
  <1>3. CacheInv
    BY <1>1, <1>2, ColdCache DEF CacheInv, Resting
  <1>4. TableInv
    BY <1>1, <1>2 DEF TableInv, Inos
  <1>5. DiskInv
    <2>1. \A ino \in Inos : DiskInode(ino) = InodeOf(ino)
      BY <1>1, <1>2 DEF DiskInode, InodeOf, Inos
    <2>2. \A ino \in Inos : DiskInode(ino) \in Versions(ino)
      BY <2>1 DEF Versions
    <2>3. DOMAIN Image = Blocks
      BY <1>2 DEF Disks
    <2> QED
      BY <1>1, <2>2, <2>3 DEF DiskInv, SuperBlock
  <1>6. SyncInv
    BY <1>1 DEF SyncInv, After, Inos
  <1>7. FrameInv /\ FoundInv
    BY <1>1 DEF FrameInv, FoundInv, NoPath
  <1> QED
    BY <1>3, <1>4, <1>5, <1>6, <1>7 DEF Inv

--------------------------------------------------------------------------------
(* The theorems.                                                             *)

\* Whatever is called in whatever order, and whenever the power fails, the
\* cache is clean between two steps, the tables in memory are those of the disk
\* but for the sizes of files, and the disk is the image but for edits.
THEOREM Invariance == Spec => []Inv
  <1>1. Init => Inv
    BY InitStep
  <1>2. Inv /\ [Next]_vars => Inv'
    <2> SUFFICES ASSUME Inv, [Next]_vars PROVE Inv'
      OBVIOUS
    <2>1. CASE UNCHANGED vars
      <3>1. /\ cache' = cache /\ disk' = disk /\ pc' = pc /\ block' = block
            /\ g_super_block' = g_super_block /\ g_imap' = g_imap /\ g_zmap' = g_zmap
            /\ g_inode_table' = g_inode_table /\ stack' = stack /\ found' = found
            /\ was' = was /\ text' = text
        BY <2>1 DEF vars, tables
      <3>2. Resting' = Resting /\ (\A ino : DiskInode(ino)' = DiskInode(ino)) /\ Table(pc)' = Table(pc)
        BY <3>1 DEF Resting, DiskInode, Table, Inodes
      <3>3. CacheInv' /\ TableInv'
        BY <3>1, <3>2 DEF Inv, CacheInv, TableInv
      <3>4. DiskInv'
        BY <3>1, <3>2 DEF Inv, DiskInv
      <3>5. SyncInv'
        BY <3>1, <3>2 DEF Inv, SyncInv
      <3>6. FrameInv' /\ FoundInv'
        BY <3>1 DEF Inv, FrameInv, FoundInv
      <3> QED
        BY <3>3, <3>4, <3>5, <3>6 DEF Inv
    <2>2. CASE init_fs
      BY <2>2, init_fsStep
    <2>3. CASE ListEntries
      BY <2>3, ListEntriesStep
    <2>4. CASE TraverseDir
      BY <2>4, TraverseDirStep
    <2>5. CASE ListEnd
      BY <2>5, ListEndStep
    <2>6. CASE ListReturn
      BY <2>6, ListReturnStep
    <2>7. ASSUME NEW path \in Paths, Namei(path) PROVE Inv'
      BY <2>7, NameiStep
    <2>8. ASSUME NEW path \in EditPaths, Edit(path) PROVE Inv'
      BY <2>8, EditStep
    <2>9. CASE SyncAll
      BY <2>9, SyncAllStep
    <2>10. CASE SyncBlock
      BY <2>10, SyncBlockStep
    <2>11. CASE PowerOff
      BY <2>11, PowerOffStep
    <2> QED
      BY <2>1, <2>2, <2>3, <2>4, <2>5, <2>6, <2>7, <2>8, <2>9, <2>10, <2>11 DEF Next
  <1> QED
    BY <1>1, <1>2, PTL DEF Spec

\* Every pointer of list_entries points at a buffer, sync_all writes blocks of
\* the disk only, and the cache never halts the kernel.
THEOREM TypeCorrect == Spec => []TypeOK
  <1>1. Inv => TypeOK
    <2> SUFFICES ASSUME Inv PROVE TypeOK
      OBVIOUS
    <2>1. Resting \in Caches /\ Resting.halted = FALSE /\ Resting.count = Resting.made
      BY DEF Inv, CacheInv, Clean, Sound
    <2>2. /\ cache.prev = Resting.prev /\ cache.next = Resting.next /\ cache.key = Resting.key
          /\ cache.val = Resting.val /\ cache.halted = Resting.halted
          /\ cache.count = Resting.count /\ disk = Resting.disk
      BY DEF Resting, Begin
    <2>3. /\ cache.prev \in Pointers /\ cache.next \in Pointers /\ cache.key \in Keys
          /\ cache.val \in Values /\ cache.count \in 0..N /\ ~cache.halted /\ disk \in Disks
      BY <2>1, <2>2, Parts
    <2>4. /\ cache.prev \in [Nodes -> Nodes \cup {Null}] /\ cache.next \in [Nodes -> Nodes \cup {Null}]
          /\ cache.key \in [Nodes -> Blocks \cup {0}] /\ cache.val \in [Nodes -> Data]
          /\ disk \in [Blocks -> Data]
      BY <2>3 DEF Pointers, Pointer, Keys, Values, Disks
    <2>5. pc \in {"off", "ready", "list", "wild"} \cup DOMAIN After /\ block \in Nat
      BY DEF Inv, SyncInv
    <2>6. pc \in DOMAIN After => Table(pc).start + block \in Blocks
      BY SyncPlace
    <2>7. DOMAIN g_inode_table = 0..g_super_block.num_inodes /\ DOMAIN g_inode_table = {0} \cup Inos
      <3>1. SuperBlock.num_inodes \in Nat
        BY Layout
      <3> QED
        BY <3>1 DEF Inv, TableInv, Inos
    <2>8. stack \in Seq([dir : DOMAIN g_inode_table, i : Nat, node : Nodes])
      <3> DEFINE F == [dir : Dirs, i : Nat, node : Nodes]
                 G == [dir : DOMAIN g_inode_table, i : Nat, node : Nodes]
      <3>1. stack \in Seq(F)
        BY DEF Inv, FrameInv
      <3>2. F \subseteq G
        BY <2>7 DEF Dirs
      <3> HIDE DEF F, G
      <3>3. stack \in Seq(G)
        BY <3>1, <3>2
      <3> QED
        BY <3>3 DEF G
    <2>9. found.ino \in DOMAIN g_inode_table \cup {None}
      BY <2>7 DEF Inv, FoundInv
    <2> QED
      BY <2>3, <2>4, <2>5, <2>6, <2>7, <2>8, <2>9 DEF TypeOK
  <1> QED
    BY <1>1, Invariance, PTL

\* Power may fail after any write of a block: the disk holds every table, every
\* directory and every edit, and each inode as it was before the sync or after.
THEOREM DurableHolds == Spec => []Durable
  <1>1. Inv => Durable
    BY DEF Inv, Durable, DiskInv, SyncInv, imap_count, zmap_count
  <1> QED
    BY <1>1, Invariance, PTL

\* namei finds what the path names, whatever edits, syncs and power failures
\* came before and whatever blocks the cache has evicted on the way.
THEOREM NameiRightHolds == Spec => []NameiRight
  <1>1. Inv => NameiRight
    BY DEF Inv, NameiRight, FoundInv
  <1> QED
    BY <1>1, Invariance, PTL

================================================================================
