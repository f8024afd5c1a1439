----------------------------------- MODULE Fs ----------------------------------
(*****************************************************************************)
(* The file system above its block cache (lib/fs.cc): init_fs, read_zone,    *)
(* traverse_dir with its two callers list_entries and find_entry, namei, the *)
(* edit that test_fs makes, and sync_all.  One thread runs all of it; the    *)
(* machine may lose power after every write of a block.                      *)
(*                                                                           *)
(* A block is kPerBlock items, whatever their kind: the super block, bytes   *)
(* of a bitmap, inodes, directory entries, block numbers of an index, text.  *)
(* A name is a sequence of characters, a path the sequence of its names.     *)
(* The size of a directory counts its entries.                               *)
(*****************************************************************************)
EXTENDS LruCache, SequencesExt

CONSTANTS
    Image,          \* the disk as mkfs and its users left it, by block
    kPerBlock,
    kDirect,        \* direct zones of an inode, 7; two more point to indexes
    kByte,          \* bits in a byte of a bitmap, 8
    kNumInodes,
    Paths,          \* what namei is asked for
    EditPaths,      \* what the edit of test_fs is made to
    MaxCalls        \* bound: calls between two starts of the machine

VARIABLES
    cache, disk,
    pc,             \* off, ready, list, wild, or the table that sync_all is at
    block,          \* the block of that table it is at
    g_super_block, g_imap, g_zmap, g_inode_table,
    stack,          \* list_entries: one frame for each traverse_dir on the stack
    listed,         \* what list_entries has printed
    found,          \* what namei was asked for last, and its answer
    calls,          \* calls since the start
    lost,           \* history: a buffer has dropped out of the cache's ring
    was,            \* history: the inodes at the end of the last sync or init_fs
    text            \* history: the data zones with the edits made

tables == <<g_super_block, g_imap, g_zmap, g_inode_table>>
vars == <<cache, disk, pc, block, tables, stack, listed, found, calls, lost, was, text>>

Items == 0..(kPerBlock - 1)
kSuperBlockBNO == 1
kRootINO == 1
None == -1      \* the null m_inode*
is_directory(inode) == inode.dir

\* The zero-initialised entry 0 of g_inode_table, and a new buffer.
NoInode == [dir |-> FALSE, size |-> 0, zone |-> [z \in 0..(kDirect + 1) |-> 0]]
Garbage == [i \in Items |-> NoInode]
NoPath == [path |-> <<>>, ino |-> None]
Edited == [text |-> "hello world"]

\* Blocks that read_blocks and write_blocks visit for count items: one at least.
BlocksFor(count) == IF count = 0 THEN 1 ELSE (count + kPerBlock - 1) \div kPerBlock

\* Where the tables lie that a super block describes; item i of the table at start.
imap_start == 2
zmap_start(sb) == imap_start + sb.num_imap_blocks
inode_start(sb) == zmap_start(sb) + sb.num_zmap_blocks
data_start(sb) == inode_start(sb) + BlocksFor(sb.num_inodes)
At(d, start, i) == d[start + i \div kPerBlock][i % kPerBlock]

--------------------------------------------------------------------------------
(* The image, read without a cache.  Nothing in the kernel changes a         *)
(* directory, so that these are also the definitions the properties are      *)
(* measured against.                                                         *)

SuperBlock == Image[kSuperBlockBNO][0]
Inos == 1..SuperBlock.num_inodes
InodeOf(ino) == IF ino = 0 THEN NoInode ELSE At(Image, inode_start(SuperBlock), ino - 1)
Dirs == {ino \in Inos : is_directory(InodeOf(ino))}

\* The blocks on the way to zone z of an inode: indexes, and the zone.
Way(inode, z) ==
    LET number(b, i) == Image[b][i].no
        single == inode.zone[kDirect]
        double == inode.zone[kDirect + 1]
        n == z - kDirect
        m == n - kPerBlock
        second == number(double, m \div kPerBlock)
    IN  IF z < kDirect THEN <<inode.zone[z]>>
        ELSE IF n < kPerBlock THEN <<single, number(single, n)>>
        ELSE <<double, second, number(second, m % kPerBlock)>>

ZoneBlock(inode, z) == Last(Way(inode, z))
Zones(inode) == 0..(BlocksFor(inode.size) - 1)
EntryAt(inode, i) == Image[ZoneBlock(inode, i \div kPerBlock)][i % kPerBlock]

DataBlocks == {b \in Blocks : b >= data_start(SuperBlock)}
DirBlocks == UNION {UNION {Range(Way(InodeOf(d), z)) : z \in Zones(InodeOf(d))} : d \in Dirs}

\* Files that test_fs may edit: they have a first block of their own.
Files == {ino \in Inos : /\ ~is_directory(InodeOf(ino))
                         /\ InodeOf(ino).zone[0] \in DataBlocks \ DirBlocks}

\* Where a path leads if each of its names is taken for the first entry whose
\* name begins it, as strcmp does: an inode, or none.
Beginning(inode, name) == {i \in 0..(inode.size - 1) : IsPrefix(EntryAt(inode, i).name, name)}
Taken(ino, name) ==
    LET inode == InodeOf(ino)
    IN  IF ino = None \/ ~is_directory(inode) \/ Beginning(inode, name) = {} THEN None
        ELSE EntryAt(inode, Min(Beginning(inode, name))).inode
Destination(path) ==
    LET at[k \in 0..Len(path)] == IF k = 0 THEN kRootINO ELSE Taken(at[k - 1], path[k])
    IN  at[Len(path)]

\* What is ever in an item of a block.
Contents ==
    {Image[b][i] : b \in Blocks, i \in Items} \cup {NoInode, Edited}
    \cup {[InodeOf(ino) EXCEPT !.size = 12] : ino \in Inos}
BlockData == [Items -> Contents]

SuperBlocks == [num_inodes : Nat \ {0}, num_zones : Nat, num_imap_blocks : Nat,
                num_zmap_blocks : Nat]
d_inode == [dir : BOOLEAN, size : Nat, zone : [0..(kDirect + 1) -> Nat]]
dir_entry == [inode : 0..SuperBlock.num_inodes, name : Seq(STRING)]

\* init_fs does not test that the disk's inodes fit into g_inode_table.
ASSUME FsAssumption ==
    /\ {kPerBlock, kDirect, kByte, kNumInodes, MaxCalls} \subseteq Nat \ {0}
    /\ Data = BlockData /\ Image \in [Blocks -> Data]
    /\ SuperBlock \in SuperBlocks /\ SuperBlock.num_inodes < kNumInodes

\* Nor does the kernel test anything else about the disk: the tables fit before
\* the data, a directory's zones are data and hold entries, entries have inodes,
\* and what test_fs edits is a file.
ASSUME ImageAssumption ==
    /\ 1..(data_start(SuperBlock) - 1) \subseteq Blocks
    /\ BlocksFor(SuperBlock.num_inodes \div kByte) <= SuperBlock.num_imap_blocks
    /\ BlocksFor(SuperBlock.num_zones \div kByte) <= SuperBlock.num_zmap_blocks
    /\ \A ino \in Inos : InodeOf(ino) \in d_inode
    /\ \A x \in Contents : "name" \in DOMAIN x => x \in dir_entry
    /\ kRootINO \in Dirs
    /\ \A d \in Dirs :
           /\ BlocksFor(InodeOf(d).size) <= kDirect + kPerBlock + kPerBlock * kPerBlock
           /\ \A z \in Zones(InodeOf(d)) : Range(Way(InodeOf(d), z)) \subseteq DataBlocks
           /\ \A i \in 0..(InodeOf(d).size - 1) : EntryAt(InodeOf(d), i) \in dir_entry
    /\ Paths \cup EditPaths \subseteq Seq(Seq(STRING)) \ {<<>>}
    /\ \A path \in EditPaths : Destination(path) \in Files \cup {None}

--------------------------------------------------------------------------------
(* Reading.                                                                  *)

Item(c, node, i) == c.val[node][i]

\* read_block of the number at index i of the block read last
Follow(c, i) == read_block(c, Item(c, c.ret, i).no)

read_zone(c, inode, zone) ==
    LET indirect == zone - kDirect
        double == indirect - kPerBlock
    IN  IF zone < kDirect THEN read_block(c, inode.zone[zone])
        ELSE IF zone < kDirect + kPerBlock
        THEN Follow(read_block(c, inode.zone[kDirect]), indirect)
        ELSE Follow(Follow(read_block(c, inode.zone[kDirect + 1]), double \div kPerBlock),
                    double % kPerBlock)

\* count items from block start on, as r.items; at[j] is after the j-th block
read_blocks(c, start, count) ==
    LET at[j \in 0..BlocksFor(count)] ==
            IF j = 0 THEN c ELSE read_block(at[j - 1], start + j - 1)
        item(d, i) == Item(d, d.ret, i % kPerBlock)
    IN  [c |-> at[BlocksFor(count)],
         items |-> [i \in 1..count |-> item(at[1 + (i - 1) \div kPerBlock], i - 1)]]

Zone(c) == [c |-> c, node |-> c.ret]

\* Mutant: zone_cnt is incremented after its use.
NextZone_Late(c, node, dir, i) ==
    IF i = 0 \/ i % kPerBlock # 0 THEN [c |-> c, node |-> node]
    ELSE Zone(read_zone(c, dir, (i \div kPerBlock) - 1))

\* traverse_dir before entry i: the buffer that holds it, node so far
NextZone(c, node, dir, i) ==
    IF i = 0 \/ i % kPerBlock # 0 THEN [c |-> c, node |-> node]
    ELSE Zone(read_zone(c, dir, i \div kPerBlock))

\* Mutant: it compares up to the end of the name it looks for.
Matches_Reversed(entry, name) == IsPrefix(name, entry.name)

\* strcmp(entry->name, name) == 0, where the rest of the path follows name
Matches(entry, name) == IsPrefix(entry.name, name)

\* The callback of find_entry: strcmp, and the inode of the entry that matches
Compare(z, entry, name) ==
    [c |-> z.c, node |-> z.node, ino |-> IF Matches(entry, name) THEN entry.inode ELSE None]

\* traverse_dir as find_entry calls it, entry by entry until one matches: at[k]
\* is after k entries
Visit(z, i, name) == Compare(z, Item(z.c, z.node, i % kPerBlock), name)
Turn(r, i, dir, name) ==
    IF r.ino # None THEN r ELSE Visit(NextZone(r.c, r.node, dir, i), i, name)
Search(zone, dir, name) ==
    LET at[k \in 0..dir.size] ==
            IF k = 0 THEN [c |-> zone.c, node |-> zone.node, ino |-> None]
            ELSE Turn(at[k - 1], k - 1, dir, name)
    IN  at[dir.size]

find_entry(c, dir, name) ==
    IF is_directory(dir) THEN Search(Zone(read_zone(c, dir, 0)), dir, name)
    ELSE [c |-> c, node |-> Null, ino |-> None]

\* One name of a path; r.null says that find_entry was called with a null
\* directory.
Took(f, null) == [c |-> f.c, ino |-> f.ino, null |-> null]
Descend(r, name) ==
    IF r.ino = None THEN [c |-> r.c, ino |-> None, null |-> TRUE]
    ELSE Took(find_entry(r.c, g_inode_table[r.ino], name), r.null)

namei(c, path) ==
    LET at[k \in 0..Len(path)] ==
            IF k = 0 THEN [c |-> c, ino |-> kRootINO, null |-> FALSE]
            ELSE Descend(at[k - 1], path[k])
    IN  at[Len(path)]

--------------------------------------------------------------------------------
(* The tables as sync_all writes them: where they start, and their items.    *)

\* what sync_inodes writes: entry 0 is not on the disk
Inodes == [i \in 1..g_super_block.num_inodes |-> g_inode_table[i]]

\* sync_all: what comes after each table
After == [super |-> "imap", imap |-> "zmap", zmap |-> "inodes", inodes |-> "ready"]

Table(t) ==
    CASE t = "super"  -> [start |-> kSuperBlockBNO, items |-> <<g_super_block>>]
      [] t = "imap"   -> [start |-> imap_start, items |-> g_imap]
      [] t = "zmap"   -> [start |-> zmap_start(g_super_block), items |-> g_zmap]
      [] t = "inodes" -> [start |-> inode_start(g_super_block), items |-> Inodes]

\* One block of write_blocks, or all of sync_super_block: get_block, copy the
\* items that belong into block j of the table, write_block.
Copy(c, t, j) ==
    LET n == j * kPerBlock
        fill(g, b) == SetBuffer(g, b, [i \in Items |-> IF n + i < Len(t.items)
                                       THEN t.items[n + i + 1] ELSE Buffer(g, b)[i]])
    IN  fill(get_block(c, t.start + j), t.start + j)

\* Mutant: the last block is not written.
write_blocks_NotLast(c, t, j) ==
    IF j + 1 < BlocksFor(Len(t.items)) THEN write_block(Copy(c, t, j), t.start + j)
    ELSE Copy(c, t, j)

write_blocks(c, t, j) == write_block(Copy(c, t, j), t.start + j)

\* What the disk says, read without a cache.
DiskInode(i) == At(disk, inode_start(g_super_block), i - 1)

--------------------------------------------------------------------------------
\* A step of the file system ends in cache state c.
Quiet(c) == disk' = c.disk /\ cache' = End(c) /\ lost' = (lost \/ ~RingWhole(c))

\* It is free to be called.
Called == pc = "ready" /\ calls < MaxCalls /\ calls' = calls + 1

Init ==
    /\ disk = Image /\ cache = Empty(Garbage)
    /\ pc = "off" /\ block = 0
    /\ g_super_block = SuperBlock /\ g_imap = <<>> /\ g_zmap = <<>>
    /\ g_inode_table = [i \in 0..g_super_block.num_inodes |-> NoInode]
    /\ stack = <<>> /\ listed = <<>> /\ found = NoPath /\ calls = 0 /\ lost = FALSE
    /\ was = [i \in 1..g_super_block.num_inodes |-> DiskInode(i)] /\ text = Image

\* Mutant: the inodes go to the beginning of g_inode_table.
init_fs_FromZero ==
    /\ pc = "off"
    /\ \E s \in {read_block(Begin(cache, disk, NoFault), kSuperBlockBNO)} :
       LET sb == Item(s, s.ret, 0) IN
       \E inodes \in {read_blocks([s EXCEPT !.cb = TRUE], inode_start(sb), sb.num_inodes)} :
       \E imap \in {read_blocks(inodes.c, imap_start, sb.num_inodes \div kByte)} :
       \E zmap \in {read_blocks(imap.c, zmap_start(sb), sb.num_zones \div kByte)} :
           /\ g_super_block' = sb
           /\ g_inode_table' = [i \in 0..(sb.num_inodes - 1) |-> inodes.items[i + 1]]
           /\ g_imap' = imap.items /\ g_zmap' = zmap.items
           /\ Quiet(zmap.c)
    /\ pc' = "ready"
    /\ was' = g_inode_table'
    /\ UNCHANGED <<block, stack, listed, found, calls, text>>

\* read_block of the super block comes before the callback is set.
init_fs ==
    /\ pc = "off"
    /\ \E s \in {read_block(Begin(cache, disk, NoFault), kSuperBlockBNO)} :
       LET sb == Item(s, s.ret, 0) IN
       \E inodes \in {read_blocks([s EXCEPT !.cb = TRUE], inode_start(sb), sb.num_inodes)} :
       \E imap \in {read_blocks(inodes.c, imap_start, sb.num_inodes \div kByte)} :
       \E zmap \in {read_blocks(imap.c, zmap_start(sb), sb.num_zones \div kByte)} :
           /\ g_super_block' = sb
           /\ g_inode_table' = [i \in 0..sb.num_inodes |->
                                   IF i = 0 THEN NoInode ELSE inodes.items[i]]
           /\ g_imap' = imap.items /\ g_zmap' = zmap.items
           /\ Quiet(zmap.c)
    /\ pc' = "ready"
    /\ was' = g_inode_table'
    /\ UNCHANGED <<block, stack, listed, found, calls, text>>

\* A frame of list_entries: the directory, the entry to visit next, the buffer
\* that entry points into.
Frame(c, ino) == [dir |-> ino, i |-> 0, node |-> c.ret]

\* A line that list_entries prints.
Line(name, node) == [name |-> name, size |-> node.size, dir |-> is_directory(node)]

ListEntries ==
    /\ Called
    /\ \E c \in {read_zone(Begin(cache, disk, NoFault), g_inode_table[kRootINO], 0)} :
           Quiet(c) /\ stack' = <<Frame(c, kRootINO)>>
    /\ pc' = "list" /\ found' = NoPath
    /\ UNCHANGED <<block, tables, listed, was, text>>

\* One turn of the loop.  The callback skips entries that start with a dot,
\* prints the others, and lists the sub-directories among them.  What is read
\* through a stale pointer may be no entry.
TraverseDir ==
    /\ pc = "list" /\ stack # <<>> /\ Last(stack).i < g_inode_table[Last(stack).dir].size
    /\ LET f == Last(stack) IN
       \E z \in {NextZone(Begin(cache, disk, NoFault), f.node, g_inode_table[f.dir], f.i)} :
       LET frames == Append(Front(stack), [f EXCEPT !.i = @ + 1, !.node = z.node])
           entry == Item(z.c, z.node, f.i % kPerBlock)
           node == g_inode_table[entry.inode]
       IN  \/ /\ "name" \notin DOMAIN entry
              /\ pc' = "wild" /\ Quiet(z.c) /\ UNCHANGED <<stack, listed>>
           \/ /\ "name" \in DOMAIN entry /\ Head(entry.name) = "."
              /\ Quiet(z.c) /\ stack' = frames /\ UNCHANGED <<pc, listed>>
           \/ /\ "name" \in DOMAIN entry /\ Head(entry.name) # "."
              /\ listed' = Append(listed, Line(entry.name, node)) /\ UNCHANGED pc
              /\ \/ /\ is_directory(node)
                    /\ \E d \in {read_zone(z.c, node, 0)} :
                           Quiet(d) /\ stack' = Append(frames, Frame(d, entry.inode))
                 \/ /\ ~is_directory(node)
                    /\ Quiet(z.c) /\ stack' = frames
    /\ UNCHANGED <<block, tables, found, calls, was, text>>

ListEnd ==
    /\ pc = "list" /\ stack # <<>> /\ Last(stack).i = g_inode_table[Last(stack).dir].size
    /\ stack' = Front(stack)
    /\ UNCHANGED <<cache, disk, pc, block, tables, listed, found, calls, lost, was, text>>

ListReturn ==
    /\ pc = "list" /\ stack = <<>>
    /\ pc' = "ready" /\ listed' = <<>>
    /\ UNCHANGED <<cache, disk, block, tables, stack, found, calls, lost, was, text>>

\* The memory at address 0 is not an inode: read as one, it is a directory or
\* it is not.
Outcomes(r) == {"ready"} \cup (IF r.null THEN {"wild"} ELSE {})

Namei(path) ==
    /\ Called
    /\ \E r \in {namei(Begin(cache, disk, NoFault), path)} :
           /\ Quiet(r.c)
           /\ found' = [path |-> path, ino |-> r.ino]
           /\ pc' \in Outcomes(r)
    /\ UNCHANGED <<block, tables, stack, listed, was, text>>

\* test_fs: overwrite the beginning of the file, set its size, write the block
Edit(path) ==
    /\ Called
    /\ \E r \in {namei(Begin(cache, disk, NoFault), path)} :
       LET node == g_inode_table[r.ino]
           b == node.zone[0]
           edit(z) == SetBuffer(z, b, [Buffer(z, b) EXCEPT ![0] = Edited])
       IN  /\ found' = [path |-> path, ino |-> r.ino]
           /\ pc' \in Outcomes(r)
           /\ IF r.ino = None THEN Quiet(r.c) /\ UNCHANGED <<g_inode_table, text>>
              ELSE /\ Quiet(write_block(edit(read_zone(r.c, node, 0)), b))
                   /\ g_inode_table' = [g_inode_table EXCEPT ![r.ino].size = 12]
                   /\ text' = [text EXCEPT ![b][0] = Edited]
    /\ UNCHANGED <<block, g_super_block, g_imap, g_zmap, stack, listed, was>>

SyncAll ==
    /\ Called
    /\ pc' = "super" /\ block' = 0 /\ found' = NoPath
    /\ UNCHANGED <<cache, disk, tables, stack, listed, lost, was, text>>

SyncBlock ==
    /\ pc \in DOMAIN After
    /\ LET t == Table(pc)
           done == block + 1 = BlocksFor(Len(t.items))
       IN  /\ Quiet(write_blocks(Begin(cache, disk, NoFault), t, block))
           /\ block' = IF done THEN 0 ELSE block + 1
           /\ pc' = IF done THEN After[pc] ELSE pc
    /\ was' = IF pc' = "ready" THEN g_inode_table ELSE was
    /\ UNCHANGED <<tables, stack, listed, found, calls, text>>

\* The machine stops, and starts with a cold cache.
PowerOff ==
    /\ pc # "off"
    /\ pc' = "off" /\ block' = 0 /\ cache' = Empty(Garbage)
    /\ stack' = <<>> /\ listed' = <<>> /\ found' = NoPath
    /\ calls' = 0 /\ lost' = FALSE
    /\ UNCHANGED <<disk, tables, was, text>>

Next ==
    \/ init_fs \/ ListEntries \/ TraverseDir \/ ListEnd \/ ListReturn
    \/ \E path \in Paths : Namei(path)
    \/ \E path \in EditPaths : Edit(path)
    \/ SyncAll \/ SyncBlock \/ PowerOff

Spec == Init /\ [][Next]_vars

--------------------------------------------------------------------------------
TypeOK ==
    /\ cache.prev \in [Nodes -> Nodes \cup {Null}] /\ cache.next \in [Nodes -> Nodes \cup {Null}]
    /\ cache.key \in [Nodes -> Blocks \cup {0}] /\ cache.count \in 0..N /\ ~cache.halted
    /\ cache.val \in [Nodes -> Data] /\ disk \in [Blocks -> Data]
    /\ pc \in {"off", "ready", "list", "wild"} \cup DOMAIN After
    /\ block \in Nat /\ (pc \in DOMAIN After => Table(pc).start + block \in Blocks)
    /\ DOMAIN g_inode_table = 0..g_super_block.num_inodes
    /\ stack \in Seq([dir : DOMAIN g_inode_table, i : Nat, node : Nodes])
    /\ found.ino \in DOMAIN g_inode_table \cup {None}

\* traverse_dir goes on reading entries from a buffer after its callback has
\* read other blocks, and nothing pins the buffer.  Whenever such a pointer is
\* still to be used, its buffer holds the block it was read for, because the
\* cache evicts the least recently used block and a sub-tree has fewer blocks
\* than the cache has buffers -- as long as no buffer has dropped out of the
\* cache's ring, of which there are then fewer (see RingWhole).
PointersFresh ==
    ~lost => \A k \in DOMAIN stack :
        LET f == stack[k]
            dir == g_inode_table[f.dir]
        IN  f.i < dir.size /\ f.i % kPerBlock # 0
            => cache.val[f.node] = Image[ZoneBlock(dir, f.i \div kPerBlock)]

\* The inodes that a name leads to from an inode: one, or none; all, where the
\* name of an earlier entry is a beginning of it.
Named(inode, name) == {i \in 0..(inode.size - 1) : EntryAt(inode, i).name = name}
Shadowed(inode, name) ==
    \E i \in 0..(inode.size - 1) : /\ IsStrictPrefix(EntryAt(inode, i).name, name)
                                   /\ \A j \in Named(inode, name) : i < j
Leads(ino, name) ==
    LET inode == InodeOf(ino)
    IN  IF ino = None \/ ~is_directory(inode) THEN {None}
        ELSE IF Shadowed(inode, name) THEN {0, None} \cup Inos
        ELSE IF Named(inode, name) = {} THEN {None}
        ELSE {EntryAt(inode, Min(Named(inode, name))).inode}

Walk(path) ==
    LET after[k \in 0..Len(path)] ==
            IF k = 0 THEN {kRootINO}
            ELSE UNION {Leads(ino, path[k]) : ino \in after[k - 1]}
    IN  after[Len(path)]

\* find_entry takes an entry whose name is only a beginning of the name it is
\* asked for, and namei does not test for a missing directory.  Where no name
\* is a beginning of another, namei returns the inode that the path names, and
\* null for a path that names none.
NameiRight == pc = "ready" /\ found.path # <<>> => found.ino \in Walk(found.path)

\* Between two syncs the disk holds the inodes of the last one; if power fails
\* during a sync, every inode on it is the old one or the new one.  The items
\* that the tables do not cover are lost when write_blocks gets a buffer that
\* was never read, but no directory, index or text is, nor any other table.
Durable ==
    /\ \A i \in Inos :
           \/ DiskInode(i) = was[i]
           \/ pc \in {"inodes", "off"} /\ DiskInode(i) = g_inode_table[i]
    /\ \A b \in DataBlocks : disk[b] = text[b]
    /\ disk[kSuperBlockBNO][0] = SuperBlock
    /\ \A i \in 0..(SuperBlock.num_inodes \div kByte - 1) :
           At(disk, imap_start, i) = At(Image, imap_start, i)
    /\ \A i \in 0..(SuperBlock.num_zones \div kByte - 1) :
           At(disk, zmap_start(SuperBlock), i) = At(Image, zmap_start(SuperBlock), i)

================================================================================
