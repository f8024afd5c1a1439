------------------------------- MODULE BlockCache ------------------------------
(*****************************************************************************)
(* The block layer of the file system (lib/fs.cc, first part) under every    *)
(* sequence of operations on single blocks, with a drive that may fail.      *)
(*                                                                           *)
(* A block's data is the first bytes (whose they are, and a version), which  *)
(* callers overwrite, and the rest of it (whose it is).                      *)
(*****************************************************************************)
EXTENDS LruCache

CONSTANTS
    Written,            \* bound: the blocks that callers write to
    Unreliable,         \* the blocks whose transfer may fail
    kSuperBlockBNO

VARIABLES
    cache,      \* g_block_cache and its nodes
    disk,       \* disk[b]: data of block b
    version,    \* history: the version last written to each block by a caller
    spoilt      \* history: blocks written through a buffer that was never read,
                \* and blocks whose transfer has failed

vars == <<cache, disk, version, spoilt>>

ASSUME BlocksAssumption ==
    /\ kSuperBlockBNO \in Blocks
    /\ Written \subseteq Blocks /\ Unreliable \subseteq Blocks

BlockData == [head : Blocks \cup {-1}, ver : {0, 1}, rest : Blocks \cup {-1}]

ASSUME DataAssumption == Data = BlockData

Garbage == [head |-> -1, ver |-> 0, rest |-> -1]
Whole(b, v) == [head |-> b, ver |-> v, rest |-> b]

\* memcpy of a caller's new first bytes into the buffer of b
Overwrite(c, b) ==
    IF c.halted THEN c
    ELSE SetBuffer(c, b, [head |-> b, ver |-> 1 - version[b], rest |-> Buffer(c, b).rest])

\* An operation ends in state c, having overwritten the blocks bs and spoilt ts.
Done(c, bs, ts) ==
    /\ disk' = c.disk
    /\ cache' = End(c)
    /\ version' = [b \in Blocks |-> IF b \in bs THEN 1 - version[b] ELSE version[b]]
    /\ spoilt' = spoilt \cup ts \cup c.failed

Init ==
    /\ disk = [b \in Blocks |-> Whole(b, 0)]
    /\ cache = Empty(Garbage)
    /\ version = [b \in Blocks |-> 0]
    /\ spoilt = {}

\* init_fs reads the super block, then sets the callback; the blocks it reads
\* after that are ReadBlock steps.
init_fs(c) ==
    /\ ~cache.cb
    /\ Done([read_block(c, kSuperBlockBNO) EXCEPT !.cb = TRUE], {}, {})

ReadBlock(c, b) == Done(read_block(c, b), {}, {})

\* A caller changes the buffer that read_block returned (as test_fs does).
ModifyBlock(c, b) == Done(Overwrite(read_block(c, b), b), {b}, {})

WriteBlock(c, b) == Hit(c, b) /\ Done(write_block(c, b), {}, {})

\* sync_super_block, write_blocks: get_block, memcpy of a part, write_block
SyncBlock(c, b) ==
    Done(write_block(Overwrite(get_block(c, b), b), b), {b}, IF Hit(c, b) THEN {} ELSE {b})

\* Bound: of a block that is spoilt already no further failure is followed.
Next ==
    \E fault \in (Unreliable \ spoilt) \cup {NoFault} : LET c == Begin(cache, disk, fault) IN
        \/ init_fs(c)
        \/ /\ cache.cb /\ ~cache.halted
           /\ \/ \E b \in Blocks : ReadBlock(c, b)
              \/ \E b \in Written : ModifyBlock(c, b) \/ WriteBlock(c, b) \/ SyncBlock(c, b)

Spec == Init /\ [][Next]_vars

--------------------------------------------------------------------------------
TypeOK ==
    /\ cache.prev \in [Nodes -> Nodes \cup {Null}] /\ cache.next \in [Nodes -> Nodes \cup {Null}]
    /\ cache.key \in [Nodes -> Blocks \cup {0}] /\ cache.val \in [Nodes -> Data]
    /\ cache.table \in [Index -> Nodes \cup {Null}]
    /\ {cache.queue, cache.free} \subseteq Nodes \cup {Null}
    /\ cache.made \in 0..N /\ cache.count \in 0..N
    /\ disk \in [Blocks -> Data]
    /\ version \in [Blocks -> {0, 1}] /\ spoilt \subseteq Blocks

Filled == {h \in Index : cache.table[h] # Null}
KeyAt(h) == cache.key[cache.table[h]]

\* Erasing leaves holes in the probe chains of an open-addressing table; that
\* is harmless here only because Set erases just before it fills a table that
\* was full.  So every entry stays reachable by probing, no block has two
\* buffers, count_ counts the entries, no assert fires, and the node at the
\* front of the ring is one that erase will find.
TableSound ==
    /\ ~cache.halted
    /\ \A h \in Filled : Hit(cache, KeyAt(h)) /\ Find(cache, KeyAt(h)) = h
    /\ \A g, h \in Filled : cache.table[g] = cache.table[h] => g = h
    /\ cache.count = Cardinality(Filled)
    /\ Filled # {} => cache.queue \in {cache.table[h] : h \in Filled}

\* What a caller wrote to a block last is in its buffer if it is cached and on
\* the disk if not, through every eviction.  Nobody looks at the result of a
\* transfer, and get_block hands out buffers unread; that harms the block
\* itself, but no other one, although the buffer that a failed read leaves
\* stale, or that a failed write did not save, is passed on to another block.
Current(b) == IF Hit(cache, b) THEN Buffer(cache, b) ELSE disk[b]

NoLostUpdate == \A b \in Blocks \ spoilt : Current(b) = Whole(b, version[b])

\* "LRU cache" (lrucache.hpp), of the block cache: see RingWhole.
EveryBufferQueued == RingWhole(cache)

================================================================================
