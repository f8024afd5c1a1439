-------------------------------- MODULE LruCache -------------------------------
(*****************************************************************************)
(* LRUCache (include/lrucache.hpp), an open-addressing hash table of list    *)
(* nodes that are also linked into a ring, oldest at queue_, and the three   *)
(* functions of lib/fs.cc that use it for blocks.  When the table is full,   *)
(* Set evicts the front node, and the uncache callback re-enters the cache   *)
(* (write_block, Get) in the middle of the eviction.                         *)
(*                                                                           *)
(* One thread uses the file system, so an operation is an operator from      *)
(* cache state to cache state that follows the code's pointer assignments;   *)
(* BlockCache and Fs make actions of them.  The disk travels with the cache  *)
(* as c.disk, because the callback writes it.  The drive may fail to         *)
(* transfer block c.fault; none of these functions looks at the result.      *)
(*****************************************************************************)
EXTENDS Integers, FiniteSets, FiniteSetsExt

CONSTANTS
    N,          \* buffers in the cache
    Blocks,     \* block numbers on the disk
    Data        \* what a block can hold

ASSUME CacheAssumption == N \in Nat /\ N >= 2 /\ Blocks \subseteq Nat \ {0}

Null  == 0
Nodes == 1..N           \* in the order new ListNode() makes them
Index == 0..(N - 1)

\* An empty cache; garbage is what new memory holds.
Empty(garbage) ==
    [prev |-> [x \in Nodes |-> Null], next |-> [x \in Nodes |-> Null],
     key |-> [x \in Nodes |-> 0], val |-> [x \in Nodes |-> garbage],
     table |-> [h \in Index |-> Null], queue |-> Null, free |-> Null,
     made |-> 0, count |-> 0, cb |-> FALSE, halted |-> FALSE]

NoFault == -1

\* An operation starts in this state.
Begin(cache, disk, fault) ==
    [prev |-> cache.prev, next |-> cache.next, key |-> cache.key, val |-> cache.val,
     table |-> cache.table, queue |-> cache.queue, free |-> cache.free,
     made |-> cache.made, count |-> cache.count, cb |-> cache.cb, halted |-> cache.halted,
     disk |-> disk, fault |-> fault, failed |-> {}, ret |-> Null]

\* And leaves this cache behind.
End(c) ==
    [prev |-> c.prev, next |-> c.next, key |-> c.key, val |-> c.val, table |-> c.table,
     queue |-> c.queue, free |-> c.free, made |-> c.made, count |-> c.count, cb |-> c.cb,
     halted |-> c.halted]

--------------------------------------------------------------------------------
hash(k) == k % N
Slot(k, i) == (hash(k) + i) % N     \* after i calls of rehash

\* Mutant: the node is counted out twice.
detach_CountsTwice(c, x) ==
    LET n == [c.next EXCEPT ![c.prev[x]] = c.next[x]]
        p == [c.prev EXCEPT ![n[x]] = c.prev[x]]
    IN  [c EXCEPT !.next = n, !.prev = p, !.count = @ - 2]

detach(c, x) ==
    LET n == [c.next EXCEPT ![c.prev[x]] = c.next[x]]
        p == [c.prev EXCEPT ![n[x]] = c.prev[x]]
    IN  [c EXCEPT !.next = n, !.prev = p, !.count = @ - 1]

push_back(c, x) ==
    IF c.count >= N THEN [c EXCEPT !.halted = TRUE]
    ELSE IF c.queue = Null
    THEN [c EXCEPT !.count = @ + 1, !.queue = x, !.prev[x] = x, !.next[x] = x]
    ELSE LET last == c.prev[c.queue]
             n == [[c.next EXCEPT ![last] = x] EXCEPT ![x] = c.queue]
             p == [[c.prev EXCEPT ![x] = last] EXCEPT ![c.queue] = x]
         IN  [c EXCEPT !.count = @ + 1, !.next = n, !.prev = p]

pop_front(c) ==
    LET last == c.prev[c.queue]
        successor == c.next[c.queue]
    IN  [c EXCEPT !.count = @ - 1, !.prev[successor] = last,
                  !.next[last] = successor, !.queue = successor]

\* if (node == queue_) queue_ = queue_->next
Advance(c, x) == IF x = c.queue THEN [c EXCEPT !.queue = c.next[x]] ELSE c

\* The argument is a table index.
Promote(c, h) ==
    LET x == c.table[h] IN push_back(Advance(detach(c, x), x), x)

\* The table index at which Get finds k, or none.
Ends(c, k) ==
    {i \in Index : c.table[Slot(k, i)] = Null \/ c.key[c.table[Slot(k, i)]] = k}
Hit(c, k) == Ends(c, k) # {} /\ c.table[Slot(k, Min(Ends(c, k)))] # Null
Find(c, k) == Slot(k, Min(Ends(c, k)))

\* Get, its result then being Buffer(c, k).
Get(c, k) == IF Hit(c, k) THEN Promote(c, Find(c, k)) ELSE c
Buffer(c, k) == c.val[c.table[Find(c, k)]]

\* The drive fails to transfer block c.fault: what is left at the destination.
Transferred(c, b, from, to) == IF b = c.fault THEN to ELSE from
Failing(c, b) == {b} \cap {c.fault}

ide_write_secs(c, b) ==
    [c EXCEPT !.disk[b] = Transferred(c, b, Buffer(c, b), @), !.failed = @ \cup Failing(c, b)]

\* bool write_block(uint32_t bno), the body of the uncache callback too
write_block(c, b) == IF Hit(c, b) THEN ide_write_secs(Get(c, b), b) ELSE c

Pool(c, x) == [c EXCEPT !.next[x] = c.free, !.free = x]

\* Mutant: the callback is not called.
free_NoCallback(c, x) == Pool(c, x)

free(c, x) == Pool(IF c.cb THEN write_block(c, c.key[x]) ELSE c, x)

\* Its loop has no test for an empty slot: k must be there.
erase(c, k) ==
    IF ~Hit(c, k) THEN [c EXCEPT !.halted = TRUE]
    ELSE [free(c, c.table[Find(c, k)]) EXCEPT !.table[Find(c, k)] = Null]

\* Mutant: eviction starts one entry early.
Evict_Early(c) == IF c.count >= N - 1 THEN erase(pop_front(c), c.key[c.queue]) ELSE c

\* Mutant: the youngest entry is evicted.
Evict_Youngest(c) ==
    LET last == c.prev[c.queue]
    IN  IF c.count >= N THEN erase(detach(c, last), c.key[last]) ELSE c

Evict(c) == IF c.count >= N THEN erase(pop_front(c), c.key[c.queue]) ELSE c

\* alloc() into the empty slot h, then push_back, the key, Promote
Fill(c, h, k) ==
    LET fresh == c.free = Null
        x == IF fresh THEN c.made + 1 ELSE c.free
        a == IF fresh THEN [c EXCEPT !.made = x] ELSE [c EXCEPT !.free = c.next[x]]
        b == push_back([a EXCEPT !.table[h] = x], x)
    IN  Promote([b EXCEPT !.key[x] = k], h)

Insert(c, k) ==
    LET empty == {i \in Index : c.table[Slot(k, i)] = Null}
    IN  IF c.halted \/ empty = {} THEN [c EXCEPT !.halted = TRUE]
        ELSE Fill(c, Slot(k, Min(empty)), k)

\* Set(k, nullptr), called Alloc
Alloc(c, k) == Insert(Evict(c), k)

\* The nodes from queue_ on, and those of the table: a node in the table only
\* cannot come to the front, so its block is not evicted until it is hit again.
InRing(c) ==
    LET at[i \in 0..N] == IF i = 0 THEN c.queue ELSE c.next[at[i - 1]]
    IN  {at[i] : i \in 0..N}
InTable(c) == {c.table[h] : h \in Index} \ {Null}

\* "LRU cache": the queue holds every buffer in use, so that each is evicted
\* in its turn.  The callback that free calls promotes the evicted node, which
\* pop_front has unlinked, back into the ring; pushed once more by Set it is
\* its own predecessor, and when it is promoted next, the nodes after it drop
\* out of the ring, until they are hit again.
RingWhole(c) == c.queue # Null => InRing(c) = InTable(c)

--------------------------------------------------------------------------------
(* The block operations of fs.cc.  c.ret is the node of the buffer returned.  *)

Returned(c, b) == IF c.halted THEN c ELSE [c EXCEPT !.ret = c.table[Find(c, b)]]

get_block(c, b) == Returned(IF Hit(c, b) THEN Get(c, b) ELSE Alloc(c, b), b)

SetBuffer(c, b, data) == [c EXCEPT !.val[c.table[Find(c, b)]] = data]

\* into the buffer returned
ide_read_secs(c, b) ==
    IF c.halted THEN c
    ELSE [c EXCEPT !.failed = @ \cup Failing(c, b),
                   !.val[c.ret] = Transferred(c, b, c.disk[b], @)]

read_block(c, b) ==
    IF Hit(c, b) THEN Returned(Get(c, b), b)
    ELSE ide_read_secs(Returned(Alloc(c, b), b), b)

================================================================================
