---------------------------------- MODULE Heap ---------------------------------
(*****************************************************************************)
(* The kernel heap: ImplicitListAllocator (include/ILAllocator.hpp) as used  *)
(* by kmalloc and kfree.  Addresses and sizes are bytes, as in the code.     *)
(* Everything is aligned to 2 and a header may be written across another, so *)
(* memory is an array of 16-bit halves, HALF values each; a word is two of   *)
(* them and all arithmetic is modulo WORD.  Payload bytes are not modelled.  *)
(* Callers free only what they hold.  Both functions run with interrupts on: *)
(* they take one action for each header they read or write, and the threads  *)
(* that call them interleave.                                                *)
(*****************************************************************************)
EXTENDS Integers, FiniteSets

CONSTANTS
    HALF,       \* 2^16
    kHeapStart,
    kHeapEnd,
    Sizes,      \* the sizes callers ask for
    Threads,
    MaxLive,    \* bound: the blocks callers hold at a time
    EndWords,   \* what the word at kHeapEnd may hold: it is never initialised
    MaxDamage   \* bound: the writes followed from the first damaging one on

VARIABLES
    mem,        \* the halves of the heap and of the word behind it
    call,       \* the call each thread is in, and its locals
    live,       \* history: what callers hold, [pos, size]
    damage,     \* history: writes since a remainder wrapped around, a free read
                \* past the heap, or an alloc overlapped another call
    lost        \* a walk has left the heap

vars == <<mem, call, live, damage, lost>>

WORD == HALF * HALF

ASSUME HeapAssumption ==
    /\ HALF \in Nat /\ HALF % 2 = 0
    /\ kHeapStart \in Nat /\ kHeapEnd \in Nat
    /\ kHeapStart % 2 = 0 /\ kHeapEnd % 2 = 0
    /\ kHeapStart + 4 < kHeapEnd /\ kHeapEnd + 4 < WORD
    /\ Sizes \subseteq 0..(WORD - 2)  \* nobody asks for 2^32 - 1 bytes: Aligned makes it 0
    /\ EndWords \subseteq 0..(WORD - 1)
    /\ MaxLive \in Nat /\ MaxDamage \in Nat

Cells   == {a \in kHeapStart..(kHeapEnd + 2) : a % 2 = 0}
Headers == {a \in Cells : a + 2 \in Cells}

kFree == 0
kAllocated == 1

\* No call.
None == [in |-> "none"]

--------------------------------------------------------------------------------
\* Mutant: the length with the header is recorded.
record_WithHeader(m, block, size, allocated) ==
    [a \in Cells |->
        IF a = block THEN (size + 4 + allocated) % HALF
        ELSE IF a = block + 2 THEN (size + 4 + allocated) \div HALF
        ELSE m[a]]

record(m, block, size, allocated) ==
    [a \in Cells |->
        IF a = block THEN (size + allocated) % HALF
        ELSE IF a = block + 2 THEN (size + allocated) \div HALF
        ELSE m[a]]

Header(block) == mem[block] + HALF * mem[block + 2]

size_of_block(block) == Header(block) - (Header(block) % 2)
is_allocated(block)  == Header(block) % 2 = 1
slice_block(block, size) == (block + size + 4) % WORD
next_block(block) == (block + size_of_block(block) + 4) % WORD

\* uint32_t: a half-aligned size; the addition wraps.
Aligned(size) == IF size % 2 = 1 THEN (size + 1) % WORD ELSE size

Fits(block, size) == size_of_block(block) >= size /\ ~is_allocated(block)

remain_size(block_size, size) == (block_size - 4 - size) % WORD

--------------------------------------------------------------------------------
\* The constructor, run by init_heap.
Init ==
    /\ \E w \in EndWords :
         mem = record(record([a \in Cells |-> 0], kHeapEnd, w, 0),
                      kHeapStart, kHeapEnd - kHeapStart - 4, kFree)
    /\ call = [t \in Threads |-> None]
    /\ live = {}
    /\ damage = 0
    /\ lost = FALSE

Locals(t, c) == call' = [call EXCEPT ![t] = c]
Damaged(now) == damage' = IF now \/ damage > 0 THEN damage + 1 ELSE 0

\* An alloc of t or of another thread is in progress besides another call.
Overlap(t) ==
    \E u \in Threads \ {t} : call[u] # None /\ "alloc" \in {call[t].in, call[u].in}

--------------------------------------------------------------------------------
(* void* alloc(uint32_t size)                                                *)

alloc(t, request) ==
    /\ call[t] = None
    /\ Locals(t, [in |-> "alloc", at |-> "walk", request |-> request, cur |-> kHeapStart])
    /\ UNCHANGED <<mem, live, damage, lost>>

\* One turn of the loop: return nullptr at mend_, go on, or stop at a block
\* that is free and large enough.
AllocWalk(t) ==
    LET c == call[t] IN
    /\ c.in = "alloc" /\ c.at = "walk"
    /\ \/ /\ c.cur = kHeapEnd
          /\ Locals(t, None) /\ UNCHANGED lost
       \/ /\ c.cur # kHeapEnd /\ c.cur \notin Headers
          /\ lost' = TRUE /\ UNCHANGED call
       \/ /\ c.cur \in Headers \ {kHeapEnd} /\ UNCHANGED lost
          /\ Locals(t, IF Fits(c.cur, Aligned(c.request))
                       THEN [in |-> "alloc", at |-> "take", request |-> c.request,
                             cur |-> c.cur, found |-> size_of_block(c.cur)]
                       ELSE [c EXCEPT !.cur = next_block(c.cur)])
    /\ UNCHANGED <<mem, live, damage>>

\* The block found is cut to size, or taken whole.
AllocTake(t) ==
    LET c == call[t]
        size == Aligned(c.request)
        cut == remain_size(c.found, size) > 0
    IN  /\ c.in = "alloc" /\ c.at = "take"
        /\ mem' = record(mem, c.cur, IF cut THEN size ELSE c.found, kAllocated)
        /\ live' = live \cup {[pos |-> c.cur + 4, size |-> c.request]}
        /\ Locals(t, IF cut THEN [c EXCEPT !.at = "rest"] ELSE None)
        /\ Damaged(Overlap(t))
        /\ UNCHANGED lost

\* The rest becomes a free block.
AllocRest(t) ==
    LET c == call[t]
        size == Aligned(c.request)
        rest == remain_size(c.found, size)
    IN  /\ c.in = "alloc" /\ c.at = "rest"
        /\ mem' = record(mem, slice_block(c.cur, size), rest, kFree)
        /\ Locals(t, None)
        /\ Damaged(Overlap(t) \/ rest > c.found)
        /\ UNCHANGED <<live, lost>>

--------------------------------------------------------------------------------
(* void free(void* pos), of what the caller holds                            *)

\* Mutant: the test is the wrong way round.
Merges_Allocated(block) == is_allocated(next_block(block))

Merges(block) == ~is_allocated(next_block(block))

free(t, l) ==
    LET block == l.pos - 4
    IN  /\ call[t] = None
        /\ IF next_block(block) \notin Headers
           THEN lost' = TRUE /\ UNCHANGED <<call, live>>
           ELSE /\ Locals(t, [in |-> "free", block |-> block, merge |-> Merges(block)])
                /\ live' = live \ {l}
                /\ UNCHANGED lost
        /\ UNCHANGED <<mem, damage>>

FreeRecord(t) ==
    LET c == call[t]
        next == next_block(c.block)
        size == size_of_block(c.block)
    IN  /\ c.in = "free"
        /\ IF c.merge /\ next \notin Headers
           THEN lost' = TRUE /\ UNCHANGED <<mem, call>>
           ELSE /\ mem' = record(mem, c.block,
                                 IF c.merge THEN (size + 4 + size_of_block(next)) % WORD
                                 ELSE size, kFree)
                /\ Locals(t, None)
                /\ UNCHANGED lost
        /\ Damaged(Overlap(t) \/ (c.merge /\ next = kHeapEnd))
        /\ UNCHANGED live

Step(t) ==
    \/ Cardinality(live) < MaxLive /\ \E size \in Sizes : alloc(t, size)
    \/ AllocWalk(t) \/ AllocTake(t) \/ AllocRest(t)
    \/ \E l \in live : free(t, l)
    \/ FreeRecord(t)

Next == ~lost /\ damage < MaxDamage /\ \E t \in Threads : Step(t)

Spec == Init /\ [][Next]_vars

--------------------------------------------------------------------------------
Words == 0..(WORD - 1)

Calls ==
    {None}
    \cup [in : {"alloc"}, at : {"walk"}, request : Sizes, cur : Words]
    \cup [in : {"alloc"}, at : {"take", "rest"}, request : Sizes, cur : Headers, found : Words]
    \cup [in : {"free"}, block : Headers, merge : BOOLEAN]

TypeOK ==
    /\ mem \in [Cells -> 0..(HALF - 1)]
    /\ live \subseteq [pos : {b + 4 : b \in Headers}, size : Sizes]
    /\ damage \in 0..MaxDamage
    /\ lost \in BOOLEAN
    /\ call \in [Threads -> Calls]

\* The walk from mstart_, the n-th block at index n; one that has left the heap
\* stays where it left.
MaxWalk == Cardinality(Headers)
Onward(block) == IF block \in Headers THEN next_block(block) ELSE block
Walk[n \in 0..MaxWalk] == IF n = 0 THEN kHeapStart ELSE Onward(Walk[n - 1])

\* The visits before mend_, and the blocks found there.
Visits == {n \in 0..MaxWalk : \A m \in 0..n : Walk[m] # kHeapEnd}
Blocks == {Walk[n] : n \in Visits}

BeingFreed == {call[t].block : t \in {t \in Threads : call[t].in = "free"}}
Cutting == \E t \in Threads : call[t].in = "alloc" /\ call[t].at = "rest"

\* Any number of threads may free at the same time.  As long as no alloc
\* overlaps another call, no allocation is a tight fit (a block with no room
\* for the header of a remainder) and no free looks behind the heap, the blocks
\* tile the heap, so that alloc's walk ends at mend_, and the allocated ones
\* are exactly those that callers hold or are giving back, each held once and
\* large enough.
HeapSound ==
    damage = 0 /\ ~Cutting =>
        /\ ~lost
        /\ \E n \in 0..MaxWalk : Walk[n] = kHeapEnd
        /\ \A n \in Visits : Walk[n] \in Headers /\ Walk[n] < next_block(Walk[n])
        /\ {b \in Blocks : is_allocated(b)} = {l.pos - 4 : l \in live} \cup BeingFreed
        /\ \A l, k \in live : l.pos = k.pos => l = k
        /\ \A l \in live : size_of_block(l.pos - 4) >= l.size

\* In the same states, also while an alloc is cutting its block, what callers
\* hold lies in the heap, and no two hold a byte in common or one of them the
\* header of the other's.
BlocksApart ==
    damage = 0 =>
        /\ \A l \in live : l.pos + l.size <= kHeapEnd
        /\ \A l, k \in live : l.pos < k.pos => l.pos + l.size <= k.pos - 4

\* "the first four byte of each block, tells whether this block is allocated,
\* and its size": the header of a block a caller holds says so.
HeaderTellsAllocated ==
    \A l \in live : is_allocated(l.pos - 4) /\ size_of_block(l.pos - 4) >= l.size

================================================================================
