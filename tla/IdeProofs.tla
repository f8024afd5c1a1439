-------------------------------- MODULE IdeProofs ------------------------------
(*****************************************************************************)
(* Proofs about the disk driver, for every size of the disk, of a chunk and  *)
(* of the requests, whichever sectors fail and however the drive's work and  *)
(* the driver's interleave.                                                  *)
(*****************************************************************************)
EXTENDS Ide, TLAPS

Datum == (-1..MaxRequests) \X Sectors
Ops == {"none", "read", "write"}

\* The shape of what TypeOK only bounds.
Shapes ==
    /\ req \in [op : Ops, secno : Sectors, nsecs : {0} \cup Sizes, ret : {0, -1}]
    /\ buffer \in [Places -> Datum] /\ disk \in [Sectors -> Datum]
    /\ drive \in [busy : BOOLEAN, err : BOOLEAN, op : Ops, lba : 0..MAX_DISK_NSECS,
                  left : 0..SECCNT, data : Datum]

Single == req.nsecs <= kMaxSectors

\* The loops of the driver count the sectors of the request down.
Counted ==
    /\ secno = req.secno /\ req.secno + req.nsecs <= MAX_DISK_NSECS
    /\ Waiting =>
         /\ req.op # "none" /\ req.ret = 0 /\ count >= 1
         /\ n >= 1 /\ pos + n + nsecs = req.nsecs
         /\ Single => nsecs = 0
    /\ pc = "command" /\ Single => pos = 0
    /\ pc \in {"off", "idle"} /\ req.ret = 0 => pos = req.nsecs
    /\ pc = "off" => req.op = "none"

\* The drive has nothing to do, or has yet to store the last sector that it
\* was given.
Resting == IF Storing THEN drive.left = 1 ELSE ~drive.busy /\ drive.left = 0

\* The drive follows the driver.
Follows ==
    /\ drive.err => ~drive.busy /\ drive.left = 0
    /\ pc # "data" => Resting
    /\ pc = "data" /\ ~drive.err =>
         drive.op = req.op /\ drive.left = IF Storing THEN n + 1 ELSE n
    /\ drive.lba + drive.left <= MAX_DISK_NSECS

\* The buffer of a request to write holds what was sent.
ToSend ==
    Waiting /\ req.op = "write" =>
        \A i \in Places : i < req.nsecs => buffer[i] = Sent(count, i)

Transferring(op) == pc \in {"data", "idle"} /\ req.op = op /\ req.ret = 0 /\ Single /\ ~stopped

\* The first j sectors of the request are in the buffer; are on the disk.
Fetched(j) == \A i \in 0..(j - 1) : buffer[i] = disk[req.secno + i]
Kept(j) == \A i \in 0..(j - 1) : disk[req.secno + i] = Sent(count, i)

\* A request to read has the sectors before pos, and the drive offers the next.
ReadInv ==
    Transferring("read") =>
        /\ ~Storing /\ Fetched(pos)
        /\ pc = "data" /\ ~drive.err =>
             /\ drive.lba = req.secno + pos
             /\ ~drive.busy => drive.data = disk[drive.lba]

\* A request to write has stored the sectors before pos, except that the last
\* of them may be under way, or have failed.
WriteInv ==
    Transferring("write") =>
        /\ Kept(pos - 1)
        /\ ~drive.err =>
             IF Storing THEN drive.lba = req.secno + pos - 1 /\ drive.data = Sent(count, pos - 1)
                        ELSE drive.lba = req.secno + pos /\ Kept(pos)

Inv == TypeOK /\ Shapes /\ Counted /\ Follows /\ ToSend /\ ReadInv /\ WriteInv

--------------------------------------------------------------------------------
(* The data and the driver's own steps.                                      *)

\* The constants, and what may be stored.
LEMMA Constants ==
    /\ kMaxSectors \in Nat /\ kMaxSectors >= 1 /\ SECCNT \in Nat /\ kMaxSectors < SECCNT
    /\ MAX_DISK_NSECS \in Nat /\ MAX_DISK_NSECS >= 1 /\ U32 \in Nat /\ MAX_DISK_NSECS < U32
    /\ \A k \in Sizes : k \in Nat /\ k >= 1 /\ k < U32 /\ MAX_DISK_NSECS + k <= U32
    /\ MaxRequests \in Nat /\ 0 \in Sectors /\ Sectors \subseteq Nat
  BY IdeAssumption DEF Sectors

\* What was sent is a datum, and not None.
LEMMA Data ==
    /\ None \in Datum
    /\ \A s \in Sectors : AtBoot(s) \in Datum
    /\ \A k \in 1..MaxRequests, i \in Sectors : Sent(k, i) \in Datum /\ Sent(k, i) # None
    /\ \A x \in Datum : Holds(x)
  <1>1. -1 \in -1..MaxRequests /\ 0 \in -1..MaxRequests /\ 1..MaxRequests \subseteq -1..MaxRequests
    BY Constants
  <1>2. \A k \in 1..MaxRequests : k # -1
    BY Constants
  <1> QED
    BY <1>1, <1>2, Constants DEF None, AtBoot, Sent, Datum, Holds

\* TypeOK is the shapes and the types of the simple variables.
Simple ==
    /\ valid \in BOOLEAN /\ stopped \in BOOLEAN
    /\ pc \in {"off", "idle", "command", "data"}
    /\ cpu \in {"polling", "halting", "halted"}
    /\ nsecs \in 0..(U32 - 1) /\ n \in 0..kMaxSectors
    /\ pos \in 0..req.nsecs /\ count \in 0..MaxRequests

\* The parts of the invariant give the type invariant.
LEMMA TypeParts ==
    ASSUME Shapes, Simple, Counted
    PROVE  TypeOK
  BY Data DEF Shapes, Simple, Counted, TypeOK, Places

\* The same after a step.
LEMMA TypePartsPrimed ==
    ASSUME Shapes', Simple', Counted'
    PROVE  TypeOK'
  BY Data DEF Shapes, Simple, Counted, TypeOK, Places

\* What the proofs use of the types.
LEMMA Numbers ==
    ASSUME Inv
    PROVE  /\ Simple
           /\ req.nsecs \in Nat /\ req.secno \in Nat /\ pos \in Nat /\ n \in Nat
           /\ nsecs \in Nat /\ count \in Nat
           /\ drive.lba \in Nat /\ drive.left \in Nat
           /\ drive.busy \in BOOLEAN /\ drive.err \in BOOLEAN
  <1>1. Simple
    BY DEF Inv, TypeOK, Simple
  <1>2. req.nsecs \in Nat /\ req.secno \in Nat
    BY Constants DEF Inv, Shapes
  <1>3. /\ drive.lba \in Nat /\ drive.left \in Nat
        /\ drive.busy \in BOOLEAN /\ drive.err \in BOOLEAN
    BY Constants DEF Inv, Shapes
  <1> QED
    BY <1>1, <1>2, <1>3, Constants DEF Simple

\* A step of the CPU alone: the poll, the hlt and the timer's interrupt.
LEMMA CpuStep ==
    ASSUME Inv, cpu' \in {"polling", "halting", "halted"},
           UNCHANGED <<valid, pc, req, secno, nsecs, n, pos, count, stopped, buffer, disk, drive>>
    PROVE  Inv'
  <1>1. TypeOK'
    BY DEF Inv, TypeOK
  <1>2. Shapes' /\ Counted' /\ Follows' /\ ToSend'
    BY DEF Inv, Shapes, Counted, Follows, ToSend, Waiting, Single, Resting, Storing
  <1>3. ReadInv' /\ WriteInv'
    BY DEF Inv, ReadInv, WriteInv, Transferring, Single, Storing, Fetched, Kept
  <1> QED
    BY <1>1, <1>2, <1>3 DEF Inv

\* ide_init runs before any request and touches no variable of one.
LEMMA InitStep ==
    ASSUME Inv, ide_init
    PROVE  Inv'
  <1>1. /\ UNCHANGED <<cpu, req, secno, nsecs, n, pos, count, buffer, disk, drive>>
        /\ pc = "off" /\ pc' \in {"off", "idle"}
        /\ valid' \in BOOLEAN /\ stopped' \in BOOLEAN
    BY DEF Inv, TypeOK, ide_init
  <1>2. TypeOK' /\ Shapes'
    BY <1>1 DEF Inv, TypeOK, Shapes
  <1>3. Counted' /\ Follows' /\ ToSend'
    BY <1>1 DEF Inv, Counted, Follows, ToSend, Waiting, Single, Resting, Storing
  <1>4. ReadInv' /\ WriteInv'
    BY <1>1 DEF Inv, Counted, ReadInv, WriteInv, Transferring
  <1> QED
    BY <1>2, <1>3, <1>4 DEF Inv

\* A number below the modulus is its own remainder.
LEMMA SmallRemainder ==
    ASSUME NEW m \in Nat \ {0}, NEW q \in Nat, q < m
    PROVE  q % m = q
  OBVIOUS

\* The length of a chunk.
LEMMA Chunk ==
    ASSUME NEW r \in Nat, r >= 1
    PROVE  LET m == Min2(r, kMaxSectors) IN
             m \in 1..kMaxSectors /\ m <= r /\ (r <= kMaxSectors => m = r)
  BY Constants DEF Min2

\* The asserts at the entry of ide_read_secs and ide_write_secs keep a request
\* on the disk.
LEMMA OnDisk ==
    ASSUME NEW s \in Sectors, NEW k \in Sizes, Asserted(s, k)
    PROVE  s + k <= MAX_DISK_NSECS
  <1>1. s \in Nat /\ k \in Nat /\ s + k \in 0..(U32 - 1)
    BY Constants DEF Sectors
  <1>2. (s + k) % U32 = s + k
    BY <1>1, Constants
  <1> QED
    BY <1>2 DEF Asserted

\* A call of ide_read_secs or ide_write_secs: either assert fails, or the first
\* chunk is set up against a drive that is at rest.
LEMMA RequestStep ==
    ASSUME Inv, NEW op \in {"read", "write"}, NEW s \in Sectors, NEW k \in Sizes,
           Request(op, s, k)
    PROVE  Inv'
  <1>0. Simple /\ count \in Nat
    BY Numbers
  <1>1. /\ pc = "idle" /\ count' = count + 1 /\ count' \in 1..MaxRequests
        /\ UNCHANGED <<valid, disk, drive>>
    BY <1>0, Constants DEF Request, Simple
  <1>2. CASE ~Asserted(s, k)
    <2>1. stopped' = TRUE /\ UNCHANGED <<pc, cpu, req, secno, nsecs, n, pos, buffer>>
      BY <1>2 DEF Request
    <2>2. Simple' /\ Shapes' /\ Counted'
      BY <1>0, <1>1, <2>1 DEF Inv, Simple, Shapes, Counted, Waiting, Single
    <2>3. Follows' /\ ToSend' /\ ReadInv' /\ WriteInv'
      BY <1>1, <2>1
      DEF Inv, Follows, ToSend, ReadInv, WriteInv, Transferring, Waiting, Resting, Storing
    <2> QED
      BY <2>2, <2>3, TypePartsPrimed DEF Inv
  <1>3. CASE Asserted(s, k)
    <2>1. /\ n' = Min2(k, kMaxSectors) /\ nsecs' = k - Min2(k, kMaxSectors)
          /\ pc' = "command" /\ cpu' = "polling" /\ secno' = s /\ pos' = 0
          /\ req' = [op |-> op, secno |-> s, nsecs |-> k, ret |-> 0]
          /\ buffer' = [i \in Places |->
                           IF op = "write" /\ i < k THEN Sent(count', i) ELSE None]
          /\ UNCHANGED stopped
      BY <1>3 DEF Request, NextChunk
    <2>2. k \in Nat /\ k >= 1 /\ k < U32 /\ s + k <= MAX_DISK_NSECS
      BY <1>3, Constants, OnDisk
    <2>3. /\ n' \in 1..kMaxSectors /\ n' + nsecs' = k /\ nsecs' \in Nat
          /\ k <= kMaxSectors => nsecs' = 0
      BY <2>1, <2>2, Chunk, Constants
    <2>4. Shapes'
      BY <1>1, <2>1, Data DEF Inv, Shapes, Ops, Places
    <2>5. Simple' /\ Counted'
      BY <1>0, <1>1, <2>1, <2>2, <2>3, Constants DEF Simple, Counted, Waiting, Single
    <2>6. Follows' /\ ToSend'
      BY <1>1, <2>1 DEF Inv, Follows, ToSend, Resting, Storing
    <2>7. ReadInv' /\ WriteInv'
      BY <2>1 DEF ReadInv, WriteInv, Transferring
    <2> QED
      BY <2>4, <2>5, <2>6, <2>7, TypePartsPrimed DEF Inv
  <1> QED
    BY <1>2, <1>3

\* A command goes to a drive that has finished, and is for the chunk.
LEMMA IssueStep ==
    ASSUME Inv, IssueCommand
    PROVE  Inv'
  <1>0. Simple /\ n \in Nat /\ req.secno \in Nat /\ req.nsecs \in Nat /\ pos \in Nat /\ nsecs \in Nat
    BY Numbers
  <1>1. /\ pc = "command" /\ pc' = "data" /\ Waiting
        /\ UNCHANGED <<valid, cpu, req, secno, nsecs, n, pos, count, stopped, buffer, disk>>
    BY DEF IssueCommand, Ready
  <1>2. /\ n >= 1 /\ n <= kMaxSectors /\ pos + n + nsecs = req.nsecs
        /\ secno = req.secno /\ req.secno + req.nsecs <= MAX_DISK_NSECS
        /\ req.op # "none" /\ (Single => pos = 0)
    BY <1>0, <1>1 DEF Inv, Counted, Simple
  <1>3. (IF n % SECCNT = 0 THEN SECCNT ELSE n % SECCNT) = n
    <2>1. SECCNT \in Nat \ {0} /\ n < SECCNT
      BY <1>0, <1>2, Constants
    <2>2. n % SECCNT = n
      BY <1>0, <2>1, SmallRemainder
    <2> QED
      BY <1>0, <1>2, <2>2
  <1>4. drive' = [busy |-> TRUE, err |-> FALSE, op |-> req.op, lba |-> secno, left |-> n, data |-> None]
    BY <1>3, Zenon DEF IssueCommand, Started
  <1>5. secno \in 0..MAX_DISK_NSECS /\ n \in 0..SECCNT /\ secno + n <= MAX_DISK_NSECS
    BY <1>0, <1>2, Constants
  <1>6. Shapes'
    BY <1>1, <1>4, <1>5, Data DEF Inv, Shapes
  <1>7. Simple' /\ Counted'
    BY <1>0, <1>1 DEF Inv, Simple, Counted, Waiting, Single
  <1>8. Follows' /\ ToSend'
    BY <1>1, <1>4, <1>5 DEF Inv, Follows, ToSend, Storing, Waiting
  <1>9. ~Storing'
    BY <1>4 DEF Storing
  <1>10. ASSUME Transferring("read")' PROVE Fetched(pos)'
    BY <1>1, <1>2, <1>10 DEF Transferring, Fetched, Single
  <1>11. ASSUME Transferring("write")' PROVE Kept(pos)' /\ Kept(pos - 1)'
    BY <1>1, <1>2, <1>11 DEF Transferring, Kept, Single
  <1>12. ReadInv'
    BY <1>0, <1>1, <1>2, <1>4, <1>9, <1>10 DEF ReadInv, Transferring, Single
  <1>13. WriteInv'
    BY <1>0, <1>1, <1>2, <1>4, <1>9, <1>11 DEF WriteInv, Transferring, Single
  <1> QED
    BY <1>6, <1>7, <1>8, <1>12, <1>13, TypePartsPrimed DEF Inv

\* A drive that has failed does nothing more when the driver gives up.
LEMMA FailStep ==
    ASSUME Inv, TransferFails
    PROVE  Inv'
  <1>0. Simple
    BY Numbers
  <1>1. /\ pc = "data" /\ drive.err /\ pc' = "idle" /\ req' = [req EXCEPT !.ret = -1]
        /\ UNCHANGED <<valid, cpu, secno, nsecs, n, pos, count, stopped, buffer, disk, drive>>
    BY DEF TransferFails, Return
  <1>2. /\ req' \in [op : Ops, secno : Sectors, nsecs : {0} \cup Sizes, ret : {0, -1}]
        /\ req'.op = req.op /\ req'.secno = req.secno /\ req'.nsecs = req.nsecs /\ req'.ret = -1
    BY <1>1 DEF Inv, Shapes
  <1>3. Shapes' /\ Simple' /\ Counted'
    BY <1>0, <1>1, <1>2 DEF Inv, Shapes, Simple, Counted, Waiting, Single
  <1>4. Follows' /\ ToSend'
    BY <1>1 DEF Inv, Follows, ToSend, Waiting, Resting, Storing
  <1>5. ReadInv' /\ WriteInv'
    BY <1>1, <1>2 DEF ReadInv, WriteInv, Transferring
  <1> QED
    BY <1>3, <1>4, <1>5, TypePartsPrimed DEF Inv

\* The end of a turn of the inner loop: one sector fewer, the next chunk, or
\* the return.
LEMMA CountDown ==
    ASSUME Inv, pc = "data", pos' = pos + 1, AfterSector,
           UNCHANGED <<valid, secno, count, stopped>>
    PROVE  /\ Simple' /\ Counted'
           /\ \/ n > 1 /\ n' = n - 1 /\ pc' = "data" /\ req' = req
              \/ n = 1 /\ pc' = "command" /\ ~Single /\ req' = req
              \/ n = 1 /\ pc' = "idle" /\ req' = req
  <1>0. /\ Simple /\ Waiting
        /\ n \in Nat /\ nsecs \in Nat /\ pos \in Nat /\ req.nsecs \in Nat /\ req.secno \in Nat
    BY Numbers DEF Waiting
  <1>1. /\ n >= 1 /\ pos + n + nsecs = req.nsecs /\ req.ret = 0 /\ count >= 1 /\ req.op # "none"
        /\ secno = req.secno /\ req.secno + req.nsecs <= MAX_DISK_NSECS
        /\ Single => nsecs = 0
    BY <1>0 DEF Inv, Counted
  <1>2. pos' \in 0..req.nsecs
    BY <1>0, <1>1
  <1>3. CASE n > 1
    <2>1. n' = n - 1 /\ UNCHANGED <<nsecs, pc, cpu, req>>
      BY <1>3 DEF AfterSector
    <2>2. n' \in 0..kMaxSectors /\ n' >= 1 /\ pos' + n' + nsecs' = req.nsecs
      BY <1>0, <1>1, <1>3, <2>1, Constants DEF Simple
    <2>3. Simple'
      BY <1>0, <1>2, <2>1, <2>2 DEF Simple
    <2>4. Counted'
      BY <1>1, <2>1, <2>2 DEF Counted, Waiting, Single
    <2> QED
      BY <1>3, <2>1, <2>3, <2>4
  <1>4. CASE n = 1 /\ nsecs > 0
    <2>1. /\ n' = Min2(nsecs, kMaxSectors) /\ nsecs' = nsecs - Min2(nsecs, kMaxSectors)
          /\ pc' = "command" /\ cpu' = "polling" /\ UNCHANGED req
      BY <1>4 DEF AfterSector, NextChunk
    <2>2. /\ n' \in 1..kMaxSectors /\ n' + nsecs' = nsecs /\ nsecs' \in Nat /\ nsecs' < U32
          /\ n' \in Nat
      BY <1>0, <1>4, <2>1, Chunk, Constants DEF Simple
    <2>3. ~Single /\ ~Single'
      BY <1>1, <1>4, <2>1 DEF Single
    <2>4. pos' + n' + nsecs' = req.nsecs
      <3>1. pos' \in Nat /\ pos' + nsecs = req.nsecs
        BY <1>0, <1>1, <1>4
      <3>2. n' \in Nat /\ nsecs' \in Nat /\ n' + nsecs' = nsecs
        BY <2>2
      <3> QED
        BY <3>1, <3>2
    <2> QED
      BY <1>0, <1>1, <1>2, <1>4, <2>1, <2>2, <2>3, <2>4, Constants DEF Simple, Counted, Waiting
  <1>5. CASE n = 1 /\ nsecs = 0
    <2>1. n' = 0 /\ pc' = "idle" /\ req' = [req EXCEPT !.ret = 0] /\ UNCHANGED <<nsecs, cpu>>
      BY <1>5 DEF AfterSector, Return
    <2>2. req' = req
      BY <1>1, <2>1 DEF Inv, Shapes
    <2> QED
      BY <1>0, <1>1, <1>2, <1>5, <2>1, <2>2, Constants DEF Simple, Counted, Waiting
  <1> QED
    BY <1>0, <1>1, <1>3, <1>4, <1>5

\* insl: the drive's sector goes to the place at pos.
LEMMA ReadSectorStep ==
    ASSUME Inv, TransferSector, req.op = "read"
    PROVE  Inv'
  <1>0. /\ Simple /\ Waiting /\ n \in Nat /\ nsecs \in Nat /\ pos \in Nat
        /\ req.nsecs \in Nat /\ req.secno \in Nat /\ drive.lba \in Nat /\ drive.left \in Nat
        /\ drive.busy \in BOOLEAN /\ drive.err \in BOOLEAN
    BY Numbers DEF TransferSector, Waiting
  <1>1. /\ pc = "data" /\ ~drive.busy /\ ~drive.err /\ pos' = pos + 1
        /\ buffer' = [buffer EXCEPT ![pos] = drive.data]
        /\ UNCHANGED <<valid, secno, count, stopped, disk>>
    BY DEF TransferSector, TransferData, Ready
  <1>2. /\ drive.op = "read" /\ drive.left = n /\ n >= 1 /\ pos + n + nsecs = req.nsecs
        /\ req.secno + req.nsecs <= MAX_DISK_NSECS
    BY <1>0, <1>1 DEF Inv, Follows, Counted, Storing
  <1> DEFINE more == drive.left > 1 \/ drive.op = "write"
  <1>3. drive' = [drive EXCEPT !.data = None, !.busy = more, !.lba = drive.lba + 1, !.left = n - 1]
    BY <1>2 DEF TransferSector, TransferData, HandOver
  <1>m. more \in BOOLEAN /\ (more <=> n > 1)
    BY <1>2
  <1> HIDE DEF more
  <1>4. /\ drive'.data = None /\ drive'.busy = more /\ drive'.lba = drive.lba + 1
        /\ drive'.left = n - 1 /\ ~drive'.err /\ drive'.op = "read"
    BY <1>1, <1>2, <1>3 DEF Inv, Shapes
  <1>5. drive.lba + 1 \in 0..MAX_DISK_NSECS /\ n - 1 \in 0..SECCNT
    BY <1>0, <1>2, Constants DEF Inv, Follows, Simple
  <1>6. /\ Simple' /\ Counted'
        /\ \/ n > 1 /\ n' = n - 1 /\ pc' = "data" /\ req' = req
           \/ n = 1 /\ pc' = "command" /\ ~Single /\ req' = req
           \/ n = 1 /\ pc' = "idle" /\ req' = req
    BY <1>1, CountDown DEF TransferSector
  <1>7. Shapes'
    <2>1. drive' \in [busy : BOOLEAN, err : BOOLEAN, op : Ops, lba : 0..MAX_DISK_NSECS,
                      left : 0..SECCNT, data : Datum]
      BY <1>3, <1>5, <1>m, Data DEF Inv, Shapes
    <2>2. buffer' \in [Places -> Datum]
      BY <1>1 DEF Inv, Shapes
    <2> QED
      BY <1>1, <1>6, <2>1, <2>2 DEF Inv, Shapes
  <1>8. ~Storing'
    BY <1>4 DEF Storing
  <1>9. Follows'
    BY <1>0, <1>2, <1>4, <1>6, <1>8, <1>m DEF Inv, Follows, Resting
  <1>10. ToSend' /\ WriteInv'
    BY <1>6 DEF ToSend, WriteInv, Transferring
  <1>11. ReadInv'
    <2> SUFFICES ASSUME Transferring("read")'
                 PROVE  /\ Fetched(pos)'
                        /\ pc' = "data" => drive'.lba = req.secno + pos' /\ drive'.busy
      BY <1>6, <1>8 DEF ReadInv
    <2>1. Transferring("read")
      BY <1>0, <1>1, <1>2, <1>6 DEF Transferring, Single, Inv, Counted
    <2>2. Fetched(pos) /\ drive.lba = req.secno + pos /\ drive.data = disk[drive.lba]
      BY <1>1, <2>1 DEF Inv, ReadInv
    <2>3. pos \in Places
      BY <1>0, <1>2, Constants DEF Places, Sectors
    <2>4. \A i \in 0..pos : buffer'[i] = disk[req.secno + i]
      <3> SUFFICES ASSUME NEW i \in 0..pos PROVE buffer'[i] = disk[req.secno + i]
        OBVIOUS
      <3>1. CASE i = pos
        BY <1>1, <2>2, <2>3, <3>1 DEF Inv, Shapes
      <3>2. CASE i # pos
        <4>1. i \in 0..(pos - 1)
          BY <1>0, <3>2
        <4>2. buffer'[i] = buffer[i]
          BY <1>1, <2>3, <3>2 DEF Inv, Shapes
        <4> QED
          BY <2>2, <4>1, <4>2 DEF Fetched
      <3> QED
        BY <3>1, <3>2
    <2>5. Fetched(pos)'
      <3>1. 0..(pos' - 1) = 0..pos
        BY <1>0, <1>1
      <3> QED
        BY <1>1, <1>6, <2>4, <3>1 DEF Fetched
    <2>6. pc' = "data" => n > 1
      BY <1>6
    <2>7. drive'.lba = req.secno + pos'
      BY <1>0, <1>1, <1>4, <2>2
    <2> QED
      BY <1>4, <1>m, <2>5, <2>6, <2>7
  <1> QED
    BY <1>6, <1>7, <1>9, <1>10, <1>11, TypePartsPrimed DEF Inv

\* outsl: the place at pos goes to the drive, which has yet to store it.
LEMMA WriteSectorStep ==
    ASSUME Inv, TransferSector, req.op = "write"
    PROVE  Inv'
  <1>0. /\ Simple /\ Waiting /\ n \in Nat /\ nsecs \in Nat /\ pos \in Nat /\ count \in Nat
        /\ req.nsecs \in Nat /\ req.secno \in Nat /\ drive.lba \in Nat /\ drive.left \in Nat
        /\ drive.busy \in BOOLEAN /\ drive.err \in BOOLEAN
    BY Numbers DEF TransferSector, Waiting
  <1>1. /\ pc = "data" /\ ~drive.busy /\ ~drive.err /\ pos' = pos + 1
        /\ UNCHANGED <<valid, secno, count, stopped, disk, buffer>>
    BY DEF TransferSector, TransferData, Ready
  <1>2. /\ drive.op = "write" /\ drive.left = n /\ n >= 1 /\ pos + n + nsecs = req.nsecs
        /\ req.secno + req.nsecs <= MAX_DISK_NSECS /\ count >= 1
    BY <1>0, <1>1 DEF Inv, Follows, Counted, Storing
  <1>3. pos \in Places /\ pos < req.nsecs /\ count \in 1..MaxRequests
    BY <1>0, <1>2, Constants DEF Places, Sectors, Simple
  <1>4. buffer[pos] = Sent(count, pos) /\ buffer[pos] \in Datum /\ buffer[pos] # None
    BY <1>0, <1>3, Data DEF Inv, ToSend, Places
  <1>5. drive' = [drive EXCEPT !.data = buffer[pos], !.busy = TRUE]
    <2>1. drive' = [drive EXCEPT !.data = buffer[pos], !.busy = TRUE, !.lba = drive.lba, !.left = drive.left]
      BY <1>2 DEF TransferSector, TransferData, HandOver
    <2> QED
      BY <2>1 DEF Inv, Shapes
  <1>6. /\ drive'.data = Sent(count, pos) /\ drive'.data # None /\ drive'.busy /\ ~drive'.err
        /\ drive'.lba = drive.lba /\ drive'.left = n /\ drive'.op = "write"
    BY <1>1, <1>2, <1>4, <1>5 DEF Inv, Shapes
  <1>7. /\ Simple' /\ Counted'
        /\ \/ n > 1 /\ n' = n - 1 /\ pc' = "data" /\ req' = req
           \/ n = 1 /\ pc' = "command" /\ ~Single /\ req' = req
           \/ n = 1 /\ pc' = "idle" /\ req' = req
    BY <1>1, CountDown DEF TransferSector
  <1>8. Shapes'
    BY <1>1, <1>4, <1>5, <1>7 DEF Inv, Shapes
  <1>9. Storing'
    BY <1>6 DEF Storing
  <1>10. Follows'
    BY <1>0, <1>2, <1>6, <1>7, <1>9 DEF Inv, Follows, Resting
  <1>11. ToSend' /\ ReadInv'
    BY <1>0, <1>1, <1>7 DEF Inv, ToSend, ReadInv, Transferring, Waiting
  <1>12. WriteInv'
    <2> SUFFICES ASSUME Transferring("write")'
                 PROVE  /\ Kept(pos - 1)'
                        /\ drive'.lba = req.secno + pos' - 1
                        /\ drive'.data = Sent(count, pos' - 1)
      BY <1>1, <1>7, <1>9 DEF WriteInv
    <2>1. Transferring("write") /\ ~Storing
      BY <1>0, <1>1, <1>7 DEF Transferring, Single, Inv, Counted, Storing
    <2>2. Kept(pos) /\ drive.lba = req.secno + pos
      BY <1>1, <2>1 DEF Inv, WriteInv
    <2>3. pos' - 1 = pos
      BY <1>0, <1>1
    <2>4. Kept(pos - 1)'
      BY <1>1, <1>7, <2>2, <2>3 DEF Kept
    <2>5. req.secno + pos' - 1 = req.secno + pos
      BY <1>0, <1>1
    <2> QED
      BY <1>6, <2>2, <2>3, <2>4, <2>5
  <1> QED
    BY <1>7, <1>8, <1>10, <1>11, <1>12, TypePartsPrimed DEF Inv

--------------------------------------------------------------------------------
(* The drive's steps.                                                        *)

\* The drive's interrupt leaves the driver where it is.
LEMMA DriveFrame ==
    ASSUME Inv, NEW d, DriveDone(d)
    PROVE  /\ drive.busy /\ drive' = d /\ Simple' /\ Counted' /\ ToSend'
           /\ UNCHANGED <<valid, pc, req, secno, nsecs, n, pos, count, stopped, buffer>>
  <1>1. /\ cpu' \in {"polling", "halting", "halted"}
        /\ UNCHANGED <<valid, pc, req, secno, nsecs, n, pos, count, stopped, buffer>>
        /\ drive.busy /\ drive' = d
    BY DEF Inv, TypeOK, DriveDone, Interrupt
  <1>2. Simple' /\ Counted' /\ ToSend'
    BY <1>1 DEF Inv, TypeOK, Simple, Counted, ToSend, Waiting, Single
  <1> QED
    BY <1>1, <1>2

\* An error ends the command: the drive is at rest and the driver will see it.
LEMMA DriveFailsStep ==
    ASSUME Inv, DriveFails
    PROVE  Inv'
  <1> DEFINE d == [Idle EXCEPT !.err = TRUE]
  <1>1. /\ drive.busy /\ drive' = d /\ Simple' /\ Counted' /\ ToSend'
        /\ UNCHANGED <<pc, req, nsecs, n, pos, count, stopped, buffer, disk>>
    BY DriveFrame DEF DriveFails
  <1>2. /\ d.busy = FALSE /\ d.err = TRUE /\ d.lba = 0 /\ d.left = 0 /\ d.op = "none"
        /\ d \in [busy : BOOLEAN, err : BOOLEAN, op : Ops, lba : 0..MAX_DISK_NSECS,
                   left : 0..SECCNT, data : Datum]
    <2>1. 0 \in 0..MAX_DISK_NSECS /\ 0 \in 0..SECCNT
      BY Constants
    <2>2. /\ Idle.busy = FALSE /\ Idle.lba = 0 /\ Idle.left = 0 /\ Idle.op = "none"
          /\ Idle \in [busy : BOOLEAN, err : BOOLEAN, op : Ops, lba : 0..MAX_DISK_NSECS,
                        left : 0..SECCNT, data : Datum]
      BY <2>1, Data DEF Idle, Ops
    <2> QED
      BY <2>2
  <1> HIDE DEF d
  <1>3. Shapes' /\ ~Storing'
    BY <1>1, <1>2 DEF Inv, Shapes, Storing
  <1>4. Follows'
    BY <1>1, <1>2, <1>3, Constants DEF Follows, Resting
  <1>5. ReadInv' /\ WriteInv'
    BY <1>1, <1>2, <1>3 DEF Inv, ReadInv, WriteInv, Transferring, Single, Fetched, Kept
  <1> QED
    BY <1>1, <1>3, <1>4, <1>5, TypePartsPrimed DEF Inv

\* A drive that is busy and not storing works on the command of the driver.
LEMMA BusyInStep ==
    ASSUME Inv, drive.busy, ~Storing
    PROVE  /\ pc = "data" /\ ~drive.err /\ drive.op = req.op
           /\ drive.left = n /\ req.ret = 0
  BY DEF Inv, Follows, Resting, Counted, Waiting, TypeOK

\* The drive fetches the sector it is at and waits for the driver to take it.
LEMMA DriveReadsStep ==
    ASSUME Inv, DriveReads
    PROVE  Inv'
  <1> DEFINE d == [drive EXCEPT !.busy = FALSE, !.data = disk[drive.lba]]
  <1>1. /\ drive.busy /\ drive' = d /\ Simple' /\ Counted' /\ ToSend'
        /\ UNCHANGED <<pc, req, nsecs, n, pos, count, stopped, buffer, disk>>
        /\ drive.op = "read" /\ drive.lba \in Sectors
    BY DriveFrame DEF DriveReads
  <1>2. /\ d.busy = FALSE /\ d.err = drive.err /\ d.lba = drive.lba /\ d.left = drive.left
        /\ d.op = drive.op /\ d.data = disk[drive.lba]
        /\ d \in [busy : BOOLEAN, err : BOOLEAN, op : Ops, lba : 0..MAX_DISK_NSECS,
                   left : 0..SECCNT, data : Datum]
    BY <1>1 DEF Inv, Shapes
  <1> HIDE DEF d
  <1>3. Shapes' /\ ~Storing' /\ ~Storing
    BY <1>1, <1>2 DEF Inv, Shapes, Storing
  <1>4. pc = "data" /\ ~drive.err /\ drive.op = req.op /\ drive.left = n
    BY <1>1, <1>3, BusyInStep
  <1>5. Follows'
    BY <1>1, <1>2, <1>3, <1>4 DEF Inv, Follows
  <1>6. ReadInv'
    BY <1>1, <1>2, <1>3, <1>4 DEF Inv, ReadInv, Transferring, Single, Fetched
  <1>7. WriteInv'
    BY <1>1, <1>4 DEF WriteInv, Transferring
  <1> QED
    BY <1>1, <1>3, <1>5, <1>6, <1>7, TypePartsPrimed DEF Inv

\* The drive asks for the first sector of a write.
LEMMA DriveAsksStep ==
    ASSUME Inv, DriveAsks
    PROVE  Inv'
  <1> DEFINE d == [drive EXCEPT !.busy = FALSE]
  <1>1. /\ drive.busy /\ drive' = d /\ Simple' /\ Counted' /\ ToSend'
        /\ UNCHANGED <<pc, req, nsecs, n, pos, count, stopped, buffer, disk>>
        /\ drive.op = "write" /\ drive.data = None
    BY DriveFrame DEF DriveAsks
  <1>2. /\ d.busy = FALSE /\ d.err = drive.err /\ d.lba = drive.lba /\ d.left = drive.left
        /\ d.op = drive.op
        /\ d \in [busy : BOOLEAN, err : BOOLEAN, op : Ops, lba : 0..MAX_DISK_NSECS,
                   left : 0..SECCNT, data : Datum]
    BY <1>1 DEF Inv, Shapes
  <1> HIDE DEF d
  <1>3. Shapes' /\ ~Storing' /\ ~Storing
    BY <1>1, <1>2 DEF Inv, Shapes, Storing
  <1>4. pc = "data" /\ ~drive.err /\ drive.op = req.op /\ drive.left = n
    BY <1>1, <1>3, BusyInStep
  <1>5. Follows'
    BY <1>1, <1>2, <1>3, <1>4 DEF Inv, Follows
  <1>6. ReadInv'
    BY <1>1, <1>4 DEF ReadInv, Transferring
  <1>7. WriteInv'
    BY <1>1, <1>2, <1>3, <1>4 DEF Inv, WriteInv, Transferring, Single, Kept
  <1> QED
    BY <1>1, <1>3, <1>5, <1>6, <1>7, TypePartsPrimed DEF Inv

\* The sector under way reaches the disk, perhaps when the request that sent
\* it has long returned.
LEMMA DriveStoresStep ==
    ASSUME Inv, DriveStores
    PROVE  Inv'
  <1>0. /\ Simple /\ n \in Nat /\ pos \in Nat /\ count \in Nat /\ req.nsecs \in Nat
        /\ req.secno \in Nat /\ drive.lba \in Nat /\ drive.left \in Nat
    BY Numbers
  <1> DEFINE d == [drive EXCEPT !.busy = FALSE, !.lba = @ + 1, !.left = @ - 1, !.data = None]
  <1>1. /\ drive.busy /\ drive' = d /\ Simple' /\ Counted' /\ ToSend'
        /\ UNCHANGED <<pc, req, nsecs, n, pos, count, stopped, buffer>>
        /\ drive.op = "write" /\ drive.data # None /\ drive.lba \in Sectors
        /\ disk' = [disk EXCEPT ![drive.lba] = drive.data]
    BY DriveFrame DEF DriveStores
  <1>2. Storing /\ ~drive.err
    BY <1>1 DEF Inv, Storing, Follows
  <1>3. drive.left >= 1 /\ (pc # "data" => drive.left = 1) /\ (pc = "data" => drive.left = n + 1 /\ drive.op = req.op)
    BY <1>0, <1>2 DEF Inv, Follows, Resting
  <1>4. drive.lba + 1 \in 0..MAX_DISK_NSECS /\ drive.left - 1 \in 0..SECCNT
    BY <1>0, <1>1, <1>3, Constants DEF Inv, Shapes, Sectors
  <1>5. /\ d.busy = FALSE /\ d.err = drive.err /\ d.lba = drive.lba + 1 /\ d.left = drive.left - 1
        /\ d.op = drive.op
        /\ d \in [busy : BOOLEAN, err : BOOLEAN, op : Ops, lba : 0..MAX_DISK_NSECS,
                   left : 0..SECCNT, data : Datum]
    BY <1>1, <1>4, Data DEF Inv, Shapes
  <1> HIDE DEF d
  <1>6. disk' \in [Sectors -> Datum]
    BY <1>1 DEF Inv, Shapes
  <1>7. Shapes' /\ ~Storing'
    BY <1>1, <1>5, <1>6 DEF Inv, Shapes, Storing
  <1>8. Follows'
    BY <1>0, <1>1, <1>2, <1>3, <1>5, <1>7 DEF Inv, Follows, Resting
  <1>9. ReadInv'
    <2>1. ~Transferring("read")
      BY <1>2 DEF Inv, ReadInv
    <2> QED
      BY <1>1, <2>1 DEF ReadInv, Transferring, Single
  <1>10. WriteInv'
    <2> SUFFICES ASSUME Transferring("write")'
                 PROVE  drive'.lba = req.secno + pos /\ Kept(pos)' /\ Kept(pos - 1)'
      BY <1>1, <1>7 DEF WriteInv
    <2>1. Transferring("write")
      BY <1>1 DEF Transferring, Single
    <2>2. /\ Kept(pos - 1) /\ drive.lba = req.secno + pos - 1
          /\ drive.data = Sent(count, pos - 1)
      BY <1>2, <2>1 DEF Inv, WriteInv
    <2>3. drive'.lba = req.secno + pos
      BY <1>0, <1>1, <1>5, <2>2
    <2>4. \A i \in 0..(pos - 1) : disk'[req.secno + i] = Sent(count, i)
      <3> SUFFICES ASSUME NEW i \in 0..(pos - 1) PROVE disk'[req.secno + i] = Sent(count, i)
        OBVIOUS
      <3>1. CASE i = pos - 1
        <4>1. req.secno + i = drive.lba
          BY <1>0, <2>2, <3>1
        <4> QED
          BY <1>1, <2>2, <3>1, <4>1 DEF Inv, Shapes
      <3>2. CASE i # pos - 1
        <4>1. i \in 0..(pos - 1 - 1) /\ req.secno + i # drive.lba
          BY <1>0, <2>2, <3>2
        <4>2. req.secno + i \in Sectors
          BY <1>0, <1>1, <2>2, Constants DEF Sectors
        <4>3. disk'[req.secno + i] = disk[req.secno + i]
          BY <1>1, <4>1, <4>2 DEF Inv, Shapes
        <4> QED
          BY <2>2, <4>1, <4>3 DEF Kept
      <3> QED
        BY <3>1, <3>2
    <2>5. 0..(pos - 1 - 1) \subseteq 0..(pos - 1)
      BY <1>0
    <2> QED
      BY <1>1, <2>3, <2>4, <2>5 DEF Kept
  <1> QED
    BY <1>1, <1>7, <1>8, <1>9, <1>10, TypePartsPrimed DEF Inv

--------------------------------------------------------------------------------
(* The theorems.                                                             *)

\* Driver and drive, each at its own pace, keep count of the same sectors.
THEOREM Invariance == Spec => []Inv
  <1>1. Init => Inv
    <2> SUFFICES ASSUME Init PROVE Inv
      OBVIOUS
    <2>1. Shapes /\ ~Storing
      <3>1. drive = [busy |-> FALSE, err |-> FALSE, op |-> "none", lba |-> 0, left |-> 0, data |-> None]
        BY DEF Init, Idle
      <3>2. buffer \in [Places -> Datum] /\ disk \in [Sectors -> Datum]
        BY Data DEF Init
      <3>3. 0 \in 0..MAX_DISK_NSECS /\ 0 \in 0..SECCNT
        BY Constants
      <3>4. /\ drive.busy = FALSE
            /\ drive \in [busy : BOOLEAN, err : BOOLEAN, op : Ops, lba : 0..MAX_DISK_NSECS,
                           left : 0..SECCNT, data : Datum]
        BY <3>1, <3>3, Data DEF Ops
      <3>5. req \in [op : Ops, secno : Sectors, nsecs : {0} \cup Sizes, ret : {0, -1}]
        BY Constants DEF Init, Ops
      <3> QED
        BY <3>2, <3>4, <3>5 DEF Shapes, Storing
    <2>2. Simple /\ Counted
      <3>1. 0 \in 0..(U32 - 1) /\ 0 \in 0..kMaxSectors /\ 0 \in 0..MaxRequests
        BY Constants
      <3>2. req.nsecs = 0 /\ req.secno = 0 /\ req.op = "none" /\ pos = 0
        BY DEF Init
      <3>3. pos \in 0..req.nsecs /\ req.secno + req.nsecs <= MAX_DISK_NSECS
        BY <3>2, Constants
      <3> QED
        BY <3>1, <3>2, <3>3 DEF Init, Simple, Counted, Waiting
    <2>3. Follows
      BY <2>1, Constants DEF Init, Idle, Follows, Resting
    <2>4. ToSend /\ ReadInv /\ WriteInv
      BY DEF Init, ToSend, ReadInv, WriteInv, Waiting, Transferring
    <2> QED
      BY <2>1, <2>2, <2>3, <2>4, TypeParts DEF Inv
  <1>2. Inv /\ [Next]_vars => Inv'
    <2> SUFFICES ASSUME Inv, [Next]_vars PROVE Inv'
      OBVIOUS
    <2>0. cpu \in {"polling", "halting", "halted"}
      BY DEF Inv, TypeOK
    <2>1. CASE UNCHANGED vars
      BY <2>0, <2>1, CpuStep DEF vars, driver
    <2>2. CASE ide_init
      BY <2>2, InitStep
    <2>3. CASE \E op \in {"read", "write"}, s \in Sectors, k \in Sizes : Request(op, s, k)
      BY <2>3, RequestStep
    <2>4. CASE PollBusy
      BY <2>4, CpuStep DEF PollBusy
    <2>5. CASE cpu_hlt
      BY <2>5, CpuStep DEF cpu_hlt
    <2>6. CASE IssueCommand
      BY <2>6, IssueStep
    <2>7. CASE TransferFails
      BY <2>7, FailStep
    <2>8. CASE TransferSector
      <3>1. req.op \in {"read", "write"}
        BY <2>8 DEF TransferSector, TransferData
      <3> QED
        BY <2>8, <3>1, ReadSectorStep, WriteSectorStep
    <2>9. CASE TimerTick
      BY <2>9, CpuStep DEF TimerTick
    <2>10. CASE Drive
      BY <2>10, DriveFailsStep, DriveReadsStep, DriveAsksStep, DriveStoresStep DEF Drive
    <2> QED
      BY <2>1, <2>2, <2>3, <2>4, <2>5, <2>6, <2>7, <2>8, <2>9, <2>10 DEF Next, Driver
  <1> QED
    BY <1>1, <1>2, PTL DEF Spec

\* The driver's counters and the drive's registers keep their types; pos never
\* passes the end of the caller's buffer, and the drive never that of the disk.
THEOREM TypeCorrect == Spec => []TypeOK
  <1>1. Inv => TypeOK
    BY DEF Inv
  <1> QED
    BY <1>1, Invariance, PTL

\* ide_read_secs and ide_write_secs never get out of step with the drive, and
\* issue a command only when it has finished the one before.
THEOREM InStepHolds == Spec => []InStep
  <1>1. Inv => InStep
    <2> SUFFICES ASSUME Inv PROVE InStep
      OBVIOUS
    <2>1. pc = "command" /\ Ready => drive.left = 0
      BY DEF Inv, Follows, Resting, Ready, Storing
    <2> QED
      BY <2>1 DEF Inv, Follows, InStep
  <1> QED
    BY <1>1, Invariance, PTL

\* A request of one chunk that returns 0 has transferred the sectors asked
\* for, whatever failed in it or before it; of a write's last sector this
\* holds if the drive did store it.
THEOREM TransferRightHolds == Spec => []TransferRight
  <1>1. Inv => TransferRight
    <2> SUFFICES ASSUME Inv, Single PROVE AsAsked
      BY DEF TransferRight, Single
    <2>1. ASSUME Succeeded("read") PROVE \A i \in 0..(req.nsecs - 1) : buffer[i] = disk[req.secno + i]
      <3>1. pos = req.nsecs /\ Transferring("read")
        BY <2>1 DEF Succeeded, Transferring, Inv, Counted
      <3> QED
        BY <3>1 DEF Inv, ReadInv, Fetched
    <2>2. ASSUME Succeeded("write"), NEW i \in 0..(req.nsecs - 1),
                 i < req.nsecs - 1 \/ ~(drive.busy \/ drive.err)
          PROVE  disk[req.secno + i] = Sent(count, i)
      <3>1. pos = req.nsecs /\ Transferring("write") /\ req.nsecs \in Nat
        BY <2>2, Numbers DEF Succeeded, Transferring, Inv, Counted
      <3>2. CASE i < req.nsecs - 1
        <4>1. i \in 0..(pos - 1 - 1)
          BY <3>1, <3>2
        <4> QED
          BY <3>1, <4>1 DEF Inv, WriteInv, Kept
      <3>3. CASE ~drive.busy /\ ~drive.err
        <4>1. Kept(pos)
          BY <3>1, <3>3 DEF Inv, WriteInv, Storing
        <4> QED
          BY <3>1, <4>1 DEF Kept
      <3> QED
        BY <2>2, <3>2, <3>3
    <2> QED
      BY <2>1, <2>2 DEF AsAsked
  <1> QED
    BY <1>1, Invariance, PTL

================================================================================
