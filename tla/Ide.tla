----------------------------------- MODULE Ide ---------------------------------
(*****************************************************************************)
(* The disk driver (lib/ide.cc), one thread of requests, and the IDE drive   *)
(* it programs, which is external and modelled from how the driver uses it:  *)
(* a command for some sectors, each handed over through the data port while  *)
(* the drive is not busy; a sector that fails aborts the command.            *)
(*                                                                           *)
(* ide_wait_ready halts the CPU while the drive is busy.  The drive raises   *)
(* an interrupt when it is done, which may come before the hlt.              *)
(*****************************************************************************)
EXTENDS Integers

CONSTANTS
    kMaxSectors,
    SECCNT,             \* values of the sector count register; 0 means SECCNT
    MAX_DISK_NSECS,
    U32,                \* values of uint32_t
    Sizes,              \* the nsecs callers ask for
    MaxRequests         \* bound: how many requests are made

VARIABLES
    valid,      \* ide_device.valid
    pc,         \* off, idle, command, data: where the driver is
    cpu,        \* polling, halting: status was busy, halted
    req,        \* the arguments of the request, and its result
    secno, nsecs, n,
    pos,        \* out or input, in sectors from the start of the buffer
    buffer,
    disk,
    drive,      \* external: status, command and the sector in its buffer
    count,      \* requests made
    stopped     \* an assert failed

driver == <<valid, pc, cpu, req, secno, nsecs, n, pos, count, stopped>>
vars == <<driver, buffer, disk, drive>>

\* No caller asks for so much that secno + nsecs wraps around.
ASSUME IdeAssumption ==
    /\ kMaxSectors \in Nat \ {0} /\ SECCNT \in Nat /\ kMaxSectors < SECCNT
    /\ MAX_DISK_NSECS \in Nat \ {0} /\ U32 \in Nat /\ MAX_DISK_NSECS < U32
    /\ Sizes \subseteq 1..(U32 - MAX_DISK_NSECS) /\ MaxRequests \in Nat

Sectors == 0..(MAX_DISK_NSECS - 1)
Places  == Sectors      \* of the buffer

\* What a sector holds: the data it had at boot, or the i-th sector of the
\* buffer of request k.
AtBoot(s) == <<0, s>>
Sent(k, i) == <<k, i>>
None == <<-1, 0>>

Idle == [busy |-> FALSE, err |-> FALSE, op |-> "none", lba |-> 0, left |-> 0, data |-> None]

Init ==
    /\ valid = FALSE /\ pc = "off" /\ cpu = "polling"
    /\ req = [op |-> "none", secno |-> 0, nsecs |-> 0, ret |-> 0]
    /\ secno = 0 /\ nsecs = 0 /\ n = 0 /\ pos = 0
    /\ buffer = [i \in Places |-> None]
    /\ disk = [s \in Sectors |-> AtBoot(s)]
    /\ drive = Idle
    /\ count = 0 /\ stopped = FALSE

\* int ide_init(void): IDENTIFY finds a drive, or it returns -1 and the assert
\* in kern_init stops the machine.
ide_init ==
    /\ pc = "off" /\ ~stopped
    /\ \/ valid' = TRUE /\ pc' = "idle" /\ UNCHANGED stopped
       \/ stopped' = TRUE /\ UNCHANGED <<valid, pc>>
    /\ UNCHANGED <<cpu, req, secno, nsecs, n, pos, count, buffer, disk, drive>>

--------------------------------------------------------------------------------
(* ide_read_secs and ide_write_secs.                                         *)

Min2(a, b) == IF a < b THEN a ELSE b

\* The first statements of the do loop, with r sectors to go.
NextChunk(r) ==
    /\ n' = Min2(r, kMaxSectors)
    /\ nsecs' = r - Min2(r, kMaxSectors)
    /\ pc' = "command" /\ cpu' = "polling"

Asserted(s, k) == valid /\ s < MAX_DISK_NSECS /\ (s + k) % U32 <= MAX_DISK_NSECS

Request(op, s, k) ==
    /\ pc = "idle" /\ count < MaxRequests /\ ~stopped
    /\ count' = count + 1
    /\ IF Asserted(s, k)
       THEN /\ NextChunk(k)
            /\ secno' = s /\ pos' = 0
            /\ req' = [op |-> op, secno |-> s, nsecs |-> k, ret |-> 0]
            /\ buffer' = [i \in Places |->
                            IF op = "write" /\ i < k THEN Sent(count', i) ELSE None]
            /\ UNCHANGED stopped
       ELSE /\ stopped' = TRUE
            /\ UNCHANGED <<pc, cpu, req, secno, nsecs, n, pos, buffer>>
    /\ UNCHANGED <<valid, disk, drive>>

\* ide_wait_ready: while (inb(status) & STAT_BSY) cpu_hlt();
Waiting == pc \in {"command", "data"}
Ready == Waiting /\ cpu = "polling" /\ ~drive.busy

PollBusy ==
    /\ Waiting /\ cpu = "polling" /\ drive.busy
    /\ cpu' = "halting"
    /\ UNCHANGED <<valid, pc, req, secno, nsecs, n, pos, count, stopped, buffer, disk, drive>>

cpu_hlt ==
    /\ cpu = "halting"
    /\ cpu' = "halted"
    /\ UNCHANGED <<valid, pc, req, secno, nsecs, n, pos, count, stopped, buffer, disk, drive>>

\* Mutant: no timer is running yet.
TimerTick_NotStarted == FALSE /\ UNCHANGED vars

\* The timer interrupt, which init_timer has started by then.
TimerTick ==
    /\ cpu = "halted"
    /\ cpu' = "polling"
    /\ UNCHANGED <<valid, pc, req, secno, nsecs, n, pos, count, stopped, buffer, disk, drive>>

\* The drive starts on a command for k sectors (0 in the register means all).
Started(k) ==
    drive' = [busy |-> TRUE, err |-> FALSE, op |-> req.op, lba |-> secno,
              left |-> IF k % SECCNT = 0 THEN SECCNT ELSE k % SECCNT, data |-> None]

\* Mutant: the sector count is what is left after this chunk.
IssueCommand_Rest ==
    /\ pc = "command" /\ Ready
    /\ Started(nsecs)
    /\ pc' = "data"
    /\ UNCHANGED <<valid, cpu, req, secno, nsecs, n, pos, count, stopped, buffer, disk>>

\* The seven outb of a chunk.
IssueCommand ==
    /\ pc = "command" /\ Ready
    /\ Started(n)
    /\ pc' = "data"
    /\ UNCHANGED <<valid, cpu, req, secno, nsecs, n, pos, count, stopped, buffer, disk>>

Return(r) == pc' = "idle" /\ req' = [req EXCEPT !.ret = r]

TransferFails ==
    /\ pc = "data" /\ Ready /\ drive.err
    /\ Return(-1)
    /\ UNCHANGED <<valid, cpu, secno, nsecs, n, pos, count, stopped, buffer, disk, drive>>

\* What insl and outsl do to the drive: the next sector is on its way.
HandOver(d) ==
    drive' = [drive EXCEPT !.data = d,
                           !.busy = drive.left > 1 \/ drive.op = "write",
                           !.lba = IF drive.op = "read" THEN @ + 1 ELSE @,
                           !.left = IF drive.op = "read" THEN @ - 1 ELSE @]

\* Mutant: the output pointer stays.
TransferData_SamePlace ==
    \/ req.op = "read" /\ buffer' = [buffer EXCEPT ![0] = drive.data] /\ HandOver(None)
    \/ req.op = "write" /\ UNCHANGED buffer /\ HandOver(buffer[0])

TransferData ==
    \/ req.op = "read" /\ buffer' = [buffer EXCEPT ![pos] = drive.data] /\ HandOver(None)
    \/ req.op = "write" /\ UNCHANGED buffer /\ HandOver(buffer[pos])

\* Mutant: the inner loop takes one turn too many.
AfterSector_OneMore ==
    IF n > 0 THEN n' = n - 1 /\ UNCHANGED <<nsecs, pc, cpu, req>>
    ELSE IF nsecs > 0 THEN NextChunk(nsecs) /\ UNCHANGED req
    ELSE n' = 0 /\ Return(0) /\ UNCHANGED <<nsecs, cpu>>

\* The end of the inner loop's turn: n is 0 when secno += n is reached, so
\* secno stays, and out was already advanced.
AfterSector ==
    IF n > 1 THEN n' = n - 1 /\ UNCHANGED <<nsecs, pc, cpu, req>>
    ELSE IF nsecs > 0 THEN NextChunk(nsecs) /\ UNCHANGED req
    ELSE n' = 0 /\ Return(0) /\ UNCHANGED <<nsecs, cpu>>

TransferSector ==
    /\ pc = "data" /\ Ready /\ ~drive.err
    /\ TransferData
    /\ pos' = pos + 1
    /\ AfterSector
    /\ UNCHANGED <<valid, secno, count, stopped, disk>>

--------------------------------------------------------------------------------
(* The drive.                                                                *)

\* Its interrupt wakes a CPU that has halted already.
Interrupt == cpu' = IF cpu = "halted" THEN "polling" ELSE cpu

DriveDone(d) ==
    /\ drive.busy /\ Interrupt /\ drive' = d
    /\ UNCHANGED <<valid, pc, req, secno, nsecs, n, pos, count, stopped, buffer>>

DriveFails ==
    /\ DriveDone([Idle EXCEPT !.err = TRUE])
    /\ UNCHANGED disk

DriveReads ==
    /\ drive.op = "read" /\ drive.lba \in Sectors
    /\ DriveDone([drive EXCEPT !.busy = FALSE, !.data = disk[drive.lba]])
    /\ UNCHANGED disk

\* A write command asks for data first and stores each sector it is given.
DriveAsks ==
    /\ drive.op = "write" /\ drive.data = None
    /\ DriveDone([drive EXCEPT !.busy = FALSE])
    /\ UNCHANGED disk

DriveStores ==
    /\ drive.op = "write" /\ drive.data # None /\ drive.lba \in Sectors
    /\ disk' = [disk EXCEPT ![drive.lba] = drive.data]
    /\ DriveDone([drive EXCEPT !.busy = FALSE, !.lba = @ + 1, !.left = @ - 1, !.data = None])

Driver == PollBusy \/ cpu_hlt \/ IssueCommand \/ TransferFails \/ TransferSector
Drive  == DriveFails \/ DriveReads \/ DriveAsks \/ DriveStores

Next ==
    \/ ide_init
    \/ \E op \in {"read", "write"}, s \in Sectors, k \in Sizes : Request(op, s, k)
    \/ Driver
    \/ TimerTick
    \/ Drive

\* The driver keeps executing, the timer keeps ticking, and a drive does not
\* stay busy for ever.  Callers need not call.
Fairness == WF_vars(Driver) /\ WF_vars(TimerTick) /\ WF_vars(Drive)

Spec == Init /\ [][Next]_vars /\ Fairness

--------------------------------------------------------------------------------
Holds(x) == x[1] \in -1..MaxRequests /\ x[2] \in Sectors

\* That pos never exceeds nsecs says that insl never writes behind the
\* caller's buffer.
TypeOK ==
    /\ valid \in BOOLEAN /\ stopped \in BOOLEAN
    /\ pc \in {"off", "idle", "command", "data"}
    /\ cpu \in {"polling", "halting", "halted"}
    /\ req.ret \in {0, -1} /\ req.secno \in Sectors /\ req.nsecs \in {0} \cup Sizes
    /\ secno \in Sectors /\ nsecs \in 0..(U32 - 1) /\ n \in 0..kMaxSectors
    /\ pos \in 0..req.nsecs /\ count \in 0..MaxRequests
    /\ \A i \in Places : Holds(buffer[i])
    /\ \A s \in Sectors : Holds(disk[s])
    /\ drive.lba \in 0..MAX_DISK_NSECS /\ drive.left \in 0..SECCNT

Storing == drive.op = "write" /\ drive.busy /\ drive.data # None

\* While ide_read_secs or ide_write_secs transfers a chunk, the drive expects
\* exactly the sectors the inner loop will still transfer, or has failed; and
\* a command goes to a drive that has finished the one before.
InStep ==
    /\ pc = "data" /\ ~drive.err =>
         drive.op = req.op /\ drive.left = IF Storing THEN n + 1 ELSE n
    /\ pc = "command" /\ Ready => drive.left = 0

Succeeded(op) == pc = "idle" /\ req.op = op /\ req.ret = 0 /\ ~stopped

\* When ide_read_secs returns 0, the buffer holds the sectors asked for, and
\* when ide_write_secs returns 0, the disk does.  The last sector's status is
\* never looked at, so of that one it holds only if the drive did store it.
AsAsked ==
    /\ Succeeded("read") =>
         \A i \in 0..(req.nsecs - 1) : buffer[i] = disk[req.secno + i]
    /\ Succeeded("write") =>
         \A i \in 0..(req.nsecs - 1) :
            i < req.nsecs - 1 \/ ~(drive.busy \/ drive.err)
                => disk[req.secno + i] = Sent(count, i)

\* Requests of one chunk, like all those of the file system, transfer the
\* right sectors, whichever sector of this request or of the one before failed.
\* (It cannot be said of larger ones: each chunk of ide_read_secs begins at the
\* request's first sector again, see AfterSector.)
TransferRight == req.nsecs <= kMaxSectors => AsAsked

\* A request returns.  The drive's interrupt may be lost between the test of
\* the status and the hlt; then the timer's ends the wait.
Terminates == Waiting ~> pc = "idle"

================================================================================
