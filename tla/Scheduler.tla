------------------------------- MODULE Scheduler -------------------------------
(*****************************************************************************)
(* Kernel threads (include/scheduler.h, lib/kthread.cc) and the timer tick   *)
(* that preempts them (lib/timer.cc, lib/switch_to.s).  The run queue is a   *)
(* ring of task_structs linked by next, headed by the boot thread Main.  The *)
(* interrupt handler runs with interrupts off, so a tick is one action; all  *)
(* other code is preemptible, and as the kernel is compiled without          *)
(* optimisation it takes one action per load or store of a pointer or pid in *)
(* the ring.  (A task_struct that is not yet in the ring is zeroed in one    *)
(* action and filled in in the next.)                                        *)
(*                                                                           *)
(* A thread's task_struct lies in the stack kmalloc'ed for it, so a task is  *)
(* its stack.  kmalloc returns a stack not in use (module Heap is about when *)
(* it does not).  Threads are created by Main and exit by returning.         *)
(*****************************************************************************)
EXTENDS Integers, FiniteSets

CONSTANTS
    Stacks,     \* the blocks kmalloc(STACK_SIZE) may return
    Main,       \* the boot thread: kern_stack, the value of runnable_tasks_
    Null,
    MaxCreate,  \* bound: how many threads Main creates
    Fit(_)      \* which of a set of free stacks kmalloc may return

VARIABLES
    next,       \* task_struct::next
    pid,        \* task_struct::pid
    allocated,  \* stacks that are not free in the heap
    running,    \* running_
    pid_cnt,    \* pid_cnt_
    pc,         \* where each thread is
    reg,        \* its local variables in submit, find_task and exit
    halted,     \* assert(new_task != nullptr) failed
    wild,       \* a null task_struct was used: nothing is known from here on
    raced       \* history: a task was unlinked under another thread's walk

ring == <<next, pid, allocated>>
vars == <<ring, running, pid_cnt, pc, reg, halted, wild, raced>>

Tasks == Stacks \cup {Main}

ASSUME SchedulerAssumption ==
    /\ IsFiniteSet(Stacks)
    /\ Main \notin Stacks /\ Null \notin Tasks
    /\ MaxCreate \in Nat
    /\ \A free \in SUBSET Stacks :
         /\ Fit(free) \subseteq free
         /\ free # {} => Fit(free) # {}

NoRegs == [p |-> 0, task |-> Null, prev |-> Null, cur |-> Null, tmp |-> Null]

Init ==
    /\ next = [t \in Tasks |-> IF t = Main THEN Main ELSE Null]
    /\ pid = [t \in Tasks |-> 0]
    /\ allocated = {}
    /\ running = Main
    /\ pid_cnt = 1
    /\ pc = [t \in Tasks |-> IF t = Main THEN "idle" ELSE "gone"]
    /\ reg = [t \in Tasks |-> NoRegs]
    /\ halted = FALSE
    /\ wild = FALSE
    /\ raced = FALSE

Follow(t) == IF t = Null THEN Null ELSE next[t]

\* Where submit looks for the end of the ring, find_task for a pid, and exit for
\* the task before its own.
Adding  == {"tail", "onward", "link"}
Finding == {"find", "find_next", "find_while"}
Exiting == {"exit", "first", "scan", "follow", "unlink", "free"}

Goto(t, l) == pc' = [pc EXCEPT ![t] = l]
Wild == wild' = TRUE /\ UNCHANGED <<ring, running, pid_cnt, pc, reg, halted, raced>>

--------------------------------------------------------------------------------
(* pid_t submit(kthread_entry fn), run by Main.                              *)

\* kmalloc, its assert, bzero
submit(t) ==
    /\ t = Main /\ pc[t] = "idle" /\ pid_cnt <= MaxCreate
    /\ IF Stacks \subseteq allocated
       THEN halted' = TRUE /\ UNCHANGED <<ring, pc, reg>>
       ELSE \E s \in Fit(Stacks \ allocated) :
              /\ allocated' = allocated \cup {s}
              /\ next' = [next EXCEPT ![s] = Null]
              /\ pid' = [pid EXCEPT ![s] = 0]
              /\ reg' = [reg EXCEPT ![t].task = s]
              /\ Goto(t, "fill")
              /\ UNCHANGED halted
    /\ UNCHANGED <<running, pid_cnt, wild, raced>>

\* Mutant: ++pid_cnt_ instead of pid_cnt_++.
SubmitFill_PreInc(t) ==
    /\ pc[t] = "fill"
    /\ LET s == reg[t].task IN
         /\ pid' = [pid EXCEPT ![s] = pid_cnt + 1]
         /\ next' = [next EXCEPT ![s] = Main]
         /\ pc' = [pc EXCEPT ![t] = "tail", ![s] = "run"]
         /\ reg' = [reg EXCEPT ![t].cur = Main, ![s] = NoRegs]
    /\ pid_cnt' = pid_cnt + 1
    /\ UNCHANGED <<allocated, running, halted, wild, raced>>

\* Mutant: pid_cnt_ is not counted up.
SubmitFill_SamePid(t) ==
    /\ pc[t] = "fill"
    /\ LET s == reg[t].task IN
         /\ pid' = [pid EXCEPT ![s] = pid_cnt]
         /\ next' = [next EXCEPT ![s] = Main]
         /\ pc' = [pc EXCEPT ![t] = "tail", ![s] = "run"]
         /\ reg' = [reg EXCEPT ![t].cur = Main, ![s] = NoRegs]
    /\ UNCHANGED <<pid_cnt, allocated, running, halted, wild, raced>>

\* the fields of the new task, its first stack frame and context
SubmitFill(t) ==
    /\ pc[t] = "fill"
    /\ LET s == reg[t].task IN
         /\ pid' = [pid EXCEPT ![s] = pid_cnt]
         /\ next' = [next EXCEPT ![s] = Main]
         /\ pc' = [pc EXCEPT ![t] = "tail", ![s] = "run"]
         /\ reg' = [reg EXCEPT ![t].cur = Main, ![s] = NoRegs]
    /\ pid_cnt' = pid_cnt + 1
    /\ UNCHANGED <<allocated, running, halted, wild, raced>>

\* while (cur->next != runnable_tasks_)
SubmitTail(t) ==
    /\ pc[t] = "tail"
    /\ IF reg[t].cur = Null THEN Wild
       ELSE /\ Goto(t, IF next[reg[t].cur] = Main THEN "link" ELSE "onward")
            /\ UNCHANGED <<ring, running, pid_cnt, reg, halted, wild, raced>>

\* cur = cur->next
SubmitOnward(t) ==
    /\ pc[t] = "onward"
    /\ reg' = [reg EXCEPT ![t].cur = next[@]]
    /\ Goto(t, "tail")
    /\ UNCHANGED <<ring, running, pid_cnt, halted, wild, raced>>

\* Mutant: the new task is linked behind the head, not behind the tail.
SubmitLink_AtHead(t) ==
    /\ pc[t] = "link"
    /\ next' = [next EXCEPT ![Main] = reg[t].task]
    /\ reg' = [reg EXCEPT ![t] = NoRegs]
    /\ Goto(t, "idle")
    /\ UNCHANGED <<pid, allocated, running, pid_cnt, halted, wild, raced>>

\* cur->next = new_task
SubmitLink(t) ==
    /\ pc[t] = "link"
    /\ next' = [next EXCEPT ![reg[t].cur] = reg[t].task]
    /\ reg' = [reg EXCEPT ![t] = NoRegs]
    /\ Goto(t, "idle")
    /\ raced' = (raced \/ pc[reg[t].cur] = "unlink")
    /\ UNCHANGED <<pid, allocated, running, pid_cnt, halted, wild>>

--------------------------------------------------------------------------------
(* kthread_exit, which the thread function returns into.                     *)

kthread_exit(t) ==
    /\ pc[t] = "run"
    /\ reg' = [reg EXCEPT ![t].p = pid[t], ![t].task = Main]
    /\ Goto(t, "find")
    /\ UNCHANGED <<ring, running, pid_cnt, halted, wild, raced>>

\* find_task: if (res->pid == p) return res
find_task(t) ==
    /\ pc[t] = "find"
    /\ Goto(t, IF pid[reg[t].task] = reg[t].p THEN "exit" ELSE "find_next")
    /\ UNCHANGED <<ring, running, pid_cnt, reg, halted, wild, raced>>

\* res = res->next
FindNext(t) ==
    /\ pc[t] = "find_next"
    /\ reg' = [reg EXCEPT ![t].task = next[@]]
    /\ Goto(t, "find_while")
    /\ UNCHANGED <<ring, running, pid_cnt, halted, wild, raced>>

\* Mutant: while (res->next->next != runnable_tasks_)
FindWhile_Ahead(t) ==
    /\ pc[t] = "find_while"
    /\ IF Follow(reg[t].task) = Null THEN Wild
       ELSE /\ IF next[next[reg[t].task]] = Main
               THEN reg' = [reg EXCEPT ![t].task = Null] /\ Goto(t, "exit")
               ELSE Goto(t, "find") /\ UNCHANGED reg
            /\ UNCHANGED <<ring, running, pid_cnt, halted, wild, raced>>

\* while (res->next != runnable_tasks_); return nullptr
FindWhile(t) ==
    /\ pc[t] = "find_while"
    /\ IF reg[t].task = Null THEN Wild
       ELSE /\ IF next[reg[t].task] = Main
               THEN reg' = [reg EXCEPT ![t].task = Null] /\ Goto(t, "exit")
               ELSE Goto(t, "find") /\ UNCHANGED reg
            /\ UNCHANGED <<ring, running, pid_cnt, halted, wild, raced>>

\* void exit(task_struct* task).  With Main alone in the ring it sets running_
\* and the head's next to nullptr, which ends all scheduling.
exit(t) ==
    /\ pc[t] = "exit"
    /\ IF next[Main] = Main THEN Wild
       ELSE /\ Goto(t, "first")
            /\ UNCHANGED <<ring, running, pid_cnt, reg, halted, wild, raced>>

\* prev = runnable_tasks_; cur = runnable_tasks_->next
ExitFirst(t) ==
    /\ pc[t] = "first"
    /\ reg' = [reg EXCEPT ![t].cur = next[Main], ![t].prev = Main]
    /\ Goto(t, "scan")
    /\ UNCHANGED <<ring, running, pid_cnt, halted, wild, raced>>

\* while (cur != task) cur = cur->next ...
ExitScan(t) ==
    /\ pc[t] = "scan" /\ reg[t].cur # reg[t].task
    /\ IF reg[t].cur = Null THEN Wild
       ELSE /\ reg' = [reg EXCEPT ![t].cur = next[@]]
            /\ Goto(t, "follow")
            /\ UNCHANGED <<ring, running, pid_cnt, halted, wild, raced>>

\* Mutant: prev is left behind.
ExitFollow_Stays(t) ==
    /\ pc[t] = "follow"
    /\ Goto(t, "scan")
    /\ UNCHANGED <<ring, running, pid_cnt, reg, halted, wild, raced>>

\* ... prev = prev->next
ExitFollow(t) ==
    /\ pc[t] = "follow"
    /\ IF reg[t].prev = Null THEN Wild
       ELSE /\ reg' = [reg EXCEPT ![t].prev = next[@]]
            /\ Goto(t, "scan")
            /\ UNCHANGED <<ring, running, pid_cnt, halted, wild, raced>>

\* Mutant: prev->next = cur
ExitRead_Cur(t) ==
    /\ pc[t] = "scan" /\ reg[t].cur = reg[t].task
    /\ reg' = [reg EXCEPT ![t].tmp = reg[t].cur]
    /\ Goto(t, "unlink")
    /\ UNCHANGED <<ring, running, pid_cnt, halted, wild, raced>>

\* prev->next = cur->next, a load and a store
ExitRead(t) ==
    /\ pc[t] = "scan" /\ reg[t].cur = reg[t].task
    /\ IF reg[t].cur = Null THEN Wild
       ELSE /\ reg' = [reg EXCEPT ![t].tmp = next[reg[t].cur]]
            /\ Goto(t, "unlink")
            /\ UNCHANGED <<ring, running, pid_cnt, halted, wild, raced>>

\* The tasks that thread u is about to go on from: those its walk has reached,
\* the one that it is about to make its prev, and the one that it is about to
\* make its predecessor's next.
Resting(u) ==
    CASE pc[u] \in Adding  -> {reg[u].cur}
      [] pc[u] \in Finding -> {reg[u].task}
      [] pc[u] = "scan"   -> {reg[u].prev, reg[u].cur}
      [] pc[u] = "follow" -> {reg[u].prev, Follow(reg[u].prev), reg[u].cur}
      [] pc[u] = "unlink" -> {reg[u].prev, reg[u].tmp}
      [] OTHER            -> {}

ExitUnlink(t) ==
    /\ pc[t] = "unlink"
    /\ IF reg[t].prev = Null THEN Wild
       ELSE /\ next' = [next EXCEPT ![reg[t].prev] = reg[t].tmp]
            /\ Goto(t, "free")
            /\ raced' = (raced \/ \E u \in Tasks \ {t} : t \in Resting(u))
            /\ UNCHANGED <<pid, allocated, running, pid_cnt, reg, halted, wild>>

\* kfree(task).  kthread_exit then returns to address 0, where the thread
\* executes whatever is mapped there until the next tick.
ExitFree(t) ==
    /\ pc[t] = "free"
    /\ allocated' = allocated \ {reg[t].task}
    /\ Goto(t, "gone")
    /\ UNCHANGED <<next, pid, running, pid_cnt, reg, halted, wild, raced>>

--------------------------------------------------------------------------------
\* Mutant: the successor of the head instead of the running task's.
schedule_FromHead ==
    /\ running' = next[Main]
    /\ UNCHANGED <<ring, pid_cnt, pc, reg, halted, wild, raced>>

\* timer_callback: kthread_schedule, schedule, change_task_to, switch_to
schedule ==
    /\ IF next[running] = Null THEN Wild
       ELSE /\ running' = next[running]
            /\ UNCHANGED <<ring, pid_cnt, pc, reg, halted, wild, raced>>

Step(t) ==
    /\ ~halted /\ ~wild /\ running = t
    /\ \/ submit(t) \/ SubmitFill(t) \/ SubmitTail(t) \/ SubmitOnward(t) \/ SubmitLink(t)
       \/ kthread_exit(t) \/ find_task(t) \/ FindNext(t) \/ FindWhile(t)
       \/ exit(t) \/ ExitFirst(t) \/ ExitScan(t) \/ ExitFollow(t)
       \/ ExitRead(t) \/ ExitUnlink(t) \/ ExitFree(t)

Tick == ~halted /\ ~wild /\ schedule

Next == Tick \/ \E t \in Tasks : Step(t)

\* The timer never stops ticking, and a tick is far longer than a step: a
\* thread that is scheduled again and again gets on.
Fairness == WF_vars(Tick) /\ \A t \in Tasks : SF_vars(Step(t))

Spec == Init /\ [][Next]_vars /\ Fairness

--------------------------------------------------------------------------------
TypeOK ==
    /\ next \in [Tasks -> Tasks \cup {Null}]
    /\ pid \in [Tasks -> 0..MaxCreate]
    /\ allocated \subseteq Stacks
    /\ running \in Tasks
    /\ pid_cnt \in 1..(MaxCreate + 1)
    /\ pc \in [Tasks -> {"idle", "fill", "run", "gone"} \cup Adding \cup Finding \cup Exiting]
    /\ reg \in [Tasks -> [p : 0..MaxCreate, task : Tasks \cup {Null},
                          prev : Tasks \cup {Null}, cur : Tasks \cup {Null},
                          tmp : Tasks \cup {Null}]]
    /\ halted \in BOOLEAN /\ wild \in BOOLEAN /\ raced \in BOOLEAN

\* The tasks a chain of next pointers from Main leads to.
Hops == 0..Cardinality(Tasks)
Chain == LET c[n \in Hops] == IF n = 0 THEN Main ELSE Follow(c[n - 1]) IN c
Ring == {Chain[n] : n \in Hops}

\* The stacks whose thread has been linked in and has not unlinked itself.
Linked ==
    {s \in allocated :
        /\ pc[s] \notin {"free", "gone"}
        /\ ~(pc[Main] \in Adding /\ reg[Main].task = s)}

\* The ring leads back to Main through exactly the threads that were linked in
\* and have not unlinked themselves, whatever the ticks did to submit and
\* exit; so a freed task is never scheduled.
RingSound ==
    /\ ~wild
    /\ Ring = Linked \cup {Main}
    /\ \E n \in Hops \ {0} : Chain[n] = Main

\* With any number of threads, and stacks used again, the ring is sound as long
\* as no task is unlinked that another thread's walk rests on or steps over, nor
\* linked behind while it is being unlinked.  So threads that are not neighbours
\* may leave at the same time, and others leave while the ring is walked.
RingUnlessRaced == ~raced => RingSound

\* submit has begun to make the third thread besides the boot thread.
Third == pid_cnt > 3 \/ (pid_cnt = 3 /\ pc[Main] = "fill")

\* Until then no such race does any harm.
RingSoundForTwo == ~Third => RingSound
Harm == raced /\ Third

\* find_task looks for the exiting thread by its pid, in a ring that changes
\* under it and among task_structs that lie in stacks used again and again: it
\* finds that thread or none.  So exit looks for no other thread's task in the
\* ring and frees no other's, and none that was freed before.
ExitsOwnTask ==
    \A t \in Tasks : pc[t] \in Exiting => t \in allocated /\ reg[t].task \in {t, Null}

\* find_task stops at the last task of the ring without looking at it.  It misses
\* no other: where it gives up, the task it looks for is the one it stands on,
\* whatever was linked and unlinked since it set out, unless a task was unlinked
\* under a walk.
MissesOnlyLast ==
    [][\A t \in Tasks : pc[t] = "find_while" /\ pc'[t] = "exit" /\ ~raced
                           => reg[t].task = t]_vars

\* A thread in the ring is scheduled again, unless the ring comes to harm: round
\* robin starves nobody.
EveryoneRuns == \A t \in Tasks : [](t \in Ring => <>(running = t \/ Harm))

\* A thread that find_task has found leaves the ring, however the ticks fall
\* into its walk and whatever the other threads unlink and link meanwhile,
\* unless the ring comes to harm.  (The last thread of the ring is not found,
\* and a thread that is preempted between its unlinking and kfree is never
\* scheduled again, so its stack stays allocated.)
LeavesRing ==
    \A s \in Stacks : pc[s] = "exit" /\ reg[s].task = s ~> s \notin Ring \/ Harm

\* kthread_exit: "Normally exit or kill a thread".  A thread that has exited
\* is never scheduled again.
ExitedStaysOut == \A s \in Stacks : pc[s] = "gone" => s \notin Ring

================================================================================
