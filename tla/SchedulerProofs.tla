---------------------------- MODULE SchedulerProofs ----------------------------
(*****************************************************************************)
(* Proofs about module Scheduler, for any number of stacks and threads, and  *)
(* stacks used again: the type invariant, that exit acts on its own thread's *)
(* task only, and that the ring breaks in no way but by the race.            *)
(*                                                                           *)
(* find_task compares pids, so the argument for exit is about pids: every pid*)
(* handed out is below pid_cnt_, no two task_structs hold the same one, not  *)
(* even those in stacks that were freed, and a thread's own never changes    *)
(* while it lives.  It holds whatever the ring looks like.                   *)
(*                                                                           *)
(* The ring is a chain q[0..n] of tasks from Main back to Main (RingIs) that *)
(* holds exactly the tasks linked in, and on which every walk of submit,     *)
(* find_task and exit rests; a task may leave it when no walk rests on it.   *)
(*****************************************************************************)
EXTENDS Scheduler, FiniteSetTheorems, WellFoundedInduction, TLAPS

\* The code each thread can be in: Main submits, the others run and exit.
Labels ==
    /\ pc[Main] \in {"idle", "fill"} \cup Adding
    /\ \A s \in Stacks : pc[s] \in {"run", "gone"} \cup Finding \cup Exiting

\* A thread that lives has a stack; the one submit fills in has no thread yet.
StackHeld ==
    /\ \A s \in Stacks : pc[s] # "gone" => s \in allocated
    /\ pc[Main] = "fill" =>
         /\ reg[Main].task \in allocated
         /\ pc[reg[Main].task] = "gone"
         /\ pid_cnt <= MaxCreate

\* 0 is Main's pid, and that of a task_struct not yet filled in.
PidsApart ==
    /\ pid[Main] = 0
    /\ \A s \in Stacks : pid[s] < pid_cnt
    /\ \A s, u \in Stacks : pid[s] = pid[u] /\ pid[s] # 0 => s = u
    /\ \A s \in Stacks : pc[s] # "gone" => pid[s] # 0

\* find_task looks for the pid of the thread that called it, and finds it or
\* nothing.  It and submit load from no null pointer but at their loops' tests.
Looking ==
    /\ pc[Main] = "onward" => reg[Main].cur # Null
    /\ \A s \in Stacks :
        /\ pc[s] \in Finding => reg[s].p = pid[s]
        /\ pc[s] \in {"find", "find_next"} => reg[s].task # Null
        /\ pc[s] \in Exiting => reg[s].task \in {s, Null}

Inv == TypeOK /\ Labels /\ StackHeld /\ PidsApart /\ Looking

Regs == [p : 0..MaxCreate, task : Tasks \cup {Null}, prev : Tasks \cup {Null},
         cur : Tasks \cup {Null}, tmp : Tasks \cup {Null}]

Places == {"idle", "fill", "run", "gone"} \cup Adding \cup Finding \cup Exiting

\* Init: nobody has been created.
LEMMA InitStep == Init => Inv
  <1> SUFFICES ASSUME Init PROVE Inv
    OBVIOUS
  <1>1. /\ Main \in Tasks /\ Main \notin Stacks /\ MaxCreate \in Nat
        /\ Stacks \subseteq Tasks
    BY SchedulerAssumption DEF Tasks
  <1>2. NoRegs \in Regs
    BY <1>1 DEF NoRegs, Regs
  <1>3. TypeOK
    <2>1. next \in [Tasks -> Tasks \cup {Null}]
      BY <1>1 DEF Init
    <2>2. pid \in [Tasks -> 0..MaxCreate] /\ pid_cnt \in 1..(MaxCreate + 1)
      BY <1>1 DEF Init
    <2>3. pc \in [Tasks -> Places]
      BY DEF Init, Places, Adding, Finding, Exiting
    <2>4. reg \in [Tasks -> Regs]
      BY <1>2 DEF Init
    <2>5. allocated \subseteq Stacks /\ running \in Tasks /\ halted \in BOOLEAN /\ wild \in BOOLEAN /\ raced \in BOOLEAN
      BY <1>1 DEF Init
    <2> QED
      BY <2>1, <2>2, <2>3, <2>4, <2>5 DEF TypeOK, Places, Regs, Adding, Finding, Exiting
  <1>4. /\ pc[Main] = "idle" /\ pid[Main] = 0
        /\ \A s \in Stacks : pc[s] = "gone" /\ pid[s] = 0
    BY <1>1 DEF Init
  <1> QED
    BY <1>1, <1>3, <1>4 DEF Inv, Labels, StackHeld, PidsApart, Looking, Exiting, Init, Adding, Finding

\* What the lemmas below need of the constants and of the type invariant.
LEMMA TypeParts ==
  ASSUME Inv
  PROVE  /\ Main \in Tasks /\ Main \notin Stacks /\ MaxCreate \in Nat
         /\ Stacks \subseteq Tasks /\ Null \notin Tasks
         /\ \A t \in Tasks : t = Main \/ t \in Stacks
         /\ next \in [Tasks -> Tasks \cup {Null}]
         /\ pid \in [Tasks -> 0..MaxCreate]
         /\ pc \in [Tasks -> Places]
         /\ reg \in [Tasks -> Regs]
  BY SchedulerAssumption DEF Inv, TypeOK, Places, Regs, Tasks, Adding, Finding, Exiting

\* kmalloc returns a stack that is free.
LEMMA FitFree == Fit(Stacks \ allocated) \subseteq Stacks \ allocated
  BY SchedulerAssumption

\* A null task_struct: the state is left as it is.
LEMMA WildStep ==
  ASSUME Inv, Wild
  PROVE  Inv'
  <1>1. TypeOK'
    BY DEF Inv, TypeOK, Wild, ring
  <1> QED
    BY <1>1 DEF Inv, Labels, StackHeld, PidsApart, Looking, Wild, ring, Exiting, Adding, Finding

\* A timer tick changes running_ only.
LEMMA TickStep ==
  ASSUME Inv, Tick
  PROVE  Inv'
  <1>1. CASE Wild
    BY <1>1, WildStep
  <1>2. CASE ~Wild
    <2>1. /\ next[running] # Null /\ running' = next[running]
          /\ UNCHANGED <<ring, pid_cnt, pc, reg, halted, wild, raced>>
      BY <1>2 DEF Tick, schedule
    <2>2. running' \in Tasks
      BY <2>1 DEF Inv, TypeOK
    <2>3. TypeOK'
      BY <2>1, <2>2 DEF Inv, TypeOK, ring
    <2> QED
      BY <2>1, <2>3 DEF Inv, Labels, StackHeld, PidsApart, Looking, ring, Exiting, Adding, Finding
  <1> QED
    BY <1>1, <1>2

\* submit, up to bzero: the stack it takes has no thread, so no pid in use is
\* overwritten.
LEMMA SubmitStep ==
  ASSUME Inv, NEW t \in Tasks, submit(t)
  PROVE  Inv'
  <1> USE TypeParts
  <1>0. t = Main /\ pc[t] = "idle" /\ pid_cnt <= MaxCreate
    BY DEF submit
  <1>1. CASE Stacks \subseteq allocated
    <2>1. halted' = TRUE /\ UNCHANGED <<ring, pc, reg, running, pid_cnt, wild, raced>>
      BY <1>1 DEF submit
    <2>2. TypeOK'
      BY <2>1 DEF Inv, TypeOK, ring
    <2> QED
      BY <2>1, <2>2 DEF Inv, Labels, StackHeld, PidsApart, Looking, ring, Exiting, Adding, Finding
  <1>2. CASE ~(Stacks \subseteq allocated)
    <2>1. PICK s \in Stacks \ allocated :
              /\ allocated' = allocated \cup {s}
              /\ next' = [next EXCEPT ![s] = Null]
              /\ pid' = [pid EXCEPT ![s] = 0]
              /\ reg' = [reg EXCEPT ![t].task = s]
              /\ pc' = [pc EXCEPT ![t] = "fill"]
              /\ UNCHANGED <<halted, running, pid_cnt, wild, raced>>
      BY <1>2, FitFree DEF submit, Goto
    <2>2. s \in Tasks /\ s # Main /\ pc[s] = "gone"
      BY DEF Inv, StackHeld
    <2>3. /\ next' \in [Tasks -> Tasks \cup {Null}]
          /\ pid' \in [Tasks -> 0..MaxCreate]
          /\ pc' \in [Tasks -> Places]
      BY <2>1, <2>2 DEF Places, Adding, Finding, Exiting
    <2>4. reg' \in [Tasks -> Regs]
      BY <2>1, <2>2 DEF Regs
    <2>5. TypeOK'
      BY <2>1, <2>3, <2>4 DEF Inv, TypeOK, Places, Regs, Adding, Finding, Exiting
    <2>6. /\ pc'[Main] = "fill" /\ reg'[Main].task = s
          /\ \A u \in Stacks : pc'[u] = pc[u] /\ reg'[u] = reg[u]
          /\ \A u \in Tasks : pid'[u] = IF u = s THEN 0 ELSE pid[u]
      BY <1>0, <2>1, <2>2 DEF Regs
    <2>7. Labels'
      BY <2>6 DEF Inv, Labels, Adding, Finding, Exiting
    <2>8. StackHeld'
      BY <1>0, <2>1, <2>2, <2>6 DEF Inv, StackHeld
    <2>9. PidsApart'
      <3>1. pid_cnt \in Nat \ {0} /\ pid_cnt' = pid_cnt
        BY <2>1 DEF Inv, TypeOK
      <3> QED
        BY <2>2, <2>6, <3>1 DEF Inv, PidsApart
    <2>10. Looking'
      BY <2>2, <2>6 DEF Inv, Looking, Exiting, Adding, Finding
    <2> QED
      BY <2>5, <2>7, <2>8, <2>9, <2>10 DEF Inv
  <1> QED
    BY <1>1, <1>2

\* The new task gets a pid that no task_struct holds.
LEMMA FillStep ==
  ASSUME Inv, NEW t \in Tasks, SubmitFill(t)
  PROVE  Inv'
  <1> USE TypeParts
  <1> DEFINE s == reg[Main].task
  <1>0. t = Main /\ pc[Main] = "fill"
    BY DEF SubmitFill, Inv, Labels, Exiting, Adding, Finding
  <1>1. s \in Stacks /\ s \in allocated /\ s # Main /\ pc[s] = "gone" /\ pid_cnt \in 1..MaxCreate
    BY <1>0 DEF Inv, StackHeld, TypeOK
  <1>2. /\ pid' = [pid EXCEPT ![s] = pid_cnt]
        /\ next' = [next EXCEPT ![s] = Main]
        /\ pc' = [pc EXCEPT ![Main] = "tail", ![s] = "run"]
        /\ reg' = [reg EXCEPT ![Main].cur = Main, ![s] = NoRegs]
        /\ pid_cnt' = pid_cnt + 1
        /\ UNCHANGED <<allocated, running, halted, wild, raced>>
    BY <1>0 DEF SubmitFill
  <1> HIDE DEF s
  <1>3. /\ next' \in [Tasks -> Tasks \cup {Null}]
        /\ pid' \in [Tasks -> 0..MaxCreate]
        /\ pc' \in [Tasks -> Places]
        /\ pid_cnt' \in 1..(MaxCreate + 1)
    BY <1>1, <1>2 DEF Places, Adding, Finding, Exiting
  <1>4. reg' \in [Tasks -> Regs]
    BY <1>1, <1>2 DEF Regs, NoRegs
  <1>5. TypeOK'
    BY <1>2, <1>3, <1>4 DEF Inv, TypeOK, Places, Regs, Adding, Finding, Exiting
  <1>6. /\ pc'[Main] = "tail" /\ pc'[s] = "run"
        /\ \A u \in Stacks : u # s => pc'[u] = pc[u] /\ reg'[u] = reg[u]
        /\ \A u \in Tasks : pid'[u] = IF u = s THEN pid_cnt ELSE pid[u]
    BY <1>1, <1>2
  <1>7. Labels'
    BY <1>6 DEF Inv, Labels, Adding, Finding, Exiting
  <1>8. StackHeld'
    BY <1>1, <1>2, <1>6 DEF Inv, StackHeld
  <1>9. PidsApart'
    <2>1. \A u \in Stacks : pid[u] \in Nat /\ pid[u] < pid_cnt
      BY DEF Inv, PidsApart
    <2> QED
      BY <1>1, <1>2, <1>6, <2>1 DEF Inv, PidsApart
  <1>10. Looking'
    BY <1>1, <1>6 DEF Inv, Looking, Exiting, Adding, Finding
  <1> QED
    BY <1>5, <1>7, <1>8, <1>9, <1>10 DEF Inv

\* The rest of submit writes next and Main's own locals.
LEMMA MainStep ==
  ASSUME Inv, NEW t \in Tasks, SubmitTail(t) \/ SubmitOnward(t) \/ SubmitLink(t)
  PROVE  Inv'
  <1> USE TypeParts
  <1>1. CASE Wild
    BY <1>1, WildStep
  <1>2. CASE ~Wild
    <2>0. t = Main /\ pc[Main] \in Adding
      BY DEF SubmitTail, SubmitOnward, SubmitLink, Inv, Labels, Adding, Finding, Exiting
    <2>1. UNCHANGED <<pid, allocated, running, pid_cnt, halted, wild>> /\ raced' \in BOOLEAN
      BY <1>2 DEF SubmitTail, SubmitOnward, SubmitLink, ring, Inv, TypeOK
    <2>2. /\ pc' \in [Tasks -> Places] /\ reg' \in [Tasks -> Regs]
          /\ pc'[Main] \in {"idle"} \cup Adding
          /\ pc'[Main] = "onward" => reg'[Main].cur # Null
          /\ \A u \in Stacks : pc'[u] = pc[u] /\ reg'[u] = reg[u]
      <3>1. CASE SubmitLink(t)
        <4>1. /\ reg' = [reg EXCEPT ![Main] = NoRegs]
              /\ pc' = [pc EXCEPT ![Main] = "idle"]
          BY <2>0, <3>1 DEF SubmitLink, Goto
        <4>2. NoRegs \in Regs
          BY DEF NoRegs, Regs
        <4> QED
          BY <4>1, <4>2 DEF Places
      <3>2. CASE SubmitOnward(t)
        <4>1. /\ reg[Main].cur # Null
              /\ reg' = [reg EXCEPT ![Main].cur = next[@]]
              /\ pc' = [pc EXCEPT ![Main] = "tail"]
          BY <2>0, <3>2 DEF SubmitOnward, Goto, Inv, Looking
        <4>2. next[reg[Main].cur] \in Tasks \cup {Null}
          BY <4>1 DEF Regs
        <4>3. reg' \in [Tasks -> Regs]
          BY <4>1, <4>2 DEF Regs
        <4> QED
          BY <4>1, <4>3 DEF Places, Adding
      <3>3. CASE SubmitTail(t)
        <4>1. /\ reg' = reg /\ reg[Main].cur # Null
              /\ pc' = [pc EXCEPT ![Main] = "link"] \/ pc' = [pc EXCEPT ![Main] = "onward"]
          BY <1>2, <2>0, <3>3 DEF SubmitTail, Goto
        <4> QED
          BY <4>1 DEF Places, Adding
      <3> QED
        BY <3>1, <3>2, <3>3
    <2>3. next' \in [Tasks -> Tasks \cup {Null}]
      <3>1. next' = next \/ next' = [next EXCEPT ![reg[t].cur] = reg[t].task]
        BY <1>2 DEF SubmitTail, SubmitOnward, SubmitLink, ring
      <3>2. reg[t].task \in Tasks \cup {Null}
        BY DEF Regs
      <3> QED
        BY <3>1, <3>2
    <2>4. TypeOK'
      BY <2>1, <2>2, <2>3 DEF Inv, TypeOK, Places, Regs, Adding, Finding, Exiting
    <2> QED
      BY <2>1, <2>2, <2>4 DEF Inv, Labels, StackHeld, PidsApart, Looking, Exiting, Adding, Finding
  <1> QED
    BY <1>1, <1>2

\* What a step of an exiting thread s leaves alone: every pid, the other threads'
\* places and locals, and every stack but its own.
Alone(s) ==
    /\ pid' = pid /\ pid_cnt' = pid_cnt
    /\ allocated' = allocated \/ (allocated' = allocated \ {s} /\ pc'[s] = "gone")
    /\ \A u \in Tasks \ {s} : pc'[u] = pc[u] /\ reg'[u] = reg[u]

\* Such a step preserves the invariant if the thread looks for its own pid and
\* exits its own task.
LEMMA AloneStep ==
  ASSUME Inv, NEW s \in Stacks, pc[s] # "gone", TypeOK', Alone(s),
         pc'[s] \in {"gone"} \cup Finding \cup Exiting,
         pc'[s] \in Finding => reg'[s].p = pid[s],
         pc'[s] \in {"find", "find_next"} => reg'[s].task # Null,
         pc'[s] \in Exiting => reg'[s].task \in {s, Null}
  PROVE  Inv'
  <1> USE TypeParts
  <1>1. s # Main /\ pc'[Main] = pc[Main] /\ reg'[Main] = reg[Main]
    BY DEF Alone
  <1>2. Labels'
    BY <1>1 DEF Alone, Inv, Labels, Exiting, Adding, Finding
  <1>3. StackHeld'
    <2>1. \A u \in Stacks : pc'[u] # "gone" => u \in allocated'
      BY DEF Alone, Inv, StackHeld
    <2>2. ASSUME pc'[Main] = "fill"
          PROVE  /\ reg'[Main].task \in allocated'
                 /\ pc'[reg'[Main].task] = "gone"
                 /\ pid_cnt' <= MaxCreate
      <3>1. /\ reg[Main].task \in allocated /\ pc[reg[Main].task] = "gone"
            /\ pid_cnt <= MaxCreate
        BY <1>1, <2>2 DEF Inv, StackHeld
      <3>2. reg[Main].task \in Tasks \ {s}
        BY <3>1 DEF Inv, TypeOK
      <3> QED
        BY <1>1, <3>1, <3>2 DEF Alone
    <2> QED
      BY <2>1, <2>2 DEF StackHeld
  <1>4. PidsApart'
    BY DEF Alone, Inv, PidsApart
  <1>5. Looking'
    BY <1>1 DEF Alone, Inv, Looking, Exiting, Adding, Finding
  <1> QED
    BY <1>2, <1>3, <1>4, <1>5 DEF Inv

\* kthread_exit takes the pid of its own thread.
LEMMA CallStep ==
  ASSUME Inv, NEW t \in Tasks, kthread_exit(t)
  PROVE  Inv'
  <1> USE TypeParts
  <1>1. t \in Stacks
    BY DEF kthread_exit, Inv, Labels, Adding, Finding, Exiting
  <1>2. /\ reg' = [reg EXCEPT ![t].p = pid[t], ![t].task = Main]
        /\ pc' = [pc EXCEPT ![t] = "find"]
        /\ UNCHANGED <<ring, running, pid_cnt, halted, wild, raced>>
    BY DEF kthread_exit, Goto
  <1>3. reg' \in [Tasks -> Regs] /\ reg'[t].p = pid[t] /\ reg'[t].task = Main
    <2>1. pid[t] \in 0..MaxCreate
      OBVIOUS
    <2> QED
      BY ONLY <1>2, <2>1, Main \in Tasks, t \in Tasks, reg \in [Tasks -> Regs] DEF Regs
  <1>4. TypeOK'
    <2>1. pc' \in [Tasks -> Places]
      BY <1>2 DEF Places, Finding
    <2> QED
      BY <1>2, <1>3, <2>1 DEF Inv, TypeOK, Regs, Places, ring
  <1>5. pc'[t] = "find" /\ Alone(t)
    BY <1>2 DEF Alone, ring
  <1> QED
    BY <1>1, <1>3, <1>4, <1>5, AloneStep DEF kthread_exit, Exiting, Adding, Finding

\* find_task compares with the thread's own pid, which no other task_struct has,
\* so what it finds is the thread's own.
LEMMA FindStep ==
  ASSUME Inv, NEW t \in Tasks, find_task(t) \/ FindNext(t) \/ FindWhile(t)
  PROVE  Inv'
  <1> USE TypeParts
  <1> DEFINE res == reg[t].task
  <1>0. t \in Stacks /\ pc[t] \in Finding /\ reg[t].p = pid[t] /\ pid[t] # 0
    BY DEF find_task, FindNext, FindWhile, Inv, Labels, Looking, PidsApart, Adding, Finding, Exiting
  <1>1. CASE Wild
    BY <1>1, WildStep
  <1>2. CASE find_task(t) /\ pid[res] = reg[t].p
    <2>1. /\ pc' = [pc EXCEPT ![t] = "exit"] /\ reg' = reg /\ res \in Tasks
          /\ UNCHANGED <<ring, running, pid_cnt, halted, wild, raced>>
      BY <1>0, <1>2 DEF find_task, Goto, Inv, Looking, Regs
    <2>2. res = t
      BY <1>0, <1>2, <2>1 DEF Inv, PidsApart
    <2>3. TypeOK'
      BY <2>1 DEF Inv, TypeOK, ring, Exiting
    <2>4. Alone(t) /\ pc'[t] = "exit" /\ reg'[t].task = t
      BY <2>1, <2>2 DEF Alone, ring
    <2> QED
      BY <1>0, <2>3, <2>4, AloneStep DEF Finding, Exiting
  <1>3. CASE find_task(t) /\ pid[res] # reg[t].p
    <2>1. /\ pc' = [pc EXCEPT ![t] = "find_next"] /\ reg' = reg /\ res # Null
          /\ UNCHANGED <<ring, running, pid_cnt, halted, wild, raced>>
      BY <1>0, <1>3 DEF find_task, Goto, Inv, Looking
    <2>2. TypeOK'
      BY <2>1 DEF Inv, TypeOK, ring, Finding
    <2>3. Alone(t) /\ pc'[t] = "find_next"
      BY <2>1 DEF Alone, ring
    <2> QED
      BY <1>0, <2>1, <2>2, <2>3, AloneStep DEF Finding, Exiting
  <1>4. CASE FindNext(t)
    <2>1. /\ pc' = [pc EXCEPT ![t] = "find_while"] /\ res # Null
          /\ reg' = [reg EXCEPT ![t].task = next[@]]
          /\ UNCHANGED <<ring, running, pid_cnt, halted, wild, raced>>
      BY <1>0, <1>4 DEF FindNext, Goto, Inv, Looking
    <2>2. next[res] \in Tasks \cup {Null}
      BY <2>1 DEF Regs
    <2>3. reg' \in [Tasks -> Regs] /\ reg'[t].p = reg[t].p
      BY <2>1, <2>2 DEF Regs
    <2>4. TypeOK'
      BY <2>1, <2>3 DEF Inv, TypeOK, Regs, ring, Finding
    <2>5. Alone(t) /\ pc'[t] = "find_while"
      BY <2>1 DEF Alone, ring
    <2> QED
      BY <1>0, <2>3, <2>4, <2>5, AloneStep DEF Finding, Exiting
  <1>5. CASE FindWhile(t) /\ ~Wild /\ next[res] = Main
    <2>1. /\ reg' = [reg EXCEPT ![t].task = Null] /\ pc' = [pc EXCEPT ![t] = "exit"]
          /\ UNCHANGED <<ring, running, pid_cnt, halted, wild, raced>>
      BY <1>5 DEF FindWhile, Goto
    <2>2. reg' \in [Tasks -> Regs] /\ reg'[t].task = Null
      BY <2>1 DEF Regs
    <2>3. TypeOK'
      BY <2>1, <2>2 DEF Inv, TypeOK, Regs, ring, Exiting
    <2>4. Alone(t) /\ pc'[t] = "exit"
      BY <2>1 DEF Alone, ring
    <2> QED
      BY <1>0, <2>2, <2>3, <2>4, AloneStep DEF Finding, Exiting
  <1>6. CASE FindWhile(t) /\ ~Wild /\ next[res] # Main
    <2>1. /\ pc' = [pc EXCEPT ![t] = "find"] /\ reg' = reg /\ res # Null
          /\ UNCHANGED <<ring, running, pid_cnt, halted, wild, raced>>
      BY <1>6 DEF FindWhile, Goto
    <2>2. TypeOK'
      BY <2>1 DEF Inv, TypeOK, ring, Finding
    <2>3. Alone(t) /\ pc'[t] = "find"
      BY <2>1 DEF Alone, ring
    <2> QED
      BY <1>0, <2>1, <2>2, <2>3, AloneStep DEF Finding, Exiting
  <1> QED
    BY <1>1, <1>2, <1>3, <1>4, <1>5, <1>6

\* exit walks the ring and writes next, but task stays what find_task found.
LEMMA ExitStep ==
  ASSUME Inv, NEW t \in Tasks,
         \/ exit(t) \/ ExitFirst(t) \/ ExitScan(t) \/ ExitFollow(t)
         \/ ExitRead(t) \/ ExitUnlink(t) \/ ExitFree(t)
  PROVE  Inv'
  <1> USE TypeParts
  <1>0. t \in Stacks /\ pc[t] \in Exiting /\ reg[t].task \in {t, Null}
    BY DEF exit, ExitFirst, ExitScan, ExitFollow, ExitRead, ExitUnlink, ExitFree, Inv, Labels, Looking, Exiting, Adding, Finding
  <1>a. next[Main] \in Tasks \cup {Null} /\ \A u \in Tasks : next[u] \in Tasks \cup {Null}
    OBVIOUS
  <1>b. ASSUME NEW r \in [Tasks -> Regs], reg' = r, r[t].task = reg[t].task,
               \A u \in Tasks \ {t} : r[u] = reg[u],
               NEW l \in Exiting, pc' = [pc EXCEPT ![t] = l] \/ pc' = pc,
               next' \in [Tasks -> Tasks \cup {Null}],
               UNCHANGED <<pid, allocated, running, pid_cnt, halted, wild>>,
               raced' \in BOOLEAN
        PROVE  Inv'
    <2>1. pc' \in [Tasks -> Places]
      BY <1>b DEF Places, Exiting, Adding, Finding
    <2>2. TypeOK'
      BY <1>b, <2>1 DEF Inv, TypeOK, Regs, Places, Adding, Finding, Exiting
    <2>3. Alone(t) /\ pc'[t] \in Exiting /\ reg'[t].task \in {t, Null}
      BY <1>0, <1>b DEF Alone
    <2> QED
      BY <1>0, <2>2, <2>3, AloneStep DEF Exiting, Adding, Finding
  <1>c. ASSUME NEW a \in Tasks \cup {Null}, NEW b \in Tasks \cup {Null},
               reg' = [reg EXCEPT ![t].cur = a, ![t].prev = b]
        PROVE  reg' \in [Tasks -> Regs] /\ reg'[t].task = reg[t].task
    BY ONLY <1>c, t \in Tasks, reg \in [Tasks -> Regs] DEF Regs
  <1>d. raced \in BOOLEAN
    BY DEF Inv, TypeOK
  <1>1. CASE Wild
    BY <1>1, WildStep
  <1>2. CASE exit(t) /\ ~Wild
    <2>1. /\ pc' = [pc EXCEPT ![t] = "first"]
          /\ UNCHANGED <<ring, running, pid_cnt, reg, halted, wild, raced>>
      BY <1>2 DEF exit, Goto
    <2> QED
      BY <1>d, <1>b, <2>1 DEF Exiting, ring
  <1>3. CASE ExitFirst(t)
    <2>1. /\ reg' = [reg EXCEPT ![t].cur = next[Main], ![t].prev = Main]
          /\ pc' = [pc EXCEPT ![t] = "scan"]
          /\ UNCHANGED <<ring, running, pid_cnt, halted, wild, raced>>
      BY <1>3 DEF ExitFirst, Goto
    <2>2. reg' \in [Tasks -> Regs] /\ reg'[t].task = reg[t].task
      BY <2>1, <1>a, <1>c
    <2> QED
      BY <1>d, <1>b, <2>1, <2>2 DEF Exiting, ring
  <1>7. CASE ExitScan(t) /\ ~Wild
    <2>1. /\ reg[t].cur # Null
          /\ reg' = [reg EXCEPT ![t].cur = next[@]]
          /\ pc' = [pc EXCEPT ![t] = "follow"]
          /\ UNCHANGED <<ring, running, pid_cnt, halted, wild, raced>>
      BY <1>7 DEF ExitScan, Goto
    <2>2. next[reg[t].cur] \in Tasks \cup {Null}
      BY <2>1 DEF Regs
    <2>3. reg' \in [Tasks -> Regs] /\ reg'[t].task = reg[t].task
      BY <2>1, <2>2 DEF Regs
    <2> QED
      BY <1>d, <1>b, <2>1, <2>3 DEF Exiting, ring
  <1>8. CASE ExitFollow(t) /\ ~Wild
    <2>1. /\ reg[t].prev # Null
          /\ reg' = [reg EXCEPT ![t].prev = next[@]]
          /\ pc' = [pc EXCEPT ![t] = "scan"]
          /\ UNCHANGED <<ring, running, pid_cnt, halted, wild, raced>>
      BY <1>8 DEF ExitFollow, Goto
    <2>2. next[reg[t].prev] \in Tasks \cup {Null}
      BY <2>1 DEF Regs
    <2>3. reg' \in [Tasks -> Regs] /\ reg'[t].task = reg[t].task
      BY <2>1, <2>2 DEF Regs
    <2> QED
      BY <1>d, <1>b, <2>1, <2>3 DEF Exiting, ring
  <1>4. CASE ExitRead(t) /\ ~Wild
    <2>1. /\ reg[t].cur # Null
          /\ reg' = [reg EXCEPT ![t].tmp = next[reg[t].cur]]
          /\ pc' = [pc EXCEPT ![t] = "unlink"]
          /\ UNCHANGED <<ring, running, pid_cnt, halted, wild, raced>>
      BY <1>4 DEF ExitRead, Goto
    <2>2. reg[t].cur \in Tasks
      BY <2>1 DEF Regs
    <2>3. reg' \in [Tasks -> Regs] /\ reg'[t].task = reg[t].task
      BY <1>a, <2>1, <2>2 DEF Regs
    <2> QED
      BY <1>d, <1>b, <2>1, <2>3 DEF Exiting, ring, Adding, Finding
  <1>5. CASE ExitUnlink(t) /\ ~Wild
    <2>1. /\ next' = [next EXCEPT ![reg[t].prev] = reg[t].tmp]
          /\ pc' = [pc EXCEPT ![t] = "free"]
          /\ UNCHANGED <<pid, allocated, running, pid_cnt, reg, halted, wild>>
          /\ raced' \in BOOLEAN
      BY <1>5 DEF ExitUnlink, Goto
    <2>2. reg[t].tmp \in Tasks \cup {Null}
      BY DEF Regs
    <2>3. next' \in [Tasks -> Tasks \cup {Null}]
      BY <2>1, <2>2
    <2> QED
      BY <1>b, <2>1, <2>3 DEF Exiting, Adding, Finding
  <1>6. CASE ExitFree(t) /\ ~Wild
    <2>1. /\ allocated' = allocated \ {reg[t].task}
          /\ pc' = [pc EXCEPT ![t] = "gone"]
          /\ UNCHANGED <<next, pid, running, pid_cnt, reg, halted, wild, raced>>
      BY <1>6 DEF ExitFree, Goto
    <2>2. TypeOK'
      BY <2>1 DEF Inv, TypeOK
    <2>3. Alone(t) /\ pc'[t] = "gone"
      <3>1. Null \notin allocated
        BY DEF Inv, TypeOK
      <3>2. allocated' = allocated \/ allocated' = allocated \ {t}
        BY <1>0, <2>1, <3>1
      <3> QED
        BY <2>1, <3>2 DEF Alone
    <2> QED
      BY <1>0, <2>2, <2>3, AloneStep DEF Exiting, Adding, Finding
  <1> QED
    BY <1>1, <1>2, <1>3, <1>4, <1>5, <1>6, <1>7, <1>8

--------------------------------------------------------------------------------
\* Every behaviour satisfies the inductive invariant.
THEOREM Invariance == Spec => []Inv
  <1>1. Init => Inv
    BY InitStep
  <1>2. Inv /\ [Next]_vars => Inv'
    <2> SUFFICES ASSUME Inv, [Next]_vars PROVE Inv'
      OBVIOUS
    <2>1. CASE UNCHANGED vars
      <3>1. TypeOK'
        BY <2>1 DEF Inv, TypeOK, vars, ring
      <3> QED
        BY <2>1, <3>1 DEF Inv, Labels, StackHeld, PidsApart, Looking, vars, ring, Exiting, Adding, Finding
    <2>2. CASE Tick
      BY <2>2, TickStep
    <2>3. ASSUME NEW t \in Tasks, Step(t) PROVE Inv'
      BY <2>3, SubmitStep, FillStep, MainStep, CallStep, FindStep, ExitStep DEF Step
    <2> QED
      BY <2>1, <2>2, <2>3 DEF Next
  <1> QED
    BY <1>1, <1>2, PTL DEF Spec

\* The type invariant: threads, stacks and pids stay within their ranges, and
\* every pointer a thread follows is a task or null.
THEOREM TypeCorrect == Spec => []TypeOK
  <1>1. Inv => TypeOK
    BY DEF Inv
  <1> QED
    BY <1>1, Invariance, PTL

\* find_task finds the exiting thread or none, so exit unlinks and frees only the
\* task of the thread that called it, however many threads exit at once.
THEOREM ExitsOwnTaskHolds == Spec => []ExitsOwnTask
  <1>1. Inv => ExitsOwnTask
    BY TypeParts DEF Inv, Labels, StackHeld, Looking, ExitsOwnTask, Exiting, Adding, Finding
  <1> QED
    BY <1>1, Invariance, PTL

--------------------------------------------------------------------------------
(* The ring.                                                                 *)

\* Following nx from Main visits q[0] to q[n], each once, and is back at Main.
Chained(nx, q, n) ==
    /\ q[0] = Main
    /\ \A i \in 0..n : q[i] \in Tasks
    /\ \A i, j \in 0..n : q[i] = q[j] => i = j
    /\ \A i \in 0..(n - 1) : nx[q[i]] = q[i + 1]
    /\ nx[q[n]] = Main

On(x, q, n) == \E i \in 0..n : q[i] = x

\* Thread u, at place l with locals r, is on the ring wherever its walk has got
\* to.  A thread that looks for itself has not walked past itself, and its two
\* pointers are neighbours, with one task between them while only cur has moved.
Walking(u, l, r, nx, q, n) ==
    /\ l \in {"tail", "onward"} => On(r.cur, q, n)
    /\ l = "link" => r.cur = q[n]
    /\ l \in Finding =>
         \E i \in 0..n : r.task = q[i] /\ \A k \in 0..(i - 1) : q[k] # u
    /\ l = "find_next" => r.task # u
    /\ l \in {"scan", "follow"} /\ r.task # u => On(r.prev, q, n) /\ On(r.cur, q, n)
    /\ l = "scan" /\ r.task = u =>
         \E i \in 1..n : /\ r.prev = q[i - 1] /\ r.cur = q[i]
                         /\ \A k \in 0..(i - 1) : q[k] # u
    /\ l = "follow" /\ r.task = u =>
         \E i \in 2..n : /\ r.prev = q[i - 2] /\ r.cur = q[i]
                         /\ \A k \in 0..(i - 1) : q[k] # u
    /\ l = "unlink" =>
         /\ r.task = u /\ r.cur = u /\ r.tmp = nx[u]
         /\ \E i \in 1..n : r.prev = q[i - 1] /\ q[i] = u

\* The thread that runs is on the ring, or has just left it.
Runs(t, l, nx, q, n) == On(t, q, n) \/ (l \in {"free", "gone"} /\ On(nx[t], q, n))

\* The task that submit is about to link in.
Joining(s) == pc[Main] \in Adding /\ reg[Main].task = s

RingIs(q, n) ==
    /\ Chained(next, q, n)
    /\ \A s \in Stacks : On(s, q, n) <=> s \in Linked
    /\ \A u \in Tasks : Walking(u, pc[u], reg[u], next, q, n)
    /\ Runs(running, pc[running], next, q, n)
    /\ pc[Main] \in Adding =>
         /\ reg[Main].task \in Stacks /\ pc[reg[Main].task] = "run"
         /\ next[reg[Main].task] = Main

RingInv == ~raced => ~wild /\ \E n \in Nat : \E q : RingIs(q, n)

\* The ring is closed: its pointers lead to its tasks, and only the last one's
\* to Main.
LEMMA ChainNext ==
  ASSUME NEW nx, NEW q, NEW n \in Nat, Chained(nx, q, n), NEW x, On(x, q, n)
  PROVE  /\ x \in Tasks /\ nx[x] \in Tasks /\ On(nx[x], q, n)
         /\ nx[x] = Main => x = q[n]
  <1>1. PICK i \in 0..n : q[i] = x
    BY DEF On
  <1>2. CASE i = n
    BY <1>1, <1>2 DEF Chained, On
  <1>3. CASE i < n
    <2>1. i \in 0..(n - 1) /\ i + 1 \in 0..n /\ 0 \in 0..n
      BY <1>3
    <2>2. nx[x] = q[i + 1] /\ q[i + 1] # q[0]
      BY <1>1, <2>1 DEF Chained
    <2> QED
      BY <1>1, <2>1, <2>2 DEF Chained, On
  <1> QED
    BY <1>1, <1>2, <1>3

\* A thread with a place in exit is in the ring, and so is the one that runs.
LEMMA LinkedIs ==
  ASSUME Inv, NEW s \in Stacks
  PROVE  s \in Linked <=>
           /\ pc[s] \notin {"free", "gone"}
           /\ ~Joining(s)
  BY DEF Linked, Joining, Inv, StackHeld

\* A step of thread t that moves no pointer: it is enough that t is still on the
\* ring.
LEMMA WalkStep ==
  ASSUME Inv, Inv', NEW q, NEW n \in Nat, RingIs(q, n), NEW t \in Tasks,
         next' = next, running' = running, running = t,
         \A u \in Tasks \ {t} : pc'[u] = pc[u] /\ reg'[u] = reg[u],
         \A s \in Stacks : s \in Linked' <=> s \in Linked,
         Walking(t, pc'[t], reg'[t], next, q, n),
         On(t, q, n) \/ (pc'[t] \in {"free", "gone"} /\ On(next[t], q, n)),
         t = Main /\ pc'[Main] \in Adding =>
             pc[Main] \in Adding /\ reg'[Main].task = reg[Main].task,
         t # Main => ~Joining(t)
  PROVE  RingIs(q, n)'
  <1> USE TypeParts
  <1>1. Chained(next, q, n)'
    BY DEF RingIs, Chained
  <1>2. \A s \in Stacks : On(s, q, n) <=> s \in Linked'
    BY DEF RingIs
  <1>3. \A u \in Tasks : Walking(u, pc'[u], reg'[u], next', q, n)
    BY DEF RingIs
  <1>4. Runs(running', pc'[running'], next', q, n)
    BY DEF Runs
  <1>5. ASSUME pc'[Main] \in Adding
        PROVE  /\ reg'[Main].task \in Stacks /\ pc'[reg'[Main].task] = "run"
               /\ next'[reg'[Main].task] = Main
    <2>1. pc[Main] \in Adding /\ reg'[Main].task = reg[Main].task
      BY <1>5
    <2>2. reg[Main].task \in Stacks /\ pc[reg[Main].task] = "run" /\ next[reg[Main].task] = Main
      BY <2>1 DEF RingIs
    <2>3. reg[Main].task # t
      BY <2>1, <2>2 DEF Joining
    <2> QED
      BY <2>1, <2>2, <2>3
  <1> QED
    BY <1>1, <1>2, <1>3, <1>4, <1>5 DEF RingIs

\* What a thread that runs in find_task or exit is: in the ring.
LEMMA RunnerLinked ==
  ASSUME Inv, NEW q, NEW n \in Nat, RingIs(q, n), NEW t \in Stacks, running = t,
         pc[t] \notin {"free", "gone"}
  PROVE  On(t, q, n) /\ t \in Linked /\ ~Joining(t) /\ n >= 1
  <1>1. On(t, q, n)
    BY DEF RingIs, Runs
  <1>2. t \in Linked /\ ~Joining(t)
    BY <1>1, LinkedIs DEF RingIs
  <1>3. n # 0
    BY <1>1, TypeParts DEF RingIs, Chained, On
  <1> QED
    BY <1>1, <1>2, <1>3

\* A tick moves running_ along the ring.
LEMMA TickRing ==
  ASSUME Inv, Inv', NEW q, NEW n \in Nat, RingIs(q, n), ~wild, Tick
  PROVE  ~wild' /\ RingIs(q, n)'
  <1> USE TypeParts
  <1>1. On(next[running], q, n) /\ next[running] \in Tasks
    BY ChainNext DEF RingIs, Runs
  <1>2. running' = next[running] /\ UNCHANGED <<ring, pid_cnt, pc, reg, halted, wild, raced>>
    BY <1>1 DEF Tick, schedule
  <1>3. Linked' = Linked
    BY <1>2 DEF Linked, ring
  <1>4. Runs(running', pc'[running'], next', q, n)
    BY <1>1, <1>2 DEF Runs
  <1> QED
    BY <1>2, <1>3, <1>4 DEF RingIs, ring

\* submit takes a stack that is not in the ring, and bzeros it.
LEMMA SubmitRing ==
  ASSUME Inv, Inv', NEW q, NEW n \in Nat, RingIs(q, n), ~wild, NEW t \in Tasks,
         running = t, submit(t)
  PROVE  ~wild' /\ RingIs(q, n)'
  <1> USE TypeParts
  <1>0. t = Main /\ pc[Main] = "idle" /\ wild' = wild /\ running' = running
    BY DEF submit
  <1>1. CASE Stacks \subseteq allocated
    <2>1. UNCHANGED <<ring, pc, reg, running>>
      BY <1>1 DEF submit
    <2>2. Linked' = Linked
      BY <2>1 DEF Linked, ring
    <2> QED
      BY <1>0, <2>1, <2>2 DEF RingIs, ring
  <1>2. CASE ~(Stacks \subseteq allocated)
    <2>1. PICK s \in Stacks \ allocated :
              /\ allocated' = allocated \cup {s}
              /\ next' = [next EXCEPT ![s] = Null]
              /\ reg' = [reg EXCEPT ![Main].task = s]
              /\ pc' = [pc EXCEPT ![Main] = "fill"]
      BY <1>0, <1>2, FitFree DEF submit, Goto
    <2>2. pc[s] = "gone" /\ s \in Tasks /\ s # Main
      BY DEF Inv, StackHeld
    <2>3. ~On(s, q, n)
      BY <2>2, LinkedIs DEF RingIs
    <2>4. \A u \in Tasks \ {Main} : pc'[u] = pc[u] /\ reg'[u] = reg[u]
      BY <2>1, <2>2 DEF Regs
    <2>5. pc'[Main] = "fill"
      BY <2>1
    <2>6. \A u \in Stacks : u \in Linked' <=> u \in Linked
      <3>1. \A u \in Stacks : u \in Linked' <=>
              /\ pc'[u] \notin {"free", "gone"}
              /\ ~Joining(u)'
        BY DEF Linked, Joining, Inv, StackHeld
      <3> QED
        BY <1>0, <2>4, <2>5, <3>1, LinkedIs DEF Joining, Adding
    <2>7. \A x \in Tasks : On(x, q, n) => next'[x] = next[x]
      BY <2>1, <2>3
    <2>8. Chained(next', q, n)
      BY <2>7 DEF RingIs, Chained, On
    <2>9. ASSUME NEW u \in Tasks PROVE Walking(u, pc'[u], reg'[u], next', q, n)
      <3>1. CASE u = Main
        BY <2>5, <3>1 DEF Walking, Finding
      <3>2. CASE u # Main
        <4>1. Walking(u, pc[u], reg[u], next, q, n)
          BY DEF RingIs
        <4>2. pc[u] = "unlink" => On(u, q, n)
          BY <4>1 DEF Walking, On, Finding
        <4> QED
          BY <2>4, <2>7, <3>2, <4>1, <4>2 DEF Walking, Finding
      <3> QED
        BY <3>1, <3>2
    <2>10. Runs(running', pc'[running'], next', q, n)
      BY <1>0 DEF Runs, RingIs, Chained, On
    <2> QED
      BY <1>0, <2>5, <2>6, <2>8, <2>9, <2>10 DEF RingIs, Adding
  <1> QED
    BY <1>1, <1>2

\* Its task_struct is filled in and points to Main, before Main looks for the
\* end of the ring.
LEMMA FillRing ==
  ASSUME Inv, Inv', NEW q, NEW n \in Nat, RingIs(q, n), ~wild, NEW t \in Tasks,
         running = t, SubmitFill(t)
  PROVE  ~wild' /\ RingIs(q, n)'
  <1> USE TypeParts
  <1>0. t = Main /\ pc[Main] = "fill" /\ wild' = wild /\ running' = running
    BY DEF SubmitFill, Inv, Labels, Exiting, Adding, Finding
  <1>1. PICK s \in Stacks : s = reg[Main].task /\ s # Main /\ pc[s] = "gone"
    BY <1>0 DEF Inv, StackHeld, TypeOK
  <1>2. /\ next' = [next EXCEPT ![s] = Main]
        /\ pc' = [pc EXCEPT ![Main] = "tail", ![s] = "run"]
        /\ reg' = [reg EXCEPT ![Main].cur = Main, ![s] = NoRegs]
    BY <1>0, <1>1 DEF SubmitFill
  <1>3. ~On(s, q, n)
    BY <1>1, LinkedIs DEF RingIs
  <1>4. /\ \A u \in Tasks \ {Main, s} : pc'[u] = pc[u] /\ reg'[u] = reg[u]
        /\ pc'[Main] = "tail" /\ pc'[s] = "run"
        /\ reg'[Main].task = s /\ reg'[Main].cur = Main
    BY <1>1, <1>2 DEF Regs
  <1>5. \A u \in Stacks : u \in Linked' <=> u \in Linked
    <2>1. \A u \in Stacks : u \in Linked' <=>
            /\ pc'[u] \notin {"free", "gone"}
            /\ ~Joining(u)'
      BY DEF Linked, Joining, Inv, StackHeld
    <2> QED
      BY <1>0, <1>1, <1>4, <2>1, LinkedIs DEF Joining, Adding
  <1>6. \A x \in Tasks : On(x, q, n) => next'[x] = next[x]
    BY <1>2, <1>3
  <1>7. Chained(next', q, n)
    BY <1>6 DEF RingIs, Chained, On
  <1>8. ASSUME NEW u \in Tasks PROVE Walking(u, pc'[u], reg'[u], next', q, n)
    <2>1. CASE u = Main
      BY <1>4, <2>1 DEF Walking, RingIs, Chained, On, Finding
    <2>2. CASE u = s
      BY <1>4, <2>2 DEF Walking, Finding
    <2>3. CASE u \notin {Main, s}
      <3>1. Walking(u, pc[u], reg[u], next, q, n)
        BY DEF RingIs
      <3>2. pc[u] = "unlink" => On(u, q, n)
        BY <3>1 DEF Walking, On, Finding
      <3> QED
        BY <1>4, <1>6, <2>3, <3>1, <3>2 DEF Walking, Finding
    <2> QED
      BY <2>1, <2>2, <2>3
  <1>9. Runs(running', pc'[running'], next', q, n)
    BY <1>0 DEF Runs, RingIs, Chained, On
  <1>10. next'[s] = Main
    BY <1>2
  <1> QED
    BY <1>0, <1>4, <1>5, <1>7, <1>8, <1>9, <1>10 DEF RingIs

\* Main walks to the end of the ring: the test of its loop, and the load.
LEMMA TailRing ==
  ASSUME Inv, Inv', NEW q, NEW n \in Nat, RingIs(q, n), ~wild, NEW t \in Tasks,
         running = t, SubmitTail(t) \/ SubmitOnward(t)
  PROVE  ~wild' /\ RingIs(q, n)'
  <1> USE TypeParts
  <1>0. t = Main /\ pc[Main] \in {"tail", "onward"}
    BY DEF SubmitTail, SubmitOnward, Inv, Labels, Adding, Finding, Exiting
  <1>1. On(reg[Main].cur, q, n) /\ Chained(next, q, n)
    BY <1>0 DEF RingIs, Walking, Finding
  <1>2. /\ reg[Main].cur \in Tasks /\ On(next[reg[Main].cur], q, n)
        /\ next[reg[Main].cur] = Main => reg[Main].cur = q[n]
        /\ next[reg[Main].cur] \in Tasks
    BY <1>1, ChainNext
  <1>3. UNCHANGED <<ring, running, pid_cnt, halted, wild, raced>>
    BY <1>0, <1>2 DEF SubmitTail, SubmitOnward
  <1>4. /\ pc'[Main] \in Adding /\ reg'[Main].task = reg[Main].task
        /\ \A u \in Tasks \ {Main} : pc'[u] = pc[u] /\ reg'[u] = reg[u]
        /\ Walking(Main, pc'[Main], reg'[Main], next, q, n)
    <2>1. CASE SubmitTail(t)
      <3>1. /\ reg' = reg
            /\ pc' = [pc EXCEPT ![Main] = IF next[reg[Main].cur] = Main THEN "link" ELSE "onward"]
        BY <1>0, <1>2, <2>1 DEF SubmitTail, Goto
      <3> QED
        BY <1>1, <1>2, <3>1 DEF Walking, Adding, Finding
    <2>2. CASE SubmitOnward(t)
      <3>1. /\ reg' = [reg EXCEPT ![Main].cur = next[@]]
            /\ pc' = [pc EXCEPT ![Main] = "tail"]
        BY <1>0, <2>2 DEF SubmitOnward, Goto
      <3>2. /\ reg'[Main].cur = next[reg[Main].cur] /\ reg'[Main].task = reg[Main].task
            /\ \A u \in Tasks \ {Main} : reg'[u] = reg[u]
        BY ONLY <3>1, Main \in Tasks, reg \in [Tasks -> Regs] DEF Regs
      <3> QED
        BY <1>2, <3>1, <3>2 DEF Walking, Adding, Finding
    <2> QED
      BY <2>1, <2>2
  <1>5. \A s \in Stacks : s \in Linked' <=> s \in Linked
    BY <1>0, <1>3, <1>4 DEF Linked, ring, Adding
  <1>6. On(Main, q, n)
    BY <1>1 DEF Chained, On
  <1>7. wild' = wild /\ next' = next /\ running' = running
    BY <1>3 DEF ring
  <1>8. pc[Main] \in Adding
    BY <1>0 DEF Adding
  <1> QED
    BY <1>0, <1>4, <1>5, <1>6, <1>7, <1>8, WalkStep

\* The new task is linked in behind the last one.  Had that one already read its
\* next, it would unlink the new task with itself.
LEMMA LinkRing ==
  ASSUME Inv, Inv', NEW q, NEW n \in Nat, RingIs(q, n), ~wild, ~raced', NEW t \in Tasks,
         running = t, SubmitLink(t)
  PROVE  ~wild' /\ \E m \in Nat : \E p : RingIs(p, m)'
  <1> USE TypeParts
  <1>0. t = Main /\ pc[Main] = "link" /\ wild' = wild /\ running' = running
    BY DEF SubmitLink, Inv, Labels, Exiting, Adding, Finding
  <1>1. PICK s \in Stacks : s = reg[Main].task /\ pc[s] = "run" /\ next[s] = Main
    BY <1>0 DEF RingIs, Adding
  <1>2. reg[Main].cur = q[n] /\ q[n] \in Tasks /\ pc[q[n]] # "unlink"
    <2>1. reg[Main].cur = q[n]
      BY <1>0 DEF RingIs, Walking, Finding
    <2>2. n \in 0..n /\ q[n] \in Tasks
      BY DEF RingIs, Chained
    <2>3. pc[reg[Main].cur] # "unlink"
      BY <1>0 DEF SubmitLink
    <2> QED
      BY <2>1, <2>2, <2>3
  <1>3. /\ next' = [next EXCEPT ![q[n]] = s]
        /\ pc' = [pc EXCEPT ![Main] = "idle"]
        /\ \A u \in Tasks \ {Main} : reg'[u] = reg[u]
    BY <1>0, <1>1, <1>2 DEF SubmitLink, Goto
  <1>4. ~On(s, q, n) /\ s # Main
    BY <1>0, <1>1, LinkedIs DEF RingIs, Joining, Adding
  <1> DEFINE m == n + 1
             p == [i \in 0..(n + 1) |-> IF i = n + 1 THEN s ELSE q[i]]
  <1>5. /\ m \in Nat /\ p[m] = s /\ \A i \in 0..n : p[i] = q[i]
        /\ 0..m = 0..n \cup {m}
    OBVIOUS
  <1> HIDE DEF p, m
  <1>6. \A x : On(x, p, m) <=> On(x, q, n) \/ x = s
    BY <1>5 DEF On
  <1>7. /\ next'[q[n]] = s /\ next'[s] = Main
        /\ \A x \in Tasks : x # q[n] => next'[x] = next[x]
    BY <1>1, <1>2, <1>3, <1>4 DEF On
  <1>8. Chained(next', p, m)
    <2>0. 0 \in 0..n /\ \A i \in 0..m : i = m \/ i \in 0..n
      BY <1>5
    <2>1. p[0] = Main /\ \A i \in 0..m : p[i] \in Tasks
      BY <1>5, <2>0 DEF RingIs, Chained
    <2>2. \A i, j \in 0..m : p[i] = p[j] => i = j
      <3>1. \A i \in 0..n : q[i] # s
        BY <1>4 DEF On
      <3>2. \A i, j \in 0..n : q[i] = q[j] => i = j
        BY DEF RingIs, Chained
      <3> QED
        BY <1>5, <2>0, <3>1, <3>2
    <2>3. ASSUME NEW i \in 0..(m - 1) PROVE next'[p[i]] = p[i + 1]
      <3>1. i \in 0..n /\ p[i] = q[i]
        BY <1>5 DEF m
      <3>2. CASE i = n
        BY <1>5, <1>7, <3>1, <3>2 DEF m
      <3>3. CASE i < n
        <4>1. i + 1 \in 0..n /\ i \in 0..(n - 1) /\ n \in 0..n
          BY <3>1, <3>3
        <4>2. q[i] # q[n] /\ q[i] \in Tasks /\ next[q[i]] = q[i + 1]
          BY <3>1, <3>3, <4>1 DEF RingIs, Chained
        <4> QED
          BY <1>5, <1>7, <3>1, <4>1, <4>2
      <3> QED
        BY <3>1, <3>2, <3>3
    <2> QED
      BY <1>5, <1>7, <2>1, <2>2, <2>3 DEF Chained
  <1>9. ASSUME NEW u \in Stacks PROVE On(u, p, m) <=> u \in Linked'
    <2>1. u \in Linked' <=>
            /\ pc'[u] \notin {"free", "gone"}
            /\ ~Joining(u)'
      BY DEF Linked, Joining, Inv, StackHeld
    <2>2. pc'[u] = pc[u] /\ pc'[Main] = "idle"
      BY <1>3
    <2>3. ~Joining(u)' /\ (Joining(u) <=> u = s)
      BY <1>0, <1>1, <2>2 DEF Joining, Adding
    <2>4. On(u, q, n) <=> u \in Linked
      BY DEF RingIs
    <2> QED
      BY <1>1, <1>6, <2>1, <2>2, <2>3, <2>4, LinkedIs
  <1>10. ASSUME NEW u \in Tasks PROVE Walking(u, pc'[u], reg'[u], next', p, m)
    <2>1. CASE u = Main
      BY <1>3, <2>1 DEF Walking, Finding
    <2>2. CASE u # Main
      <3>1. pc'[u] = pc[u] /\ reg'[u] = reg[u] /\ Walking(u, pc[u], reg[u], next, q, n)
        BY <1>3, <2>2 DEF RingIs
      <3>2. pc[u] # "link"
        BY <2>2 DEF Inv, Labels, Exiting, Adding, Finding
      <3>3. pc[u] = "unlink" => next'[u] = next[u]
        BY <1>2, <1>7
      <3>4. ASSUME NEW i \in 1..n PROVE i \in 1..m /\ p[i - 1] = q[i - 1] /\ p[i] = q[i]
                                        /\ \A k \in 0..(i - 1) : p[k] = q[k]
        BY <1>5 DEF m
      <3>5. pc[u] = "scan" /\ reg[u].task = u =>
              \E i \in 1..m : /\ reg[u].prev = p[i - 1] /\ reg[u].cur = p[i]
                              /\ \A k \in 0..(i - 1) : p[k] # u
        <4> SUFFICES ASSUME pc[u] = "scan", reg[u].task = u
                     PROVE  \E i \in 1..m : /\ reg[u].prev = p[i - 1] /\ reg[u].cur = p[i]
                                            /\ \A k \in 0..(i - 1) : p[k] # u
          OBVIOUS
        <4>1. PICK i \in 1..n : /\ reg[u].prev = q[i - 1] /\ reg[u].cur = q[i]
                                /\ \A k \in 0..(i - 1) : q[k] # u
          BY <3>1 DEF Walking, Finding
        <4> QED
          BY <3>4, <4>1
      <3>6. pc[u] = "unlink" =>
              \E i \in 1..m : reg[u].prev = p[i - 1] /\ p[i] = u
        BY <3>1, <3>4 DEF Walking, Finding
      <3>7. pc[u] = "follow" /\ reg[u].task = u =>
              \E i \in 2..m : /\ reg[u].prev = p[i - 2] /\ reg[u].cur = p[i]
                              /\ \A k \in 0..(i - 1) : p[k] # u
        <4> SUFFICES ASSUME pc[u] = "follow", reg[u].task = u
                     PROVE  \E i \in 2..m : /\ reg[u].prev = p[i - 2] /\ reg[u].cur = p[i]
                                            /\ \A k \in 0..(i - 1) : p[k] # u
          OBVIOUS
        <4>1. PICK i \in 2..n : /\ reg[u].prev = q[i - 2] /\ reg[u].cur = q[i]
                                /\ \A k \in 0..(i - 1) : q[k] # u
          BY <3>1 DEF Walking, Finding
        <4>2. i \in 1..n /\ i \in 2..m /\ i - 2 \in 0..(i - 1)
          BY DEF m
        <4> QED
          BY <3>4, <4>1, <4>2
      <3>8. pc[u] \in Finding =>
              \E i \in 0..m : reg[u].task = p[i] /\ \A k \in 0..(i - 1) : p[k] # u
        <4> SUFFICES ASSUME pc[u] \in Finding
                     PROVE  \E i \in 0..m : reg[u].task = p[i] /\ \A k \in 0..(i - 1) : p[k] # u
          OBVIOUS
        <4>1. PICK i \in 0..n : reg[u].task = q[i] /\ \A k \in 0..(i - 1) : q[k] # u
          BY <3>1 DEF Walking
        <4>2. i \in 0..m /\ \A k \in 0..(i - 1) : k \in 0..n
          BY DEF m
        <4> QED
          BY <1>5, <4>1, <4>2
      <3> QED
        BY <1>6, <3>1, <3>2, <3>3, <3>5, <3>6, <3>7, <3>8 DEF Walking, Finding
    <2> QED
      BY <2>1, <2>2
  <1>11. Runs(running', pc'[running'], next', p, m)
    BY <1>0, <1>8 DEF Runs, Chained, On, m
  <1>12. pc'[Main] = "idle"
    BY <1>3
  <1>13. RingIs(p, m)'
    BY <1>8, <1>9, <1>10, <1>11, <1>12 DEF RingIs, Adding
  <1> QED
    BY <1>0, <1>5, <1>13

\* kthread_exit starts its search at Main.
LEMMA CallRing ==
  ASSUME Inv, Inv', NEW q, NEW n \in Nat, RingIs(q, n), ~wild, NEW t \in Tasks,
         running = t, kthread_exit(t)
  PROVE  ~wild' /\ RingIs(q, n)'
  <1> USE TypeParts
  <1>1. t \in Stacks /\ pc[t] = "run"
    BY DEF kthread_exit, Inv, Labels, Adding, Finding, Exiting
  <1>2. /\ reg' = [reg EXCEPT ![t].p = pid[t], ![t].task = Main]
        /\ pc' = [pc EXCEPT ![t] = "find"]
        /\ UNCHANGED <<ring, running, pid_cnt, halted, wild, raced>>
    BY DEF kthread_exit, Goto
  <1>3. reg'[t].task = Main
    BY ONLY <1>2, t \in Tasks, reg \in [Tasks -> Regs] DEF Regs
  <1>4. /\ \A u \in Tasks \ {t} : pc'[u] = pc[u] /\ reg'[u] = reg[u]
        /\ pc'[t] = "find" /\ pc'[Main] = pc[Main] /\ reg'[Main] = reg[Main]
    BY <1>1, <1>2
  <1>5. On(t, q, n) /\ ~Joining(t)
    BY <1>1, RunnerLinked
  <1>6. Walking(t, pc'[t], reg'[t], next, q, n)
    <2>1. q[0] = Main /\ 0 \in 0..n /\ 0..(0 - 1) = {}
      BY DEF RingIs, Chained
    <2> QED
      BY <1>3, <1>4, <2>1 DEF Walking, Finding
  <1>7. \A s \in Stacks : s \in Linked' <=> s \in Linked
    BY <1>1, <1>2, <1>4 DEF Linked, ring
  <1>8. wild' = wild /\ next' = next /\ running' = running
    BY <1>2 DEF ring
  <1> QED
    BY <1>1, <1>4, <1>5, <1>6, <1>7, <1>8, WalkStep

\* find_task walks along the ring.
LEMMA FindRing ==
  ASSUME Inv, Inv', NEW q, NEW n \in Nat, RingIs(q, n), ~wild, NEW t \in Tasks,
         running = t, find_task(t) \/ FindNext(t) \/ FindWhile(t)
  PROVE  ~wild' /\ RingIs(q, n)'
  <1> USE TypeParts
  <1>1. t \in Stacks /\ pc[t] \in Finding
    BY DEF find_task, FindNext, FindWhile, Inv, Labels, Adding, Finding, Exiting
  <1>2. On(reg[t].task, q, n) /\ Chained(next, q, n) /\ Walking(t, pc[t], reg[t], next, q, n)
    BY <1>1 DEF RingIs, Walking, On
  <1>3. reg[t].task \in Tasks /\ On(next[reg[t].task], q, n) /\ next[reg[t].task] \in Tasks
    BY <1>2, ChainNext
  <1>4. /\ \/ (\E l \in Finding \cup {"exit"} : pc' = [pc EXCEPT ![t] = l]) /\ reg' = reg
           \/ /\ pc' = [pc EXCEPT ![t] = "find_while"]
              /\ reg' = [reg EXCEPT ![t].task = next[reg[t].task]]
           \/ pc' = [pc EXCEPT ![t] = "exit"] /\ reg' = [reg EXCEPT ![t].task = Null]
        /\ UNCHANGED <<ring, running, pid_cnt, halted, wild, raced>>
    BY <1>3 DEF find_task, FindNext, FindWhile, Goto, Finding
  <1>5. /\ \A u \in Tasks \ {t} : pc'[u] = pc[u] /\ reg'[u] = reg[u]
        /\ pc'[t] \in Finding \cup {"exit"}
        /\ pc'[Main] = pc[Main] /\ reg'[Main] = reg[Main]
    BY <1>1, <1>4 DEF Finding
  <1>6. On(t, q, n) /\ ~Joining(t)
    BY <1>1, RunnerLinked DEF Finding
  <1>7. Walking(t, pc'[t], reg'[t], next, q, n)
    <2>0. PICK i \in 0..n : reg[t].task = q[i] /\ \A k \in 0..(i - 1) : q[k] # t
      BY <1>1, <1>2 DEF Walking
    <2>1. CASE find_task(t)
      <3>1. reg' = reg /\ pc'[t] = IF pid[reg[t].task] = reg[t].p THEN "exit" ELSE "find_next"
        BY <2>1 DEF find_task, Goto
      <3>2. pc'[t] = "find_next" => reg[t].task # t
        BY <1>1, <3>1 DEF Inv, Looking
      <3> QED
        BY <2>0, <3>1, <3>2 DEF Walking, Finding
    <2>2. CASE FindNext(t)
      <3>1. /\ pc[t] = "find_next" /\ pc'[t] = "find_while"
            /\ reg' = [reg EXCEPT ![t].task = next[@]]
        BY <2>2 DEF FindNext, Goto
      <3>2. reg'[t].task = next[reg[t].task]
        BY ONLY <3>1, t \in Tasks, reg \in [Tasks -> Regs] DEF Regs
      <3>3. PICK k \in 0..n : q[k] = t
        BY <1>6 DEF On
      <3>4. q[i] # t
        BY <1>2, <2>0, <3>1 DEF Walking
      <3>5. k > i
        BY <2>0, <3>3, <3>4
      <3>6. i \in 0..(n - 1) /\ i + 1 \in 0..n /\ (i + 1) - 1 = i
        BY <3>5
      <3>7. next[q[i]] = q[i + 1] /\ \A h \in 0..i : q[h] # t
        BY <1>2, <2>0, <3>4, <3>6 DEF Chained
      <3>8. \E j \in 0..n : reg'[t].task = q[j] /\ \A h \in 0..(j - 1) : q[h] # t
        BY <2>0, <3>2, <3>6, <3>7
      <3> QED
        BY <3>1, <3>8 DEF Walking, Finding
    <2>3. CASE FindWhile(t)
      <3>1. pc'[t] = "exit" \/ (pc'[t] = "find" /\ reg' = reg)
        BY <1>3, <2>3 DEF FindWhile, Goto
      <3> QED
        BY <2>0, <3>1 DEF Walking, Finding
    <2> QED
      BY <2>1, <2>2, <2>3
  <1>8. \A s \in Stacks : s \in Linked' <=> s \in Linked
    BY <1>1, <1>4, <1>5 DEF Linked, ring, Finding
  <1>9. wild' = wild /\ next' = next /\ running' = running
    BY <1>4 DEF ring
  <1> QED
    BY <1>1, <1>5, <1>6, <1>7, <1>8, <1>9, WalkStep

\* exit finds a task behind Main, and starts at the first two of the ring.
LEMMA ExitRing ==
  ASSUME Inv, Inv', NEW q, NEW n \in Nat, RingIs(q, n), ~wild, NEW t \in Tasks,
         running = t, exit(t) \/ ExitFirst(t)
  PROVE  ~wild' /\ RingIs(q, n)'
  <1> USE TypeParts
  <1>1. t \in Stacks /\ pc[t] \in {"exit", "first"} /\ t # Main
    BY DEF exit, ExitFirst, Inv, Labels, Adding, Finding, Exiting
  <1>2. On(t, q, n) /\ ~Joining(t) /\ n >= 1
    BY <1>1, RunnerLinked
  <1>3. /\ next[Main] = q[1] /\ q[1] \in Tasks /\ q[1] # Main /\ q[0] = Main
        /\ 0 \in 0..n /\ 1 \in 0..n
    <2>1. 0 \in 0..(n - 1) /\ 0 \in 0..n /\ 1 \in 0..n
      BY <1>2
    <2>2. next[q[0]] = q[0 + 1] /\ q[0] = Main /\ q[1] # q[0] /\ q[1] \in Tasks
      BY <2>1 DEF RingIs, Chained
    <2> QED
      BY <2>1, <2>2
  <1>4. /\ \/ pc' = [pc EXCEPT ![t] = "first"] /\ reg' = reg
           \/ /\ pc' = [pc EXCEPT ![t] = "scan"]
              /\ reg' = [reg EXCEPT ![t].cur = next[Main], ![t].prev = Main]
        /\ UNCHANGED <<ring, running, pid_cnt, halted, wild, raced>>
    BY <1>3 DEF exit, ExitFirst, Goto
  <1>5. /\ pc'[t] = "scan" => reg'[t].prev = Main /\ reg'[t].cur = q[1]
        /\ \A u \in Tasks \ {t} : reg'[u] = reg[u]
    <2>1. CASE reg' = reg /\ pc' = [pc EXCEPT ![t] = "first"]
      BY <2>1
    <2>2. CASE reg' = [reg EXCEPT ![t].cur = next[Main], ![t].prev = Main]
      BY ONLY <1>3, <2>2, t \in Tasks, reg \in [Tasks -> Regs] DEF Regs
    <2> QED
      BY <1>4, <2>1, <2>2
  <1>6. /\ \A u \in Tasks \ {t} : pc'[u] = pc[u]
        /\ pc'[t] \in {"first", "scan"} /\ pc'[Main] = pc[Main] /\ reg'[Main] = reg[Main]
    BY <1>1, <1>4, <1>5
  <1>7. Walking(t, pc'[t], reg'[t], next, q, n)
    <2>1. 1 \in 1..n /\ 1 - 1 = 0 /\ \A k \in 0..(1 - 1) : k = 0
      BY <1>2
    <2> QED
      BY <1>1, <1>3, <1>5, <1>6, <2>1 DEF Walking, On, Finding
  <1>8. \A s \in Stacks : s \in Linked' <=> s \in Linked
    BY <1>1, <1>4, <1>6 DEF Linked, ring
  <1>9. wild' = wild /\ next' = next /\ running' = running
    BY <1>4 DEF ring
  <1> QED
    BY <1>1, <1>2, <1>5, <1>6, <1>7, <1>8, <1>9, WalkStep

\* The scan of a thread that was found stops at its task; that of one that was
\* not goes round for ever.  cur moves first.
LEMMA ScanRing ==
  ASSUME Inv, Inv', NEW q, NEW n \in Nat, RingIs(q, n), ~wild, NEW t \in Tasks,
         running = t, ExitScan(t)
  PROVE  ~wild' /\ RingIs(q, n)'
  <1> USE TypeParts
  <1> DEFINE cur == reg[t].cur
             prev == reg[t].prev
  <1>1. t \in Stacks /\ pc[t] = "scan" /\ t # Main /\ cur # reg[t].task
    BY DEF ExitScan, Inv, Labels, Adding, Finding, Exiting
  <1>2. On(t, q, n) /\ ~Joining(t) /\ Chained(next, q, n)
    BY <1>1, RunnerLinked DEF RingIs
  <1>3. Walking(t, "scan", reg[t], next, q, n)
    BY <1>1 DEF RingIs
  <1>4. On(prev, q, n) /\ On(cur, q, n)
    BY <1>3 DEF Walking, On, Finding
  <1>5. cur \in Tasks /\ On(next[cur], q, n) /\ next[cur] \in Tasks
    BY <1>2, <1>4, ChainNext
  <1>6. /\ reg' = [reg EXCEPT ![t].cur = next[cur]]
        /\ pc' = [pc EXCEPT ![t] = "follow"]
        /\ UNCHANGED <<ring, running, pid_cnt, halted, wild, raced>>
    BY <1>5 DEF ExitScan, Goto
  <1>7. /\ reg'[t].cur = next[cur] /\ reg'[t].prev = prev /\ reg'[t].task = reg[t].task
        /\ \A u \in Tasks \ {t} : reg'[u] = reg[u]
    BY ONLY <1>6, t \in Tasks, reg \in [Tasks -> Regs] DEF Regs
  <1>8. /\ \A u \in Tasks \ {t} : pc'[u] = pc[u]
        /\ pc'[t] = "follow" /\ pc'[Main] = pc[Main] /\ reg'[Main] = reg[Main]
    BY <1>1, <1>6, <1>7
  <1>9. Walking(t, "follow", reg'[t], next, q, n)
    <2>1. CASE reg[t].task # t
      BY <1>4, <1>5, <1>7, <2>1 DEF Walking, Finding
    <2>2. CASE reg[t].task = t
      <3>1. PICK i \in 1..n : /\ prev = q[i - 1] /\ cur = q[i]
                              /\ \A k \in 0..(i - 1) : q[k] # t
        BY <1>3, <2>2 DEF Walking, Finding
      <3>2. PICK k \in 0..n : q[k] = t
        BY <1>2 DEF On
      <3>3. k > i
        BY <1>1, <2>2, <3>1, <3>2
      <3>4. i + 1 \in 2..n /\ i \in 0..(n - 1) /\ (i + 1) - 2 = i - 1 /\ (i + 1) - 1 = i
        BY <3>3
      <3>5. next[cur] = q[i + 1]
        BY <1>2, <3>1, <3>4 DEF Chained
      <3>6. \A j \in 0..i : q[j] # t
        BY <1>1, <2>2, <3>1
      <3>7. \E j \in 2..n : /\ reg'[t].prev = q[j - 2] /\ reg'[t].cur = q[j]
                            /\ \A h \in 0..(j - 1) : q[h] # t
        BY <1>7, <3>1, <3>4, <3>5, <3>6
      <3> QED
        BY <1>7, <2>2, <3>7 DEF Walking, Finding
    <2> QED
      BY <2>1, <2>2
  <1>10. \A s \in Stacks : s \in Linked' <=> s \in Linked
    BY <1>1, <1>6, <1>8 DEF Linked, ring
  <1>11. wild' = wild /\ next' = next /\ running' = running
    BY <1>6 DEF ring
  <1> QED
    BY <1>1, <1>2, <1>7, <1>8, <1>9, <1>10, <1>11, WalkStep

\* Then prev moves onto the task between them, which has not been unlinked.
LEMMA FollowRing ==
  ASSUME Inv, Inv', NEW q, NEW n \in Nat, RingIs(q, n), ~wild, NEW t \in Tasks,
         running = t, ExitFollow(t)
  PROVE  ~wild' /\ RingIs(q, n)'
  <1> USE TypeParts
  <1> DEFINE cur == reg[t].cur
             prev == reg[t].prev
  <1>1. t \in Stacks /\ pc[t] = "follow" /\ t # Main
    BY DEF ExitFollow, Inv, Labels, Adding, Finding, Exiting
  <1>2. On(t, q, n) /\ ~Joining(t) /\ Chained(next, q, n)
    BY <1>1, RunnerLinked DEF RingIs
  <1>3. Walking(t, "follow", reg[t], next, q, n)
    BY <1>1 DEF RingIs
  <1>4. On(prev, q, n) /\ On(cur, q, n)
    <2>1. CASE reg[t].task # t
      BY <1>3, <2>1 DEF Walking, Finding
    <2>2. CASE reg[t].task = t
      <3>1. PICK i \in 2..n : prev = q[i - 2] /\ cur = q[i]
        BY <1>3, <2>2 DEF Walking, Finding
      <3>2. i \in 0..n /\ i - 2 \in 0..n
        OBVIOUS
      <3> QED
        BY <3>1, <3>2 DEF On
    <2> QED
      BY <2>1, <2>2
  <1>5. prev \in Tasks /\ On(next[prev], q, n) /\ next[prev] \in Tasks
    BY <1>2, <1>4, ChainNext
  <1>6. /\ reg' = [reg EXCEPT ![t].prev = next[prev]]
        /\ pc' = [pc EXCEPT ![t] = "scan"]
        /\ UNCHANGED <<ring, running, pid_cnt, halted, wild, raced>>
    BY <1>5 DEF ExitFollow, Goto
  <1>7. /\ reg'[t].prev = next[prev] /\ reg'[t].cur = cur /\ reg'[t].task = reg[t].task
        /\ \A u \in Tasks \ {t} : reg'[u] = reg[u]
    BY ONLY <1>6, t \in Tasks, reg \in [Tasks -> Regs] DEF Regs
  <1>8. /\ \A u \in Tasks \ {t} : pc'[u] = pc[u]
        /\ pc'[t] = "scan" /\ pc'[Main] = pc[Main] /\ reg'[Main] = reg[Main]
    BY <1>1, <1>6, <1>7
  <1>9. Walking(t, "scan", reg'[t], next, q, n)
    <2>1. CASE reg[t].task # t
      BY <1>4, <1>5, <1>7, <2>1 DEF Walking, Finding
    <2>2. CASE reg[t].task = t
      <3>1. PICK i \in 2..n : /\ prev = q[i - 2] /\ cur = q[i]
                              /\ \A k \in 0..(i - 1) : q[k] # t
        BY <1>3, <2>2 DEF Walking, Finding
      <3>2. i \in 1..n /\ i - 2 \in 0..(n - 1) /\ (i - 2) + 1 = i - 1
        OBVIOUS
      <3>3. next[prev] = q[i - 1]
        BY <1>2, <3>1, <3>2 DEF Chained
      <3>4. \E j \in 1..n : /\ reg'[t].prev = q[j - 1] /\ reg'[t].cur = q[j]
                            /\ \A h \in 0..(j - 1) : q[h] # t
        BY <1>7, <3>1, <3>2, <3>3
      <3> QED
        BY <1>7, <2>2, <3>4 DEF Walking, Finding
    <2> QED
      BY <2>1, <2>2
  <1>10. \A s \in Stacks : s \in Linked' <=> s \in Linked
    BY <1>1, <1>6, <1>8 DEF Linked, ring
  <1>11. wild' = wild /\ next' = next /\ running' = running
    BY <1>6 DEF ring
  <1> QED
    BY <1>1, <1>2, <1>7, <1>8, <1>9, <1>10, <1>11, WalkStep

\* The load of cur->next.
LEMMA ReadRing ==
  ASSUME Inv, Inv', NEW q, NEW n \in Nat, RingIs(q, n), ~wild, NEW t \in Tasks,
         running = t, ExitRead(t)
  PROVE  ~wild' /\ RingIs(q, n)'
  <1> USE TypeParts
  <1>1. t \in Stacks /\ pc[t] = "scan" /\ t # Main /\ reg[t].cur = reg[t].task
    BY DEF ExitRead, Inv, Labels, Adding, Finding, Exiting
  <1>2. On(t, q, n) /\ ~Joining(t) /\ Chained(next, q, n)
    BY <1>1, RunnerLinked DEF RingIs
  <1>3. Walking(t, "scan", reg[t], next, q, n)
    BY <1>1 DEF RingIs
  <1>4. reg[t].task = t
    <2>1. reg[t].task \in {t, Null}
      BY <1>1 DEF Inv, Looking, Exiting
    <2>2. On(reg[t].cur, q, n)
      BY <1>3 DEF Walking, On, Finding
    <2> QED
      BY <1>1, <1>2, <2>1, <2>2, ChainNext
  <1>5. /\ reg' = [reg EXCEPT ![t].tmp = next[t]]
        /\ pc' = [pc EXCEPT ![t] = "unlink"]
        /\ UNCHANGED <<ring, running, pid_cnt, halted, wild, raced>>
    BY <1>1, <1>4 DEF ExitRead, Goto
  <1>6. /\ reg'[t].tmp = next[t] /\ reg'[t].cur = reg[t].cur /\ reg'[t].prev = reg[t].prev
        /\ reg'[t].task = reg[t].task
        /\ \A u \in Tasks \ {t} : reg'[u] = reg[u]
    BY ONLY <1>5, t \in Tasks, reg \in [Tasks -> Regs] DEF Regs
  <1>7. /\ \A u \in Tasks \ {t} : pc'[u] = pc[u]
        /\ pc'[t] = "unlink" /\ pc'[Main] = pc[Main] /\ reg'[Main] = reg[Main]
    BY <1>1, <1>5, <1>6
  <1>8. Walking(t, pc'[t], reg'[t], next, q, n)
    <2>1. PICK i \in 1..n : reg[t].prev = q[i - 1] /\ q[i] = t
      BY <1>1, <1>3, <1>4 DEF Walking, Finding
    <2> QED
      BY <1>1, <1>4, <1>6, <1>7, <2>1 DEF Walking, Finding
  <1>9. \A s \in Stacks : s \in Linked' <=> s \in Linked
    BY <1>1, <1>5, <1>7 DEF Linked, ring
  <1>10. wild' = wild /\ next' = next /\ running' = running
    BY <1>5 DEF ring
  <1> QED
    BY <1>1, <1>2, <1>6, <1>7, <1>8, <1>9, <1>10, WalkStep

\* kfree: the task is not in the ring any more.
LEMMA FreeRing ==
  ASSUME Inv, Inv', NEW q, NEW n \in Nat, RingIs(q, n), ~wild, NEW t \in Tasks,
         running = t, ExitFree(t)
  PROVE  ~wild' /\ RingIs(q, n)'
  <1> USE TypeParts
  <1>1. t \in Stacks /\ pc[t] = "free" /\ t # Main
    BY DEF ExitFree, Inv, Labels, Adding, Finding, Exiting
  <1>2. /\ pc' = [pc EXCEPT ![t] = "gone"]
        /\ UNCHANGED <<next, pid, running, pid_cnt, reg, halted, wild, raced>>
    BY DEF ExitFree, Goto
  <1>3. /\ \A u \in Tasks \ {t} : pc'[u] = pc[u]
        /\ pc'[t] = "gone" /\ pc'[Main] = pc[Main]
    BY <1>1, <1>2
  <1>4. \A s \in Stacks : s \in Linked' <=> s \in Linked
    <2>1. \A s \in Stacks : s \in Linked' <=>
            /\ pc'[s] \notin {"free", "gone"}
            /\ ~Joining(s)'
      BY DEF Linked, Joining, Inv, StackHeld
    <2> QED
      BY <1>1, <1>2, <1>3, <2>1, LinkedIs DEF Joining
  <1>5. ~Joining(t)
    BY <1>1 DEF Joining, RingIs
  <1>6. On(t, q, n) \/ On(next[t], q, n)
    BY DEF RingIs, Runs
  <1>7. On(t, q, n) \/ (pc'[t] \in {"free", "gone"} /\ On(next[t], q, n))
    BY <1>3, <1>6
  <1>8. Walking(t, pc'[t], reg'[t], next, q, n)
    BY <1>3 DEF Walking, Finding
  <1> QED
    BY <1>1, <1>2, <1>3, <1>4, <1>5, <1>7, <1>8, WalkStep

\* What a walk rests on, by the place it is at.
LEMMA RestsOn ==
  ASSUME NEW u
  PROVE  /\ pc[u] \in Adding => Resting(u) = {reg[u].cur}
         /\ pc[u] \in Finding => Resting(u) = {reg[u].task}
         /\ pc[u] = "scan" => Resting(u) = {reg[u].prev, reg[u].cur}
         /\ pc[u] = "follow" =>
              Resting(u) = {reg[u].prev, Follow(reg[u].prev), reg[u].cur}
         /\ pc[u] = "unlink" => Resting(u) = {reg[u].prev, reg[u].tmp}
  BY DEF Resting, Adding, Finding

\* The store prev->next = tmp takes the task out of the ring: prev is still its
\* predecessor and tmp its successor, and no other walk rests on it.
LEMMA UnlinkRing ==
  ASSUME Inv, Inv', NEW q, NEW n \in Nat, RingIs(q, n), ~wild, ~raced', NEW t \in Tasks,
         running = t, ExitUnlink(t)
  PROVE  ~wild' /\ \E m \in Nat : \E p : RingIs(p, m)'
  <1> USE TypeParts
  <1>1. t \in Stacks /\ pc[t] = "unlink" /\ t # Main
    BY DEF ExitUnlink, Inv, Labels, Adding, Finding, Exiting
  <1>2. Walking(t, "unlink", reg[t], next, q, n) /\ Chained(next, q, n)
    BY <1>1 DEF RingIs
  <1>3. PICK k \in 1..n : reg[t].prev = q[k - 1] /\ q[k] = t
    BY <1>2 DEF Walking, Finding
  <1>4. /\ k - 1 \in 0..n /\ k \in 0..n /\ k - 1 \in 0..(n - 1) /\ (k - 1) + 1 = k
        /\ q[k - 1] \in Tasks /\ q[k - 1] # t
    BY <1>2, <1>3 DEF Chained
  <1>5. /\ next' = [next EXCEPT ![q[k - 1]] = next[t]]
        /\ pc' = [pc EXCEPT ![t] = "free"]
        /\ UNCHANGED <<pid, allocated, running, pid_cnt, reg, halted, wild>>
        /\ \A u \in Tasks \ {t} : t \notin Resting(u)
    <2>1. reg[t].prev # Null /\ reg[t].tmp = next[t]
      BY <1>2, <1>3, <1>4 DEF Walking, Finding
    <2> QED
      BY <1>3, <2>1 DEF ExitUnlink, Goto
  <1> DEFINE m == n - 1
             p == [i \in 0..(n - 1) |-> IF i < k THEN q[i] ELSE q[i + 1]]
  <1>6. /\ m \in Nat
        /\ \A i \in 0..n : i < k => i \in 0..m /\ p[i] = q[i]
        /\ \A i \in 0..n : i > k => i - 1 \in 0..m /\ p[i - 1] = q[i]
        /\ \A i \in 0..m : \E j \in 0..n : j # k /\ p[i] = q[j]
        /\ \A i \in 0..m : i >= k => p[i] = q[i + 1]
    <2>1. m \in Nat
      BY <1>3
    <2>2. \A i \in 0..n : i < k => i \in 0..m /\ p[i] = q[i]
      BY <1>3
    <2>3. \A i \in 0..n : i > k => i - 1 \in 0..m /\ p[i - 1] = q[i]
      BY <1>3
    <2>4. ASSUME NEW i \in 0..m PROVE \E j \in 0..n : j # k /\ p[i] = q[j]
      <3>1. CASE i < k
        BY <2>1, <3>1
      <3>2. CASE i >= k
        <4>1. i + 1 \in 0..n /\ i + 1 # k /\ p[i] = q[i + 1]
          BY <1>3, <3>2
        <4> QED
          BY <4>1
      <3> QED
        BY <1>3, <3>1, <3>2
    <2>5. \A i \in 0..m : i >= k => p[i] = q[i + 1]
      BY <1>3
    <2> QED
      BY <2>1, <2>2, <2>3, <2>4, <2>5
  <1> HIDE DEF p
  <1>7. \A x : On(x, p, m) <=> On(x, q, n) /\ x # t
    <2>1. ASSUME NEW x, On(x, p, m) PROVE On(x, q, n) /\ x # t
      BY <1>2, <1>3, <1>4, <1>6, <2>1 DEF On, Chained
    <2>2. ASSUME NEW x, On(x, q, n), x # t PROVE On(x, p, m)
      <3>1. PICK i \in 0..n : q[i] = x
        BY <2>2 DEF On
      <3>2. i < k \/ i > k
        BY <1>3, <2>2, <3>1
      <3> QED
        BY <1>6, <3>1, <3>2 DEF On
    <2> QED
      BY <2>1, <2>2
  <1>8. /\ next'[q[k - 1]] = next[t] /\ next'[t] = next[t]
        /\ \A x \in Tasks : x # q[k - 1] => next'[x] = next[x]
    BY <1>4, <1>5
  <1>9. Chained(next', p, m)
    <2>1. p[0] = Main
      BY <1>2, <1>3, <1>6 DEF Chained
    <2>2. \A i \in 0..m : p[i] \in Tasks
      BY <1>2, <1>6 DEF Chained
    <2>3. ASSUME NEW i \in 0..m, NEW j \in 0..m, p[i] = p[j] PROVE i = j
      <3>1. i \in 0..n /\ j \in 0..n /\ i + 1 \in 0..n /\ j + 1 \in 0..n
        BY <1>3
      <3>2. \A a, b \in 0..n : q[a] = q[b] => a = b
        BY <1>2 DEF Chained
      <3>3. CASE i < k /\ j < k
        BY <1>6, <2>3, <3>1, <3>2, <3>3
      <3>4. CASE i < k /\ j >= k
        <4>1. q[i] = q[j + 1]
          BY <1>6, <2>3, <3>1, <3>4
        <4> QED
          BY <3>1, <3>2, <3>4, <4>1, <1>3
      <3>5. CASE i >= k /\ j < k
        <4>1. q[i + 1] = q[j]
          BY <1>6, <2>3, <3>1, <3>5
        <4> QED
          BY <3>1, <3>2, <3>5, <4>1, <1>3
      <3>6. CASE i >= k /\ j >= k
        <4>1. q[i + 1] = q[j + 1]
          BY <1>6, <2>3, <3>1, <3>6
        <4>2. i + 1 = j + 1
          BY <3>1, <3>2, <4>1
        <4> QED
          BY <4>2
      <3> QED
        BY <1>3, <3>3, <3>4, <3>5, <3>6
    <2>4. ASSUME NEW i \in 0..(m - 1) PROVE next'[p[i]] = p[i + 1]
      <3>1. i \in 0..(n - 1) /\ i \in 0..n /\ i + 1 \in 0..n /\ i \in 0..m /\ i + 1 \in 0..m
        BY <1>3
      <3>2. CASE i + 1 < k
        <4>1. p[i] = q[i] /\ p[i + 1] = q[i + 1] /\ q[i] # q[k - 1]
          BY <1>2, <1>3, <1>4, <1>6, <3>1, <3>2 DEF Chained
        <4> QED
          BY <1>2, <1>8, <3>1, <4>1 DEF Chained
      <3>3. CASE i + 1 = k
        <4>1. i = k - 1 /\ p[i] = q[k - 1] /\ p[i + 1] = q[k + 1] /\ k \in 0..(n - 1)
          BY <1>3, <1>4, <1>6, <3>1, <3>3
        <4> QED
          BY <1>2, <1>3, <1>8, <4>1 DEF Chained
      <3>4. CASE i >= k
        <4>1. /\ p[i] = q[i + 1] /\ p[i + 1] = q[(i + 1) + 1]
              /\ i + 1 \in 0..(n - 1)
          BY <1>3, <1>6, <3>1, <3>4
        <4>2. q[i + 1] # q[k - 1]
          BY <1>2, <1>3, <1>4, <3>1, <3>4 DEF Chained
        <4> QED
          BY <1>2, <1>8, <3>1, <4>1, <4>2 DEF Chained
      <3> QED
        BY <1>3, <3>2, <3>3, <3>4
    <2>5. next'[p[m]] = Main
      <3>1. CASE k = n
        <4>1. m \in 0..n /\ m < k /\ m = k - 1
          BY <3>1, <1>3
        <4> QED
          BY <1>2, <1>3, <1>6, <1>8, <3>1, <4>1 DEF Chained
      <3>2. CASE k < n
        <4>1. n \in 0..n /\ n > k /\ n # k - 1
          BY <3>2, <1>3
        <4>2. p[m] = q[n] /\ q[n] # q[k - 1] /\ q[n] \in Tasks
          BY <1>2, <1>4, <1>6, <4>1 DEF Chained
        <4> QED
          BY <1>2, <1>8, <4>2 DEF Chained
      <3> QED
        BY <1>3, <3>1, <3>2
    <2> QED
      BY <2>1, <2>2, <2>3, <2>4, <2>5 DEF Chained
  <1>10. /\ \A u \in Tasks \ {t} : pc'[u] = pc[u] /\ reg'[u] = reg[u]
         /\ pc'[t] = "free" /\ pc'[Main] = pc[Main] /\ reg'[Main] = reg[Main]
    BY <1>1, <1>5
  <1>11. ASSUME NEW u \in Stacks PROVE On(u, p, m) <=> u \in Linked'
    <2>1. u \in Linked' <=>
            /\ pc'[u] \notin {"free", "gone"}
            /\ ~Joining(u)'
      BY DEF Linked, Joining, Inv, StackHeld
    <2>2. Joining(u)' <=> Joining(u)
      BY <1>10 DEF Joining
    <2>3. On(u, q, n) <=> u \in Linked
      BY DEF RingIs
    <2> QED
      BY <1>7, <1>10, <2>1, <2>2, <2>3, LinkedIs
  <1>12. ASSUME NEW u \in Tasks PROVE Walking(u, pc'[u], reg'[u], next', p, m)
    <2>1. CASE u = t
      BY <1>10, <2>1 DEF Walking, Finding
    <2>2. CASE u # t
      <3>0. t \notin Resting(u)
        BY <1>5, <2>2
      <3>1. pc'[u] = pc[u] /\ reg'[u] = reg[u] /\ Walking(u, pc[u], reg[u], next, q, n)
        BY <1>10, <2>2 DEF RingIs
      <3>2. /\ pc[u] \in {"tail", "onward"} => On(reg[u].cur, p, m)
            /\ pc[u] \in {"scan", "follow"} /\ reg[u].task # u =>
                 On(reg[u].prev, p, m) /\ On(reg[u].cur, p, m)
        BY <1>7, <3>0, <3>1, RestsOn DEF Walking, Adding, Finding
      <3>3. pc[u] = "link" => reg[u].cur = p[m]
        <4> SUFFICES ASSUME pc[u] = "link" PROVE reg[u].cur = p[m]
          OBVIOUS
        <4>1. reg[u].cur = q[n] /\ q[n] # t
          BY <3>0, <3>1, RestsOn DEF Walking, Adding, Finding
        <4>2. n \in 0..n /\ n > k
          BY <1>3, <4>1
        <4> QED
          BY <1>6, <4>1, <4>2
      <3>4. ASSUME NEW i \in 1..n, q[i - 1] # t, q[i] # t
            PROVE  \E j \in 1..m : /\ p[j - 1] = q[i - 1] /\ p[j] = q[i]
                                   /\ \A h \in 0..(j - 1) : On(p[h], q, i - 1)
        <4>1. i # k /\ i - 1 # k /\ i \in 0..n /\ i - 1 \in 0..n
          BY <1>3, <3>4
        <4>2. CASE i < k
          <5>1. i \in 1..m /\ p[i - 1] = q[i - 1] /\ p[i] = q[i]
            BY <1>3, <1>6, <4>1, <4>2
          <5>2. \A h \in 0..(i - 1) : p[h] = q[h]
            BY <1>3, <1>6, <4>2
          <5> QED
            BY <5>1, <5>2 DEF On
        <4>3. CASE i > k
          <5>1. i - 1 > k /\ i - 1 \in 1..m
            BY <1>3, <4>1, <4>3
          <5>2. p[i - 1] = q[i] /\ p[(i - 1) - 1] = q[i - 1]
            BY <1>6, <4>1, <4>3, <5>1
          <5>3. ASSUME NEW h \in 0..((i - 1) - 1) PROVE On(p[h], q, i - 1)
            <6>1. h \in 0..m /\ h \in 0..n /\ h \in 0..(i - 1) /\ h + 1 \in 0..(i - 1)
              BY <1>3, <4>1
            <6> QED
              BY <1>3, <1>6, <6>1 DEF On
          <5> QED
            BY <5>1, <5>2, <5>3
        <4> QED
          BY <1>3, <4>1, <4>2, <4>3
      <3>5. pc[u] = "scan" /\ reg[u].task = u =>
              \E j \in 1..m : /\ reg[u].prev = p[j - 1] /\ reg[u].cur = p[j]
                              /\ \A h \in 0..(j - 1) : p[h] # u
        <4> SUFFICES ASSUME pc[u] = "scan", reg[u].task = u
                     PROVE  \E j \in 1..m : /\ reg[u].prev = p[j - 1] /\ reg[u].cur = p[j]
                                            /\ \A h \in 0..(j - 1) : p[h] # u
          OBVIOUS
        <4>1. PICK i \in 1..n : /\ reg[u].prev = q[i - 1] /\ reg[u].cur = q[i]
                                /\ \A h \in 0..(i - 1) : q[h] # u
          BY <3>1 DEF Walking, Finding
        <4>2. q[i - 1] # t /\ q[i] # t
          BY <3>0, <4>1, RestsOn
        <4>3. PICK j \in 1..m : /\ p[j - 1] = q[i - 1] /\ p[j] = q[i]
                                /\ \A h \in 0..(j - 1) : On(p[h], q, i - 1)
          BY <3>4, <4>2
        <4>4. \A h \in 0..(j - 1) : p[h] # u
          BY <4>1, <4>3 DEF On
        <4> QED
          BY <4>1, <4>3, <4>4
      <3>10. pc[u] \in Finding =>
              \E j \in 0..m : reg[u].task = p[j] /\ \A h \in 0..(j - 1) : p[h] # u
        <4> SUFFICES ASSUME pc[u] \in Finding
                     PROVE  \E j \in 0..m : reg[u].task = p[j] /\ \A h \in 0..(j - 1) : p[h] # u
          OBVIOUS
        <4>1. PICK i \in 0..n : reg[u].task = q[i] /\ \A h \in 0..(i - 1) : q[h] # u
          BY <3>1 DEF Walking
        <4>2. i # k
          BY <1>3, <3>0, <4>1, RestsOn
        <4>3. CASE i < k
          <5>1. i \in 0..m /\ \A h \in 0..i : p[h] = q[h]
            BY <1>3, <1>6, <4>3
          <5> QED
            BY <4>1, <5>1
        <4>4. CASE i > k
          <5>1. i - 1 \in 0..m /\ p[i - 1] = q[i]
            BY <1>6, <4>4
          <5>2. ASSUME NEW h \in 0..((i - 1) - 1) PROVE p[h] # u
            <6>1. h \in 0..m /\ h \in 0..n /\ h \in 0..(i - 1) /\ h + 1 \in 0..(i - 1)
              BY <1>3
            <6>2. p[h] = q[h] \/ p[h] = q[h + 1]
              BY <1>3, <1>6, <6>1
            <6> QED
              BY <4>1, <6>1, <6>2
          <5> QED
            BY <4>1, <5>1, <5>2
        <4> QED
          BY <1>3, <4>2, <4>3, <4>4
      <3>9. pc[u] = "follow" /\ reg[u].task = u =>
              \E j \in 2..m : /\ reg[u].prev = p[j - 2] /\ reg[u].cur = p[j]
                              /\ \A h \in 0..(j - 1) : p[h] # u
        <4> SUFFICES ASSUME pc[u] = "follow", reg[u].task = u
                     PROVE  \E j \in 2..m : /\ reg[u].prev = p[j - 2] /\ reg[u].cur = p[j]
                                            /\ \A h \in 0..(j - 1) : p[h] # u
          OBVIOUS
        <4>1. PICK i \in 2..n : /\ reg[u].prev = q[i - 2] /\ reg[u].cur = q[i]
                                /\ \A h \in 0..(i - 1) : q[h] # u
          BY <3>1 DEF Walking, Finding
        <4>2. /\ i \in 0..n /\ i - 1 \in 0..n /\ i - 2 \in 0..n /\ i - 2 \in 0..(n - 1)
              /\ (i - 2) + 1 = i - 1
          OBVIOUS
        <4>3. q[i - 2] # t /\ q[i - 1] # t /\ q[i] # t
          <5>1. q[i - 2] \in Tasks /\ next[q[i - 2]] = q[i - 1]
            BY <1>2, <4>2 DEF Chained
          <5>2. Follow(reg[u].prev) = q[i - 1]
            BY <4>1, <5>1 DEF Follow
          <5> QED
            BY <3>0, <4>1, <5>2, RestsOn
        <4>4. i # k /\ i - 1 # k /\ i - 2 # k
          BY <1>3, <4>3
        <4>5. CASE i < k
          <5>1. i \in 2..m /\ p[i - 2] = q[i - 2] /\ p[i] = q[i]
            BY <1>3, <1>6, <4>2, <4>5
          <5>2. \A h \in 0..(i - 1) : p[h] = q[h]
            BY <1>3, <1>6, <4>5
          <5> QED
            BY <4>1, <5>1, <5>2
        <4>6. CASE i > k
          <5>1. i - 2 > k /\ i - 1 \in 2..m /\ (i - 1) - 2 = (i - 2) - 1
            BY <1>3, <4>4, <4>6
          <5>2. p[i - 1] = q[i] /\ p[(i - 1) - 2] = q[i - 2]
            BY <1>6, <4>2, <4>6, <5>1
          <5>3. ASSUME NEW h \in 0..((i - 1) - 1) PROVE p[h] # u
            <6>1. h \in 0..m /\ h \in 0..n /\ h \in 0..(i - 1) /\ h + 1 \in 0..(i - 1)
              BY <1>3, <4>2
            <6>2. p[h] = q[h] \/ p[h] = q[h + 1]
              BY <1>3, <1>6, <6>1
            <6> QED
              BY <4>1, <6>1, <6>2
          <5> QED
            BY <4>1, <5>1, <5>2, <5>3
        <4> QED
          BY <1>3, <4>4, <4>5, <4>6
      <3>6. ASSUME pc[u] = "unlink"
            PROVE  \E j \in 1..m : reg[u].prev = p[j - 1] /\ p[j] = u
        <4>1. PICK i \in 1..n : reg[u].prev = q[i - 1] /\ q[i] = u
          BY <3>1, <3>6 DEF Walking, Finding
        <4>2. q[i - 1] # t
          BY <3>0, <3>6, <4>1, RestsOn
        <4> QED
          BY <2>2, <3>4, <4>1, <4>2
      <3>7. pc[u] = "unlink" => reg[u].tmp = next'[u]
        <4>1. pc[u] = "unlink" => reg[u].tmp = next[u] /\ reg[u].tmp # t
          BY <3>0, <3>1, RestsOn DEF Walking, Finding
        <4>2. next[q[k - 1]] = t
          BY <1>2, <1>3, <1>4 DEF Chained
        <4> QED
          BY <1>8, <4>1, <4>2
      <3>8. pc[u] = "unlink" => reg[u].task = u /\ reg[u].cur = u
        BY <3>1 DEF Walking, Finding
      <3> QED
        BY <3>1, <3>2, <3>3, <3>5, <3>6, <3>7, <3>8, <3>9, <3>10 DEF Walking, Finding
    <2> QED
      BY <2>1, <2>2
  <1>13. Runs(running', pc'[running'], next', p, m)
    <2>1. On(next[t], q, n) /\ next[t] # t
      <3>1. On(t, q, n)
        BY <1>3, <1>4 DEF On
      <3>2. next[t] = t => k = k - 1
        <4>1. CASE k = n
          BY <1>1, <1>2, <1>3, <4>1 DEF Chained
        <4>2. CASE k < n
          <5>1. k \in 0..(n - 1) /\ k + 1 \in 0..n
            BY <4>2, <1>3
          <5> QED
            BY <1>2, <1>3, <1>4, <5>1 DEF Chained
        <4> QED
          BY <1>3, <4>1, <4>2
      <3> QED
        BY <1>2, <1>3, <3>1, <3>2, ChainNext
    <2> QED
      BY <1>5, <1>7, <1>8, <1>10, <2>1 DEF Runs
  <1>14. ASSUME pc'[Main] \in Adding
         PROVE  /\ reg'[Main].task \in Stacks /\ pc'[reg'[Main].task] = "run"
                /\ next'[reg'[Main].task] = Main
    <2>1. /\ reg[Main].task \in Stacks /\ pc[reg[Main].task] = "run"
          /\ next[reg[Main].task] = Main /\ Joining(reg[Main].task)
      BY <1>10, <1>14 DEF RingIs, Joining
    <2>2. ~On(reg[Main].task, q, n) /\ reg[Main].task # t
      BY <1>1, <2>1, LinkedIs DEF RingIs
    <2>3. reg[Main].task # q[k - 1]
      BY <1>4, <2>2 DEF On
    <2> QED
      BY <1>8, <1>10, <2>1, <2>2, <2>3
  <1>15. RingIs(p, m)'
    BY <1>9, <1>11, <1>12, <1>13, <1>14 DEF RingIs
  <1> QED
    BY <1>5, <1>6, <1>15

\* Init: Main is alone.
LEMMA InitRing == Init => RingInv
  <1> SUFFICES ASSUME Init PROVE ~wild /\ \E n \in Nat : \E q : RingIs(q, n)
    BY DEF RingInv
  <1> USE TypeParts, InitStep
  <1> DEFINE q == [i \in {0} |-> Main]
  <1>1. q[0] = Main /\ 0 \in Nat /\ (0..0) = {0}
    OBVIOUS
  <1> HIDE DEF q
  <1>2. /\ pc[Main] = "idle" /\ next[Main] = Main /\ running = Main /\ ~wild
        /\ \A s \in Stacks : pc[s] = "gone" /\ s # Main
    BY DEF Init
  <1>3. Chained(next, q, 0) /\ \A x : On(x, q, 0) <=> x = Main
    BY <1>1, <1>2 DEF Chained, On
  <1>4. \A s \in Stacks : On(s, q, 0) <=> s \in Linked
    BY <1>2, <1>3 DEF Linked
  <1>5. \A u \in Tasks : Walking(u, pc[u], reg[u], next, q, 0)
    BY <1>2 DEF Walking, Finding
  <1>6. RingIs(q, 0)
    BY <1>2, <1>3, <1>4, <1>5 DEF RingIs, Runs, Adding
  <1> QED
    BY <1>1, <1>2, <1>6

\* Every behaviour keeps the ring, until a race.
THEOREM RingInvariance == Spec => []RingInv
  <1>1. Init => RingInv
    BY InitRing
  <1>2. Inv /\ Inv' /\ RingInv /\ [Next]_vars => RingInv'
    <2> SUFFICES ASSUME Inv, Inv', RingInv, [Next]_vars, ~raced'
                 PROVE  ~wild' /\ \E n \in Nat : \E q : RingIs(q, n)'
      BY DEF RingInv
    <2>1. CASE UNCHANGED vars
      <3>1. Linked' = Linked
        BY <2>1 DEF Linked, vars, ring
      <3> QED
        BY <2>1, <3>1 DEF RingInv, RingIs, vars, ring
    <2>2. ~raced
      <3>1. CASE UNCHANGED vars
        BY <3>1 DEF vars
      <3>2. CASE Tick
        BY <3>2 DEF Tick, schedule, Wild
      <3>3. ASSUME NEW t \in Tasks, Step(t) PROVE ~raced
        BY <3>3 DEF Step, submit, SubmitFill, SubmitTail, SubmitOnward, SubmitLink,
                    kthread_exit, find_task, FindNext, FindWhile, exit, ExitFirst, ExitScan,
                    ExitFollow, ExitRead, ExitUnlink, ExitFree, Wild
      <3> QED
        BY <3>1, <3>2, <3>3 DEF Next
    <2>3. ~wild /\ \E n \in Nat : \E q : RingIs(q, n)
      BY <2>2 DEF RingInv
    <2>4. PICK n \in Nat : \E q : RingIs(q, n)
      BY <2>3
    <2>5. PICK q : RingIs(q, n)
      BY <2>4
    <2>6. CASE Tick
      BY <2>3, <2>5, <2>6, TickRing
    <2>7. ASSUME NEW t \in Tasks, Step(t)
          PROVE  ~wild' /\ \E m \in Nat : \E p : RingIs(p, m)'
      <3>1. running = t
        BY <2>7 DEF Step
      <3>2. CASE SubmitLink(t)
        BY <2>3, <2>5, <3>1, <3>2, LinkRing
      <3>3. CASE ExitUnlink(t)
        BY <2>3, <2>5, <3>1, <3>3, UnlinkRing
      <3>4. CASE ~SubmitLink(t) /\ ~ExitUnlink(t)
        <4>1. \/ submit(t) \/ SubmitFill(t) \/ SubmitTail(t) \/ SubmitOnward(t)
              \/ kthread_exit(t) \/ find_task(t) \/ FindNext(t) \/ FindWhile(t)
              \/ exit(t) \/ ExitFirst(t) \/ ExitScan(t) \/ ExitFollow(t)
              \/ ExitRead(t) \/ ExitFree(t)
          BY <2>7, <3>4 DEF Step
        <4>2. ~wild' /\ RingIs(q, n)'
          BY <2>3, <2>5, <3>1, <4>1, SubmitRing, FillRing, TailRing, CallRing, FindRing,
             ExitRing, ScanRing, FollowRing, ReadRing, FreeRing
        <4> QED
          BY <4>2
      <3> QED
        BY <3>2, <3>3, <3>4
    <2> QED
      BY <2>1, <2>6, <2>7 DEF Next
  <1> QED
    BY <1>1, <1>2, Invariance, PTL DEF Spec

\* A set of natural numbers with 0 that is closed under successor has them all.
LEMMA NatClosed ==
  ASSUME NEW S, 0 \in S, \A n \in Nat : n \in S => n + 1 \in S
  PROVE  \A n \in Nat : n \in S
  <1> DEFINE R == OpToRel(<, Nat)
             T == {k \in Nat : k \notin S}
  <1>1. IsWellFoundedOn(R, Nat)
    BY NatLessThanWellFounded
  <1>2. \A x, y \in Nat : <<x, y>> \in R <=> x < y
    BY DEF OpToRel
  <1> HIDE DEF R
  <1>3. ASSUME T # {} PROVE FALSE
    <2>1. PICK x \in T : \A y \in T : ~(<<y, x>> \in R)
      <3>1. T \in SUBSET Nat
        OBVIOUS
      <3> HIDE DEF T
      <3> QED
        BY <1>1, <1>3, <3>1, WFMin
    <2>2. x \in Nat /\ x # 0 /\ x - 1 \in Nat /\ x - 1 < x /\ (x - 1) + 1 = x
      OBVIOUS
    <2> QED
      BY <1>2, <2>1, <2>2
  <1> QED
    BY <1>3

\* Chain is what its recursive definition says.
LEMMA ChainDef ==
  /\ Cardinality(Tasks) \in Nat
  /\ Chain[0] = Main
  /\ \A i \in Nat : i + 1 \in Hops => Chain[i + 1] = Follow(Chain[i])
  <1>0. IsFiniteSet(Tasks) /\ Cardinality(Tasks) \in Nat
    BY SchedulerAssumption, FS_AddElement, FS_CardinalityType DEF Tasks
  <1> DEFINE Upto(f, k) == f = [i \in 0..k |-> IF i = 0 THEN Main ELSE Follow(f[i - 1])]
             S == {k \in Nat : \E f : Upto(f, k)}
  <1>1. 0 \in S
    <2>1. Upto([i \in 0..0 |-> Main], 0)
      OBVIOUS
    <2> HIDE DEF Upto
    <2> QED
      BY <2>1
  <1>2. ASSUME NEW k \in Nat, k \in S PROVE k + 1 \in S
    <2>1. PICK f : Upto(f, k)
      BY <1>2
    <2>2. f[0] = Main /\ \A i \in 0..k : i # 0 => f[i] = Follow(f[i - 1])
      BY <2>1
    <2> DEFINE g == [i \in 0..(k + 1) |-> IF i = k + 1 THEN Follow(f[k]) ELSE f[i]]
    <2>3. ASSUME NEW i \in 0..(k + 1)
          PROVE  g[i] = IF i = 0 THEN Main ELSE Follow(g[i - 1])
      <3>1. i # 0 => i - 1 \in 0..k /\ g[i - 1] = f[i - 1]
        OBVIOUS
      <3>2. i # k + 1 => i \in 0..k /\ g[i] = f[i]
        OBVIOUS
      <3>3. i = k + 1 => g[i] = Follow(f[k]) /\ i - 1 = k /\ i # 0
        OBVIOUS
      <3> QED
        BY <2>2, <3>1, <3>2, <3>3
    <2>4. g = [i \in 0..(k + 1) |-> IF i = 0 THEN Main ELSE Follow(g[i - 1])]
      BY <2>3
    <2>5. Upto(g, k + 1)
      BY <2>4
    <2> HIDE DEF g, Upto
    <2>6. \E e : Upto(e, k + 1)
      BY <2>5
    <2> QED
      BY <2>6
  <1>3. Cardinality(Tasks) \in S
    <2> HIDE DEF S
    <2> QED
      BY <1>0, <1>1, <1>2, NatClosed
  <1> DEFINE P(f) == f = [i \in Hops |-> IF i = 0 THEN Main ELSE Follow(f[i - 1])]
  <1>4. \E f : P(f)
    BY <1>3 DEF Hops
  <1>5. Chain = CHOOSE f : P(f)
    BY DEF Chain
  <1>6. P(CHOOSE f : P(f))
    BY <1>4, Zenon
  <1>7. P(Chain)
    BY <1>5, <1>6
  <1> HIDE DEF S
  <1>8. 0 \in Hops
    BY <1>0 DEF Hops
  <1>9. ASSUME NEW i \in Nat, i + 1 \in Hops PROVE Chain[i + 1] = Follow(Chain[i])
    <2>1. i + 1 # 0 /\ (i + 1) - 1 = i
      OBVIOUS
    <2> QED
      BY <1>7, <1>9, <2>1
  <1> QED
    BY <1>0, <1>7, <1>8, <1>9

\* The tasks that can be reached from Main are those of the ring.
LEMMA RingOfChain ==
  ASSUME Inv, NEW q, NEW n \in Nat, RingIs(q, n)
  PROVE  /\ \A x : x \in Ring <=> On(x, q, n)
         /\ \E h \in Hops \ {0} : Chain[h] = Main
  <1> USE TypeParts, ChainDef
  <1>1. n + 1 <= Cardinality(Tasks)
    <2> DEFINE f == [i \in 0..n |-> q[i]]
    <2>1. f \in Injection(0..n, Tasks)
      BY DEF RingIs, Chained, Injection, IsInjective
    <2>2. IsFiniteSet(Tasks)
      BY SchedulerAssumption, FS_AddElement DEF Tasks
    <2>3. Cardinality(0..n) = n + 1
      BY FS_Interval
    <2> HIDE DEF f
    <2> QED
      BY <2>1, <2>2, <2>3, FS_Injection
  <1> DEFINE S == {h \in Nat : h \in Hops => /\ On(Chain[h], q, n)
                                             /\ h <= n => Chain[h] = q[h]}
  <1>2. 0 \in S
    BY DEF RingIs, Chained, On
  <1>3. ASSUME NEW h \in Nat, h \in S PROVE h + 1 \in S
    <2> SUFFICES ASSUME h + 1 \in Hops
                 PROVE  On(Chain[h + 1], q, n) /\ (h + 1 <= n => Chain[h + 1] = q[h + 1])
      OBVIOUS
    <2>1. h \in Hops
      BY DEF Hops
    <2>2. On(Chain[h], q, n) /\ (h <= n => Chain[h] = q[h])
      BY <1>3, <2>1
    <2>3. /\ Chain[h] \in Tasks /\ On(next[Chain[h]], q, n)
      BY <2>2, ChainNext DEF RingIs
    <2>4. Chain[h + 1] = next[Chain[h]]
      BY <2>3 DEF Follow
    <2>5. h + 1 <= n => h \in 0..(n - 1)
      OBVIOUS
    <2>6. h + 1 <= n => Chain[h + 1] = q[h + 1]
      BY <2>2, <2>4, <2>5 DEF RingIs, Chained
    <2> QED
      BY <2>3, <2>4, <2>6
  <1>4. \A h \in Nat : h \in S
    <2> HIDE DEF S
    <2> QED
      BY <1>2, <1>3, NatClosed
  <1>5. \A i \in 0..n : i \in Hops /\ Chain[i] = q[i]
    BY <1>1, <1>4 DEF Hops
  <1>6. n + 1 \in Hops \ {0} /\ Chain[n + 1] = Main
    <2>1. n + 1 \in Hops \ {0} /\ n \in 0..n
      BY <1>1 DEF Hops
    <2>2. Chain[n] = q[n] /\ q[n] \in Tasks /\ next[q[n]] = Main
      BY <1>5, <2>1 DEF RingIs, Chained
    <2> QED
      BY <2>1, <2>2 DEF Follow
  <1>7. \A h \in Hops : On(Chain[h], q, n)
    BY <1>4 DEF Hops
  <1> QED
    BY <1>5, <1>6, <1>7 DEF Ring, On

\* However many threads there are and however often their stacks are used again,
\* the ring leads through exactly the threads that were linked in and have not
\* unlinked themselves, as long as no walk rests on a task that is unlinked.
THEOREM RingUnlessRacedHolds == Spec => []RingUnlessRaced
  <1>1. Inv /\ RingInv => RingUnlessRaced
    <2> SUFFICES ASSUME Inv, RingInv, ~raced PROVE RingSound
      BY DEF RingUnlessRaced
    <2>1. ~wild /\ \E n \in Nat : \E q : RingIs(q, n)
      BY DEF RingInv
    <2>2. PICK n \in Nat : \E q : RingIs(q, n)
      BY <2>1
    <2>3. PICK q : RingIs(q, n)
      BY <2>2
    <2>4. /\ \A x : x \in Ring <=> On(x, q, n)
          /\ \E h \in Hops \ {0} : Chain[h] = Main
      BY <2>3, RingOfChain
    <2>5. \A x : On(x, q, n) <=> x = Main \/ x \in Linked
      <3>1. \A x : On(x, q, n) => x \in Tasks
        BY <2>3 DEF RingIs, Chained, On
      <3>2. On(Main, q, n)
        BY <2>3 DEF RingIs, Chained, On
      <3>3. Linked \subseteq Stacks
        BY DEF Linked, Inv, TypeOK
      <3> QED
        BY <2>3, <3>1, <3>2, <3>3, TypeParts DEF RingIs
    <2> QED
      BY <2>1, <2>4, <2>5 DEF RingSound
  <1> QED
    BY <1>1, Invariance, RingInvariance, PTL

\* Where find_task gives up, it stands on the last task of the ring; it has passed
\* every task before that one and found none with its pid, and its own thread is
\* in the ring.
THEOREM MissesOnlyLastHolds == Spec => MissesOnlyLast
  <1> DEFINE A == \A t \in Tasks : pc[t] = "find_while" /\ pc'[t] = "exit" /\ ~raced
                                     => reg[t].task = t
  <1>1. Inv /\ RingInv /\ [Next]_vars => [A]_vars
    <2> SUFFICES ASSUME Inv, RingInv, Next, ~raced, NEW t \in Tasks,
                        pc[t] = "find_while", pc'[t] = "exit"
                 PROVE  reg[t].task = t
      OBVIOUS
    <2> USE TypeParts
    <2>1. ~wild /\ \E n \in Nat : \E q : RingIs(q, n)
      BY DEF RingInv
    <2>2. PICK n \in Nat : \E q : RingIs(q, n)
      BY <2>1
    <2>3. PICK q : RingIs(q, n)
      BY <2>2
    <2>4. t \in Stacks
      BY DEF Inv, Labels, Adding
    <2>5. On(t, q, n) /\ Chained(next, q, n)
      <3>1. ~Joining(t)
        BY <2>3 DEF Joining, RingIs
      <3> QED
        BY <2>3, <2>4, <3>1, LinkedIs DEF RingIs
    <2>6. PICK i \in 0..n : reg[t].task = q[i] /\ \A k \in 0..(i - 1) : q[k] # t
      BY <2>3 DEF RingIs, Walking, Finding
    <2>7. FindWhile(t)
      <3>1. PICK u \in Tasks : Step(u)
        BY DEF Next, Tick, schedule, Wild
      <3>2. u = t
        BY <3>1 DEF Step, submit, SubmitFill, SubmitTail, SubmitOnward, SubmitLink,
                    kthread_exit, find_task, FindNext, FindWhile, exit, ExitFirst, ExitScan,
                    ExitFollow, ExitRead, ExitUnlink, ExitFree, Wild, Goto
      <3> QED
        BY <3>1, <3>2 DEF Step, submit, SubmitFill, SubmitTail, SubmitOnward, SubmitLink,
                    kthread_exit, find_task, FindNext, exit, ExitFirst, ExitScan,
                    ExitFollow, ExitRead, ExitUnlink, ExitFree
    <2>8. next[reg[t].task] = Main
      BY <2>7 DEF FindWhile, Goto, Wild
    <2>9. reg[t].task = q[n]
      BY <2>5, <2>6, <2>8, ChainNext DEF On
    <2>10. i = n
      <3>1. \A j, k \in 0..n : q[j] = q[k] => j = k
        BY <2>5 DEF Chained
      <3>2. n \in 0..n /\ q[i] = q[n]
        BY <2>6, <2>9
      <3> QED
        BY <3>1, <3>2
    <2>11. PICK k \in 0..n : q[k] = t
      BY <2>5 DEF On
    <2> QED
      BY <2>6, <2>10, <2>11
  <1> QED
    BY <1>1, Invariance, RingInvariance, PTL DEF Spec, MissesOnlyLast

================================================================================
