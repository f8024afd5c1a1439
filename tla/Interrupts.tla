------------------------------- MODULE Interrupts ------------------------------
(*****************************************************************************)
(* The way of an interrupt through the kernel: the 8259 controllers and the  *)
(* keyboard controller (external, as the code programs them), the gates that *)
(* turn interrupts off, irq_dispatcher (lib/idt.cc, lib/isr.s), the handler  *)
(* table, the handlers of timer and keyboard, and the order in which         *)
(* kern_init (init/entry.cc) sets all this up with interrupts already on.    *)
(*                                                                           *)
(* The timer handler may leave the interrupt by switching to a thread that   *)
(* has never run (lib/switch_to.s), which then starts with the eflags that   *)
(* submit gave it and returns from no interrupt.  Threads are numbered in    *)
(* the order of the ring and do nothing here; module Scheduler has the ring. *)
(*****************************************************************************)
EXTENDS Integers, Sequences, FiniteSets, FiniteSetsExt

CONSTANTS
    Lines,      \* the interrupt lines in use, of 0..15
    Keys,       \* the keys in use, by scan code
    MaxThreads  \* bound: threads created besides the boot thread

VARIABLES
    boot,       \* kern_init: calls made
    interrupts, \* the interrupt flag of the CPU
    handlers,   \* interrupt_handlers
    pic,        \* external: lines requested and in service
    cpu,        \* thread, entered, dispatch, return: where it executes
    vec,        \* int_no of the interrupt being handled
    running,    \* the current thread
    context,    \* what a thread that does not run is resumed into
    scan,       \* external: the keyboard controller's output buffer
    flags,      \* is_shifting, is_ctrling, is_capslock
    typed,      \* what keyboard_isr printed last time: a character, or 0 for none
    down,       \* history: the keys held down
    asked,      \* history: the last Shift to move was pressed, Caps Lock was
                \* pressed an odd number of times
    early       \* history: a key moved when nothing would read it

kernel == <<boot, interrupts, handlers, cpu, vec, running, context, flags, typed>>
user == <<down, asked, early>>
vars == <<kernel, pic, scan, user>>

Master == 0..7
Slave  == 8..15
Cascade == 2        \* the master's line that the slave is connected to

kShift == {42, 54}
kCtrl == 29
kCapslock == 58

\* char keyboard[128], as far as it is needed: a, z, 1 and Enter.
keyboard == [k \in {2, 28, 30, 44} |->
                CASE k = 30 -> 97 [] k = 44 -> 122 [] k = 2 -> 49 [] k = 28 -> 10]

ASSUME InterruptsAssumption ==
    /\ Lines \subseteq (Master \cup Slave) \ {Cascade} /\ {0, 1} \subseteq Lines
    /\ Keys \subseteq kShift \cup {kCtrl, kCapslock} \cup DOMAIN keyboard
    /\ MaxThreads \in Nat

IRQ0 == 32
IRQ1 == 33
None == "none"
NoKey == 0
Release == 128

Vectors == {14} \cup {IRQ0 + l : l \in Lines}

--------------------------------------------------------------------------------
(* kern_init.                                                                *)

\* Mutant: the timer is started before there is a scheduler.
Calls_TimerFirst == <<"init_debug", "init_gdt", "init_idt", "init_pmm", "init_keyboard",
                      "init_vmm", "init_heap", "init_timer", "init_kthread", "ide_init", "init_fs">>

Calls == <<"init_debug", "init_gdt", "init_idt", "init_pmm", "init_keyboard",
           "init_vmm", "init_heap", "init_kthread", "init_timer", "ide_init", "init_fs">>

Made == {Calls[i] : i \in 1..boot}
Booted == boot = Len(Calls)

Init ==
    /\ boot = 0
    /\ interrupts = FALSE
    /\ handlers = [v \in Vectors |-> None]
    /\ pic = [irr |-> {}, isr |-> {}]
    /\ cpu = "thread" /\ vec = IRQ0
    /\ running = 0 /\ context = <<>>
    /\ scan = NoKey
    /\ flags = [shifting |-> FALSE, ctrling |-> FALSE, capslock |-> FALSE]
    /\ typed = 0
    /\ down = {} /\ asked = [shift |-> FALSE, caps |-> FALSE] /\ early = FALSE

register_isr(v, h) == handlers' = [handlers EXCEPT ![v] = h]

\* The controllers start anew, the table is cleared, all gates are interrupt
\* gates, and idt_flush turns interrupts on.
init_idt ==
    /\ pic' = [irr |-> {}, isr |-> {}]
    /\ handlers' = [v \in Vectors |-> None]
    /\ interrupts' = TRUE

\* The next call of kern_init; the others touch none of this state.
kern_init ==
    /\ cpu = "thread" /\ running = 0 /\ ~Booted
    /\ boot' = boot + 1
    /\ LET call == Calls[boot + 1] IN
         \/ call = "init_idt" /\ init_idt
         \/ /\ \/ call = "init_keyboard" /\ register_isr(IRQ1, "keyboard_isr")
               \/ call = "init_vmm" /\ register_isr(14, "page_fault_handler")
               \/ call = "init_timer" /\ register_isr(IRQ0, "timer_callback")
               \/ /\ call \notin {"init_idt", "init_keyboard", "init_vmm", "init_timer"}
                  /\ UNCHANGED handlers
            /\ UNCHANGED <<pic, interrupts>>
    /\ UNCHANGED <<cpu, vec, running, context, flags, typed, scan, user>>

\* kthread(fn): the boot thread has created thread Len(context) + 1, whose
\* context has eflags 0x200 and an esp that ret takes to fn.
kthread ==
    /\ cpu = "thread" /\ running = 0 /\ Booted /\ Len(context) < MaxThreads
    /\ context' = Append(context, "fn")
    /\ UNCHANGED <<boot, interrupts, handlers, cpu, vec, running, flags, typed, pic, scan, user>>

--------------------------------------------------------------------------------
(* External: devices and controllers.                                        *)

Request(l) == pic' = [pic EXCEPT !.irr = @ \cup {l}]

\* A tick, or another device's interrupt.  The next one comes long after the
\* one before has been handled.
Device(l) ==
    /\ cpu = "thread" /\ l \in Lines \ {1}
    /\ Request(l)
    /\ UNCHANGED <<kernel, scan, user>>

\* The keyboard has one byte for the CPU, and the next one once it was read.
Key(k) ==
    /\ scan = NoKey
    /\ Request(1)
    /\ early' = (early \/ handlers[IRQ1] = None)
    /\ \/ /\ scan' = k /\ down' = down \cup {k}
          /\ asked' = [shift |-> asked.shift \/ k \in kShift, caps |-> asked.caps # (k = kCapslock)]
       \/ /\ k \in down /\ scan' = k + Release /\ down' = down \ {k}
          /\ asked' = [asked EXCEPT !.shift = @ /\ k \notin kShift]
    /\ UNCHANGED kernel

\* A line is held back by one in service that is as urgent; a line of the
\* slave also by those of the master before the cascade.
Blocked(l) ==
    \E m \in pic.isr :
        \/ {l, m} \subseteq Master /\ m <= l
        \/ {l, m} \subseteq Slave /\ m <= l
        \/ l \in Slave /\ m \in Master /\ m <= Cascade

Urgency(l) == IF l \in Slave THEN 16 * Cascade + l ELSE 16 * l

\* The CPU takes the most urgent request, through an interrupt gate.
Interrupt(l) ==
    /\ cpu = "thread" /\ interrupts
    /\ l \in pic.irr /\ ~Blocked(l)
    /\ \A m \in pic.irr : Urgency(l) <= Urgency(m)
    /\ pic' = [irr |-> pic.irr \ {l},
               isr |-> pic.isr \cup (IF l \in Slave THEN {l, Cascade} ELSE {l})]
    /\ interrupts' = FALSE
    /\ cpu' = "entered" /\ vec' = IRQ0 + l
    /\ UNCHANGED <<boot, handlers, running, context, flags, typed, scan, user>>

\* The end-of-interrupt command ends the most urgent one in service.
Eoi(isr, lines) == isr \ (IF isr \cap lines = {} THEN {} ELSE {Min(isr \cap lines)})

--------------------------------------------------------------------------------
(* irq_dispatcher, and the stub around it.                                   *)

\* Mutant: the slave is forgotten.
OfSlave_Never(v) == FALSE
OfSlave(v) == v >= 40

\* Mutant: only an interrupt that has a handler is ended.
irq_dispatcher_IfHandled ==
    /\ cpu = "entered"
    /\ pic' = IF handlers[vec] = None THEN pic
              ELSE [pic EXCEPT !.isr = Eoi(IF OfSlave(vec) THEN Eoi(@, Slave) ELSE @, Master)]
    /\ cpu' = "dispatch"
    /\ UNCHANGED <<boot, interrupts, handlers, vec, running, context, flags, typed, scan, user>>

\* Its first half: end-of-interrupt comes before the handler.
irq_dispatcher ==
    /\ cpu = "entered"
    /\ pic' = [pic EXCEPT !.isr = Eoi(IF OfSlave(vec) THEN Eoi(@, Slave) ELSE @, Master)]
    /\ cpu' = "dispatch"
    /\ UNCHANGED <<boot, interrupts, handlers, vec, running, context, flags, typed, scan, user>>

Unhandled ==
    /\ cpu = "dispatch" /\ handlers[vec] = None
    /\ cpu' = "return"
    /\ UNCHANGED <<boot, interrupts, handlers, vec, running, context, flags, typed, pic, scan, user>>

\* change_task_to(t) and switch_to.  A thread that was switched away from
\* comes back inside its own timer interrupt, with interrupts off; one that
\* never ran starts at fn, with interrupts on.
SwitchTo(t) ==
    LET into == IF t \in DOMAIN context /\ t # running THEN context[t] ELSE "handler" IN
    /\ running' = t
    /\ context' = [u \in 1..Len(context) |-> IF u = t THEN "handler" ELSE context[u]]
    /\ IF into = "fn" THEN cpu' = "thread" /\ interrupts' = TRUE
                      ELSE cpu' = "return" /\ UNCHANGED interrupts

\* Mutant: the ring is one longer than it is.
timer_callback_PastLast ==
    /\ cpu = "dispatch" /\ handlers[vec] = "timer_callback"
    /\ SwitchTo((running + 1) % (Len(context) + 2))
    /\ UNCHANGED <<boot, handlers, vec, flags, typed, pic, scan, user>>

timer_callback ==
    /\ cpu = "dispatch" /\ handlers[vec] = "timer_callback"
    /\ SwitchTo((running + 1) % (Len(context) + 1))
    /\ UNCHANGED <<boot, handlers, vec, flags, typed, pic, scan, user>>

IsRelease(k) == k >= Release
Code(k) == k % Release

\* Mutant: a release toggles as a press does.
TypeIn_Toggle(k) ==
    [flags EXCEPT !.shifting = IF Code(k) \in kShift THEN ~@ ELSE @,
                  !.ctrling = IF Code(k) = kCtrl THEN ~IsRelease(k) ELSE @,
                  !.capslock = IF Code(k) = kCapslock /\ ~IsRelease(k) THEN ~@ ELSE @]

\* KeyBoard::TypeIn: what a byte from the keyboard does to the flags.
TypeIn(k) ==
    [flags EXCEPT !.shifting = IF Code(k) \in kShift THEN ~IsRelease(k) ELSE @,
                  !.ctrling = IF Code(k) = kCtrl THEN ~IsRelease(k) ELSE @,
                  !.capslock = IF Code(k) = kCapslock /\ ~IsRelease(k) THEN ~@ ELSE @]

Char(x) == ((x + 128) % 256) - 128      \* a signed char

Capital(c) == IF flags.capslock THEN Char(c - 32) ELSE c
Shifted(c) == IF c \in 97..122 THEN c - 32 ELSE Char(c + 32)

\* The character it returns for a key that has one.
Typed(k) ==
    LET c == Capital(keyboard[k]) IN IF flags.shifting THEN Shifted(c) ELSE c

\* Reading the byte makes room for the next one.
keyboard_isr ==
    /\ cpu = "dispatch" /\ handlers[vec] = "keyboard_isr"
    /\ flags' = IF scan = NoKey THEN flags ELSE TypeIn(scan)
    /\ typed' = IF scan \in DOMAIN keyboard THEN Typed(scan) ELSE 0
    /\ scan' = NoKey
    /\ cpu' = "return"
    /\ UNCHANGED <<boot, interrupts, handlers, vec, running, context, pic, user>>

\* irq_common_stub: popa, iret
iret ==
    /\ cpu = "return"
    /\ cpu' = "thread" /\ interrupts' = TRUE
    /\ UNCHANGED <<boot, handlers, vec, running, context, flags, typed, pic, scan, user>>

Handling == irq_dispatcher \/ Unhandled \/ timer_callback \/ keyboard_isr \/ iret

Next ==
    \/ kern_init
    \/ kthread
    \/ \E l \in Lines : Device(l) \/ Interrupt(l)
    \/ \E k \in Keys : Key(k)
    \/ Handling

\* The CPU executes, and takes an interrupt that is offered again and again.
Fairness == WF_vars(Handling) /\ \A l \in Lines : SF_vars(Interrupt(l))

Spec == Init /\ [][Next]_vars /\ Fairness

--------------------------------------------------------------------------------
TypeOK ==
    /\ boot \in 0..Len(Calls)
    /\ interrupts \in BOOLEAN /\ early \in BOOLEAN
    /\ handlers \in [Vectors -> {None, "timer_callback", "keyboard_isr", "page_fault_handler"}]
    /\ pic.irr \subseteq Lines /\ pic.isr \subseteq Lines \cup {Cascade}
    /\ cpu \in {"thread", "entered", "dispatch", "return"} /\ vec \in Vectors
    /\ running \in 0..Len(context) /\ Len(context) <= MaxThreads
    /\ scan \in {NoKey} \cup Keys \cup {k + Release : k \in Keys}
    /\ DOMAIN flags = {"shifting", "ctrling", "capslock"} /\ typed \in -128..127
    /\ down \subseteq Keys /\ asked \in [shift : BOOLEAN, caps : BOOLEAN]

\* Interrupts are on from init_idt on, while kern_init goes on initialising:
\* a tick must not reach the scheduler before init_kthread has built it.
SchedulerReady ==
    cpu = "dispatch" /\ handlers[vec] = "timer_callback" => "init_kthread" \in Made

\* While a thread executes, no interrupt is in service, so that none is held
\* back for ever: whether it had a handler or not, came through the slave, or
\* ended in a switch to a thread that never returns from it; and interrupts
\* are on.
ControllerFree ==
    cpu = "thread" => pic.isr = {} /\ (boot >= 3 => interrupts)

Letters == {30, 44}

\* A letter is printed in the case that the Shift and Caps Lock keys moved before
\* it ask for, each reversing the other, although their bytes came through
\* interrupts that ticks and switches of threads delayed.  (Shift asks for it
\* until one is released: of two held down, the release of either ends it.)
CaseRight ==
    [][scan' = NoKey /\ scan \in Letters
       => typed' = keyboard[scan] - (IF asked.shift # asked.caps THEN 32 ELSE 0)]_vars

\* A key that moves after init_keyboard is read, ticks and switches of threads
\* notwithstanding, unless one moved before: its interrupt may have been
\* dispatched to no handler, and the controller then offers no other byte.
KeysRead == scan # NoKey /\ ~early ~> scan = NoKey

================================================================================
