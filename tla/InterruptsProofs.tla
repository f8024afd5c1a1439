--------------------------- MODULE InterruptsProofs ----------------------------
(*****************************************************************************)
(* Proofs about interrupts and about the console, on which a thread and the  *)
(* keyboard's handler print.                                                 *)
(*                                                                           *)
(* Interrupts: for every set of interrupt lines and keys and any number of   *)
(* threads.                                                                  *)
(*                                                                           *)
(* Console: for every set of threads and every size of the screen.  Whatever *)
(* the threads' console_putc and the keyboard's do to each other's cursor, it*)
(* is on the screen when all of them are done.                               *)
(*****************************************************************************)
EXTENDS Interrupts, Console, TLAPS

\* The shape of what TypeOK only bounds.
Shapes ==
    /\ flags \in [shifting : BOOLEAN, ctrling : BOOLEAN, capslock : BOOLEAN]
    /\ pic \in [irr : SUBSET Lines, isr : SUBSET (Lines \cup {Cascade})]
    /\ context \in Seq({"fn", "handler"})

\* What taking line l puts in service.
InService(l) == IF l \in Slave THEN {l, Cascade} ELSE {l}

\* Exactly the interrupt that has been entered is in service, until the
\* dispatcher ends it.
Service ==
    IF cpu = "entered"
    THEN \E l \in Lines : vec = IRQ0 + l /\ pic.isr = InService(l)
    ELSE pic.isr = {}

\* From init_idt on, interrupts are on exactly while a thread executes.
FlagRight ==
    IF boot < 3 THEN ~interrupts /\ cpu = "thread" ELSE interrupts <=> cpu = "thread"

\* The timer's handler is registered after init_kthread.
TimerLate == \A v \in Vectors : handlers[v] = "timer_callback" => boot >= 9

Releases(S) == {k + Release : k \in S}

\* The flags follow the keys, but for the byte that waits.
FlagsTracked ==
    /\ asked.shift <=> IF Code(scan) \in kShift THEN ~IsRelease(scan) ELSE flags.shifting
    /\ asked.caps <=> IF scan = kCapslock THEN ~flags.capslock ELSE flags.capslock

Inv == TypeOK /\ Shapes /\ Service /\ FlagRight /\ TimerLate /\ FlagsTracked

--------------------------------------------------------------------------------
(* The operators.                                                            *)

\* The keys in use have codes that the release bit leaves apart.
LEMMA KeyCodes ==
    /\ Keys \subseteq 1..127
    /\ \A k \in Keys : Code(k) = k /\ ~IsRelease(k) /\ k \notin Releases(kShift)
    /\ \A k \in Keys : Code(k + Release) = k /\ IsRelease(k + Release) /\ k + Release \notin Keys
    /\ \A k \in Keys : k + Release \in Releases(kShift) <=> k \in kShift
    /\ NoKey \notin Keys \cup Releases(Keys) \cup Releases(kShift)
    /\ Code(NoKey) \notin kShift /\ NoKey # kCapslock /\ NoKey \notin DOMAIN keyboard
    /\ \A k \in Keys : k + Release # kCapslock /\ k + Release \notin DOMAIN keyboard
    /\ \A k \in DOMAIN keyboard : k \in 1..127
    /\ kCapslock \notin kShift
  <1>1. DOMAIN keyboard = {2, 28, 30, 44}
    BY DEF keyboard
  <1>2. Keys \subseteq {42, 54, 29, 58, 2, 28, 30, 44}
    BY <1>1, InterruptsAssumption DEF kShift, kCtrl, kCapslock
  <1>3. Keys \subseteq 1..127
    BY <1>2
  <1>4. \A k \in 1..127 : Code(k) = k /\ Code(k + Release) = k /\ ~IsRelease(k) /\ IsRelease(k + Release)
    BY DEF Code, Release, IsRelease
  <1>5. Code(NoKey) = 0
    BY DEF Code, NoKey, Release
  <1> QED
    BY <1>1, <1>3, <1>4, <1>5 DEF Releases, Release, kShift, kCapslock, NoKey

\* The dispatcher's commands end what taking the line put in service.
LEMMA EoiEnds ==
    ASSUME NEW l \in Lines
    PROVE  Eoi(IF OfSlave(IRQ0 + l) THEN Eoi(InService(l), Slave) ELSE InService(l), Master) = {}
  <1>1. \A x \in Int : Min({x}) = x
    BY DEF Min
  <1>2. l \in Int /\ (l \in Master \/ l \in Slave) /\ l # Cascade
    BY InterruptsAssumption DEF Master, Slave
  <1>3. CASE l \in Slave
    <2>1. OfSlave(IRQ0 + l)
      BY <1>3 DEF OfSlave, IRQ0, Slave
    <2>2. Cascade \notin Slave /\ Cascade \in Master
      BY DEF Slave, Master, Cascade
    <2>3. {l, Cascade} \cap Slave = {l} /\ {Cascade} \cap Master = {Cascade}
      BY <1>3, <2>2
    <2>4. Eoi(InService(l), Slave) = {Cascade}
      BY <1>1, <1>2, <1>3, <2>3 DEF Eoi, InService
    <2>5. Eoi({Cascade}, Master) = {}
      BY <1>1, <2>3 DEF Eoi, Cascade
    <2> QED
      BY <2>1, <2>4, <2>5
  <1>4. CASE l \in Master
    <2>1. ~OfSlave(IRQ0 + l) /\ l \notin Slave
      BY <1>4 DEF OfSlave, IRQ0, Master, Slave
    <2>2. {l} \cap Master = {l}
      BY <1>4
    <2>3. Eoi({l}, Master) = {}
      BY <1>1, <1>2, <2>2 DEF Eoi
    <2> QED
      BY <2>1, <2>3 DEF InService
  <1> QED
    BY <1>2, <1>3, <1>4

\* The table has an entry for each vector that is raised.
LEMMA VectorTypes ==
    /\ 14 \in Vectors /\ IRQ0 \in Vectors /\ IRQ1 \in Vectors
    /\ \A l \in Lines : IRQ0 + l \in Vectors
  BY InterruptsAssumption DEF Vectors, IRQ0, IRQ1

--------------------------------------------------------------------------------
(* kern_init and kthread.                                                    *)

Handlers == {None, "timer_callback", "keyboard_isr", "page_fault_handler"}

\* The calls that matter, by their place in kern_init.
LEMMA CallPlaces ==
    /\ Len(Calls) = 11
    /\ \A i \in 1..11 : (Calls[i] = "init_idt") <=> (i = 3)
    /\ \A i \in 1..11 : (Calls[i] = "init_timer") <=> (i = 9)
    /\ Calls[8] = "init_kthread"
  BY DEF Calls

\* Each call of kern_init keeps the invariant.
LEMMA KernInitStep ==
    ASSUME Inv, kern_init
    PROVE  Inv'
  <1>1. boot \in 0..10 /\ boot' = boot + 1 /\ cpu = "thread"
    BY CallPlaces DEF Inv, TypeOK, kern_init, Booted
  <1>2. CASE boot = 2
    <2>1. init_idt /\ UNCHANGED <<cpu, vec, running, context, flags, typed, scan, down, asked, early>>
      BY <1>1, <1>2, CallPlaces DEF kern_init, user
    <2>2. TypeOK' /\ Shapes'
      BY <1>1, <2>1, CallPlaces DEF Inv, TypeOK, Shapes, init_idt, Handlers
    <2>3. Service' /\ FlagRight' /\ TimerLate' /\ FlagsTracked'
      BY <1>1, <1>2, <2>1 DEF Inv, Service, FlagRight, TimerLate, FlagsTracked, init_idt, None
    <2> QED
      BY <2>2, <2>3 DEF Inv
  <1>3. CASE boot # 2
    <2>1. UNCHANGED <<pic, interrupts, cpu, vec, running, context, flags, typed, scan, down, asked, early>>
      BY <1>1, <1>3, CallPlaces DEF kern_init, user
    <2>2. \/ UNCHANGED handlers
          \/ register_isr(IRQ1, "keyboard_isr")
          \/ register_isr(14, "page_fault_handler")
          \/ boot = 8 /\ register_isr(IRQ0, "timer_callback")
      BY <1>1, <1>3, CallPlaces DEF kern_init, user
    <2>3. handlers' \in [Vectors -> Handlers]
      BY <2>2, VectorTypes DEF Inv, TypeOK, register_isr, Handlers
    <2>4. TypeOK' /\ Shapes'
      BY <1>1, <2>1, <2>3, CallPlaces DEF Inv, TypeOK, Shapes, Handlers
    <2>5. TimerLate'
      BY <1>1, <2>2, VectorTypes DEF Inv, TypeOK, TimerLate, register_isr
    <2>6. Service' /\ FlagRight' /\ FlagsTracked'
      BY <1>1, <1>3, <2>1 DEF Inv, Service, FlagRight, FlagsTracked
    <2> QED
      BY <2>4, <2>5, <2>6 DEF Inv
  <1> QED
    BY <1>2, <1>3

\* A new thread starts at its function.
LEMMA KthreadStep ==
    ASSUME Inv, kthread
    PROVE  Inv'
  <1>1. context' \in Seq({"fn", "handler"}) /\ Len(context') = Len(context) + 1
    BY DEF Inv, Shapes, kthread
  <1>2. Len(context) \in Nat /\ Len(context') <= MaxThreads
    BY <1>1, InterruptsAssumption DEF Inv, Shapes, kthread
  <1>3. TypeOK' /\ Shapes'
    BY <1>1, <1>2 DEF Inv, TypeOK, Shapes, kthread, user
  <1>4. Service' /\ FlagRight' /\ TimerLate' /\ FlagsTracked'
    BY DEF Inv, Service, FlagRight, TimerLate, FlagsTracked, kthread, user
  <1> QED
    BY <1>3, <1>4 DEF Inv

--------------------------------------------------------------------------------
(* Devices and controllers.                                                  *)

\* A request leaves what is in service alone.
LEMMA RequestShape ==
    ASSUME Shapes, NEW l \in Lines, Request(l)
    PROVE  /\ pic' \in [irr : SUBSET Lines, isr : SUBSET (Lines \cup {Cascade})]
           /\ pic'.isr = pic.isr
  BY DEF Shapes, Request

\* A device other than the keyboard only raises its line at the controller.
LEMMA DeviceStep ==
    ASSUME Inv, NEW l \in Lines, Device(l)
    PROVE  Inv'
  <1>1. /\ pic' \in [irr : SUBSET Lines, isr : SUBSET (Lines \cup {Cascade})]
        /\ pic'.isr = pic.isr
    BY RequestShape DEF Inv, Device
  <1>2. UNCHANGED <<kernel, scan, down, asked, early>>
    BY DEF Device, user
  <1>3. TypeOK' /\ Shapes'
    BY <1>1, <1>2 DEF Inv, TypeOK, Shapes, kernel
  <1>4. Service' /\ FlagRight' /\ TimerLate' /\ FlagsTracked'
    BY <1>1, <1>2 DEF Inv, Service, FlagRight, TimerLate, FlagsTracked, kernel
  <1> QED
    BY <1>3, <1>4 DEF Inv

\* A key moves only once the byte before it was read.
LEMMA KeyStep ==
    ASSUME Inv, NEW k \in Keys, Key(k)
    PROVE  Inv'
  <1>1. /\ pic' \in [irr : SUBSET Lines, isr : SUBSET (Lines \cup {Cascade})]
        /\ pic'.isr = pic.isr
    BY RequestShape, InterruptsAssumption DEF Inv, Key
  <1>2. UNCHANGED kernel /\ early' \in BOOLEAN
    BY DEF Key, Inv, TypeOK
  <1>3. /\ asked' \in [shift : BOOLEAN, caps : BOOLEAN]
        /\ \/ /\ scan' = k /\ down' = down \cup {k}
              /\ asked'.shift <=> (asked.shift \/ k \in kShift)
              /\ asked'.caps <=> ~(asked.caps <=> k = kCapslock)
           \/ /\ scan' = k + Release /\ down' = down \ {k}
              /\ asked'.shift <=> (asked.shift /\ k \notin kShift)
              /\ asked'.caps <=> asked.caps
    <2>1. asked \in [shift : BOOLEAN, caps : BOOLEAN]
      BY DEF Inv, TypeOK
    <2>2. CASE /\ scan' = k /\ down' = down \cup {k}
               /\ asked' = [shift |-> asked.shift \/ k \in kShift,
                            caps |-> asked.caps # (k = kCapslock)]
      <3>1. /\ (asked.shift \/ k \in kShift) \in BOOLEAN
            /\ (asked.caps # (k = kCapslock)) \in BOOLEAN
        OBVIOUS
      <3>2. asked'.shift = (asked.shift \/ k \in kShift) /\ asked'.caps = (asked.caps # (k = kCapslock))
        BY <2>2, Zenon
      <3>3. asked' \in [shift : BOOLEAN, caps : BOOLEAN]
        BY <2>2, <3>1, Zenon
      <3>4. asked.caps \in BOOLEAN
        BY <2>1
      <3> QED
        BY <2>2, <3>2, <3>3, <3>4
    <2>3. CASE /\ scan' = k + Release /\ down' = down \ {k}
               /\ asked' = [asked EXCEPT !.shift = @ /\ k \notin kShift]
      <3>1. (asked.shift /\ k \notin kShift) \in BOOLEAN
        OBVIOUS
      <3>2. /\ asked'.shift = (asked.shift /\ k \notin kShift) /\ asked'.caps = asked.caps
            /\ asked' \in [shift : BOOLEAN, caps : BOOLEAN]
        BY <2>1, <2>3, <3>1, Zenon
      <3> QED
        BY <2>3, <3>2
    <2> QED
      BY <2>2, <2>3 DEF Key
  <1>4. TypeOK' /\ Shapes'
    <2>1. /\ scan' \in Keys \cup {j + Release : j \in Keys} /\ down' \subseteq Keys
          /\ asked' \in [shift : BOOLEAN, caps : BOOLEAN]
      BY <1>3 DEF Inv, TypeOK
    <2> QED
      BY <1>1, <1>2, <2>1 DEF Inv, TypeOK, Shapes, kernel
  <1>5. Service' /\ FlagRight' /\ TimerLate'
    BY <1>1, <1>2 DEF Inv, Service, FlagRight, TimerLate, kernel
  <1>6. scan = NoKey /\ NoKey \notin Releases(kShift) /\ UNCHANGED flags
    BY <1>2, KeyCodes DEF Key, kernel
  <1>7. asked.shift <=> flags.shifting
    BY <1>6, KeyCodes DEF Inv, FlagsTracked
  <1>8. asked.caps <=> flags.capslock
    BY <1>6, KeyCodes DEF Inv, FlagsTracked
  <1>9. ASSUME scan' = k, down' = down \cup {k},
               asked'.shift <=> (asked.shift \/ k \in kShift),
               asked'.caps <=> ~(asked.caps <=> k = kCapslock)
        PROVE  FlagsTracked'
    BY <1>6, <1>7, <1>8, <1>9, KeyCodes DEF FlagsTracked
  <1>10. ASSUME scan' = k + Release, down' = down \ {k},
                asked'.shift <=> (asked.shift /\ k \notin kShift), asked'.caps <=> asked.caps
         PROVE  FlagsTracked'
    BY <1>6, <1>7, <1>8, <1>10, KeyCodes DEF FlagsTracked
  <1> QED
    BY <1>3, <1>4, <1>5, <1>9, <1>10 DEF Inv

\* An interrupt is taken when none is in service, and puts one there.
LEMMA InterruptStep ==
    ASSUME Inv, NEW l \in Lines, Interrupt(l)
    PROVE  Inv'
  <1>1. pic.isr = {} /\ boot >= 3
    BY DEF Inv, Service, FlagRight, TypeOK, Interrupt
  <1>2. /\ pic' = [irr |-> pic.irr \ {l}, isr |-> InService(l)]
        /\ cpu' = "entered" /\ vec' = IRQ0 + l /\ interrupts' = FALSE
        /\ UNCHANGED <<boot, handlers, running, context, flags, typed, scan, down, asked, early>>
    BY <1>1 DEF Interrupt, InService, user
  <1>3. InService(l) \subseteq Lines \cup {Cascade} /\ vec' \in Vectors
    BY <1>2, VectorTypes DEF InService
  <1>4. TypeOK' /\ Shapes'
    BY <1>2, <1>3 DEF Inv, TypeOK, Shapes
  <1>5. Service' /\ FlagRight' /\ TimerLate' /\ FlagsTracked'
    BY <1>1, <1>2 DEF Inv, TypeOK, Service, FlagRight, TimerLate, FlagsTracked
  <1> QED
    BY <1>4, <1>5 DEF Inv

--------------------------------------------------------------------------------
(* irq_dispatcher, the handlers and the return.                              *)

\* The end-of-interrupt commands leave nothing in service.
LEMMA DispatchStep ==
    ASSUME Inv, irq_dispatcher
    PROVE  Inv'
  <1>1. PICK l \in Lines : vec = IRQ0 + l /\ pic.isr = InService(l)
    BY DEF Inv, Service, irq_dispatcher
  <1>2. pic' = [irr |-> pic.irr, isr |-> {}]
    <2>1. pic' = [irr |-> pic.irr,
                  isr |-> Eoi(IF OfSlave(vec) THEN Eoi(pic.isr, Slave) ELSE pic.isr, Master)]
      BY DEF Inv, Shapes, irq_dispatcher
    <2> QED
      BY <1>1, <2>1, EoiEnds
  <1>3. TypeOK' /\ Shapes'
    BY <1>2 DEF Inv, TypeOK, Shapes, irq_dispatcher, user
  <1>4. Service' /\ FlagRight' /\ TimerLate' /\ FlagsTracked'
    BY <1>2 DEF Inv, Service, FlagRight, TimerLate, FlagsTracked, irq_dispatcher, user
  <1> QED
    BY <1>3, <1>4 DEF Inv

\* An interrupt without a handler goes straight to the return.
LEMMA UnhandledStep ==
    ASSUME Inv, Unhandled
    PROVE  Inv'
  <1>1. TypeOK' /\ Shapes'
    BY DEF Inv, TypeOK, Shapes, Unhandled, user
  <1>2. Service' /\ FlagRight' /\ TimerLate' /\ FlagsTracked'
    BY DEF Inv, Service, FlagRight, TimerLate, FlagsTracked, Unhandled, user
  <1> QED
    BY <1>1, <1>2 DEF Inv

\* The next thread of the ring is a thread.
LEMMA NextInRing ==
    ASSUME NEW n \in Nat, NEW i \in 0..n
    PROVE  (i + 1) % (n + 1) \in 0..n
  <1>1. i + 1 \in Nat /\ n + 1 \in Nat \ {0}
    OBVIOUS
  <1> QED
    BY <1>1

\* The tick ends in the stub of the thread that goes on, with interrupts still
\* off, or at the function of one that starts, with interrupts on.
LEMMA TimerStep ==
    ASSUME Inv, timer_callback
    PROVE  Inv'
  <1> DEFINE t == (running + 1) % (Len(context) + 1)
  <1>1. Len(context) \in Nat /\ t \in 0..Len(context)
    BY NextInRing DEF Inv, TypeOK, Shapes
  <1> HIDE DEF t
  <1>2. SwitchTo(t) /\ UNCHANGED <<boot, handlers, vec, flags, typed, pic, scan, down, asked, early>>
    BY DEF timer_callback, t, user
  <1>3. context' \in Seq({"fn", "handler"}) /\ Len(context') = Len(context)
    <2>1. \A u \in 1..Len(context) : context[u] \in {"fn", "handler"}
      BY DEF Inv, Shapes
    <2>2. context' = [u \in 1..Len(context) |-> IF u = t THEN "handler" ELSE context[u]]
      BY <1>2 DEF SwitchTo
    <2> QED
      BY <1>1, <2>1, <2>2
  <1>4. /\ running' = t
        /\ \/ cpu' = "thread" /\ interrupts' = TRUE
           \/ cpu' = "return" /\ UNCHANGED interrupts
    BY <1>2 DEF SwitchTo
  <1>5. TypeOK' /\ Shapes'
    BY <1>1, <1>2, <1>3, <1>4 DEF Inv, TypeOK, Shapes
  <1>6. Service' /\ FlagRight' /\ TimerLate' /\ FlagsTracked'
    BY <1>2, <1>4 DEF Inv, Service, FlagRight, TimerLate, FlagsTracked, timer_callback
  <1> QED
    BY <1>5, <1>6 DEF Inv

\* What TypeIn does to is_shifting, and that it keeps the flags Boolean.
LEMMA TypeInShape ==
    ASSUME Shapes, NEW k \in Int
    PROVE  /\ TypeIn(k) \in [shifting : BOOLEAN, ctrling : BOOLEAN, capslock : BOOLEAN]
           /\ TypeIn(k).shifting = IF Code(k) \in kShift THEN ~IsRelease(k) ELSE flags.shifting
           /\ TypeIn(k).capslock = IF Code(k) = kCapslock /\ ~IsRelease(k) THEN ~flags.capslock
                                   ELSE flags.capslock
  <1>1. IsRelease(k) \in BOOLEAN
    BY DEF IsRelease
  <1> QED
    BY <1>1, Zenon DEF Shapes, TypeIn

\* TypeIn returns a char.
LEMMA TypedShape ==
    ASSUME NEW k \in DOMAIN keyboard
    PROVE  Typed(k) \in -128..127
  <1>1. \A x \in Int : Char(x) \in -128..127
    BY DEF Char
  <1>2. keyboard[k] \in {97, 122, 49, 10}
    BY DEF keyboard
  <1>3. Capital(keyboard[k]) \in -128..127
    BY <1>1, <1>2 DEF Capital
  <1>4. \A c \in -128..127 : Shifted(c) \in -128..127
    BY <1>1 DEF Shifted
  <1> QED
    BY <1>3, <1>4 DEF Typed

\* Reading the byte settles what it says of Shift and Caps Lock.
LEMMA KeyboardStep ==
    ASSUME Inv, keyboard_isr
    PROVE  Inv'
  <1>1. /\ scan' = NoKey /\ cpu' = "return"
        /\ flags' = IF scan = NoKey THEN flags ELSE TypeIn(scan)
        /\ typed' = IF scan \in DOMAIN keyboard THEN Typed(scan) ELSE 0
        /\ UNCHANGED <<boot, interrupts, handlers, vec, running, context, pic, down, asked, early>>
    BY DEF keyboard_isr, user
  <1>2. scan = NoKey \/ scan \in Keys \/ (\E k \in Keys : scan = k + Release)
    BY DEF Inv, TypeOK
  <1>3. scan \in Int
    <2>1. \A k \in Keys : k \in Int /\ k + Release \in Int
      BY KeyCodes DEF Release
    <2> QED
      BY <1>2, <2>1 DEF NoKey
  <1>4. flags' \in [shifting : BOOLEAN, ctrling : BOOLEAN, capslock : BOOLEAN]
    BY <1>1, <1>3, TypeInShape DEF Inv, Shapes
  <1>5. TypeOK' /\ Shapes'
    <2>1. typed' \in -128..127
      BY <1>1, TypedShape
    <2> QED
      BY <1>1, <1>4, <2>1 DEF Inv, TypeOK, Shapes
  <1>6. Service' /\ FlagRight' /\ TimerLate'
    BY <1>1 DEF Inv, Service, FlagRight, TimerLate, keyboard_isr
  <1>7. /\ flags'.shifting <=> asked.shift
        /\ flags'.capslock <=> asked.caps
    <2>1. CASE scan = NoKey
      BY <1>1, <2>1, KeyCodes DEF Inv, FlagsTracked
    <2>2. CASE scan # NoKey
      <3>1. Code(scan) = kCapslock /\ ~IsRelease(scan) <=> scan = kCapslock
        BY <1>2, <2>2, KeyCodes
      <3>2. /\ flags'.shifting = IF Code(scan) \in kShift THEN ~IsRelease(scan) ELSE flags.shifting
            /\ flags'.capslock = IF scan = kCapslock THEN ~flags.capslock ELSE flags.capslock
        BY <1>1, <1>3, <2>2, <3>1, TypeInShape DEF Inv
      <3> QED
        BY <3>2 DEF Inv, FlagsTracked
    <2> QED
      BY <2>1, <2>2
  <1>8. FlagsTracked'
    BY <1>1, <1>7, KeyCodes DEF FlagsTracked
  <1> QED
    BY <1>5, <1>6, <1>8 DEF Inv

\* The return turns interrupts on again.
LEMMA IretStep ==
    ASSUME Inv, iret
    PROVE  Inv'
  <1>1. TypeOK' /\ Shapes'
    BY DEF Inv, TypeOK, Shapes, iret, user
  <1>2. Service' /\ FlagRight' /\ TimerLate' /\ FlagsTracked'
    BY DEF Inv, Service, FlagRight, TimerLate, FlagsTracked, iret, user
  <1> QED
    BY <1>1, <1>2 DEF Inv

--------------------------------------------------------------------------------
(* The theorems.                                                             *)

\* From kern_init's first call to threads, ticks and keys, every step keeps
\* the interrupt in service, the interrupt flag, the handler table and the
\* flags of the keyboard in step with each other.
THEOREM Invariance == Spec => []Inv
  <1>1. Init => Inv
    <2> SUFFICES ASSUME Init PROVE Inv
      OBVIOUS
    <2>1. TypeOK /\ Shapes
      <3>1. boot \in 0..Len(Calls) /\ vec \in Vectors
        BY CallPlaces, VectorTypes DEF Init
      <3>2. Len(context) = 0 /\ context \in Seq({"fn", "handler"}) /\ MaxThreads \in Nat
        BY InterruptsAssumption DEF Init
      <3>3. Shapes
        BY <3>2 DEF Init, Shapes
      <3>4. running \in 0..Len(context) /\ Len(context) <= MaxThreads
        BY <3>2 DEF Init
      <3>5. /\ handlers \in [Vectors -> {None, "timer_callback", "keyboard_isr", "page_fault_handler"}]
            /\ DOMAIN flags = {"shifting", "ctrling", "capslock"}
            /\ interrupts \in BOOLEAN /\ early \in BOOLEAN
        BY DEF Init
      <3>6. asked \in [shift : BOOLEAN, caps : BOOLEAN] /\ typed \in -128..127
        BY DEF Init
      <3> QED
        BY <3>1, <3>2, <3>3, <3>4, <3>5, <3>6 DEF Init, TypeOK
    <2>2. Service /\ FlagRight /\ TimerLate
      BY DEF Init, Service, FlagRight, TimerLate, None
    <2>3. FlagsTracked
      BY KeyCodes DEF Init, FlagsTracked
    <2> QED
      BY <2>1, <2>2, <2>3 DEF Inv
  <1>2. Inv /\ [Next]_vars => Inv'
    <2> SUFFICES ASSUME Inv, [Next]_vars PROVE Inv'
      OBVIOUS
    <2>1. CASE UNCHANGED vars
      BY <2>1 DEF vars, kernel, user, Inv, TypeOK, Shapes, Service, FlagRight, TimerLate, FlagsTracked
    <2>2. CASE kern_init
      BY <2>2, KernInitStep
    <2>3. CASE kthread
      BY <2>3, KthreadStep
    <2>4. CASE \E l \in Lines : Device(l) \/ Interrupt(l)
      BY <2>4, DeviceStep, InterruptStep
    <2>5. CASE \E k \in Keys : Key(k)
      BY <2>5, KeyStep
    <2>6. CASE Handling
      BY <2>6, DispatchStep, UnhandledStep, TimerStep, KeyboardStep, IretStep DEF Handling
    <2> QED
      BY <2>1, <2>2, <2>3, <2>4, <2>5, <2>6 DEF Next
  <1> QED
    BY <1>1, <1>2, PTL DEF Spec

\* The state of the CPU, the controllers and the handler table keeps its type.
THEOREM TypeCorrect == Spec => []TypeOK
  <1>1. Inv => TypeOK
    BY DEF Inv
  <1> QED
    BY <1>1, Invariance, PTL

\* A tick that is dispatched to the scheduler finds it built by init_kthread,
\* though interrupts are on through most of kern_init.
THEOREM SchedulerReadyHolds == Spec => []SchedulerReady
  <1>1. Inv => SchedulerReady
    <2> SUFFICES ASSUME Inv, handlers[vec] = "timer_callback" PROVE "init_kthread" \in Made
      BY DEF SchedulerReady
    <2>1. boot >= 9 /\ boot \in Nat
      BY DEF Inv, TypeOK, TimerLate
    <2>2. 8 \in 1..boot
      BY <2>1
    <2> QED
      BY <2>2, CallPlaces DEF Made
  <1> QED
    BY <1>1, Invariance, PTL

\* While a thread executes, no interrupt is in service and, from init_idt on,
\* interrupts are on: also after a tick that ended in a thread's first run.
THEOREM ControllerFreeHolds == Spec => []ControllerFree
  <1>1. Inv => ControllerFree
    BY DEF Inv, TypeOK, Service, FlagRight, ControllerFree
  <1> QED
    BY <1>1, Invariance, PTL

\* TypeIn's char arithmetic reverses the case for Shift and for Caps Lock.
LEMMA LetterCase ==
    ASSUME Shapes, NEW k \in Letters
    PROVE  Typed(k) = keyboard[k] - (IF flags.shifting # flags.capslock THEN 32 ELSE 0)
  <1>1. flags.shifting \in BOOLEAN /\ flags.capslock \in BOOLEAN
    BY DEF Shapes
  <1>2. keyboard[k] \in {97, 122}
    BY DEF keyboard, Letters
  <1>3. ASSUME NEW c \in {97, 122}
        PROVE  Char(c - 32) = c - 32 /\ Shifted(c) = c - 32 /\ Shifted(c - 32) = c
    BY DEF Char, Shifted
  <1> QED
    BY <1>1, <1>2, <1>3 DEF Typed, Capital

\* Whenever keyboard_isr reads a letter, what it prints has the case that the
\* Shift and Caps Lock keys moved before it ask for: none of their bytes has been
\* lost or read out of turn.
THEOREM CaseRightHolds == Spec => CaseRight
  <1> DEFINE A == scan' = NoKey /\ scan \in Letters
                  => typed' = keyboard[scan] - (IF asked.shift # asked.caps THEN 32 ELSE 0)
  <1>1. Inv /\ [Next]_vars => [A]_vars
    <2> SUFFICES ASSUME Inv, Next, scan' = NoKey, scan \in Letters
                 PROVE  typed' = keyboard[scan] - (IF asked.shift # asked.caps THEN 32 ELSE 0)
      OBVIOUS
    <2>1. scan \in DOMAIN keyboard /\ scan # NoKey
      BY KeyCodes DEF keyboard, Letters
    <2>2. keyboard_isr
      BY <2>1 DEF Next, Handling, kern_init, kthread, Device, Interrupt, Key, irq_dispatcher,
                  Unhandled, timer_callback, iret
    <2>3. typed' = Typed(scan)
      BY <2>1, <2>2 DEF keyboard_isr
    <2>4. Code(scan) \notin kShift /\ scan # kCapslock
      BY DEF Letters, Code, Release, kShift, kCapslock
    <2>5. (asked.shift <=> flags.shifting) /\ (asked.caps <=> flags.capslock)
      BY <2>4 DEF Inv, FlagsTracked
    <2>6. /\ asked.shift \in BOOLEAN /\ asked.caps \in BOOLEAN
          /\ flags.shifting \in BOOLEAN /\ flags.capslock \in BOOLEAN
      BY DEF Inv, TypeOK, Shapes
    <2> QED
      BY <2>3, <2>5, <2>6, LetterCase DEF Inv
  <1> QED
    BY <1>1, Invariance, PTL DEF Spec, CaseRight

--------------------------------------------------------------------------------
(* The console.                                                              *)

\* A thread here has the test of the column, or the store it leads to, ahead.
WillWrap == {"wrap", "first"}

\* A thread here has the test of the row, or the store it leads to, ahead.
WillScroll == {"wrap", "first", "next", "next store", "scroll", "last"}

\* A column off the line is some thread's to bring back.
ColumnOwed == cursor_x >= WIDTH => \E t \in Threads : pc[t] \in WillWrap

\* A row off the screen is some thread's to bring back.
RowOwed == cursor_y >= HEIGHT => \E t \in Threads : pc[t] \in WillScroll

CursorInv == ConsoleTypeOK /\ ColumnOwed /\ RowOwed

--------------------------------------------------------------------------------
(* The arithmetic of a byte.                                                 *)

Byte == 0..(U8 - 1)

\* The remainder of a division by U8 is a byte.
LEMMA ByteMod == \A x \in Int : x % U8 \in Byte
  BY ConsoleAssumption DEF Byte

\* Every new value of the cursor that console_putc computes is a byte.
LEMMA ByteStep ==
    \A x \in Byte : Dec8(x) \in Byte /\ Inc8(x) \in Byte /\ TabStop(x) \in Byte
  <1> SUFFICES ASSUME NEW x \in Byte
               PROVE  Dec8(x) \in Byte /\ Inc8(x) \in Byte /\ TabStop(x) \in Byte
    OBVIOUS
  <1>1. x \in Int /\ TAB \in Int /\ TAB > 0
    BY ConsoleAssumption DEF Byte
  <1>2. (x + TAB) % TAB \in Int
    BY <1>1
  <1> QED
    BY <1>1, <1>2, ByteMod DEF Dec8, Inc8, TabStop

\* The column and the row that the keyboard's console_putc leaves are on the
\* screen, wherever the interrupt found them.
LEMMA IsrOnScreen ==
    ASSUME NEW c \in Chars, NEW x \in Byte, NEW y \in Byte
    PROVE  /\ WrapX(SwitchX(c, x)) \in 0..(WIDTH - 1)
           /\ Scrolled(WrapY(SwitchX(c, x), SwitchY(c, y))) \in 0..(HEIGHT - 1)
  <1>1. x \in Int /\ y \in Int /\ x >= 0 /\ x < U8 /\ 0 \in Byte
    BY ConsoleAssumption DEF Byte
  <1>2. SwitchX(c, x) \in Byte
    BY <1>1, ByteStep, ConsoleAssumption DEF SwitchX, Byte
  <1>3. SwitchY(c, y) \in Byte
    BY ByteStep DEF SwitchY
  <1>4. WrapY(SwitchX(c, x), SwitchY(c, y)) \in Byte
    BY <1>3, ByteStep DEF WrapY
  <1> QED
    BY <1>2, <1>4, ConsoleAssumption DEF WrapX, Scrolled, PastLine, BelowScreen, Byte

--------------------------------------------------------------------------------
(* Each action keeps the invariant.                                          *)

\* A load leaves the cursor alone; the thread may not be one that owes a test,
\* or must go on owing it.
LEMMA LoadStep ==
    ASSUME CursorInv, NEW t \in Threads, NEW v \in Byte, NEW l \in Labels, Load(t, v, l),
           pc[t] \in WillWrap => l \in WillWrap,
           pc[t] \in WillScroll => l \in WillScroll
    PROVE  CursorInv'
  <1>1. ConsoleTypeOK'
    BY DEF CursorInv, ConsoleTypeOK, Load, Goto, Byte
  <1>2. ColumnOwed'
    BY DEF CursorInv, ConsoleTypeOK, ColumnOwed, Load, Goto
  <1>3. RowOwed'
    BY DEF CursorInv, ConsoleTypeOK, RowOwed, Load, Goto
  <1> QED
    BY <1>1, <1>2, <1>3 DEF CursorInv

\* A store of a column that may be off the line must lead to the test of it.
LEMMA StoreXStep ==
    ASSUME CursorInv, NEW t \in Threads, NEW v \in Byte, NEW l \in Labels, StoreX(t, v, l),
           v < WIDTH \/ l \in WillWrap,
           pc[t] \in WillScroll => l \in WillScroll
    PROVE  CursorInv'
  <1>1. ConsoleTypeOK'
    BY ConsoleAssumption DEF CursorInv, ConsoleTypeOK, StoreX, Used, Goto, Byte
  <1>2. ColumnOwed'
    BY ConsoleAssumption DEF CursorInv, ConsoleTypeOK, ColumnOwed, StoreX, Goto, Byte
  <1>3. RowOwed'
    BY DEF CursorInv, ConsoleTypeOK, RowOwed, StoreX, Goto
  <1> QED
    BY <1>1, <1>2, <1>3 DEF CursorInv

\* A store of a row that may be off the screen must lead to the test of it.
LEMMA StoreYStep ==
    ASSUME CursorInv, NEW t \in Threads, NEW v \in Byte, NEW l \in Labels, StoreY(t, v, l),
           v < HEIGHT \/ l \in WillScroll,
           pc[t] \in WillWrap => l \in WillWrap
    PROVE  CursorInv'
  <1>1. ConsoleTypeOK'
    BY ConsoleAssumption DEF CursorInv, ConsoleTypeOK, StoreY, Used, Goto, Byte
  <1>2. ColumnOwed'
    BY DEF CursorInv, ConsoleTypeOK, ColumnOwed, StoreY, Goto
  <1>3. RowOwed'
    BY ConsoleAssumption DEF CursorInv, ConsoleTypeOK, RowOwed, StoreY, Goto, Byte
  <1> QED
    BY <1>1, <1>2, <1>3 DEF CursorInv

\* A jump may leave the labels that owe a test only when the cursor passes it.
LEMMA TestStep ==
    ASSUME CursorInv, NEW t \in Threads, NEW b, NEW yes \in Labels, NEW no \in Labels,
           Test(t, b, yes, no),
           pc[t] \in WillWrap => cursor_x < WIDTH \/ (IF b THEN yes ELSE no) \in WillWrap,
           pc[t] \in WillScroll => cursor_y < HEIGHT \/ (IF b THEN yes ELSE no) \in WillScroll
    PROVE  CursorInv'
  <1> DEFINE l == IF b THEN yes ELSE no
  <1>1. l \in Labels /\ Goto(t, l)
    BY DEF Test
  <1> HIDE DEF l
  <1>2. ConsoleTypeOK'
    BY <1>1 DEF CursorInv, ConsoleTypeOK, Test, Goto
  <1>3. ColumnOwed'
    BY <1>1, ConsoleAssumption DEF CursorInv, ConsoleTypeOK, ColumnOwed, Test, Goto, l
  <1>4. RowOwed'
    BY <1>1, ConsoleAssumption DEF CursorInv, ConsoleTypeOK, RowOwed, Test, Goto, l
  <1> QED
    BY <1>2, <1>3, <1>4 DEF CursorInv

\* Every access of a thread keeps the invariant.
LEMMA ThreadStep ==
    ASSUME CursorInv, NEW t \in Threads, Thread(t)
    PROVE  CursorInv'
  <1> USE DEF Labels, Chars, WillWrap, WillScroll
  <1>1. /\ cursor_x \in Byte /\ cursor_y \in Byte /\ r[t] \in Byte
        /\ cursor_x \in Int /\ cursor_y \in Int
        /\ 0 \in Byte /\ HEIGHT - 1 \in Byte
        /\ 0 < WIDTH /\ 0 < HEIGHT /\ HEIGHT - 1 < HEIGHT
    <2>1. 0 \in Byte /\ HEIGHT - 1 \in Byte /\ 0 < WIDTH /\ 0 < HEIGHT /\ HEIGHT - 1 < HEIGHT
      BY ConsoleAssumption DEF Byte
    <2>2. cursor_x \in Byte /\ cursor_y \in Byte /\ r[t] \in Byte
      BY DEF CursorInv, ConsoleTypeOK, Byte
    <2> QED
      BY <2>1, <2>2 DEF Byte
  <1>2. Dec8(r[t]) \in Byte /\ Inc8(r[t]) \in Byte /\ TabStop(r[t]) \in Byte
    BY <1>1, ByteStep
  <1>3. CASE console_clear(t)
    <2>1. CASE pc[t] = "idle" /\ StoreX(t, 0, "clear")
      BY <2>1, <1>1, StoreXStep
    <2>2. CASE pc[t] = "clear" /\ StoreY(t, 0, "idle")
      BY <2>2, <1>1, StoreYStep
    <2> QED
      BY <1>3, <2>1, <2>2 DEF console_clear
  <1>4. ASSUME NEW c \in Chars, console_putc(t, c)
        PROVE  CursorInv'
    BY <1>4, TestStep DEF console_putc
  <1>5. CASE Backspace(t)
    <2>1. CASE pc[t] = "backspace" /\ Test(t, cursor_x # 0, "dec", "wrap")
      BY <2>1, TestStep
    <2>2. CASE pc[t] = "dec" /\ Load(t, cursor_x, "dec store")
      BY <2>2, <1>1, LoadStep
    <2>3. CASE pc[t] = "dec store" /\ StoreX(t, Dec8(r[t]), "wrap")
      BY <2>3, <1>2, StoreXStep
    <2> QED
      BY <1>5, <2>1, <2>2, <2>3 DEF Backspace
  <1>6. CASE Tab(t)
    BY <1>1, <1>2, <1>6, LoadStep, StoreXStep DEF Tab
  <1>7. CASE Return(t)
    BY <1>1, <1>7, StoreXStep DEF Return
  <1>8. CASE Newline(t)
    <2>1. CASE pc[t] = "newline" /\ StoreX(t, 0, "down")
      BY <2>1, <1>1, StoreXStep
    <2>2. CASE pc[t] = "down" /\ Load(t, cursor_y, "down store")
      BY <2>2, <1>1, LoadStep
    <2>3. CASE pc[t] = "down store" /\ StoreY(t, Inc8(r[t]), "wrap")
      BY <2>3, <1>2, StoreYStep
    <2> QED
      BY <1>8, <2>1, <2>2, <2>3 DEF Newline
  <1>9. CASE Printable(t)
    BY <1>1, <1>2, <1>9, LoadStep, StoreXStep DEF Printable
  <1>10. CASE Ignored(t)
    BY <1>10, TestStep DEF Ignored
  <1>11. CASE Wrap(t)
    <2>1. CASE pc[t] = "wrap" /\ Test(t, PastLine(cursor_x), "first", "scroll")
      <3>1. cursor_x < WIDTH \/ (IF PastLine(cursor_x) THEN "first" ELSE "scroll") \in WillWrap
        BY <1>1, ConsoleAssumption DEF PastLine
      <3>2. (IF PastLine(cursor_x) THEN "first" ELSE "scroll") \in WillScroll
        OBVIOUS
      <3> QED
        BY <2>1, <3>1, <3>2, TestStep
    <2>2. CASE pc[t] = "first" /\ StoreX(t, 0, "next")
      BY <2>2, <1>1, StoreXStep
    <2>3. CASE pc[t] = "next" /\ Load(t, cursor_y, "next store")
      BY <2>3, <1>1, LoadStep
    <2>4. CASE pc[t] = "next store" /\ StoreY(t, Inc8(r[t]), "scroll")
      BY <2>4, <1>2, StoreYStep
    <2> QED
      BY <1>11, <2>1, <2>2, <2>3, <2>4 DEF Wrap
  <1>12. CASE scroll(t)
    <2>1. CASE pc[t] = "scroll" /\ Test(t, BelowScreen(cursor_y), "last", "idle")
      <3>1. cursor_y < HEIGHT \/ (IF BelowScreen(cursor_y) THEN "last" ELSE "idle") \in WillScroll
        BY <1>1, ConsoleAssumption DEF BelowScreen
      <3> QED
        BY <2>1, <3>1, TestStep
    <2>2. CASE pc[t] = "last" /\ StoreY(t, HEIGHT - 1, "idle")
      BY <2>2, <1>1, StoreYStep
    <2> QED
      BY <1>12, <2>1, <2>2 DEF scroll
  <1> QED
    BY <1>3, <1>4, <1>5, <1>6, <1>7, <1>8, <1>9, <1>10, <1>11, <1>12 DEF Thread

\* The keyboard's interrupt leaves the cursor on the screen.
LEMMA PrintkStep ==
    ASSUME CursorInv, NEW c \in Chars, printk(c)
    PROVE  CursorInv'
  <1>1. cursor_x' \in 0..(WIDTH - 1) /\ cursor_y' \in 0..(HEIGHT - 1)
    BY IsrOnScreen DEF CursorInv, ConsoleTypeOK, printk, Byte
  <1> QED
    BY <1>1, ConsoleAssumption DEF CursorInv, ConsoleTypeOK, ColumnOwed, RowOwed, printk

--------------------------------------------------------------------------------
(* The theorems.                                                             *)

\* console_putc's accesses by the threads and the keyboard interrupt, however
\* they interleave, keep what is off the screen owed by a thread under way.
THEOREM ConsoleInvariance == ConsoleSpec => []CursorInv
  <1>1. ConsoleInit => CursorInv
    BY ConsoleAssumption DEF ConsoleInit, CursorInv, ConsoleTypeOK, ColumnOwed, RowOwed, Labels
  <1>2. CursorInv /\ [ConsoleNext]_consoleVars => CursorInv'
    <2> SUFFICES ASSUME CursorInv, [ConsoleNext]_consoleVars PROVE CursorInv'
      OBVIOUS
    <2>1. CASE UNCHANGED consoleVars
      BY <2>1 DEF CursorInv, ConsoleTypeOK, ColumnOwed, RowOwed, consoleVars
    <2>2. CASE ConsoleNext
      BY <2>2, ThreadStep, PrintkStep DEF ConsoleNext
    <2> QED
      BY <2>1, <2>2
  <1> QED
    BY <1>1, <1>2, PTL DEF ConsoleSpec

\* The cursor stays in its two bytes and every thread at an access of
\* console_putc or console_clear.
THEOREM ConsoleTypeCorrect == ConsoleSpec => []ConsoleTypeOK
  <1>1. CursorInv => ConsoleTypeOK
    BY DEF CursorInv
  <1> QED
    BY <1>1, ConsoleInvariance, PTL

\* When no thread is inside console_putc the cursor is on the screen, for any
\* number of threads writing at once and any size of the screen.
THEOREM CursorOnScreenHolds == ConsoleSpec => []CursorOnScreen
  <1>1. CursorInv => CursorOnScreen
    <2> SUFFICES ASSUME CursorInv, \A t \in Threads : pc[t] = "idle"
                 PROVE  cursor_x < WIDTH /\ cursor_y < HEIGHT
      BY DEF CursorOnScreen
    <2>1. ~(\E t \in Threads : pc[t] \in WillWrap) /\ ~(\E t \in Threads : pc[t] \in WillScroll)
      BY DEF WillWrap, WillScroll
    <2> QED
      BY <2>1, ConsoleAssumption DEF CursorInv, ConsoleTypeOK, ColumnOwed, RowOwed
  <1> QED
    BY <1>1, ConsoleInvariance, PTL

================================================================================
