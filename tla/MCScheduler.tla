------------------------------ MODULE MCScheduler ------------------------------
(*****************************************************************************)
(* Instance of Scheduler for TLC: the stacks are numbered by address, and    *)
(* kmalloc, which is first fit, returns the lowest one that is free.         *)
(*****************************************************************************)
EXTENDS Scheduler

FirstFit(free) == {s \in free : \A u \in free : s <= u}

================================================================================
