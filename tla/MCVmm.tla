--------------------------------- MODULE MCVmm ---------------------------------
(* A small machine for Vmm: pages 1.. are above "1MB", the kernel is one page, *)
(* the usable region ends beyond PAGE_MAX_SIZE, which therefore ends the scan. *)
EXTENDS Vmm

MCMMap == << [type |-> 1, base |-> 0, length |-> 2],
             [type |-> 2, base |-> 1, length |-> 4],
             [type |-> 1, base |-> 1, length |-> 11],
             [type |-> 2, base |-> 7, length |-> 2] >>

================================================================================
