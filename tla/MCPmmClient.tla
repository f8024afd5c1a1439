------------------------------ MODULE MCPmmClient ------------------------------
(* Four frames above a one-page kernel; the region ends beyond PAGE_MAX_SIZE,  *)
(* so that the bound on page_addr ends the scan.                               *)
EXTENDS PmmClient

MCMMap == << [type |-> 2, base |-> 1, length |-> 4],
             [type |-> 1, base |-> 1, length |-> 12] >>

================================================================================
