------------------------------ MODULE MCPaging ------------------------------
(* Paging for TLC: tables of four entries, a memory map whose first region *)
(* is usable and whose reserved region is not aligned, and one frame left  *)
(* after the heap is mapped.                                               *)
EXTENDS Paging

MCMemoryMap == <<
    [base |-> 0, length |-> 6, usable |-> TRUE],
    [base |-> 7, length |-> 2, usable |-> FALSE],
    [base |-> 10, length |-> 54, usable |-> TRUE],
    [base |-> 64, length |-> 10, usable |-> FALSE]>>

MCSections == <<
    [first |-> 192, end |-> 193], [first |-> 193, end |-> 194],
    [first |-> 194, end |-> 196], [first |-> 196, end |-> 197]>>

MCHeapPages == <<128, 129, 132>>
=============================================================================
