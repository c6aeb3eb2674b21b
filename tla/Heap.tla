-------------------------------- MODULE Heap --------------------------------
(***************************************************************************)
(* What kmalloc and kfree promise: a block inside the heap that overlaps   *)
(* no other block in use, and keeps what its owner stored in it until it   *)
(* is freed.  Kmalloc is shown to implement it.                            *)
(***************************************************************************)
EXTENDS Integers, Sequences, Functions

CONSTANTS HeapWords, Sizes, Data

VARIABLE blocks   \* address of each block in use -> the words stored in it

Words(n) == (n + 7) \div 8
Span(p, w) == p..(p + w - 1)

Alloc(n, v) ==
    \E p \in (0..(HeapWords - 1)) \ DOMAIN blocks :
        /\ Span(p, Words(n)) \subseteq 0..(HeapWords - 1)
        /\ \A q \in DOMAIN blocks : Span(p, Words(n)) \cap Span(q, Len(blocks[q])) = {}
        /\ blocks' = [a \in DOMAIN blocks \cup {p} |->
                        IF a = p THEN [i \in 1..Words(n) |-> v] ELSE blocks[a]]

Free(p) == p \in DOMAIN blocks /\ blocks' = Restrict(blocks, DOMAIN blocks \ {p})

Init == blocks = <<>>
Next ==
    \/ \E n \in Sizes, v \in Data : Alloc(n, v)
    \/ \E p \in DOMAIN blocks : Free(p)
Spec == Init /\ [][Next]_blocks
=============================================================================
