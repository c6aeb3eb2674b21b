------------------------------- MODULE Kmalloc -------------------------------
(***************************************************************************)
(* The kernel heap of kernel/memory/kmalloc.c over the memory it manages:  *)
(* chunk headers, footers and freelist links are words of that memory, and *)
(* what a caller stores in its block overwrites the words it was given.    *)
(*                                                                         *)
(* Addresses and sizes are in words of 8 bytes, relative to HEAP_START; a  *)
(* request is in bytes.  A header word is 8 * size + flags, as in the code.*)
(***************************************************************************)
EXTENDS Integers, Sequences, FiniteSets, Functions

CONSTANTS HeapWords,   \* HEAP_SIZE / 8
          Sizes,       \* the byte counts kmalloc is asked for
          Data         \* words a caller stores in its block

FREE_CHUNK_MIN_SZ == 4   \* free_node_t and free_footer_t, in words
FLAG_IS_FREE == 1
FLAG_IS_PREV_FREE == 2
NULL == -1

ASSUME SizesAssumption ==
    /\ HeapWords \in Nat /\ HeapWords >= FREE_CHUNK_MIN_SZ
    /\ Sizes \subseteq Nat /\ Data \subseteq Nat

VARIABLES heap,    \* the memory and freelist_head
          owned,   \* block in use -> words its owner may write
          panic,   \* kpanic halted the machine
          last,    \* the block freed last, until the next kmalloc
          misuse   \* what became of a second kfree of that block

vars == <<heap, owned, panic, last, misuse>>
Addr == 0..(HeapWords - 1)

TypeOK ==
    /\ heap \in [mem : [Addr -> Int], head : Addr \cup {NULL}]
    /\ DOMAIN owned \subseteq Addr /\ Range(owned) \subseteq Nat
    /\ panic \in BOOLEAN
    /\ last \in Addr \cup {NULL}
    /\ misuse \in {"none", "caught", "missed"}

-----------------------------------------------------------------------------
(* Chunk metadata, as functions of a heap H.                               *)

Write(H, a, v) == [H EXCEPT !.mem[a] = v]

get_sz(H, c) == H.mem[c] \div 8
set_sz(H, c, sz) == Write(H, c, 8 * sz + (H.mem[c] % 8))
get_flag(H, c, flag) == (H.mem[c] \div flag) % 2 = 1
set_flag(H, c, flag) ==
    IF get_flag(H, c, flag) THEN H ELSE Write(H, c, H.mem[c] + flag)
unset_flag(H, c, flag) ==
    IF get_flag(H, c, flag) THEN Write(H, c, H.mem[c] - flag) ELSE H
is_in_heap_bounds(a) == a \in Addr

prev(H, c) == H.mem[c + 1]
next(H, c) == H.mem[c + 2]
SetPrev(H, c, v) == IF c = NULL THEN H ELSE Write(H, c + 1, v)
SetNext(H, c, v) == IF c = NULL THEN H ELSE Write(H, c + 2, v)

\* The footer in the last word of a chunk.
PlaceFooter(H, c, sz) == Write(H, c + sz - 1, sz)
PrevChunk(H, c) == c - H.mem[c - 1]

\* The flag of the chunk behind one that changes, if there is one.
SetPrevFree(H, c) == IF is_in_heap_bounds(c) THEN set_flag(H, c, FLAG_IS_PREV_FREE) ELSE H
UnsetPrevFree(H, c) ==
    IF is_in_heap_bounds(c) THEN unset_flag(H, c, FLAG_IS_PREV_FREE) ELSE H

freelist_add_node(H, c) ==
    [SetPrev(SetNext(SetPrev(H, c, NULL), c, H.head), H.head, c) EXCEPT !.head = c]

freelist_remove_node(H, c) ==
    LET U == SetPrev(SetNext(H, prev(H, c), next(H, c)), next(H, c), prev(H, c))
    IN  IF c = H.head THEN [U EXCEPT !.head = next(U, c)] ELSE U

-----------------------------------------------------------------------------
(* kmalloc.                                                                *)

\* Faulty variant: a chunk may be too small for the freelist node.
AllocSize_no_minimum(n) == (n + 8 + 7) \div 8

AllocSize(n) ==
    LET sz == (n + 8 + 7) \div 8
    IN  IF sz < FREE_CHUNK_MIN_SZ THEN FREE_CHUNK_MIN_SZ ELSE sz

Fits(H, c, sz) == get_sz(H, c) = sz \/ get_sz(H, c) >= sz + FREE_CHUNK_MIN_SZ

\* The first chunk of the freelist that fits, or NULL.
FirstFit(H, sz) ==
    LET search[c \in Addr \cup {NULL}] ==
            IF c = NULL \/ Fits(H, c, sz) THEN c ELSE search[next(H, c)]
    IN  search[H.head]

\* The rest of a chunk that is split becomes a free chunk.
Split(H, c, sz) ==
    LET remain == c + sz
        rest == get_sz(H, c) - sz
        U == unset_flag(set_flag(set_sz(H, remain, rest), remain, FLAG_IS_FREE),
                        remain, FLAG_IS_PREV_FREE)
    IN  PlaceFooter(freelist_add_node(U, remain), remain, rest)

\* Faulty variant: the next chunk still says its predecessor is free.
Allocate_keeps_flag(H, c, sz) ==
    LET U == freelist_remove_node(H, c)
        V == IF get_sz(H, c) = sz THEN U ELSE Split(U, c, sz)
    IN  unset_flag(set_sz(V, c, sz), c, FLAG_IS_FREE)

\* Chunk c, on the freelist, is given out as a chunk of sz words.
Allocate(H, c, sz) ==
    LET U == freelist_remove_node(H, c)
        V == IF get_sz(H, c) = sz THEN UnsetPrevFree(U, c + sz) ELSE Split(U, c, sz)
    IN  unset_flag(set_sz(V, c, sz), c, FLAG_IS_FREE)

\* The owner's stores into its block.
Fill(H, p, w, v) ==
    [H EXCEPT !.mem = [a \in Addr |-> IF a \in p..(p + w - 1) THEN v ELSE @[a]]]

\* Faulty variant: out of memory is reported with NULL and the caller goes on.
kmalloc_null(n, v) ==
    /\ ~panic
    /\ LET sz == AllocSize(n)
           c == FirstFit(heap, sz)
           p == IF c = NULL THEN NULL ELSE c + 1
           w == (n + 7) \div 8
       IN  /\ heap' = IF c = NULL THEN heap ELSE Fill(Allocate(heap, c, sz), p, w, v)
           /\ owned' = [a \in DOMAIN owned \cup {p} |-> IF a = p THEN w ELSE owned[a]]
    /\ last' = NULL
    /\ UNCHANGED <<panic, misuse>>

\* kmalloc, after which the new owner fills the block.
kmalloc(n, v) ==
    /\ ~panic
    /\ LET sz == AllocSize(n)
           c == FirstFit(heap, sz)
           p == c + 1
           w == (n + 7) \div 8
       IN  IF c = NULL
           THEN panic' = TRUE /\ UNCHANGED <<heap, owned>>
           ELSE /\ heap' = Fill(Allocate(heap, c, sz), p, w, v)
                /\ owned' = [a \in DOMAIN owned \cup {p} |->
                                IF a = p THEN w ELSE owned[a]]
                /\ UNCHANGED panic
    /\ last' = NULL
    /\ UNCHANGED misuse

-----------------------------------------------------------------------------
(* kfree of chunk c, by which neighbours it merges with.                   *)

\* Faulty variant: the footer is placed relative to the caller's pointer.
FreeAlone_footer_past(H, c) ==
    LET sz == get_sz(H, c)
        U == set_flag(PlaceFooter(H, c + 2, sz), c, FLAG_IS_FREE)
    IN  SetPrevFree(freelist_add_node(U, c), c + sz)

FreeAlone(H, c) ==
    LET sz == get_sz(H, c)
        U == set_flag(PlaceFooter(H, c, sz), c, FLAG_IS_FREE)
    IN  SetPrevFree(freelist_add_node(U, c), c + sz)

MergePrev(H, c) ==
    LET p == PrevChunk(H, c)
        sz == get_sz(H, p) + get_sz(H, c)
    IN  SetPrevFree(PlaceFooter(set_sz(H, p, sz), p, sz), c + get_sz(H, c))

MergeNext(H, c) ==
    LET n == c + get_sz(H, c)
        sz == get_sz(H, c) + get_sz(H, n)
        U == freelist_remove_node(PlaceFooter(set_sz(H, c, sz), c, sz), n)
    IN  freelist_add_node(set_flag(U, c, FLAG_IS_FREE), c)

\* Faulty variant: the chunk that is swallowed stays on the freelist.
MergeBoth_keeps_node(H, c) ==
    LET p == PrevChunk(H, c)
        sz == get_sz(H, p) + get_sz(H, c) + get_sz(H, c + get_sz(H, c))
    IN  PlaceFooter(set_sz(H, p, sz), p, sz)

MergeBoth(H, c) ==
    LET p == PrevChunk(H, c)
        n == c + get_sz(H, c)
        sz == get_sz(H, p) + get_sz(H, c) + get_sz(H, n)
    IN  freelist_remove_node(PlaceFooter(set_sz(H, p, sz), p, sz), n)

\* Faulty variant: only the chunk before is looked at.
Release_ignores_next(H, c) ==
    IF get_flag(H, c, FLAG_IS_PREV_FREE) THEN MergePrev(H, c) ELSE FreeAlone(H, c)

Release(H, c) ==
    LET n == c + get_sz(H, c)
        withPrev == get_flag(H, c, FLAG_IS_PREV_FREE)
        withNext == is_in_heap_bounds(n) /\ get_flag(H, n, FLAG_IS_FREE)
    IN  IF withPrev THEN IF withNext THEN MergeBoth(H, c) ELSE MergePrev(H, c)
        ELSE IF withNext THEN MergeNext(H, c) ELSE FreeAlone(H, c)

kfree(p) ==
    /\ ~panic
    /\ p \in DOMAIN owned
    /\ IF get_flag(heap, p - 1, FLAG_IS_FREE)
       THEN panic' = TRUE /\ UNCHANGED <<heap, owned>>
       ELSE /\ heap' = Release(heap, p - 1)
            /\ owned' = Restrict(owned, DOMAIN owned \ {p})
            /\ UNCHANGED panic
    /\ last' = p
    /\ UNCHANGED misuse

\* The owner frees the block a second time.
double_kfree ==
    /\ ~panic
    /\ last /= NULL
    /\ IF get_flag(heap, last - 1, FLAG_IS_FREE)
       THEN panic' = TRUE /\ misuse' = "caught" /\ UNCHANGED heap
       ELSE heap' = Release(heap, last - 1) /\ misuse' = "missed" /\ UNCHANGED panic
    /\ UNCHANGED <<owned, last>>

\* kmalloc_init: the pages come zeroed from pmm_alloc.
Init ==
    /\ LET H == [mem |-> [a \in Addr |-> 0], head |-> NULL]
           U == set_flag(set_sz(H, 0, HeapWords), 0, FLAG_IS_FREE)
       IN  heap = freelist_add_node(U, 0)
    /\ owned = <<>>
    /\ panic = FALSE
    /\ last = NULL
    /\ misuse = "none"

Next ==
    \/ \E n \in Sizes, v \in Data : kmalloc(n, v)
    \/ \E p \in DOMAIN owned : kfree(p)

Spec == Init /\ [][Next]_vars

\* Callers that may also free a block twice.
SpecDoubleFree == Init /\ [][Next \/ double_kfree]_vars

-----------------------------------------------------------------------------
(* Properties.                                                             *)

\* The chunks met by stepping from header to header, from the given address.
Chunks ==
    LET walk[a \in Addr \cup {HeapWords}] ==
            IF a = HeapWords THEN {}
            ELSE IF get_sz(heap, a) < FREE_CHUNK_MIN_SZ
                    \/ a + get_sz(heap, a) > HeapWords THEN {NULL}
            ELSE {a} \cup walk[a + get_sz(heap, a)]
    IN  walk[0]

IsFree(c) == get_flag(heap, c, FLAG_IS_FREE)
NextChunk(c) == c + get_sz(heap, c)

\* The chunks tile the heap, and those not free are the blocks in use, each
\* large enough for its owner.
ChunksTile ==
    /\ NULL \notin Chunks
    /\ {c + 1 : c \in {c \in Chunks : ~IsFree(c)}} = DOMAIN owned
    /\ \A p \in DOMAIN owned : owned[p] < get_sz(heap, p - 1)

\* What kfree reads to find its neighbours is right: FLAG_IS_PREV_FREE says
\* whether the chunk before is free, and a free chunk that has a successor ends
\* in a footer with its size, whatever the owners of the blocks wrote.
TagsAgree ==
    \A c \in Chunks :
        LET n == NextChunk(c)
        IN  /\ c = 0 => ~get_flag(heap, c, FLAG_IS_PREV_FREE)
            /\ n \in Chunks =>
                 /\ get_flag(heap, n, FLAG_IS_PREV_FREE) = IsFree(c)
                 /\ IsFree(c) => heap.mem[n - 1] = get_sz(heap, c)

\* No two free chunks are neighbours, so a heap with nothing in use is one
\* chunk again.
FullyCoalesced ==
    /\ \A c \in Chunks : IsFree(c) /\ NextChunk(c) \in Chunks => ~IsFree(NextChunk(c))
    /\ DOMAIN owned = {} => Chunks = {0}

\* The freelist, read forwards from its head, holds every free chunk and
\* nothing else, and is linked backwards the same way.
FreelistExact ==
    LET free == {c \in Chunks : IsFree(c)}
        within[n \in Nat] ==
            IF n = 0 THEN {heap.head} \ {NULL}
            ELSE within[n - 1] \cup
                   ({next(heap, c) : c \in within[n - 1] \cap free} \ {NULL})
    IN  /\ within[Cardinality(free)] = free
        /\ heap.head /= NULL => prev(heap, heap.head) = NULL
        /\ \A c \in free : next(heap, c) /= NULL => prev(heap, next(heap, c)) = c

\* Refinement mapping: each block in use with the words found in it.
Abstract == INSTANCE Heap WITH blocks <-
    [p \in DOMAIN owned |-> [i \in 1..owned[p] |-> heap.mem[p + i - 1]]]

\* Every block lies in the heap and overlaps no block in use, and neither
\* kmalloc nor kfree touches what the owner of another block has stored.
ImplementsHeap == Abstract!Spec

\* `double frees are considered a bug': kfree's assertion stops the second one.
DoubleFreeCaught == misuse /= "missed"
==============================================================================
