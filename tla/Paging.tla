------------------------------- MODULE Paging -------------------------------
(***************************************************************************)
(* Physical frames and page tables: pmm.c, paging.c, vmm.c and the mapping *)
(* loop of kmalloc_init.  The tables live in frames taken from the same    *)
(* free list as the frames they map, and are reached through the direct    *)
(* map that they contain.                                                  *)
(*                                                                         *)
(* Addresses are page numbers; a table has Entries entries instead of 512. *)
(* The memory map alone is in half pages, since its reserved regions need  *)
(* not start or end on a page boundary.                                    *)
(***************************************************************************)
EXTENDS Integers, Sequences, FiniteSets, SequencesExt

CONSTANTS Entries,        \* PML_ENTRY_COUNT
          MemoryMap,      \* regions [base, length, usable] of the boot loader
          Hhdm,           \* hhdm_offset
          Sections,       \* first and end page of TEXT, RODATA, DATA, requests
          KernelOffset,   \* kernel_virt_to_phys_offset
          HeapPages,      \* the pages of the kernel heap, in order
          MmioFrames,     \* device registers that drivers map
          RamFrames,      \* frames 0..RamFrames - 1 exist as memory
          Probes          \* pages whose accesses are modelled

PRESENT == "present"
WRITE == "write"
USER == "user"
NO_CACHE == "no_cache"
NX == "nx"
Flags == {PRESENT, WRITE, USER, NO_CACHE, NX}

NULL == 0
Index == 0..(Entries - 1)
Virt == 0..(Entries * Entries * Entries * Entries - 1)
Frames == 0..(RamFrames - 1)
NoEntry == [phys |-> 0, flags |-> {}]
EmptyTable == [i \in Index |-> NoEntry]
PMLEntry == [phys : Nat, flags : SUBSET Flags]

ASSUME LayoutAssumption ==
    /\ Entries \in Nat \ {0} /\ RamFrames \in Nat /\ Hhdm \in Nat
    /\ Probes \subseteq Virt /\ MmioFrames \subseteq Nat

VARIABLES ram,    \* the frames' contents as tables, the free list, and whether
                  \* an allocation has failed
          kernel_pml4,
          cr3,    \* NULL stands for the boot loader's tables
          tlb,    \* cached translations: pairs of a page and its leaf entry
          step,   \* how far the boot sequence has got
          given,  \* the frames under the heap, in order
          asked   \* what callers have asked for: page -> frame and flags

vars == <<ram, kernel_pml4, cr3, tlb, step, given, asked>>

\* Frame 0 is never handed out: its address would read as NULL.
TypeOK ==
    /\ ram \in [mem : [Frames -> [Index -> PMLEntry]], free : Seq(Frames \ {NULL}),
                starved : BOOLEAN]
    /\ kernel_pml4 \in Frames /\ cr3 \in Frames
    /\ tlb \subseteq (Probes \X PMLEntry)
    /\ step \in Nat
    /\ given \in Seq(Frames)
    /\ DOMAIN asked \subseteq Virt /\ Range(asked) \subseteq PMLEntry

-----------------------------------------------------------------------------
(* pmm.c.                                                                  *)

\* The frames of a usable region, last first: each is pushed on the list.
RegionFrames(region) ==
    LET count == (region.length + 1) \div 2
    IN  [i \in 1..count |-> (region.base \div 2) + count - i]

\* Faulty variant: the first region is used as well.
pmm_init_from_zero ==
    FlattenSeq([i \in 1..Len(MemoryMap) |->
        LET region == MemoryMap[Len(MemoryMap) + 1 - i]
        IN  IF region.usable THEN RegionFrames(region) ELSE <<>>])

\* The loop starts at the second region.
pmm_init ==
    FlattenSeq([i \in 1..(Len(MemoryMap) - 1) |->
        LET region == MemoryMap[Len(MemoryMap) + 1 - i]
        IN  IF region.usable THEN RegionFrames(region) ELSE <<>>])

\* Faulty variant: the head of the list is not advanced.
pmm_alloc_again(R) ==
    IF R.free = <<>> THEN [ram |-> [R EXCEPT !.starved = TRUE], addr |-> NULL]
    ELSE [ram |-> [R EXCEPT !.mem[Head(R.free)] = EmptyTable], addr |-> Head(R.free)]

\* The first frame of the list, zeroed, or NULL.
pmm_alloc(R) ==
    IF R.free = <<>> THEN [ram |-> [R EXCEPT !.starved = TRUE], addr |-> NULL]
    ELSE [ram |-> [R EXCEPT !.free = Tail(@), !.mem[Head(R.free)] = EmptyTable],
          addr |-> Head(R.free)]

-----------------------------------------------------------------------------
(* paging.c.                                                               *)

\* The table behind an entry, made if it is missing: pmm_alloc's result is not
\* looked at, so NULL makes frame 0 a table.
get_next_pml(R, pml, i) ==
    IF PRESENT \in R.mem[pml][i].flags THEN [ram |-> R, addr |-> R.mem[pml][i].phys]
    ELSE LET new == pmm_alloc(R)
             entry == [phys |-> new.addr, flags |-> {PRESENT, WRITE, USER}]
         IN  [ram |-> [new.ram EXCEPT !.mem[pml][i] = entry], addr |-> new.addr]

Shift(v, levels) ==
    CASE levels = 3 -> (v \div (Entries * Entries * Entries)) % Entries
      [] levels = 2 -> (v \div (Entries * Entries)) % Entries
      [] levels = 1 -> (v \div Entries) % Entries
      [] levels = 0 -> v % Entries

\* Faulty variant: the level 2 index is used on level 1 as well.
get_pml1_entry_shift(R, pml4, v) ==
    LET pml3 == get_next_pml(R, pml4, Shift(v, 3))
        pml2 == get_next_pml(pml3.ram, pml3.addr, Shift(v, 2))
        pml1 == get_next_pml(pml2.ram, pml2.addr, Shift(v, 1))
    IN  [ram |-> pml1.ram, table |-> pml1.addr, index |-> Shift(v, 1)]

\* The table and index of the leaf entry of page v.
get_pml1_entry(R, pml4, v) ==
    LET pml3 == get_next_pml(R, pml4, Shift(v, 3))
        pml2 == get_next_pml(pml3.ram, pml3.addr, Shift(v, 2))
        pml1 == get_next_pml(pml2.ram, pml2.addr, Shift(v, 1))
    IN  [ram |-> pml1.ram, table |-> pml1.addr, index |-> Shift(v, 0)]

WriteLeaf(R, pml4, v, entry) ==
    LET leaf == get_pml1_entry(R, pml4, v)
    IN  [leaf.ram EXCEPT !.mem[leaf.table][leaf.index] = entry]

\* Faulty variant: the comparison is inverted.
invlpg_if_needed_inverted(pml4, v) ==
    tlb' = IF pml4 /= cr3 THEN {c \in tlb : c[1] /= v} ELSE tlb

invlpg_if_needed(pml4, v) ==
    tlb' = IF pml4 = cr3 THEN {c \in tlb : c[1] /= v} ELSE tlb

\* The flags pass through a uint16_t parameter, which bit 63 does not survive.
AsUint16(flags) == flags \ {NX}

paging_map_page(R, pml4, v, phys, flags) ==
    /\ ram' = WriteLeaf(R, pml4, v,
                        [phys |-> phys, flags |-> {PRESENT} \cup AsUint16(flags)])
    /\ invlpg_if_needed(pml4, v)
    /\ asked' = [w \in DOMAIN asked \cup {v} |->
                    IF w = v THEN [phys |-> phys, flags |-> flags] ELSE asked[w]]

paging_unmap_page(pml4, v) ==
    /\ ram' = WriteLeaf(ram, pml4, v, NoEntry)
    /\ invlpg_if_needed(pml4, v)
    /\ asked' = Restrict(asked, DOMAIN asked \ {v})

\* Writing CR3 drops every cached translation: no page is mapped global.
paging_load_pml4(pml4) == cr3' = pml4 /\ tlb' = {}

-----------------------------------------------------------------------------
(* vmm.c: the boot sequence.                                               *)

SectionFlags == <<{}, {NX}, {WRITE, NX}, {NX}>>

\* The pages from..(end - 1), mapped `offset' pages lower, in order.
PageRange(from, end, offset, flags) ==
    [i \in 1..(end - from) |->
        [virt |-> from + i - 1, phys |-> from + i - 1 - offset, flags |-> flags]]

KernelMaps ==
    FlattenSeq([s \in 1..Len(Sections) |->
        PageRange(Sections[s].first, Sections[s].end, KernelOffset, SectionFlags[s])])

\* Faulty variant: the last page of a region is left out.
DirectMaps_short ==
    FlattenSeq([r \in 1..Len(MemoryMap) |->
        LET start == MemoryMap[r].base \div 2
            end == (MemoryMap[r].base + MemoryMap[r].length) \div 2
        IN  PageRange(start + Hhdm, end + Hhdm - 1, Hhdm, {WRITE, NX})])

\* Every region of the memory map, widened to whole pages.
DirectMaps ==
    FlattenSeq([r \in 1..Len(MemoryMap) |->
        LET start == MemoryMap[r].base \div 2
            end == (MemoryMap[r].base + MemoryMap[r].length + 1) \div 2
        IN  PageRange(start + Hhdm, end + Hhdm, Hhdm, {WRITE, NX})])

BootMaps == KernelMaps \o DirectMaps
LoadStep == Len(BootMaps) + 1
HeapDone == LoadStep + Len(HeapPages)

\* One iteration of vmm_init's loops.
vmm_init_map ==
    /\ step < Len(BootMaps)
    /\ LET b == BootMaps[step + 1]
       IN  paging_map_page(ram, kernel_pml4, b.virt, b.phys, b.flags)
    /\ step' = step + 1
    /\ UNCHANGED <<kernel_pml4, cr3, given>>

\* The end of vmm_init.
vmm_load_pml4 ==
    /\ step = Len(BootMaps)
    /\ paging_load_pml4(kernel_pml4)
    /\ step' = step + 1
    /\ UNCHANGED <<ram, kernel_pml4, given, asked>>

\* One iteration of kmalloc_init's loop.
kmalloc_init_map ==
    /\ step \in LoadStep..(HeapDone - 1)
    /\ LET new == pmm_alloc(ram)
       IN  /\ paging_map_page(new.ram, kernel_pml4, HeapPages[step - LoadStep + 1],
                              new.addr, {WRITE, NX})
           /\ given' = Append(given, new.addr)
    /\ step' = step + 1
    /\ UNCHANGED <<kernel_pml4, cr3>>

-----------------------------------------------------------------------------
(* What vmm.h offers the rest of the kernel, and the hardware.             *)

\* A driver maps its registers at their direct map address, the local APIC
\* without the cache.
vmm_kmap(frame, flags) ==
    /\ step = HeapDone
    /\ paging_map_page(ram, kernel_pml4, frame + Hhdm, frame, flags)
    /\ UNCHANGED <<kernel_pml4, cr3, step, given>>

vmm_kunmap(frame) ==
    /\ step = HeapDone
    /\ paging_unmap_page(kernel_pml4, frame + Hhdm)
    /\ UNCHANGED <<kernel_pml4, cr3, step, given>>

\* The walk that the processor makes.
Walk(v) ==
    LET below(entry, levels) ==
            IF PRESENT \in entry.flags THEN ram.mem[entry.phys][Shift(v, levels)]
            ELSE NoEntry
        top == ram.mem[kernel_pml4][Shift(v, 3)]
    IN  below(below(below(top, 2), 1), 0)

\* An access through the loaded tables leaves its translation in the TLB.
Access(v) ==
    /\ cr3 = kernel_pml4
    /\ PRESENT \in Walk(v).flags
    /\ \A c \in tlb : c[1] /= v
    /\ tlb' = tlb \cup {<<v, Walk(v)>>}
    /\ UNCHANGED <<ram, kernel_pml4, cr3, step, given, asked>>

Init ==
    /\ LET boot == [mem |-> [f \in Frames |-> EmptyTable], free |-> pmm_init,
                    starved |-> FALSE]
           new == pmm_alloc(boot)
       IN  ram = new.ram /\ kernel_pml4 = new.addr
    /\ cr3 = NULL
    /\ tlb = {}
    /\ step = 0
    /\ given = <<>>
    /\ asked = <<>>

Next ==
    \/ vmm_init_map \/ vmm_load_pml4 \/ kmalloc_init_map
    \/ \E f \in MmioFrames, flags \in {{WRITE, NO_CACHE}, {WRITE, NX}} : vmm_kmap(f, flags)
    \/ \E f \in MmioFrames : vmm_kunmap(f)
    \/ \E v \in Probes : Access(v)

Spec == Init /\ [][Next]_vars

-----------------------------------------------------------------------------
(* Properties.                                                             *)

\* The present entries of a set of tables, with the frames they lead to.
Below(tables) ==
    LET slots == {<<t, i>> \in tables \X Index : PRESENT \in ram.mem[t][i].flags}
    IN  [s \in slots |-> ram.mem[s[1]][s[2]].phys]

Children(tables) == {Below(tables)[s] : s \in DOMAIN Below(tables)}

Level(n) ==
    CASE n = 4 -> {kernel_pml4}
      [] n = 3 -> Children({kernel_pml4})
      [] n = 2 -> Children(Children({kernel_pml4}))
      [] n = 1 -> Children(Children(Children({kernel_pml4})))

Tables == UNION {Level(n) : n \in 1..4}

\* Until an allocation fails, every frame that pmm_init found is in exactly one
\* place: free, a table with one entry leading to it, or under the heap.  Nothing
\* is claimed from the first pmm_alloc on that returns NULL: get_next_pml stores
\* the NULL as a table's address, and the walks that follow share frame 0.
FramesAccounted ==
    ~ram.starved =>
        LET upper == Level(4) \cup Level(3) \cup Level(2)
            parts == <<ToSet(ram.free), ToSet(given), Tables>>
        IN  /\ UNION {parts[i] : i \in 1..3} = ToSet(pmm_init)
            /\ \A i, j \in 1..3 : i /= j => parts[i] \cap parts[j] = {}
            /\ IsInjective(ram.free) /\ IsInjective(given)
            /\ Cardinality(DOMAIN Below(upper)) = Cardinality(Tables) - 1

\* Until an allocation fails every page translates to the frame that was last
\* asked for it, with the flags but VM_FLAG_NX, and a page nobody asked for does
\* not translate, whichever of the tables they share.
TranslatesAsAsked ==
    ~ram.starved =>
        \A v \in Virt :
            Walk(v) = IF v \in DOMAIN asked
                      THEN [asked[v] EXCEPT !.flags = {PRESENT} \cup (@ \ {NX})]
                      ELSE NoEntry

\* Until an allocation fails the TLB agrees with the loaded tables.
TlbCoherent == ~ram.starved => \A c \in tlb : Walk(c[1]) = c[2]

\* Once the kernel runs on its own tables it can still write them: every table,
\* and every frame that may become one, is mapped at its direct map address.
TablesReachable ==
    cr3 = kernel_pml4 /\ ~ram.starved =>
        \A f \in Tables \cup ToSet(ram.free) :
            Walk(f + Hhdm).phys = f /\ WRITE \in Walk(f + Hhdm).flags

\* Pages that are asked to be mapped with VM_FLAG_NX are not executable.
DataNotExecutable ==
    ~ram.starved =>
        \A v \in DOMAIN asked : NX \in asked[v].flags => NX \in Walk(v).flags
=============================================================================
