-------------------------------- MODULE Vmm --------------------------------
(***************************************************************************)
(* The page allocator and the virtual memory manager of the kernel:        *)
(* set_placement, alloc_page, map_page and init_vmm of                     *)
(* kernel/src/arch/memory/impl/vmm.c, and init_tss of                      *)
(* kernel/src/proc/impl/TSS.c, the only other caller of alloc_page.        *)
(*                                                                         *)
(* Addresses are page numbers (the code's address / 4096).  A page table   *)
(* has R entries (512 in the code) and there are four levels of tables;    *)
(* level 3 is the pml4, level 0 the table (pt) whose entries are the       *)
(* mapped pages.  An entry is NP (its present bit is clear) or a page      *)
(* number; the flag bits P, RW and US are always set together.             *)
(*                                                                         *)
(* map_page calls itself on every table it allocates, so its activations   *)
(* are an explicit call stack; each block of its body is one step.         *)
(***************************************************************************)
EXTENDS Integers, Sequences, FiniteSets

CONSTANTS
  R,                 \* entries in a table
  Limit,             \* pages that init_vmm maps (GB*6 / 4096 in the code)
  MemMaps,           \* the memory maps the boot loader may pass on
  Junk,              \* what a word of RAM may hold before it is zeroed
  JunkSegments,      \* what biggestSegment may hold when the kernel starts
  InitialPlacement,  \* the initialiser of placement
  PML4,              \* the statically allocated top-level table
  NP                 \* an entry whose present bit is clear

Pages == R*R*R*R       \* the pages that four levels of tables can map
Idx   == 0 .. R-1
Page  == 0 .. Pages - 1
Entry == Page \cup {NP}

\* biggestSegment: the fields that are read.
Segment == [physAddr : Nat, nPages : Nat]

\* An EFI memory descriptor: the fields of memdesc_t that the code reads.
MemDesc == [usable : BOOLEAN, physAddr : Page, nPages : Nat]

ASSUME RAssumption == R \in Nat /\ R >= 2
ASSUME LimitAssumption == Limit \in Nat /\ Limit <= Pages
ASSUME TokenAssumption == PML4 \notin Page /\ NP \notin Page /\ PML4 # NP
ASSUME JunkAssumption == Junk \subseteq Entry
ASSUME JunkSegmentsAssumption == JunkSegments \subseteq Segment
ASSUME PlacementAssumption == InitialPlacement \in Nat
ASSUME MemMapAssumption ==
  \A m \in MemMaps :
    /\ m \in Seq(MemDesc)
    /\ \A j \in 1 .. Len(m) : m[j].physAddr + m[j].nPages <= Pages

VARIABLES
  pc,              \* where the boot code is
  memMap,          \* meminfo: the firmware's memory map, never changed
  biggestSegment,  \* physAddr and nPages of the global biggestSegment
  placement,       \* the next page alloc_page hands out
  i,               \* loop counter of set_placement and of init_vmm
  mem,             \* contents of every page, seen as a table, and of pml4
  stack,           \* activations of map_page, the innermost one last
  cr3,             \* the table the MMU uses, NP: still the firmware's
  rsp0,            \* page of the TSS's ring 0 stack
  oom,             \* history: map_page was given NULL by alloc_page
  owner            \* history: the level and the first client of each table

vars == <<pc, memMap, biggestSegment, placement, i, mem, stack, cr3, rsp0,
          oom, owner>>

allocator == <<placement, biggestSegment>>
history  == <<oom, owner>>

-----------------------------------------------------------------------------
(* Address arithmetic of map_page.                                         *)

\* logical >> (12 + 9*k), on page numbers.
Shift(l, k) == CASE k = 0 -> l
                 [] k = 1 -> l \div R
                 [] k = 2 -> (l \div R) \div R
                 [] k = 3 -> ((l \div R) \div R) \div R

\* pt_idx, pd_idx, pdp_idx, pml4_idx for k = 0, 1, 2, 3.
Index(l, k) == Shift(l, k) % R

NULL == 0

\* (entry & PAGE_ADDR_MASK) read as a pointer; an absent entry is 0.
Ptr(e) == IF e = NP THEN NULL ELSE e

Zeroed == [x \in Idx |-> NP]

-----------------------------------------------------------------------------
(* The walk the MMU does: the table of level k on the way to page l, and   *)
(* the entry found at the end.  NP: the walk stops at an absent entry.     *)

Lookup(t, x) == IF t = NP THEN NP ELSE mem[t][x]

Table2(l) == mem[PML4][Index(l, 3)]
Table1(l) == Lookup(Table2(l), Index(l, 2))
Table0(l) == Lookup(Table1(l), Index(l, 1))

Table(l, k) == CASE k = 3 -> PML4
                 [] k = 2 -> Table2(l)
                 [] k = 1 -> Table1(l)
                 [] k = 0 -> Table0(l)

Translate(l) == Lookup(Table0(l), Index(l, 0))

\* The pages handed out by alloc_page since set_placement.
Allocated == IF pc \in {"init_tss", "init_vmm", "scan"} THEN {}
             ELSE biggestSegment.physAddr .. placement - 1

-----------------------------------------------------------------------------
(* alloc_page: the page it returns, and what it does to the allocator.     *)

NextPage == IF biggestSegment.nPages = 0 THEN NULL ELSE placement

\* Mutant: no test for an empty segment.
alloc_page_unchecked == /\ placement' = placement + 1
                        /\ biggestSegment' = [biggestSegment EXCEPT !.nPages = @ - 1]

alloc_page ==
  IF biggestSegment.nPages = 0
  THEN UNCHANGED allocator
  ELSE /\ placement' = placement + 1
       /\ biggestSegment' = [biggestSegment EXCEPT !.nPages = @ - 1]

\* biggestSegment lies in .bss, and the boot loader does not clear the part
\* of a segment that is not in the file: it starts with what was in memory.
Init ==
  /\ pc = "init_tss"
  /\ memMap \in MemMaps
  /\ biggestSegment \in JunkSegments
  /\ placement = InitialPlacement
  /\ i = 0
  /\ \E w \in Junk : mem = [t \in Page \cup {PML4} |-> [x \in Idx |-> w]]
  /\ stack = <<>>
  /\ cr3 = NP
  /\ rsp0 = NP
  /\ oom = FALSE
  /\ owner = [t \in Page \cup {PML4} |-> [lev |-> 3, page |-> 0]]

\* init_tss: takes a page for the ring 0 stack (rsp0 points 4080 bytes into
\* it).  init() calls it before init_vmm.
init_tss ==
  /\ pc = "init_tss"
  /\ alloc_page
  /\ rsp0' = NextPage
  /\ pc' = "init_vmm"
  /\ UNCHANGED <<memMap, i, mem, stack, cr3, history>>

-----------------------------------------------------------------------------
(* set_placement: scan the memory map for the largest usable segment.      *)

StartScan ==
  /\ pc = "init_vmm"
  /\ biggestSegment' = [biggestSegment EXCEPT !.nPages = 0]
  /\ i' = 0
  /\ pc' = "scan"
  /\ UNCHANGED <<memMap, placement, mem, stack, cr3, rsp0, history>>

\* Mutant: takes the last usable segment instead of the largest.
PreferredLast(cur) == cur.nPages > 0 /\ cur.usable

\* Mutant: does not look at the type of the segment.
PreferredAnyType(cur) == cur.nPages > biggestSegment.nPages

\* The condition under which a descriptor replaces biggestSegment.
Preferred(cur) == cur.nPages > biggestSegment.nPages /\ cur.usable

ScanEntry ==
  /\ pc = "scan"
  /\ i < Len(memMap)
  /\ LET cur == memMap[i + 1] IN
       biggestSegment' =
         IF Preferred(cur)
         THEN [physAddr |-> cur.physAddr, nPages |-> cur.nPages]
         ELSE biggestSegment
  /\ i' = i + 1
  /\ UNCHANGED <<pc, memMap, placement, mem, stack, cr3, rsp0, history>>

\* Mutant: init_vmm does not zero pml4.
Pml4Dirty == mem

\* The memzero of pml4 in init_vmm.
Pml4Zeroed == [mem EXCEPT ![PML4] = Zeroed]

\* The end of set_placement, and the first statement of init_vmm.
ScanDone ==
  /\ pc = "scan"
  /\ i = Len(memMap)
  /\ placement' = biggestSegment.physAddr
  /\ mem' = Pml4Zeroed
  /\ i' = 0
  /\ pc' = "map"
  /\ UNCHANGED <<memMap, biggestSegment, stack, cr3, rsp0, history>>

-----------------------------------------------------------------------------
(* map_page.  An activation works its way down from the pml4: lev is the   *)
(* level of the table tbl it looks at, and tested says that the block of   *)
(* this level has passed its test of the present bit by allocating the     *)
(* next table and calling map_page on it.                                  *)

Frame == [logical : Page, lev : 0 .. 3, tbl : Page \cup {PML4},
          tested : BOOLEAN]

Activation(l) == [logical |-> l, lev |-> 3, tbl |-> PML4, tested |-> FALSE]

top  == stack[Len(stack)]
slot == Index(top.logical, top.lev)

\* Mutant: the loop counter does not advance.
CallMapPageStuck ==
  /\ pc = "map"
  /\ stack = <<>>
  /\ i < Limit
  /\ stack' = <<Activation(i)>>
  /\ UNCHANGED <<pc, memMap, i, allocator, mem, cr3, rsp0, history>>

\* The loop of init_vmm calls map_page(i).
CallMapPage ==
  /\ pc = "map"
  /\ stack = <<>>
  /\ i < Limit
  /\ stack' = <<Activation(i)>>
  /\ i' = i + 1
  /\ UNCHANGED <<pc, memMap, mem, allocator, cr3, rsp0, history>>

\* Mutant: the new table is not zeroed.
LinkedDirty == [mem EXCEPT ![top.tbl][slot] = NextPage]

\* Mutant: the table's page is mapped before the table is entered, so the
\* nested call finds the same entry absent.
LinkedLate == [mem EXCEPT ![NextPage] = Zeroed]

\* The new table is zeroed, then entered.
Linked == [mem EXCEPT ![NextPage] = Zeroed, ![top.tbl][slot] = NextPage]

Tested == [stack EXCEPT ![Len(stack)] = [top EXCEPT !.tested = TRUE]]

\* Mutant: the page of the new table is not mapped.
NestedNone == Tested

\* map_page calls itself on the page of the new table.
Nested == Append(Tested, Activation(NextPage))

\* The entry is absent: allocate the next table, zero it, enter it, and map
\* the page it lies in.
AllocTable ==
  /\ stack # <<>>
  /\ top.lev > 0
  /\ ~top.tested
  /\ mem[top.tbl][slot] = NP
  /\ alloc_page
  /\ mem' = Linked
  /\ stack' = Nested
  /\ oom' = (oom \/ biggestSegment.nPages = 0)
  /\ owner' = [owner EXCEPT ![NextPage] =
                 [lev |-> top.lev - 1, page |-> top.logical]]
  /\ UNCHANGED <<pc, memMap, i, cr3, rsp0>>

\* Go on with the next level of tables.
Descend ==
  /\ stack # <<>>
  /\ top.lev > 0
  /\ top.tested \/ mem[top.tbl][slot] # NP
  /\ stack' = [stack EXCEPT ![Len(stack)] =
                 [logical |-> top.logical, lev |-> top.lev - 1,
                  tbl |-> Ptr(mem[top.tbl][slot]), tested |-> FALSE]]
  /\ UNCHANGED <<pc, memMap, i, allocator, mem, cr3, rsp0, history>>

\* The last block: enter the page itself unless it is mapped, and return.
MapLeaf ==
  /\ stack # <<>>
  /\ top.lev = 0
  /\ mem' = IF mem[top.tbl][slot] = NP
            THEN [mem EXCEPT ![top.tbl][slot] = top.logical]
            ELSE mem
  /\ stack' = SubSeq(stack, 1, Len(stack) - 1)
  /\ UNCHANGED <<pc, memMap, i, allocator, cr3, rsp0, history>>

\* load_pml4: cr3 := rdi & rax.  Both operands hold the address of pml4 (or,
\* in a build without PIE, rax holds the loop bound 0x17fffffff, which keeps
\* every address bit of the kernel image), so the mask has no effect.
load_pml4 ==
  /\ pc = "map"
  /\ stack = <<>>
  /\ i = Limit
  /\ cr3' = PML4
  /\ pc' = "done"
  /\ UNCHANGED <<memMap, i, allocator, mem, stack, rsp0, history>>

Done == pc = "done" /\ UNCHANGED vars

Next ==
  \/ init_tss \/ StartScan \/ ScanEntry \/ ScanDone
  \/ CallMapPage \/ AllocTable \/ Descend \/ MapLeaf
  \/ load_pml4 \/ Done

Spec == Init /\ [][Next]_vars

\* The boot code runs with interrupts off and nothing else on the CPU: it
\* never stops as long as it has something to do.
FairSpec == Spec /\ WF_vars(Next)

-----------------------------------------------------------------------------
(* Properties.                                                             *)

\* Type invariant of the memory manager's state.
TypeOK ==
  /\ pc \in {"init_tss", "init_vmm", "scan", "map", "done"}
  /\ memMap \in MemMaps
  /\ biggestSegment \in Segment
  /\ placement \in Nat
  /\ i \in Nat
  /\ mem \in [Page \cup {PML4} -> [Idx -> Entry]]
  /\ stack \in Seq(Frame)
  /\ cr3 \in {PML4, NP}
  /\ rsp0 \in Page \cup {NP, InitialPlacement}
  /\ oom \in BOOLEAN
  /\ owner \in [Page \cup {PML4} -> [lev : 0 .. 3, page : Page]]

\* As long as alloc_page had a page for every table, the tables map each
\* page to itself or not at all, in the middle of the recursion too.
IdentityMapping ==
  ~oom => \A l \in Page : pc \in {"map", "done"} => Translate(l) \in {NP, l}

\* When init_vmm hands the tables to the MMU, every page below Limit and
\* every page that holds a table is mapped, unless alloc_page ran dry.
EverythingMapped ==
  cr3 = PML4 /\ ~oom =>
    \A l \in 0 .. Limit - 1 \cup Allocated : Translate(l) # NP

\* set_placement settles on a usable segment of the firmware's map, and no
\* usable segment is larger (all are empty if it settles on none).
LargestSegmentChosen ==
  pc = "map" /\ i = 0 =>
    LET usable == {j \in 1 .. Len(memMap) : memMap[j].usable}
    IN  /\ \A j \in usable : memMap[j].nPages <= biggestSegment.nPages
        /\ biggestSegment.nPages > 0 =>
             \E j \in usable :
               biggestSegment = [physAddr |-> memMap[j].physAddr,
                                 nPages |-> memMap[j].nPages]

\* Every page handed out for a table lies in one usable segment of the
\* firmware's map: a table never lands in reserved memory.
TablesInUsableMemory ==
  \A f \in Allocated : \E j \in 1 .. Len(memMap) :
    /\ memMap[j].usable
    /\ f \in memMap[j].physAddr .. memMap[j].physAddr + memMap[j].nPages - 1

\* The number of tables it takes to map the pages in S, the pml4 aside.
TablesFor(S) == Cardinality({Shift(l, 1) : l \in S})
              + Cardinality({Shift(l, 2) : l \in S})
              + Cardinality({Shift(l, 3) : l \in S})

\* alloc_page runs dry only if the segment is smaller than the number of
\* tables that map the range of init_vmm and the segment itself: no table is
\* allocated twice for the same range and none is lost in the recursion.
EnoughPagesSuffice ==
  oom => LET base == biggestSegment.physAddr
             size == biggestSegment.nPages + (placement - base)
         IN  size < TablesFor(0 .. Limit - 1 \cup base .. base + size - 1)

\* init_vmm terminates: the recursion of map_page always comes to an end and
\* the tables are loaded into cr3.
BootCompletes == <>(cr3 = PML4)

\* The ring 0 stack lies in a page that alloc_page took from usable memory,
\* and no table is laid over it.  The comment in init_tss says the stack
\* starts 4080 bytes into its page "so it doens't overwrite page".
RingZeroStackAllocated ==
  rsp0 # NP =>
    /\ rsp0 \notin Allocated
    /\ \E j \in 1 .. Len(memMap) :
         /\ memMap[j].usable
         /\ rsp0 \in memMap[j].physAddr .. memMap[j].physAddr + memMap[j].nPages - 1

-----------------------------------------------------------------------------
(* The address space the tables stand for.                                 *)

InTables == pc \in {"map", "done"}

AS == INSTANCE AddressSpace WITH
        Unmapped  <- NP,
        xlate     <- [l \in Page |-> IF InTables /\ ~oom
                                     THEN Translate(l) ELSE NP],
        exhausted <- oom

\* The tables implement the address space: every step of map_page leaves all
\* translations alone or maps one page to itself.
ImplementsAddressSpace == AS!Spec

=============================================================================
