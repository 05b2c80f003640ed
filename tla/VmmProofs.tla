----------------------------- MODULE VmmProofs -----------------------------
(***************************************************************************)
(* Proofs about Vmm for tables of any size, any memory map and any range:  *)
(* the type invariant; that tables only ever lie in usable memory, and     *)
(* that a page is mapped to itself or not at all; the segment that         *)
(* set_placement chooses; that init_vmm maps all it should; that the       *)
(* tables implement an address space; and that the segment suffices if it  *)
(* has a page for each table that it takes to map the range of init_vmm    *)
(* and the segment itself.                                                 *)
(***************************************************************************)
EXTENDS Vmm, SequenceTheorems, FiniteSetTheorems, TLAPS

USE RAssumption DEF Segment, allocator, history, Preferred, Pml4Zeroed, Linked, Tested, Nested

-----------------------------------------------------------------------------
(* Arithmetic on page numbers.                                             *)

\* Division by the number of entries: quotient and remainder.
LEMMA DivMod ==
  ASSUME NEW a \in Nat
  PROVE  /\ a \div R \in Nat
         /\ a % R \in Idx
         /\ a = R * (a \div R) + (a % R)
PROOF BY SMT DEF Idx

\* Quotient and remainder determine the number.
LEMMA DivModInjective ==
  ASSUME NEW a \in Nat, NEW b \in Nat, a \div R = b \div R, a % R = b % R
  PROVE  a = b
PROOF
  <1>1. a = R * (a \div R) + (a % R) BY DivMod
  <1>2. b = R * (b \div R) + (b % R) BY DivMod
  <1> QED BY <1>1, <1>2

\* A quotient is below every factor of a bound on the dividend.
LEMMA DivBound ==
  ASSUME NEW a \in Nat, NEW m \in Nat, a < m * R
  PROVE  a \div R < m
PROOF
  <1> DEFINE q == a \div R
             r == a % R
  <1>1. q \in Nat /\ r \in Idx /\ a = R * q + r BY DivMod
  <1> HIDE DEF q, r
  <1>2. SUFFICES ASSUME q >= m PROVE FALSE BY <1>1 DEF q
  <1>3. R * q >= R * m BY <1>1, <1>2
  <1>4. R * m = m * R OBVIOUS
  <1> QED BY <1>1, <1>3, <1>4 DEF Idx

\* The bounds of the address space and of its upper levels.
LEMMA PagesNat == /\ R*R \in Nat /\ R*R*R \in Nat /\ Pages \in Nat
                  /\ Pages = (R*R*R)*R /\ R*R*R = (R*R)*R
                  /\ 0 \in Page
PROOF
  <1>1. R*R \in Nat /\ R*R >= 1 OBVIOUS
  <1>2. R*R*R \in Nat /\ R*R*R >= 1 BY <1>1
  <1>3. Pages \in Nat /\ Pages >= 1 BY <1>2 DEF Pages
  <1> QED BY <1>1, <1>2, <1>3 DEF Pages, Page

\* Shifting a page number gives a number, and an index below R.
LEMMA ShiftType ==
  ASSUME NEW l \in Page, NEW k \in 0 .. 3
  PROVE  Shift(l, k) \in Nat /\ Index(l, k) \in Idx
PROOF
  <1>1. l \in Nat BY PagesNat DEF Page
  <1>2. l \div R \in Nat BY <1>1, DivMod
  <1>3. (l \div R) \div R \in Nat BY <1>2, DivMod
  <1>4. ((l \div R) \div R) \div R \in Nat BY <1>3, DivMod
  <1>5. Shift(l, k) \in Nat BY <1>1, <1>2, <1>3, <1>4 DEF Shift
  <1> QED BY <1>5, DivMod DEF Index

\* The part of a page number that selects its table of level k.
Region(l, k) == IF k = 3 THEN 0 ELSE Shift(l, k + 1)

\* The top-level index is the whole of the shifted page number.
LEMMA TopIndex ==
  ASSUME NEW l \in Page
  PROVE  Index(l, 3) = Shift(l, 3)
PROOF
  <1> DEFINE a == l \div R
             b == a \div R
             c == b \div R
  <1>1. l \in Nat /\ l < (R*R*R)*R BY PagesNat DEF Page
  <1>2. a \in Nat /\ a < (R*R)*R BY <1>1, PagesNat, DivMod, DivBound
  <1> HIDE DEF a
  <1>3. b \in Nat /\ b < R*R BY <1>2, PagesNat, DivMod, DivBound
  <1> HIDE DEF b
  <1>4. c \in Nat /\ c < R BY <1>3, DivMod, DivBound
  <1> HIDE DEF c
  <1>5. c % R = c BY <1>4
  <1>6. Shift(l, 3) = c BY DEF Shift, c, b, a
  <1> QED BY <1>5, <1>6 DEF Index

\* Two pages that share their table of level k and their index in it share
\* everything down to that index.
LEMMA RegionStep ==
  ASSUME NEW a \in Page, NEW b \in Page, NEW k \in 0 .. 3,
         Region(a, k) = Region(b, k), Index(a, k) = Index(b, k)
  PROVE  Shift(a, k) = Shift(b, k)
PROOF
  <1>1. CASE k = 3 BY <1>1, TopIndex
  <1>2. CASE k \in 0 .. 2
    <2> DEFINE x == Shift(a, k)
               y == Shift(b, k)
    <2>1. x \in Nat /\ y \in Nat BY ShiftType
    <2>2. Region(a, k) = x \div R /\ Region(b, k) = y \div R
      BY <1>2 DEF Region, Shift
    <2>3. x % R = y % R BY DEF Index
    <2> HIDE DEF x, y
    <2>4. x = y BY <2>1, <2>2, <2>3, DivModInjective
    <2> QED BY <2>4 DEF x, y
  <1> QED BY <1>1, <1>2

-----------------------------------------------------------------------------
(* The call stack of map_page.                                             *)

\* What the four updates of the stack do to its elements.
LEMMA StackTop ==
  ASSUME stack \in Seq(Frame), stack # <<>>
  PROVE  Len(stack) \in 1 .. Len(stack) /\ Len(stack) \in Nat /\ top \in Frame
PROOF
  <1>1. Len(stack) \in Nat \ {0} BY EmptySeq
  <1> QED BY <1>1, ElementOfSeq DEF top

LEMMA ReplaceTop ==
  ASSUME stack \in Seq(Frame), stack # <<>>, NEW f \in Frame
  PROVE  LET s == [stack EXCEPT ![Len(stack)] = f]
         IN  /\ s \in Seq(Frame)
             /\ Len(s) = Len(stack)
             /\ \A j \in 1 .. Len(s) : s[j] = IF j = Len(s) THEN f ELSE stack[j]
PROOF
  <1>1. Len(stack) \in 1 .. Len(stack) BY StackTop
  <1> QED BY <1>1, ExceptSeq

LEMMA PopStack ==
  ASSUME stack \in Seq(Frame), stack # <<>>
  PROVE  LET s == SubSeq(stack, 1, Len(stack) - 1)
         IN  /\ s \in Seq(Frame)
             /\ Len(s) = Len(stack) - 1
             /\ \A j \in 1 .. Len(s) : s[j] = stack[j]
PROOF
  <1> DEFINE n == Len(stack) - 1
             s == SubSeq(stack, 1, n)
  <1>1. n \in Nat BY StackTop
  <1>2. \A j \in 1 .. n : stack[j] \in Frame
    BY <1>1, ElementOfSeq
  <1> HIDE DEF n
  <1>3. /\ s \in Seq(Frame)
        /\ Len(s) = IF 1 <= n THEN n - 1 + 1 ELSE 0
        /\ \A j \in 1 .. n - 1 + 1 : s[j] = stack[1 + j - 1]
    BY <1>1, <1>2, SubSeqProperties
  <1>4. Len(s) = n BY <1>1, <1>3
  <1>5. \A j \in 1 .. n : s[j] = stack[j] BY <1>1, <1>3
  <1> QED BY <1>3, <1>4, <1>5 DEF n

LEMMA ActivationFrame ==
  ASSUME NEW l \in Page
  PROVE  Activation(l) \in Frame
PROOF BY DEF Activation, Frame

-----------------------------------------------------------------------------
(* The allocator stays inside the segment it was given.                    *)

\* A segment the allocator may use: none at all, or a usable one.
UsableSegment(a, n) ==
  \/ n = 0
  \/ \E j \in 1 .. Len(memMap) :
       memMap[j].usable /\ memMap[j].physAddr = a /\ memMap[j].nPages = n

Bounds ==
  /\ pc = "init_tss" => placement = InitialPlacement
  /\ pc = "scan" => /\ i <= Len(memMap)
                    /\ UsableSegment(biggestSegment.physAddr, biggestSegment.nPages)
  /\ InTables => /\ i <= Limit
                 /\ biggestSegment.physAddr <= placement
                 /\ UsableSegment(biggestSegment.physAddr, biggestSegment.nPages
                               + (placement - biggestSegment.physAddr))
  /\ stack # <<>> => pc = "map"

TypeInv == TypeOK /\ Bounds

\* A segment lies in the address space.
LEMMA SegmentBound ==
  ASSUME TypeOK, NEW a \in Nat, NEW n \in Nat, UsableSegment(a, n)
  PROVE  n > 0 => a + n <= Pages
PROOF
  <1>1. CASE n = 0 BY <1>1
  <1>2. CASE \E j \in 1 .. Len(memMap) :
               memMap[j].physAddr = a /\ memMap[j].nPages = n
    BY <1>2, MemMapAssumption DEF TypeOK
  <1> QED BY <1>1, <1>2 DEF UsableSegment

\* The page handed out, if any, lies in the address space.
LEMMA NextPageType ==
  ASSUME TypeInv, pc = "map"
  PROVE  /\ NextPage \in Page
         /\ biggestSegment.nPages > 0 => NextPage = placement
PROOF
  <1>1. biggestSegment.physAddr \in Nat /\ biggestSegment.nPages \in Nat
    BY DEF TypeInv, TypeOK
  <1>2. placement \in Nat /\ biggestSegment.physAddr <= placement
    BY DEF TypeInv, TypeOK, Bounds, InTables
  <1>3. CASE biggestSegment.nPages = 0
    BY <1>3, PagesNat DEF NextPage, NULL
  <1>4. CASE biggestSegment.nPages > 0
    <2> DEFINE n == biggestSegment.nPages + (placement - biggestSegment.physAddr)
    <2>1. n \in Nat /\ n > 0 BY <1>1, <1>2, <1>4, PagesNat DEF Page
    <2>2. UsableSegment(biggestSegment.physAddr, n) BY DEF TypeInv, Bounds, InTables
    <2>3. biggestSegment.physAddr + n <= Pages
      BY <1>1, <2>1, <2>2, SegmentBound DEF TypeInv
    <2> QED BY <1>1, <1>2, <1>4, <2>3, PagesNat DEF NextPage, Page
  <1> QED BY <1>1, <1>3, <1>4

LEMMA TypeInit == Init => TypeInv
PROOF
  <1> SUFFICES ASSUME Init PROVE TypeInv OBVIOUS
  <1>1. mem \in [Page \cup {PML4} -> [Idx -> Entry]]
    BY JunkAssumption DEF Init
  <1>2. stack \in Seq(Frame) BY EmptySeq DEF Init
  <1>3. TypeOK
    BY <1>1, <1>2, PagesNat, PlacementAssumption DEF Init, TypeOK
  <1>4. Bounds BY DEF Init, Bounds, InTables
  <1> QED BY <1>3, <1>4 DEF TypeInv

LEMMA TypeStep == TypeInv /\ [Next]_vars => TypeInv'
PROOF
  <1> SUFFICES ASSUME TypeInv, [Next]_vars PROVE TypeInv' OBVIOUS
  <1>0. TypeOK /\ Bounds BY DEF TypeInv
  <1>1. CASE init_tss
    <2>1. ASSUME biggestSegment.nPages = 0 PROVE TypeOK'
      <3>1. UNCHANGED <<biggestSegment, placement>>
        BY <1>1, <2>1 DEF init_tss, alloc_page
      <3>2. rsp0' = 0 BY <1>1, <2>1 DEF init_tss, NextPage, NULL
      <3> QED BY <1>0, <1>1, <3>1, <3>2, PagesNat DEF TypeOK, init_tss
    <2>2. ASSUME biggestSegment.nPages # 0 PROVE TypeOK'
      <3>1. /\ biggestSegment' = [biggestSegment EXCEPT !.nPages = @ - 1]
            /\ placement' = placement + 1
        BY <1>1, <2>2 DEF init_tss, alloc_page
      <3>2. biggestSegment' \in Segment /\ placement' \in Nat
        BY <1>0, <2>2, <3>1 DEF TypeOK
      <3>3. rsp0' = InitialPlacement
        BY <1>0, <1>1, <2>2 DEF init_tss, NextPage, Bounds
      <3> QED BY <1>0, <1>1, <3>2, <3>3 DEF TypeOK, init_tss
    <2>3. TypeOK' BY <2>1, <2>2
    <2>4. Bounds' BY <1>0, <1>1 DEF Bounds, InTables, init_tss
    <2> QED BY <2>3, <2>4 DEF TypeInv
  <1>2. CASE StartScan
    <2>1. memMap \in Seq(MemDesc) BY <1>0, MemMapAssumption DEF TypeOK
    <2>2. Len(memMap) \in Nat BY <2>1, LenProperties
    <2>3. /\ biggestSegment' \in Segment
          /\ biggestSegment'.nPages = 0
      BY <1>0, <1>2 DEF TypeOK, StartScan
    <2>4. TypeOK' BY <1>0, <1>2, <2>3 DEF TypeOK, StartScan
    <2>5. Bounds'
      BY <1>0, <1>2, <2>2, <2>3
      DEF Bounds, InTables, UsableSegment, StartScan
    <2> QED BY <2>4, <2>5 DEF TypeInv
  <1>3. CASE ScanEntry
    <2> DEFINE cur == memMap[i + 1]
    <2>1. memMap \in Seq(MemDesc) BY <1>0, MemMapAssumption DEF TypeOK
    <2>2. Len(memMap) \in Nat /\ i \in Nat /\ i < Len(memMap)
      BY <1>0, <1>3, <2>1, LenProperties DEF TypeOK, ScanEntry
    <2>3. i + 1 \in 1 .. Len(memMap) BY <2>2
    <2>4. cur \in MemDesc BY <2>1, <2>3, ElementOfSeq
    <2>5. /\ biggestSegment' \in Segment
          /\ UsableSegment(biggestSegment'.physAddr, biggestSegment'.nPages)
      <3>1. CASE cur.nPages > biggestSegment.nPages /\ cur.usable
        <4>1. biggestSegment' = [physAddr |-> cur.physAddr, nPages |-> cur.nPages]
          BY <1>3, <3>1 DEF ScanEntry
        <4>2. biggestSegment' \in Segment
          BY <2>4, <4>1, PagesNat DEF MemDesc, Page
        <4> QED BY <2>3, <2>4, <3>1, <4>1, <4>2 DEF MemDesc, UsableSegment
      <3>2. CASE ~(cur.nPages > biggestSegment.nPages /\ cur.usable)
        <4>1. biggestSegment' = biggestSegment BY <1>3, <3>2 DEF ScanEntry
        <4> QED BY <1>0, <1>3, <4>1 DEF TypeOK, Bounds, ScanEntry
      <3> QED BY <3>1, <3>2
    <2>6. TypeOK' BY <1>0, <1>3, <2>2, <2>5 DEF TypeOK, ScanEntry
    <2>7. Bounds'
      BY <1>0, <1>3, <2>2, <2>5 DEF Bounds, InTables, UsableSegment, ScanEntry
    <2> QED BY <2>6, <2>7 DEF TypeInv
  <1>4. CASE ScanDone
    <2>1. biggestSegment.physAddr \in Nat /\ biggestSegment.nPages \in Nat
      BY <1>0 DEF TypeOK
    <2>2. Zeroed \in [Idx -> Entry] BY DEF Zeroed, Entry
    <2>3. mem' \in [Page \cup {PML4} -> [Idx -> Entry]]
      BY <1>0, <1>4, <2>2 DEF TypeOK, ScanDone
    <2>4. placement' \in Nat BY <1>4, <2>1, PagesNat DEF ScanDone, Page
    <2>5. TypeOK' BY <1>0, <1>4, <2>3, <2>4 DEF TypeOK, ScanDone
    <2>6. biggestSegment.nPages + (placement' - biggestSegment.physAddr)
            = biggestSegment.nPages
      BY <1>4, <2>1, PagesNat DEF ScanDone, Page
    <2>7. biggestSegment.physAddr <= placement'
      BY <1>4, <2>1, PagesNat DEF ScanDone, Page
    <2>8. Bounds'
      BY <1>0, <1>4, <2>6, <2>7, LimitAssumption
      DEF Bounds, InTables, UsableSegment, ScanDone
    <2> QED BY <2>5, <2>8 DEF TypeInv
  <1>5. CASE CallMapPage
    <2>1. i \in Page
      BY <1>0, <1>5, LimitAssumption, PagesNat DEF TypeOK, CallMapPage, Page
    <2>2. stack' \in Seq(Frame)
      <3>1. Activation(i) \in Frame BY <2>1, ActivationFrame
      <3>2. <<Activation(i)>> \in Seq(Frame) BY <3>1
      <3> QED BY <1>5, <3>2 DEF CallMapPage
    <2>3. TypeOK' BY <1>0, <1>5, <2>2 DEF TypeOK, CallMapPage
    <2>4. Bounds'
      BY <1>0, <1>5, LimitAssumption
      DEF TypeOK, Bounds, InTables, UsableSegment, CallMapPage
    <2> QED BY <2>3, <2>4 DEF TypeInv
  <1>6. CASE AllocTable
    <2>1. stack \in Seq(Frame) /\ stack # <<>> /\ pc = "map"
      BY <1>0, <1>6 DEF TypeOK, Bounds, AllocTable
    <2>2. top \in Frame /\ top.lev \in 1 .. 3 /\ top.logical \in Page
          /\ top.tbl \in Page \cup {PML4}
      BY <1>6, <2>1, StackTop DEF AllocTable, Frame
    <2>3. slot \in Idx BY <2>2, ShiftType DEF slot
    <2>4. NextPage \in Page BY <2>1, NextPageType
    <2>5. mem' \in [Page \cup {PML4} -> [Idx -> Entry]]
      <3>1. Zeroed \in [Idx -> Entry] BY DEF Zeroed, Entry
      <3> DEFINE m == [mem EXCEPT ![NextPage] = Zeroed]
      <3>2. m \in [Page \cup {PML4} -> [Idx -> Entry]]
        BY <1>0, <2>4, <3>1 DEF TypeOK
      <3>3. mem' = [m EXCEPT ![top.tbl][slot] = NextPage]
        BY <1>6 DEF AllocTable
      <3> HIDE DEF m
      <3> QED BY <2>2, <2>3, <2>4, <3>2, <3>3 DEF Entry
    <2>6. stack' \in Seq(Frame)
      <3> DEFINE f == [top EXCEPT !.tested = TRUE]
                 s == [stack EXCEPT ![Len(stack)] = f]
      <3>1. f \in Frame BY <2>2 DEF Frame
      <3>2. s \in Seq(Frame) BY <2>1, <3>1, ReplaceTop
      <3>3. Activation(NextPage) \in Frame BY <2>4, ActivationFrame
      <3>4. stack' = Append(s, Activation(NextPage)) BY <1>6 DEF AllocTable
      <3> HIDE DEF s
      <3> QED BY <3>2, <3>3, <3>4, AppendProperties
    <2>7. owner' \in [Page \cup {PML4} -> [lev : 0 .. 3, page : Page]]
      BY <1>0, <1>6, <2>2, <2>4 DEF TypeOK, AllocTable
    <2>8. /\ biggestSegment' \in Segment
          /\ placement' \in Nat
          /\ biggestSegment'.physAddr = biggestSegment.physAddr
          /\ biggestSegment.physAddr <= placement'
          /\ biggestSegment'.nPages + (placement' - biggestSegment.physAddr)
             = biggestSegment.nPages + (placement - biggestSegment.physAddr)
      <3>1. /\ biggestSegment \in Segment
            /\ placement \in Nat
            /\ biggestSegment.physAddr <= placement
            /\ biggestSegment.physAddr \in Nat
        BY <1>0, <2>1, PagesNat DEF TypeOK, Bounds, InTables, Page
      <3>2. CASE biggestSegment.nPages = 0
        BY <1>6, <3>1, <3>2 DEF AllocTable, alloc_page
      <3>3. CASE biggestSegment.nPages # 0
        <4>1. /\ biggestSegment' = [biggestSegment EXCEPT !.nPages = @ - 1]
              /\ placement' = placement + 1
          BY <1>6, <3>3 DEF AllocTable, alloc_page
        <4>2. /\ biggestSegment'.physAddr = biggestSegment.physAddr
              /\ biggestSegment'.nPages = biggestSegment.nPages - 1
          BY <3>1, <4>1
        <4>3. biggestSegment' \in Segment BY <3>1, <3>3, <4>1
        <4> QED BY <3>1, <4>1, <4>2, <4>3
      <3> QED BY <3>2, <3>3
    <2>9. oom' \in BOOLEAN BY <1>6 DEF AllocTable
    <2>10. TypeOK'
      BY <1>0, <1>6, <2>5, <2>6, <2>7, <2>8, <2>9 DEF TypeOK, AllocTable
    <2>11. Bounds'
      BY <1>0, <1>6, <2>1, <2>8 DEF Bounds, InTables, UsableSegment, AllocTable
    <2> QED BY <2>10, <2>11 DEF TypeInv
  <1>7. CASE Descend
    <2>1. stack \in Seq(Frame) /\ stack # <<>> /\ pc = "map"
      BY <1>0, <1>7 DEF TypeOK, Bounds, Descend
    <2>2. top \in Frame /\ top.lev \in 1 .. 3 /\ top.logical \in Page
          /\ top.tbl \in Page \cup {PML4}
      BY <1>7, <2>1, StackTop DEF Descend, Frame
    <2>3. slot \in Idx BY <2>2, ShiftType DEF slot
    <2>4. mem[top.tbl][slot] \in Entry BY <1>0, <2>2, <2>3 DEF TypeOK
    <2>5. Ptr(mem[top.tbl][slot]) \in Page
      BY <2>4, PagesNat DEF Ptr, Entry, NULL
    <2>6. stack' \in Seq(Frame)
      <3> DEFINE f == [logical |-> top.logical, lev |-> top.lev - 1,
                       tbl |-> Ptr(mem[top.tbl][slot]), tested |-> FALSE]
      <3>1. f \in Frame BY <2>2, <2>5 DEF Frame
      <3>2. stack' = [stack EXCEPT ![Len(stack)] = f] BY <1>7 DEF Descend
      <3> HIDE DEF f
      <3> QED BY <2>1, <3>1, <3>2, ReplaceTop
    <2>7. TypeOK' BY <1>0, <1>7, <2>6 DEF TypeOK, Descend
    <2>8. Bounds' BY <1>0, <1>7, <2>1 DEF Bounds, InTables, UsableSegment, Descend
    <2> QED BY <2>7, <2>8 DEF TypeInv
  <1>8. CASE MapLeaf
    <2>1. stack \in Seq(Frame) /\ stack # <<>> /\ pc = "map"
      BY <1>0, <1>8 DEF TypeOK, Bounds, MapLeaf
    <2>2. top \in Frame /\ top.lev = 0 /\ top.logical \in Page
          /\ top.tbl \in Page \cup {PML4}
      BY <1>8, <2>1, StackTop DEF MapLeaf, Frame
    <2>3. slot \in Idx BY <2>2, ShiftType DEF slot
    <2>4. mem' \in [Page \cup {PML4} -> [Idx -> Entry]]
      BY <1>0, <1>8, <2>2, <2>3 DEF TypeOK, MapLeaf, Entry
    <2>5. stack' \in Seq(Frame) BY <1>8, <2>1, PopStack DEF MapLeaf
    <2>6. TypeOK' BY <1>0, <1>8, <2>4, <2>5 DEF TypeOK, MapLeaf
    <2>7. Bounds' BY <1>0, <1>8, <2>1 DEF Bounds, InTables, UsableSegment, MapLeaf
    <2> QED BY <2>6, <2>7 DEF TypeInv
  <1>9. CASE load_pml4
    <2>1. TypeOK' BY <1>0, <1>9 DEF TypeOK, load_pml4
    <2>2. Bounds' BY <1>0, <1>9 DEF Bounds, InTables, UsableSegment, load_pml4
    <2> QED BY <2>1, <2>2 DEF TypeInv
  <1>10. CASE UNCHANGED vars
    <2>1. TypeOK' BY <1>0, <1>10 DEF TypeOK, vars
    <2>2. Bounds' BY <1>0, <1>10 DEF Bounds, InTables, UsableSegment, vars
    <2> QED BY <2>1, <2>2 DEF TypeInv
  <1> QED
    BY <1>1, <1>2, <1>3, <1>4, <1>5, <1>6, <1>7, <1>8, <1>9, <1>10
    DEF Next, Done

\* The boot code keeps the memory manager's state well typed: every pointer
\* that map_page follows or stores is a page of the address space, whatever
\* the firmware's memory map is and also after alloc_page has run dry.
THEOREM TypeCorrect == Spec => []TypeOK
PROOF
  <1>1. TypeInv => TypeOK BY DEF TypeInv
  <1> QED BY <1>1, TypeInit, TypeStep, PTL DEF Spec

\* Every page handed out for a table lies in one usable segment of the
\* firmware's memory map.
THEOREM TablesSafe == Spec => []TablesInUsableMemory
PROOF
  <1>1. TypeInv => TablesInUsableMemory
    <2> SUFFICES ASSUME TypeInv, NEW f \in Allocated
                 PROVE  \E j \in 1 .. Len(memMap) :
                          /\ memMap[j].usable
                          /\ f \in memMap[j].physAddr ..
                                   memMap[j].physAddr + memMap[j].nPages - 1
      BY DEF TablesInUsableMemory
    <2> DEFINE a == biggestSegment.physAddr
               n == biggestSegment.nPages + (placement - a)
    <2>1. InTables /\ f \in a .. placement - 1
      BY DEF Allocated, InTables, TypeInv, TypeOK
    <2>2. /\ a \in Nat /\ placement \in Nat /\ biggestSegment.nPages \in Nat
          /\ UsableSegment(a, n)
      BY <2>1, PagesNat DEF TypeInv, TypeOK, Bounds, Page
    <2>3. f \in Int /\ a <= f /\ f < a + n /\ n > 0 /\ n \in Nat
      BY <2>1, <2>2
    <2> HIDE DEF n, a
    <2>4. PICK j \in 1 .. Len(memMap) :
            memMap[j].usable /\ memMap[j].physAddr = a /\ memMap[j].nPages = n
      BY <2>2, <2>3 DEF UsableSegment
    <2>5. f \in a .. a + n - 1 BY <2>2, <2>3
    <2> QED BY <2>4, <2>5
  <1> QED BY <1>1, TypeInit, TypeStep, PTL DEF Spec

-----------------------------------------------------------------------------
(* The shape of the tables.  A table of level k was allocated on the way   *)
(* to some page and serves every page of the same region; its entries lead *)
(* to tables one level down, or, on level 0, to pages, of that region and  *)
(* of the entry's index.  A frame of the call stack points to a table that *)
(* serves its page.                                                        *)

Tables == {PML4} \cup Allocated

LevelsOK == /\ owner[PML4].lev = 3
            /\ \A t \in Allocated : owner[t].lev \in 0 .. 2

\* The entry x of table t leads to e.
EntryOK(t, x, e) ==
  LET k == owner[t].lev
      p == owner[t].page
  IN  /\ k = 0 => Index(e, 0) = x /\ Region(e, 0) = Region(p, 0)
      /\ k # 0 => /\ e \in Allocated
                  /\ owner[e].lev = k - 1
                  /\ Index(owner[e].page, k) = x
                  /\ Region(owner[e].page, k) = Region(p, k)

EntriesOK ==
  \A t \in Tables, x \in Idx : mem[t][x] # NP => EntryOK(t, x, mem[t][x])

\* Frame f suits the tables T with owners o and contents m.
FrameOK(f, T, o, m) ==
  /\ f.tbl \in T
  /\ o[f.tbl].lev = f.lev
  /\ Region(o[f.tbl].page, f.lev) = Region(f.logical, f.lev)
  /\ f.tested => m[f.tbl][Index(f.logical, f.lev)] # NP

StackOK == \A j \in 1 .. Len(stack) : FrameOK(stack[j], Tables, owner, mem)

TreeOK == InTables /\ ~oom => LevelsOK /\ EntriesOK /\ StackOK

TreeInv == TypeInv /\ TreeOK /\ (InTables \/ ~oom) /\ owner[PML4].lev = 3

\* The pages handed out lie in the address space, below the next one.
LEMMA AllocatedType ==
  ASSUME TypeInv
  PROVE  Allocated \subseteq Page /\ placement \notin Allocated
PROOF
  <1> SUFFICES ASSUME NEW f \in Allocated
               PROVE  f \in Page /\ f # placement
    OBVIOUS
  <1> DEFINE a == biggestSegment.physAddr
             n == biggestSegment.nPages + (placement - a)
  <1>1. InTables /\ f \in a .. placement - 1
    BY DEF Allocated, InTables, TypeInv, TypeOK
  <1>2. /\ a \in Nat /\ placement \in Nat /\ biggestSegment.nPages \in Nat
        /\ UsableSegment(a, n)
    BY <1>1, PagesNat DEF TypeInv, TypeOK, Bounds, Page
  <1>3. f \in Nat /\ f < a + n /\ n > 0 /\ n \in Nat /\ f < placement
    BY <1>1, <1>2
  <1> HIDE DEF n, a
  <1>4. a + n <= Pages BY <1>2, <1>3, SegmentBound DEF TypeInv
  <1> QED BY <1>2, <1>3, <1>4, PagesNat DEF Page

\* The entry of a page in a table that serves it leads to a table that
\* serves it, or to the page itself.
LEMMA FollowEntry ==
  ASSUME TypeInv, LevelsOK, EntriesOK, NEW t \in Tables, NEW l \in Page,
         Region(owner[t].page, owner[t].lev) = Region(l, owner[t].lev),
         mem[t][Index(l, owner[t].lev)] # NP
  PROVE  LET k == owner[t].lev
             e == mem[t][Index(l, k)]
         IN  /\ k = 0 => e = l
             /\ k # 0 => /\ e \in Tables /\ owner[e].lev = k - 1
                         /\ Region(owner[e].page, k - 1) = Region(l, k - 1)
PROOF
  <1> DEFINE k == owner[t].lev
             e == mem[t][Index(l, k)]
             p == owner[t].page
  <1>0. TypeOK /\ Allocated \subseteq Page BY AllocatedType DEF TypeInv
  <1>1. t \in Page \cup {PML4} /\ k \in 0 .. 3 /\ p \in Page
    BY <1>0 DEF TypeOK, Tables
  <1>2. Index(l, k) \in Idx BY <1>1, ShiftType
  <1>3. e \in Page BY <1>0, <1>1, <1>2 DEF TypeOK, Entry
  <1>4. EntryOK(t, Index(l, k), e) BY <1>2 DEF EntriesOK
  <1>5. CASE k = 0
    <2>1. Index(e, 0) = Index(l, 0) /\ Region(e, 0) = Region(l, 0)
      BY <1>4, <1>5 DEF EntryOK
    <2>2. Shift(e, 0) = Shift(l, 0) BY <1>3, <2>1, RegionStep
    <2> QED BY <1>5, <2>2 DEF Shift
  <1>6. CASE k # 0
    <2> DEFINE q == owner[e].page
    <2>1. /\ e \in Allocated /\ owner[e].lev = k - 1
          /\ Index(q, k) = Index(l, k) /\ Region(q, k) = Region(l, k)
      BY <1>4, <1>6 DEF EntryOK
    <2>2. q \in Page BY <1>0, <1>3 DEF TypeOK
    <2>3. Shift(q, k) = Shift(l, k) BY <1>1, <2>1, <2>2, RegionStep
    <2>4. k \in 1 .. 3 BY <1>1, <1>6
    <2> HIDE DEF k, q
    <2>5. Region(q, k - 1) = Region(l, k - 1) BY <2>3, <2>4 DEF Region
    <2> QED BY <1>6, <2>1, <2>5 DEF Tables, k, q
  <1> QED BY <1>5, <1>6

LEMMA TreeInit == Init => TreeInv
PROOF BY TypeInit DEF Init, TreeInv, TreeOK, InTables

\* What a step that allocates a table does to the tables and to the stack.
LEMMA AllocTableEffect ==
  ASSUME TreeInv, AllocTable, ~oom'
  PROVE  /\ ~oom /\ LevelsOK /\ EntriesOK /\ StackOK /\ pc = "map" /\ pc' = "map"
         /\ stack \in Seq(Frame) /\ stack # <<>> /\ top \in Frame
         /\ top.lev \in 1 .. 3 /\ top.logical \in Page /\ slot \in Idx
         /\ placement \in Page /\ placement \notin Tables /\ NextPage = placement
         /\ Allocated' = Allocated \cup {placement}
         /\ Tables' = Tables \cup {placement}
         /\ top.tbl \in Tables /\ owner[top.tbl].lev = top.lev
         /\ Region(owner[top.tbl].page, top.lev) = Region(top.logical, top.lev)
         /\ mem[top.tbl][slot] = NP /\ mem'[placement] = Zeroed
         /\ \A t \in Tables, x \in Idx :
              mem'[t][x] = IF t = top.tbl /\ x = slot THEN placement ELSE mem[t][x]
PROOF
  <1>1. TypeInv /\ TypeOK /\ Bounds BY DEF TreeInv, TypeInv
  <1>2. /\ stack \in Seq(Frame) /\ stack # <<>> /\ pc = "map" /\ pc' = "map" /\ InTables
    BY <1>1 DEF TypeOK, Bounds, AllocTable, InTables
  <1>3. /\ top \in Frame /\ top.lev \in 1 .. 3 /\ top.logical \in Page
        /\ top.tbl \in Page \cup {PML4}
    BY <1>2, StackTop DEF AllocTable, Frame
  <1>4. slot \in Idx BY <1>3, ShiftType DEF slot
  <1>5. NextPage \in Page /\ PML4 \notin Page BY <1>1, <1>2, NextPageType, TokenAssumption
  <1> DEFINE n == placement
  <1>6. ~oom /\ biggestSegment.nPages # 0 BY DEF AllocTable
  <1>7. LevelsOK /\ EntriesOK /\ StackOK BY <1>2, <1>6 DEF TreeInv, TreeOK
  <1>8. NextPage = n /\ n \in Page BY <1>5, <1>6 DEF NextPage
  <1>9. n \notin Tables /\ Tables \subseteq Page \cup {PML4}
    BY <1>1, <1>5, <1>8, AllocatedType DEF Tables
  <1>10. Allocated' = Allocated \cup {n} /\ Tables' = Tables \cup {n}
    <2>1. placement' = placement + 1
          /\ biggestSegment'.physAddr = biggestSegment.physAddr
      BY <1>1, <1>6 DEF AllocTable, alloc_page, TypeOK
    <2>2. biggestSegment.physAddr \in Nat /\ placement \in Nat
          /\ biggestSegment.physAddr <= placement
      BY <1>1, <1>2, PagesNat DEF TypeOK, Bounds, Page
    <2>3. Allocated = biggestSegment.physAddr .. placement - 1
      BY <1>2 DEF Allocated
    <2>4. Allocated' = biggestSegment.physAddr .. placement' - 1
      BY <1>2, <2>1 DEF Allocated
    <2>5. Allocated' = Allocated \cup {n} BY <2>1, <2>2, <2>3, <2>4
    <2> QED BY <2>5 DEF Tables
  <1> HIDE DEF n
  <1>11. top.tbl \in Tables /\ owner[top.tbl].lev = top.lev
         /\ Region(owner[top.tbl].page, top.lev) = Region(top.logical, top.lev)
    <2>1. FrameOK(stack[Len(stack)], Tables, owner, mem) BY <1>2, <1>7, StackTop DEF StackOK
    <2> QED BY <2>1 DEF FrameOK, top
  <1>12. /\ mem'[n] = Zeroed
         /\ \A t \in Tables, x \in Idx :
              mem'[t][x] = IF t = top.tbl /\ x = slot THEN n ELSE mem[t][x]
    <2> DEFINE m == [mem EXCEPT ![n] = Zeroed]
    <2>1. mem' = [m EXCEPT ![top.tbl][slot] = n] BY <1>8 DEF AllocTable
    <2>2. m[n] = Zeroed /\ (\A t \in Tables : m[t] = mem[t])
          /\ DOMAIN m = Page \cup {PML4}
      BY <1>1, <1>8, <1>9 DEF TypeOK
    <2>3. \A t \in Tables : DOMAIN mem[t] = Idx BY <1>1, <1>9 DEF TypeOK
    <2> HIDE DEF m
    <2> QED BY <1>4, <1>8, <1>9, <1>11, <2>1, <2>2, <2>3
  <1>13. mem[top.tbl][slot] = NP BY DEF AllocTable
  <1> QED
    BY <1>2, <1>3, <1>4, <1>6, <1>7, <1>8, <1>9, <1>10, <1>11, <1>12, <1>13 DEF n

\* A step that allocates a table keeps the shape of the tables.
LEMMA AllocTableTree == TreeInv /\ AllocTable /\ TypeInv' => TreeInv'
PROOF
  <1> SUFFICES ASSUME TreeInv, AllocTable, TypeInv' PROVE TreeInv' OBVIOUS
  <1>1. TypeInv /\ TypeOK /\ Bounds BY DEF TreeInv, TypeInv
  <1>2. /\ stack \in Seq(Frame) /\ stack # <<>> /\ pc = "map" /\ pc' = "map"
        /\ InTables /\ InTables'
    BY <1>1 DEF TypeOK, Bounds, AllocTable, InTables
  <1>3. /\ top \in Frame /\ top.lev \in 1 .. 3 /\ top.logical \in Page
        /\ top.tbl \in Page \cup {PML4}
    BY <1>2, StackTop DEF AllocTable, Frame
  <1>4. slot \in Idx BY <1>3, ShiftType DEF slot
  <1>5. NextPage \in Page /\ PML4 \notin Page BY <1>1, <1>2, NextPageType, TokenAssumption
  <1>6. owner'[PML4].lev = 3
    BY <1>1, <1>5 DEF TreeInv, TypeOK, AllocTable
  <1>7. ASSUME ~oom' PROVE (LevelsOK /\ EntriesOK /\ StackOK)'
    <2> DEFINE n == placement
    <2>2. LevelsOK /\ EntriesOK /\ StackOK BY <1>7, AllocTableEffect
    <2>3. NextPage = n /\ n \in Page BY <1>7, AllocTableEffect
    <2>4. n \notin Tables /\ Tables \subseteq Page \cup {PML4}
      BY <1>1, <1>7, AllocTableEffect, AllocatedType DEF Tables
    <2>5. Allocated' = Allocated \cup {n} /\ Tables' = Tables \cup {n}
      BY <1>7, AllocTableEffect
    <2>6. top.tbl \in Tables /\ owner[top.tbl].lev = top.lev
          /\ Region(owner[top.tbl].page, top.lev) = Region(top.logical, top.lev)
      BY <1>7, AllocTableEffect
    <2>8. /\ mem'[n] = Zeroed
          /\ \A t \in Tables, x \in Idx :
               mem'[t][x] = IF t = top.tbl /\ x = slot THEN n ELSE mem[t][x]
      BY <1>7, AllocTableEffect
    <2> HIDE DEF n
    <2>7. /\ owner'[n] = [lev |-> top.lev - 1, page |-> top.logical]
          /\ \A t \in Tables : owner'[t] = owner[t]
      BY <1>1, <2>3, <2>4 DEF TypeOK, AllocTable
    <2>9. LevelsOK'
      <3>1. \A t \in Allocated' : owner'[t].lev \in 0 .. 2
        BY <1>3, <2>2, <2>5, <2>7 DEF LevelsOK, Tables
      <3> QED BY <1>6, <3>1 DEF LevelsOK
    <2>10. EntriesOK'
      <3> SUFFICES ASSUME NEW t \in Tables', NEW x \in Idx, mem'[t][x] # NP
                   PROVE  EntryOK(t, x, mem[t][x])'
        BY DEF EntriesOK
      <3>1. t # n BY <2>8 DEF Zeroed
      <3>2. t \in Tables BY <2>5, <3>1
      <3>3. CASE t = top.tbl /\ x = slot
        BY <1>3, <2>5, <2>6, <2>7, <2>8, <3>2, <3>3 DEF EntryOK, slot
      <3>4. CASE ~(t = top.tbl /\ x = slot)
        <4>1. mem'[t][x] = mem[t][x] BY <2>8, <3>2, <3>4
        <4>2. EntryOK(t, x, mem[t][x]) BY <2>2, <3>2, <4>1 DEF EntriesOK
        <4> QED BY <2>5, <2>7, <3>2, <4>1, <4>2 DEF EntryOK, Tables
      <3> QED BY <3>3, <3>4
    <2>11. ASSUME NEW f \in Frame, f.tbl \in Tables, owner[f.tbl].lev = f.lev,
                  Region(owner[f.tbl].page, f.lev) = Region(f.logical, f.lev),
                  f.tested =>
                    \/ mem[f.tbl][Index(f.logical, f.lev)] # NP
                    \/ f.tbl = top.tbl /\ Index(f.logical, f.lev) = slot
           PROVE  FrameOK(f, Tables', owner', mem')
      <3>1. Index(f.logical, f.lev) \in Idx BY ShiftType DEF Frame
      <3>2. n # NP BY <2>3, TokenAssumption
      <3>3. f.tested => mem'[f.tbl][Index(f.logical, f.lev)] # NP
        BY <2>8, <2>11, <3>1, <3>2
      <3> QED BY <2>5, <2>7, <2>11, <3>3 DEF FrameOK
    <2>12. StackOK'
      <3> DEFINE g == [top EXCEPT !.tested = TRUE]
                 s == [stack EXCEPT ![Len(stack)] = g]
                 h == Activation(n)
      <3>1. g \in Frame /\ h \in Frame BY <1>3, <2>3, ActivationFrame DEF Frame
      <3>2. FrameOK(g, Tables', owner', mem')
        <4>1. g.tbl = top.tbl /\ g.lev = top.lev /\ g.logical = top.logical
          BY <1>3 DEF Frame
        <4>2. Index(g.logical, g.lev) = slot BY <4>1 DEF slot
        <4> HIDE DEF g
        <4> QED BY <2>6, <2>11, <3>1, <4>1, <4>2
      <3>3. FrameOK(h, Tables', owner', mem')
        BY <1>6, <2>5 DEF FrameOK, Activation, Region, Tables
      <3>4. ASSUME NEW j \in 1 .. Len(stack)
            PROVE  FrameOK(stack[j], Tables', owner', mem')
        <4>1. stack[j] \in Frame BY <1>2, ElementOfSeq
        <4>2. FrameOK(stack[j], Tables, owner, mem) BY <2>2 DEF StackOK
        <4> QED BY <2>11, <4>1, <4>2 DEF FrameOK
      <3>5. /\ s \in Seq(Frame) /\ Len(s) = Len(stack) /\ Len(stack) \in Nat
            /\ \A j \in 1 .. Len(s) : s[j] = IF j = Len(s) THEN g ELSE stack[j]
        <4> HIDE DEF g
        <4> QED BY <1>2, <3>1, ReplaceTop, StackTop
      <3>6. stack' = Append(s, h) BY <2>3 DEF AllocTable
      <3> HIDE DEF g, s, h
      <3>7. /\ Len(stack') = Len(s) + 1 /\ stack'[Len(s) + 1] = h
            /\ \A j \in 1 .. Len(s) : stack'[j] = s[j]
        BY <3>1, <3>5, <3>6, AppendProperties
      <3>8. ASSUME NEW j \in 1 .. Len(stack')
            PROVE  FrameOK(stack'[j], Tables', owner', mem')
        <4>1. CASE j = Len(s) + 1 BY <3>3, <3>7, <4>1
        <4>2. CASE j = Len(s) BY <3>2, <3>5, <3>7, <4>2
        <4>3. CASE j \in 1 .. Len(s) - 1 BY <3>4, <3>5, <3>7, <4>3
        <4> QED BY <3>5, <3>7, <4>1, <4>2, <4>3
      <3> QED BY <3>8 DEF StackOK
    <2> QED BY <2>9, <2>10, <2>12
  <1> QED BY <1>2, <1>6, <1>7 DEF TreeInv, TreeOK

\* A step down to the next table keeps the shape of the tables.
LEMMA DescendTree == TreeInv /\ Descend /\ TypeInv' => TreeInv'
PROOF
  <1> SUFFICES ASSUME TreeInv, Descend, TypeInv' PROVE TreeInv' OBVIOUS
  <1>1. TypeInv /\ TypeOK /\ Bounds BY DEF TreeInv, TypeInv
  <1>2. /\ stack \in Seq(Frame) /\ stack # <<>> /\ InTables /\ InTables'
        /\ UNCHANGED <<owner, mem, oom, pc, biggestSegment, placement>>
    BY <1>1 DEF TypeOK, Bounds, Descend, InTables
  <1>3. /\ top \in Frame /\ top.lev \in 1 .. 3 /\ top.logical \in Page
    BY <1>2, StackTop DEF Descend, Frame
  <1>4. Allocated' = Allocated /\ Tables' = Tables BY <1>2 DEF Allocated, Tables
  <1>5. ASSUME ~oom PROVE StackOK'
    <2> DEFINE e == mem[top.tbl][slot]
               g == [logical |-> top.logical, lev |-> top.lev - 1,
                     tbl |-> Ptr(e), tested |-> FALSE]
    <2>1. LevelsOK /\ EntriesOK /\ StackOK BY <1>2, <1>5 DEF TreeInv, TreeOK
    <2>2. FrameOK(top, Tables, owner, mem) BY <1>2, <2>1, StackTop DEF StackOK, top
    <2>3. e # NP BY <2>2 DEF FrameOK, Descend, slot
    <2>4. /\ e \in Tables /\ owner[e].lev = top.lev - 1
          /\ Region(owner[e].page, top.lev - 1) = Region(top.logical, top.lev - 1)
      BY <1>1, <1>3, <2>1, <2>2, <2>3, FollowEntry DEF FrameOK, slot
    <2>5. FrameOK(g, Tables, owner, mem)
      BY <1>3, <2>3, <2>4 DEF FrameOK, Ptr
    <2>6. g \in Frame
      <3>1. Tables \subseteq Page \cup {PML4} BY <1>1, AllocatedType DEF Tables
      <3> QED BY <1>3, <2>3, <2>4, <3>1 DEF Frame, Ptr
    <2>7. stack' = [stack EXCEPT ![Len(stack)] = g] BY DEF Descend
    <2> HIDE DEF g
    <2>8. /\ Len(stack') = Len(stack)
          /\ \A j \in 1 .. Len(stack') :
               stack'[j] = IF j = Len(stack') THEN g ELSE stack[j]
      BY <1>2, <2>6, <2>7, ReplaceTop
    <2> QED BY <1>2, <1>4, <2>1, <2>5, <2>8 DEF StackOK
  <1>6. LevelsOK /\ EntriesOK => (LevelsOK /\ EntriesOK)'
    BY <1>2, <1>4 DEF LevelsOK, EntriesOK, EntryOK
  <1> QED BY <1>2, <1>5, <1>6 DEF TreeInv, TreeOK

\* The step that enters a page keeps the shape of the tables.
LEMMA MapLeafTree == TreeInv /\ MapLeaf /\ TypeInv' => TreeInv'
PROOF
  <1> SUFFICES ASSUME TreeInv, MapLeaf, TypeInv' PROVE TreeInv' OBVIOUS
  <1>1. TypeInv /\ TypeOK /\ Bounds BY DEF TreeInv, TypeInv
  <1>2. /\ stack \in Seq(Frame) /\ stack # <<>> /\ InTables /\ InTables'
        /\ UNCHANGED <<owner, oom, pc, biggestSegment, placement>>
    BY <1>1 DEF TypeOK, Bounds, MapLeaf, InTables
  <1>3. top \in Frame /\ top.lev = 0 /\ top.logical \in Page
    BY <1>2, StackTop DEF MapLeaf, Frame
  <1>4. Allocated' = Allocated /\ Tables' = Tables BY <1>2 DEF Allocated, Tables
  <1>5. Tables \subseteq Page \cup {PML4} BY <1>1, AllocatedType DEF Tables
  <1>6. ASSUME ~oom PROVE (LevelsOK /\ EntriesOK /\ StackOK)'
    <2>1. LevelsOK /\ EntriesOK /\ StackOK BY <1>2, <1>6 DEF TreeInv, TreeOK
    <2>2. FrameOK(top, Tables, owner, mem) BY <1>2, <2>1, StackTop DEF StackOK, top
    <2>3. \A t \in Tables, x \in Idx :
            \/ mem'[t][x] = mem[t][x]
            \/ /\ t = top.tbl /\ x = slot
               /\ mem'[t][x] = top.logical /\ top.logical # NP
      BY <1>1, <1>3, <1>5, <2>2, TokenAssumption DEF MapLeaf, TypeOK, FrameOK
    <2>4. LevelsOK' BY <1>2, <1>4, <2>1 DEF LevelsOK
    <2>5. EntriesOK'
      <3> SUFFICES ASSUME NEW t \in Tables, NEW x \in Idx, mem'[t][x] # NP
                   PROVE  EntryOK(t, x, mem[t][x])'
        BY <1>4 DEF EntriesOK
      <3>1. CASE mem'[t][x] = mem[t][x]
        <4>1. EntryOK(t, x, mem[t][x]) BY <2>1, <3>1 DEF EntriesOK
        <4> QED BY <1>2, <1>4, <3>1, <4>1 DEF EntryOK
      <3>2. CASE /\ t = top.tbl /\ x = slot
                 /\ mem'[t][x] = top.logical
        BY <1>2, <1>3, <2>2, <3>2 DEF EntryOK, FrameOK, slot
      <3> QED BY <2>3, <3>1, <3>2
    <2>6. StackOK'
      <3> SUFFICES ASSUME NEW j \in 1 .. Len(stack')
                   PROVE  FrameOK(stack'[j], Tables, owner, mem')
        BY <1>2, <1>4 DEF StackOK
      <3>1. j \in 1 .. Len(stack) /\ stack'[j] = stack[j]
        BY <1>2, PopStack, StackTop DEF MapLeaf
      <3>2. FrameOK(stack[j], Tables, owner, mem) BY <2>1, <3>1 DEF StackOK
      <3>3. stack[j] \in Frame BY <1>2, <3>1, ElementOfSeq
      <3>4. Index(stack[j].logical, stack[j].lev) \in Idx
        BY <3>3, ShiftType DEF Frame
      <3> QED BY <2>3, <3>1, <3>2, <3>4 DEF FrameOK
    <2> QED BY <2>4, <2>5, <2>6
  <1> QED BY <1>2, <1>6 DEF TreeInv, TreeOK

LEMMA TreeStep == TreeInv /\ [Next]_vars => TreeInv'
PROOF
  <1> SUFFICES ASSUME TreeInv, [Next]_vars PROVE TreeInv' OBVIOUS
  <1>0. TypeInv /\ TypeInv' /\ TypeOK BY TypeStep DEF TreeInv, TypeInv
  <1>1. CASE init_tss BY <1>0, <1>1 DEF TreeInv, TreeOK, InTables, init_tss
  <1>2. CASE StartScan BY <1>0, <1>2 DEF TreeInv, TreeOK, InTables, StartScan
  <1>3. CASE ScanEntry BY <1>0, <1>3 DEF TreeInv, TreeOK, InTables, ScanEntry
  <1>4. CASE ScanDone
    <2>1. Allocated' = {}
      <3>1. biggestSegment.physAddr \in Nat
        BY <1>0, PagesNat DEF TypeOK, Page
      <3>2. Allocated' = biggestSegment.physAddr .. biggestSegment.physAddr - 1
        BY <1>4 DEF Allocated, ScanDone
      <3> QED BY <3>1, <3>2
    <2>2. mem'[PML4] = Zeroed BY <1>0, <1>4 DEF TypeOK, ScanDone
    <2>3. stack' = <<>> /\ owner' = owner
      BY <1>0, <1>4 DEF TypeInv, Bounds, ScanDone
    <2>4. LevelsOK' BY <2>1, <2>3 DEF TreeInv, LevelsOK
    <2>5. EntriesOK' BY <2>1, <2>2 DEF EntriesOK, Tables, Zeroed
    <2>6. StackOK' BY <2>3, EmptySeq DEF StackOK
    <2> QED BY <1>0, <1>4, <2>3, <2>4, <2>5, <2>6
            DEF TreeInv, TreeOK, InTables, ScanDone
  <1>5. CASE CallMapPage
    <2>1. /\ UNCHANGED <<owner, mem, oom, pc, biggestSegment, placement>>
          /\ stack' = <<Activation(i)>>
      BY <1>5 DEF CallMapPage
    <2>2. Allocated' = Allocated /\ Tables' = Tables BY <2>1 DEF Allocated, Tables
    <2>3. LevelsOK /\ EntriesOK => (LevelsOK /\ EntriesOK)'
      BY <2>1, <2>2 DEF LevelsOK, EntriesOK, EntryOK
    <2>4. StackOK'
      BY <2>1, <2>2 DEF TreeInv, StackOK, FrameOK, Activation, Region, Tables
    <2> QED BY <1>0, <2>1, <2>3, <2>4 DEF TreeInv, TreeOK, InTables
  <1>6. CASE AllocTable BY <1>0, <1>6, AllocTableTree
  <1>7. CASE Descend BY <1>0, <1>7, DescendTree
  <1>8. CASE MapLeaf BY <1>0, <1>8, MapLeafTree
  <1>9. CASE load_pml4
    <2>1. /\ UNCHANGED <<owner, mem, oom, stack, biggestSegment, placement>>
          /\ pc = "map" /\ pc' = "done"
      BY <1>9 DEF load_pml4
    <2>2. Allocated' = Allocated /\ Tables' = Tables BY <2>1 DEF Allocated, Tables
    <2>3. LevelsOK /\ EntriesOK /\ StackOK => (LevelsOK /\ EntriesOK /\ StackOK)'
      BY <2>1, <2>2 DEF LevelsOK, EntriesOK, EntryOK, StackOK, FrameOK
    <2> QED BY <1>0, <2>1, <2>3 DEF TreeInv, TreeOK, InTables
  <1>10. CASE UNCHANGED vars
    <2>1. UNCHANGED <<owner, mem, oom, stack, pc, biggestSegment, placement>>
      BY <1>10 DEF vars
    <2>2. Allocated' = Allocated /\ Tables' = Tables BY <2>1 DEF Allocated, Tables
    <2>3. LevelsOK /\ EntriesOK /\ StackOK => (LevelsOK /\ EntriesOK /\ StackOK)'
      BY <2>1, <2>2 DEF LevelsOK, EntriesOK, EntryOK, StackOK, FrameOK
    <2> QED BY <1>0, <2>1, <2>3 DEF TreeInv, TreeOK, InTables
  <1> QED
    BY <1>1, <1>2, <1>3, <1>4, <1>5, <1>6, <1>7, <1>8, <1>9, <1>10
    DEF Next, Done

\* The walk to page l ends at an absent entry or at l.
LEMMA WalkIdentity ==
  ASSUME TypeInv, LevelsOK, EntriesOK, NEW l \in Page
  PROVE  Translate(l) \in {NP, l}
PROOF
  <1> SUFFICES ASSUME Translate(l) # NP PROVE Translate(l) = l OBVIOUS
  <1>1. PML4 \in Tables /\ owner[PML4].lev = 3 BY DEF Tables, LevelsOK
  <1>2. /\ Table2(l) # NP /\ Table1(l) # NP /\ Table0(l) # NP
        /\ Table1(l) = mem[Table2(l)][Index(l, 2)]
        /\ Table0(l) = mem[Table1(l)][Index(l, 1)]
        /\ Translate(l) = mem[Table0(l)][Index(l, 0)]
    BY DEF Translate, Table0, Table1, Lookup
  <1>3. /\ Table2(l) \in Tables /\ owner[Table2(l)].lev = 2
        /\ Region(owner[Table2(l)].page, 2) = Region(l, 2)
    <2>1. Region(owner[PML4].page, 3) = Region(l, 3) BY DEF Region
    <2>2. mem[PML4][Index(l, 3)] # NP BY <1>2 DEF Table2
    <2> QED BY <1>1, <2>1, <2>2, FollowEntry DEF Table2
  <1>4. /\ Table1(l) \in Tables /\ owner[Table1(l)].lev = 1
        /\ Region(owner[Table1(l)].page, 1) = Region(l, 1)
    BY <1>2, <1>3, FollowEntry
  <1>5. /\ Table0(l) \in Tables /\ owner[Table0(l)].lev = 0
        /\ Region(owner[Table0(l)].page, 0) = Region(l, 0)
    BY <1>2, <1>4, FollowEntry
  <1> QED BY <1>2, <1>5, FollowEntry

\* The kernel's address space is the identity where it is defined, at every
\* step of map_page's recursion and for every memory map and range, as long
\* as alloc_page had a page for every table.
THEOREM MappingIsIdentity == Spec => []IdentityMapping
PROOF
  <1>1. TreeInv => IdentityMapping
    BY WalkIdentity DEF TreeInv, TreeOK, InTables, IdentityMapping
  <1> QED BY <1>1, TreeInit, TreeStep, PTL DEF Spec

-----------------------------------------------------------------------------
(* The scan of the memory map.                                             *)

\* No usable segment among the first n is larger than the chosen one.
LargestOf(n) ==
  \A j \in 1 .. n : memMap[j].usable => memMap[j].nPages <= biggestSegment.nPages

ScanInv ==
  /\ pc = "scan" => LargestOf(i)
  /\ pc = "map" /\ i = 0 =>
       /\ LargestOf(Len(memMap))
       /\ UsableSegment(biggestSegment.physAddr, biggestSegment.nPages)
       /\ stack = <<>>

\* Every step keeps the invariant of the scan.
LEMMA ScanStep == TypeInv /\ ScanInv /\ [Next]_vars => ScanInv'
PROOF
  <1> SUFFICES ASSUME TypeInv, ScanInv, [Next]_vars PROVE ScanInv' OBVIOUS
  <1>0. TypeOK /\ Bounds BY DEF TypeInv
  <1>1. CASE init_tss BY <1>1 DEF ScanInv, init_tss
  <1>2. CASE StartScan BY <1>2 DEF ScanInv, LargestOf, StartScan
  <1>3. CASE ScanEntry
    <2> DEFINE cur == memMap[i + 1]
    <2>1. memMap \in Seq(MemDesc) BY <1>0, MemMapAssumption DEF TypeOK
    <2>2. Len(memMap) \in Nat /\ i \in Nat /\ i < Len(memMap)
      BY <1>0, <1>3, <2>1, LenProperties DEF TypeOK, ScanEntry
    <2>3. /\ \A j \in 1 .. Len(memMap) : memMap[j].nPages \in Nat
          /\ biggestSegment.nPages \in Nat
      <3>1. ASSUME NEW j \in 1 .. Len(memMap) PROVE memMap[j].nPages \in Nat
        <4>1. memMap[j] \in MemDesc BY <2>1, ElementOfSeq
        <4> QED BY <4>1 DEF MemDesc
      <3>2. biggestSegment.nPages \in Nat BY <1>0 DEF TypeOK
      <3> QED BY <3>1, <3>2
    <2>4. i + 1 \in 1 .. Len(memMap) BY <2>2
    <2>5. /\ pc' = "scan" /\ i' = i + 1 /\ memMap' = memMap
          /\ LargestOf(i)
      BY <1>3 DEF ScanInv, ScanEntry
    <2>6. CASE cur.nPages > biggestSegment.nPages /\ cur.usable
      <3>1. biggestSegment'.nPages = cur.nPages BY <1>3, <2>6 DEF ScanEntry
      <3>2. ASSUME NEW j \in 1 .. i + 1, memMap[j].usable
            PROVE  memMap[j].nPages <= cur.nPages
        <4>1. CASE j = i + 1 BY <2>3, <2>4, <4>1
        <4>2. CASE j \in 1 .. i
          <5>1. memMap[j].nPages <= biggestSegment.nPages
            BY <2>5, <3>2, <4>2 DEF LargestOf
          <5>2. j \in 1 .. Len(memMap) BY <2>2, <4>2
          <5> QED BY <2>3, <2>4, <2>6, <5>1, <5>2
        <4> QED BY <2>2, <4>1, <4>2
      <3> QED BY <2>5, <3>1, <3>2 DEF ScanInv, LargestOf
    <2>7. CASE ~(cur.nPages > biggestSegment.nPages /\ cur.usable)
      <3>1. biggestSegment' = biggestSegment BY <1>3, <2>7 DEF ScanEntry
      <3>2. ASSUME NEW j \in 1 .. i + 1, memMap[j].usable
            PROVE  memMap[j].nPages <= biggestSegment.nPages
        <4>1. CASE j = i + 1 BY <2>3, <2>4, <2>7, <3>2, <4>1
        <4>2. CASE j \in 1 .. i BY <2>5, <3>2, <4>2 DEF LargestOf
        <4> QED BY <2>2, <4>1, <4>2
      <3> QED BY <2>5, <3>1, <3>2 DEF ScanInv, LargestOf
    <2> QED BY <2>6, <2>7
  <1>4. CASE ScanDone
    <2>1. /\ LargestOf(Len(memMap)) /\ stack = <<>>
          /\ UsableSegment(biggestSegment.physAddr, biggestSegment.nPages)
      BY <1>0, <1>4 DEF ScanInv, ScanDone, Bounds
    <2>2. UNCHANGED <<memMap, biggestSegment, stack>> /\ pc' = "map"
      BY <1>4 DEF ScanDone
    <2> QED BY <2>1, <2>2 DEF ScanInv, LargestOf, UsableSegment
  <1>5. CASE CallMapPage BY <1>0, <1>5 DEF ScanInv, CallMapPage, TypeOK
  <1>6. CASE AllocTable BY <1>0, <1>6 DEF ScanInv, AllocTable, Bounds
  <1>7. CASE Descend BY <1>0, <1>7 DEF ScanInv, Descend, Bounds
  <1>8. CASE MapLeaf BY <1>0, <1>8 DEF ScanInv, MapLeaf, Bounds
  <1>9. CASE load_pml4 BY <1>9 DEF ScanInv, load_pml4
  <1>10. CASE UNCHANGED vars BY <1>10 DEF ScanInv, LargestOf, UsableSegment, vars
  <1> QED
    BY <1>1, <1>2, <1>3, <1>4, <1>5, <1>6, <1>7, <1>8, <1>9, <1>10
    DEF Next, Done

\* set_placement settles on a usable segment than which none is larger, for
\* every memory map and whatever biggestSegment held before.
THEOREM SegmentChosen == Spec => []LargestSegmentChosen
PROOF
  <1>1. Init => ScanInv BY DEF Init, ScanInv
  <1>2. TypeInv /\ ScanInv => LargestSegmentChosen
    <2> SUFFICES ASSUME TypeInv, ScanInv, pc = "map", i = 0
                 PROVE  LET usable == {j \in 1 .. Len(memMap) : memMap[j].usable}
                        IN  /\ \A j \in usable : memMap[j].nPages <= biggestSegment.nPages
                            /\ biggestSegment.nPages > 0 =>
                                 \E j \in usable :
                                   biggestSegment = [physAddr |-> memMap[j].physAddr,
                                                     nPages |-> memMap[j].nPages]
      BY DEF LargestSegmentChosen
    <2>1. biggestSegment = [physAddr |-> biggestSegment.physAddr,
                            nPages |-> biggestSegment.nPages]
          /\ biggestSegment.nPages \in Nat
      BY DEF TypeInv, TypeOK
    <2>2. LargestOf(Len(memMap)) /\ UsableSegment(biggestSegment.physAddr, biggestSegment.nPages)
      BY DEF ScanInv
    <2> QED BY <2>1, <2>2 DEF LargestOf, UsableSegment
  <1> QED BY <1>1, <1>2, TypeInit, TypeStep, ScanStep, PTL DEF Spec


-----------------------------------------------------------------------------
(* Walks through the tables.                                               *)

\* Tables are not NP, and their entries are tables of the next level down.
LEMMA TablesType ==
  ASSUME TypeInv
  PROVE  Tables \subseteq Page \cup {PML4} /\ NP \notin Tables
PROOF BY AllocatedType, TokenAssumption DEF Tables

\* The walk to l, as far as it goes, leads through tables that serve l.
LEMMA WalkTables ==
  ASSUME TypeInv, LevelsOK, EntriesOK, NEW l \in Page, NEW k \in 0 .. 3,
         Table(l, k) # NP
  PROVE  /\ Table(l, k) \in Tables
         /\ owner[Table(l, k)].lev = k
         /\ Region(owner[Table(l, k)].page, k) = Region(l, k)
         /\ k < 3 => Table(l, k + 1) # NP
PROOF
  <1>1. /\ PML4 \in Tables /\ owner[PML4].lev = 3
        /\ Region(owner[PML4].page, 3) = Region(l, 3)
    BY DEF Tables, LevelsOK, Region
  <1>2. PML4 # NP BY TokenAssumption
  <1>3. ASSUME Table2(l) # NP
        PROVE  /\ Table2(l) \in Tables /\ owner[Table2(l)].lev = 2
               /\ Region(owner[Table2(l)].page, 2) = Region(l, 2)
    <2>1. mem[PML4][Index(l, 3)] # NP BY <1>3 DEF Table2
    <2> QED BY <1>1, <2>1, FollowEntry DEF Table2
  <1>4. ASSUME Table1(l) # NP
        PROVE  /\ Table1(l) \in Tables /\ owner[Table1(l)].lev = 1
               /\ Region(owner[Table1(l)].page, 1) = Region(l, 1)
               /\ Table2(l) # NP
    <2>1. Table2(l) # NP /\ Table1(l) = mem[Table2(l)][Index(l, 2)]
      BY <1>4 DEF Table1, Lookup
    <2> QED BY <1>3, <1>4, <2>1, FollowEntry
  <1>5. ASSUME Table0(l) # NP
        PROVE  /\ Table0(l) \in Tables /\ owner[Table0(l)].lev = 0
               /\ Region(owner[Table0(l)].page, 0) = Region(l, 0)
               /\ Table1(l) # NP
    <2>1. Table1(l) # NP /\ Table0(l) = mem[Table1(l)][Index(l, 1)]
      BY <1>5 DEF Table0, Lookup
    <2> QED BY <1>4, <1>5, <2>1, FollowEntry
  <1>6. CASE k = 3 BY <1>1, <1>6 DEF Table
  <1>7. CASE k = 2 BY <1>2, <1>3, <1>7 DEF Table
  <1>8. CASE k = 1 BY <1>4, <1>8 DEF Table
  <1>9. CASE k = 0 BY <1>5, <1>9 DEF Table
  <1> QED BY <1>6, <1>7, <1>8, <1>9

\* A walk is a lookup in each of its tables.
LEMMA WalkStep ==
  ASSUME NEW l \in Page, NEW k \in 1 .. 3
  PROVE  Table(l, k - 1) = Lookup(Table(l, k), Index(l, k))
PROOF
  <1>1. PML4 # NP BY TokenAssumption
  <1>2. CASE k = 3 BY <1>1, <1>2 DEF Table, Table2, Lookup
  <1>3. CASE k = 2 BY <1>3 DEF Table, Table1
  <1>4. CASE k = 1 BY <1>4 DEF Table, Table0
  <1> QED BY <1>2, <1>3, <1>4

\* A step that only fills in absent entries of tables leaves every walk as it
\* is, as far as it went.
LEMMA WalkStable ==
  ASSUME TypeInv, LevelsOK, EntriesOK, NEW l \in Page,
         \A t \in Tables, x \in Idx : mem[t][x] # NP => mem'[t][x] = mem[t][x]
  PROVE  /\ \A k \in 0 .. 3 : Table(l, k) # NP => Table(l, k)' = Table(l, k)
         /\ Translate(l) # NP => Translate(l)' = Translate(l)
PROOF
  <1>0. \A k \in 0 .. 3 : Index(l, k) \in Idx BY ShiftType
  <1>1. PML4 \in Tables BY DEF Tables
  <1>2. Table2(l) # NP => Table2(l)' = Table2(l)
    BY <1>0, <1>1 DEF Table2
  <1>3. Table1(l) # NP => Table1(l)' = Table1(l)
    <2> SUFFICES ASSUME Table1(l) # NP PROVE Table1(l)' = Table1(l) OBVIOUS
    <2>1. Table2(l) # NP BY DEF Table1, Lookup
    <2>2. Table2(l) \in Tables
      <3>1. Table(l, 2) = Table2(l) BY DEF Table
      <3> QED BY <2>1, <3>1, WalkTables
    <2> QED BY <1>0, <1>2, <2>1, <2>2 DEF Table1, Lookup
  <1>4. Table0(l) # NP => Table0(l)' = Table0(l)
    <2> SUFFICES ASSUME Table0(l) # NP PROVE Table0(l)' = Table0(l) OBVIOUS
    <2>1. Table1(l) # NP BY DEF Table0, Lookup
    <2>2. Table1(l) \in Tables
      <3>1. Table(l, 1) = Table1(l) BY DEF Table
      <3> QED BY <2>1, <3>1, WalkTables
    <2> QED BY <1>0, <1>3, <2>1, <2>2 DEF Table0, Lookup
  <1>5. Translate(l) # NP => Translate(l)' = Translate(l)
    <2> SUFFICES ASSUME Translate(l) # NP PROVE Translate(l)' = Translate(l) OBVIOUS
    <2>1. Table0(l) # NP BY DEF Translate, Lookup
    <2>2. Table0(l) \in Tables
      <3>1. Table(l, 0) = Table0(l) BY DEF Table
      <3> QED BY <2>1, <3>1, WalkTables
    <2> QED BY <1>0, <1>4, <2>1, <2>2 DEF Translate, Lookup
  <1>6. ASSUME NEW k \in 0 .. 3, Table(l, k) # NP PROVE Table(l, k)' = Table(l, k)
    <2>1. CASE k = 3 BY <2>1 DEF Table
    <2>2. CASE k = 2 BY <1>2, <1>6, <2>2 DEF Table
    <2>3. CASE k = 1 BY <1>3, <1>6, <2>3 DEF Table
    <2>4. CASE k = 0 BY <1>4, <1>6, <2>4 DEF Table
    <2> QED BY <2>1, <2>2, <2>3, <2>4
  <1> QED BY <1>5, <1>6


-----------------------------------------------------------------------------
(* All pages are mapped in the end.  Until then, a page that was passed to *)
(* map_page is mapped or has an activation that works on it, and an        *)
(* activation is at the table that the walk to its page leads to.          *)

WalkOK ==
  \A j \in 1 .. Len(stack) : stack[j].tbl = Table(stack[j].logical, stack[j].lev)

Pending(l) == \E j \in 1 .. Len(stack) : stack[j].logical = l

Covered ==
  \A l \in 0 .. i - 1 \cup Allocated : Translate(l) # NP \/ Pending(l)

MapInv ==
  /\ InTables /\ ~oom => WalkOK /\ Covered
  /\ cr3 = PML4 => pc = "done"
  /\ pc = "done" => i = Limit /\ stack = <<>>

\* A step that allocates a table keeps its page pending and mapped pages mapped.
LEMMA AllocTableMap == TreeInv /\ MapInv /\ AllocTable /\ TypeInv' => MapInv'
PROOF
  <1> SUFFICES ASSUME TreeInv, MapInv, AllocTable, TypeInv' PROVE MapInv' OBVIOUS
  <1>1. TypeInv /\ TypeOK /\ Bounds BY DEF TreeInv, TypeInv
  <1>2. pc = "map" /\ pc' = "map" /\ cr3' = cr3 BY <1>1 DEF Bounds, AllocTable
  <1>3. cr3' # PML4 BY <1>2 DEF MapInv
  <1>4. ASSUME ~oom' PROVE WalkOK' /\ Covered'
    <2> DEFINE n == placement
               g == [top EXCEPT !.tested = TRUE]
               s == [stack EXCEPT ![Len(stack)] = g]
               h == Activation(n)
    <2>1. WalkOK /\ Covered
      BY <1>2, <1>4, AllocTableEffect DEF MapInv, InTables
    <2>2. LevelsOK /\ EntriesOK BY <1>4, AllocTableEffect
    <2>3. n \in Page /\ NextPage = n /\ Allocated' = Allocated \cup {n}
      BY <1>4, AllocTableEffect
    <2>4. \A t \in Tables, x \in Idx : mem[t][x] # NP => mem'[t][x] = mem[t][x]
      BY <1>4, AllocTableEffect
    <2>5. stack \in Seq(Frame) /\ stack # <<>> /\ top \in Frame
      BY <1>4, AllocTableEffect
    <2>6. g \in Frame /\ h \in Frame /\ g.tbl = top.tbl /\ g.lev = top.lev
          /\ g.logical = top.logical
      BY <2>3, <2>5, ActivationFrame DEF Frame
    <2>7. stack' = Append(s, h) BY <2>3 DEF AllocTable
    <2>8. h.tbl = PML4 /\ h.lev = 3 /\ h.logical = n BY DEF Activation
    <2> HIDE DEF g, h
    <2>9. /\ s \in Seq(Frame) /\ Len(s) = Len(stack) /\ Len(stack) \in Nat
          /\ \A j \in 1 .. Len(s) : s[j] = IF j = Len(s) THEN g ELSE stack[j]
      BY <2>5, <2>6, ReplaceTop, StackTop
    <2> HIDE DEF s
    <2>10. /\ Len(stack') = Len(stack) + 1 /\ stack'[Len(stack) + 1] = h
           /\ \A j \in 1 .. Len(stack) : stack'[j] = s[j]
      BY <2>6, <2>7, <2>9, AppendProperties
    <2>11. ASSUME NEW j \in 1 .. Len(stack)
           PROVE  /\ stack'[j].tbl = stack[j].tbl /\ stack'[j].lev = stack[j].lev
                  /\ stack'[j].logical = stack[j].logical
      BY <2>6, <2>9, <2>10 DEF top
    <2>12. WalkOK'
      <3> SUFFICES ASSUME NEW j \in 1 .. Len(stack')
                   PROVE  (stack[j].tbl = Table(stack[j].logical, stack[j].lev))'
        BY DEF WalkOK
      <3>1. CASE j = Len(stack) + 1 BY <2>8, <2>10, <3>1 DEF Table
      <3>2. CASE j \in 1 .. Len(stack)
        <4>1. PICK f \in Frame : f = stack[j] BY <2>5, <3>2, ElementOfSeq
        <4>2. f.logical \in Page /\ f.lev \in 0 .. 3 BY DEF Frame
        <4>3. f.tbl = Table(f.logical, f.lev) BY <2>1, <3>2, <4>1 DEF WalkOK
        <4>4. f.tbl # NP
          <5>1. FrameOK(f, Tables, owner, mem)
            BY <1>4, <3>2, <4>1, AllocTableEffect DEF StackOK
          <5> QED BY <1>1, <5>1, TablesType DEF FrameOK
        <4>5. Table(f.logical, f.lev)' = Table(f.logical, f.lev)
          BY <1>1, <2>2, <2>4, <4>2, <4>3, <4>4, WalkStable
        <4>6. stack'[j].tbl = f.tbl /\ stack'[j].lev = f.lev /\ stack'[j].logical = f.logical
          BY <2>11, <3>2, <4>1
        <4> QED BY <4>3, <4>5, <4>6
      <3> QED BY <2>9, <2>10, <3>1, <3>2
    <2>13. Covered'
      <3> SUFFICES ASSUME NEW l \in 0 .. i - 1 \cup Allocated \cup {n}
                   PROVE  (Translate(l) # NP)' \/ Pending(l)'
        <4>1. i' = i BY DEF AllocTable
        <4> QED BY <2>3, <4>1 DEF Covered
      <3>1. CASE l = n
        <4>1. Len(stack) + 1 \in 1 .. Len(stack') BY <2>9, <2>10
        <4> QED BY <2>8, <2>10, <3>1, <4>1 DEF Pending
      <3>2. CASE l \in 0 .. i - 1 \cup Allocated
        <4>1. l \in Page
          BY <1>1, <1>2, <3>2, LimitAssumption, AllocatedType, PagesNat
          DEF TypeOK, Bounds, InTables, Page
        <4>2. CASE Translate(l) # NP
          BY <1>1, <2>2, <2>4, <4>1, <4>2, WalkStable
        <4>3. CASE Pending(l)
          <5>1. PICK j \in 1 .. Len(stack) : stack[j].logical = l
            BY <4>3 DEF Pending
          <5>2. j \in 1 .. Len(stack') BY <2>9, <2>10
          <5> QED BY <2>11, <5>1, <5>2 DEF Pending
        <4> QED BY <2>1, <3>2, <4>2, <4>3 DEF Covered
      <3> QED BY <3>1, <3>2
    <2> QED BY <2>12, <2>13
  <1> QED BY <1>2, <1>3, <1>4 DEF MapInv

\* A step down leads along the walk to the activation's page.
LEMMA DescendMap == TreeInv /\ MapInv /\ Descend /\ TypeInv' => MapInv'
PROOF
  <1> SUFFICES ASSUME TreeInv, MapInv, Descend, TypeInv' PROVE MapInv' OBVIOUS
  <1>1. TypeInv /\ TypeOK /\ Bounds BY DEF TreeInv, TypeInv
  <1>2. /\ stack \in Seq(Frame) /\ stack # <<>> /\ pc = "map"
        /\ UNCHANGED <<mem, oom, pc, i, cr3, biggestSegment, placement>>
    BY <1>1 DEF TypeOK, Bounds, Descend
  <1>3. top \in Frame /\ top.lev \in 1 .. 3 /\ top.logical \in Page
    BY <1>2, StackTop DEF Descend, Frame
  <1>4. Allocated' = Allocated BY <1>2 DEF Allocated
  <1>5. ASSUME ~oom PROVE WalkOK' /\ Covered'
    <2> DEFINE e == mem[top.tbl][slot]
               g == [logical |-> top.logical, lev |-> top.lev - 1,
                     tbl |-> Ptr(e), tested |-> FALSE]
    <2>1. LevelsOK /\ EntriesOK /\ StackOK /\ WalkOK /\ Covered
      BY <1>2, <1>5 DEF TreeInv, TreeOK, MapInv, InTables
    <2>2. FrameOK(top, Tables, owner, mem) BY <1>2, <2>1, StackTop DEF StackOK, top
    <2>3. e # NP BY <2>2 DEF FrameOK, Descend, slot
    <2>4. top.tbl = Table(top.logical, top.lev)
      BY <1>2, <2>1, StackTop DEF WalkOK, top
    <2>5. top.tbl # NP BY <1>1, <2>2, TablesType DEF FrameOK
    <2>6. Table(top.logical, top.lev - 1) = e
      BY <1>3, <2>4, <2>5, WalkStep DEF Lookup, slot
    <2>7. g.tbl = Table(g.logical, g.lev) /\ g.logical = top.logical
      BY <2>3, <2>6 DEF Ptr
    <2>8. g \in Frame
      <3>1. top.tbl \in Page \cup {PML4} /\ slot \in Idx
        BY <1>3, ShiftType DEF Frame, slot
      <3>2. e \in Page BY <1>1, <2>3, <3>1 DEF TypeOK, Entry
      <3> QED BY <1>3, <2>3, <3>2 DEF Frame, Ptr
    <2>9. stack' = [stack EXCEPT ![Len(stack)] = g] BY DEF Descend
    <2> HIDE DEF g
    <2>10. /\ Len(stack') = Len(stack)
           /\ \A j \in 1 .. Len(stack') :
                stack'[j] = IF j = Len(stack') THEN g ELSE stack[j]
      BY <1>2, <2>8, <2>9, ReplaceTop
    <2>11. ASSUME NEW f, f.tbl = Table(f.logical, f.lev)
           PROVE  f.tbl = Table(f.logical, f.lev)'
      BY <1>2, <2>11 DEF Table, Table0, Table1, Table2, Lookup
    <2>12. WalkOK' BY <2>1, <2>7, <2>10, <2>11 DEF WalkOK
    <2>13. Covered'
      <3> SUFFICES ASSUME NEW l \in 0 .. i - 1 \cup Allocated
                   PROVE  (Translate(l) # NP)' \/ Pending(l)'
        BY <1>2, <1>4 DEF Covered
      <3>1. CASE Translate(l) # NP
        BY <1>2, <3>1 DEF Translate, Table0, Table1, Table2, Lookup
      <3>2. CASE Pending(l) BY <2>7, <2>10, <3>2 DEF Pending, top
      <3> QED BY <2>1, <3>1, <3>2 DEF Covered
    <2> QED BY <2>12, <2>13
  <1> QED BY <1>2, <1>5 DEF MapInv


\* The step that enters a page maps this page, to itself, and no other.
LEMMA MapLeafEffect ==
  ASSUME TreeInv, MapInv, MapLeaf, ~oom, NEW l \in Page
  PROVE  /\ top.logical \in Page
         /\ \A k \in 0 .. 3 : Table(l, k)' = Table(l, k)
         /\ Translate(l)' = IF l = top.logical THEN l ELSE Translate(l)
PROOF
  <1> DEFINE p == top.logical
  <1>1. TypeInv /\ TypeOK /\ Bounds BY DEF TreeInv, TypeInv
  <1>2. stack \in Seq(Frame) /\ stack # <<>> /\ InTables
    BY <1>1 DEF TypeOK, Bounds, MapLeaf, InTables
  <1>3. top \in Frame /\ top.lev = 0 /\ p \in Page
    BY <1>2, StackTop DEF MapLeaf, Frame
  <1>4. LevelsOK /\ EntriesOK /\ StackOK /\ WalkOK
    BY <1>2 DEF TreeInv, TreeOK, MapInv
  <1>5. FrameOK(top, Tables, owner, mem) BY <1>2, <1>4, StackTop DEF StackOK, top
  <1>6. /\ top.tbl \in Tables /\ owner[top.tbl].lev = 0
        /\ Region(owner[top.tbl].page, 0) = Region(p, 0)
    BY <1>3, <1>5 DEF FrameOK
  <1>7. top.tbl = Table(p, 0)
    BY <1>2, <1>3, <1>4, StackTop DEF WalkOK, top
  <1>8. slot = Index(p, 0) /\ slot \in Idx BY <1>3, ShiftType DEF slot
  <1>9. mem[top.tbl][slot] # NP => mem[top.tbl][slot] = p
    BY <1>1, <1>3, <1>4, <1>6, <1>8, FollowEntry
  <1>10. \A t \in Tables, x \in Idx :
           mem'[t][x] = IF t = top.tbl /\ x = slot THEN p ELSE mem[t][x]
    <2>1. Tables \subseteq Page \cup {PML4} BY <1>1, TablesType
    <2>2. CASE mem[top.tbl][slot] = NP
      <3>1. mem' = [mem EXCEPT ![top.tbl][slot] = p] BY <2>2 DEF MapLeaf
      <3> QED BY <1>1, <1>6, <1>8, <2>1, <3>1 DEF TypeOK
    <2>3. CASE mem[top.tbl][slot] # NP
      <3>1. mem' = mem BY <2>3 DEF MapLeaf
      <3> QED BY <1>9, <2>3, <3>1
    <2> QED BY <2>2, <2>3
  <1>11. \A k \in 0 .. 3 : Index(l, k) \in Idx BY ShiftType
  <1>12. ASSUME NEW k \in 1 .. 3, Table(l, k) # NP
         PROVE  mem'[Table(l, k)][Index(l, k)] = mem[Table(l, k)][Index(l, k)]
    <2>1. Table(l, k) \in Tables /\ owner[Table(l, k)].lev = k
      BY <1>1, <1>4, <1>12, WalkTables
    <2>2. Table(l, k) # top.tbl BY <1>6, <2>1
    <2> QED BY <1>10, <1>11, <2>1, <2>2
  <1>13. /\ Table(l, 3)' = Table(l, 3) /\ Table(l, 2)' = Table(l, 2)
         /\ Table(l, 1)' = Table(l, 1) /\ Table(l, 0)' = Table(l, 0)
         /\ Table0(l)' = Table0(l)
    <2>0. PML4 # NP BY TokenAssumption
    <2>1. mem'[PML4][Index(l, 3)] = mem[PML4][Index(l, 3)]
      BY <1>12, <2>0 DEF Table
    <2>2. Table2(l)' = Table2(l) BY <2>1 DEF Table2
    <2>3. Table1(l)' = Table1(l) BY <1>12, <2>2 DEF Table1, Lookup, Table
    <2>4. Table0(l)' = Table0(l) BY <1>12, <2>3 DEF Table0, Lookup, Table
    <2> QED BY <2>2, <2>3, <2>4 DEF Table
  <1>14. ASSUME NEW k \in 0 .. 3 PROVE Table(l, k)' = Table(l, k)
    <2>1. k = 0 \/ k = 1 \/ k = 2 \/ k = 3 OBVIOUS
    <2> QED BY <1>13, <2>1
  <1>15. Table0(l)' = Table0(l) /\ Table0(l) = Table(l, 0)
    <2>1. Table0(l) = Table(l, 0) BY DEF Table
    <2> QED BY <1>13, <2>1
  <1>16. CASE l = p
    <2>1. Table0(l) = top.tbl /\ top.tbl # NP
      BY <1>1, <1>6, <1>7, <1>15, <1>16, TablesType
    <2> QED BY <1>3, <1>6, <1>8, <1>10, <1>14, <1>15, <1>16, <2>1 DEF Translate, Lookup
  <1>17. CASE l # p
    <2>1. Table0(l) # NP =>
            mem'[Table0(l)][Index(l, 0)] = mem[Table0(l)][Index(l, 0)]
      <3> SUFFICES ASSUME Table0(l) # NP
                   PROVE  mem'[Table0(l)][Index(l, 0)] = mem[Table0(l)][Index(l, 0)]
        OBVIOUS
      <3>1. /\ Table0(l) \in Tables
            /\ Region(owner[Table0(l)].page, 0) = Region(l, 0)
        BY <1>1, <1>4, <1>15, WalkTables
      <3>2. ASSUME Table0(l) = top.tbl, Index(l, 0) = slot PROVE FALSE
        <4>1. Region(l, 0) = Region(p, 0) BY <1>6, <3>1, <3>2
        <4>2. Shift(l, 0) = Shift(p, 0) BY <1>3, <1>8, <3>2, <4>1, RegionStep
        <4> QED BY <1>17, <4>2 DEF Shift
      <3> QED BY <1>10, <1>11, <3>1, <3>2
    <2>2. Translate(l)' = Translate(l) BY <1>15, <2>1 DEF Translate, Lookup
    <2> QED BY <1>3, <1>14, <1>17, <2>2
  <1> QED BY <1>16, <1>17

\* An activation that returns leaves its page mapped.
LEMMA MapLeafMap == TreeInv /\ MapInv /\ MapLeaf /\ TypeInv' => MapInv'
PROOF
  <1> SUFFICES ASSUME TreeInv, MapInv, MapLeaf, TypeInv' PROVE MapInv' OBVIOUS
  <1>1. TypeInv /\ TypeOK /\ Bounds BY DEF TreeInv, TypeInv
  <1>2. /\ stack \in Seq(Frame) /\ stack # <<>> /\ pc = "map"
        /\ UNCHANGED <<oom, pc, i, cr3, biggestSegment, placement>>
    BY <1>1 DEF TypeOK, Bounds, MapLeaf
  <1>3. Allocated' = Allocated BY <1>2 DEF Allocated
  <1>4. ASSUME ~oom PROVE WalkOK' /\ Covered'
    <2>1. WalkOK /\ Covered BY <1>2, <1>4 DEF MapInv, InTables
    <2>2. /\ Len(stack) \in Nat /\ Len(stack') = Len(stack) - 1
          /\ \A j \in 1 .. Len(stack') : stack'[j] = stack[j]
      BY <1>2, PopStack, StackTop DEF MapLeaf
    <2>3. WalkOK'
      <3> SUFFICES ASSUME NEW j \in 1 .. Len(stack')
                   PROVE  (stack[j].tbl = Table(stack[j].logical, stack[j].lev))'
        BY DEF WalkOK
      <3>1. j \in 1 .. Len(stack) BY <2>2
      <3>2. PICK f \in Frame : f = stack[j] BY <1>2, <3>1, ElementOfSeq
      <3>3. f.logical \in Page /\ f.lev \in 0 .. 3 BY DEF Frame
      <3>4. f.tbl = Table(f.logical, f.lev) BY <2>1, <3>1, <3>2 DEF WalkOK
      <3>5. Table(f.logical, f.lev)' = Table(f.logical, f.lev)
        BY <1>4, <3>3, MapLeafEffect
      <3> QED BY <2>2, <3>2, <3>4, <3>5
    <2>4. Covered'
      <3> SUFFICES ASSUME NEW l \in 0 .. i - 1 \cup Allocated
                   PROVE  (Translate(l) # NP)' \/ Pending(l)'
        BY <1>2, <1>3 DEF Covered
      <3>1. l \in Page
        BY <1>1, <1>2, LimitAssumption, AllocatedType, PagesNat
        DEF TypeOK, Bounds, InTables, Page
      <3>2. Translate(l)' = IF l = top.logical THEN l ELSE Translate(l)
        BY <1>4, <3>1, MapLeafEffect
      <3>3. l # NP BY <3>1, TokenAssumption
      <3>4. CASE Translate(l) # NP BY <3>2, <3>3, <3>4
      <3>5. CASE Pending(l)
        <4>1. PICK j \in 1 .. Len(stack) : stack[j].logical = l
          BY <3>5 DEF Pending
        <4>2. CASE j = Len(stack) BY <3>2, <3>3, <4>1, <4>2 DEF top
        <4>3. CASE j # Len(stack)
          <5>1. j \in 1 .. Len(stack') BY <2>2, <4>3
          <5> QED BY <2>2, <4>1, <5>1 DEF Pending
        <4> QED BY <4>2, <4>3
      <3> QED BY <2>1, <3>4, <3>5 DEF Covered
    <2> QED BY <2>3, <2>4
  <1> QED BY <1>2, <1>4 DEF MapInv

\* Every step keeps the invariant of the mapping.
LEMMA MapStep == TreeInv /\ MapInv /\ [Next]_vars => MapInv'
PROOF
  <1> SUFFICES ASSUME TreeInv, MapInv, [Next]_vars PROVE MapInv' OBVIOUS
  <1>0. TypeInv /\ TypeInv' /\ TypeOK /\ Bounds BY TypeStep DEF TreeInv, TypeInv
  <1>1. CASE init_tss BY <1>0, <1>1 DEF MapInv, InTables, init_tss
  <1>2. CASE StartScan BY <1>0, <1>2 DEF MapInv, InTables, StartScan
  <1>3. CASE ScanEntry BY <1>0, <1>3 DEF MapInv, InTables, ScanEntry
  <1>4. CASE ScanDone
    <2>1. stack' = <<>> /\ i' = 0 /\ pc = "scan" /\ pc' = "map" /\ cr3' = cr3
      BY <1>0, <1>4 DEF Bounds, ScanDone
    <2>2. Allocated' = {}
      <3>1. biggestSegment.physAddr \in Nat BY <1>0 DEF TypeOK
      <3>2. Allocated' = biggestSegment.physAddr .. biggestSegment.physAddr - 1
        BY <1>4 DEF Allocated, ScanDone
      <3> QED BY <3>1, <3>2
    <2>3. WalkOK' /\ Covered' BY <2>1, <2>2, EmptySeq DEF WalkOK, Covered
    <2> QED BY <2>1, <2>3 DEF MapInv
  <1>5. CASE CallMapPage
    <2>1. /\ UNCHANGED <<mem, oom, pc, cr3, biggestSegment, placement>>
          /\ stack' = <<Activation(i)>> /\ stack = <<>> /\ i' = i + 1 /\ pc = "map"
      BY <1>5 DEF CallMapPage
    <2>2. Allocated' = Allocated /\ i \in Nat BY <1>0, <2>1 DEF Allocated, TypeOK
    <2>3. Len(stack') = 1 /\ stack'[1] = Activation(i) /\ Len(stack) = 0
      BY <2>1
    <2>4. WalkOK' BY <2>3 DEF WalkOK, Activation, Table
    <2>5. ASSUME ~oom PROVE Covered'
      <3> SUFFICES ASSUME NEW l \in 0 .. i \cup Allocated
                   PROVE  (Translate(l) # NP)' \/ Pending(l)'
        BY <2>1, <2>2 DEF Covered
      <3>1. CASE l = i BY <2>3, <3>1 DEF Pending, Activation
      <3>2. CASE l \in 0 .. i - 1 \cup Allocated
        <4>1. Covered BY <2>1, <2>5 DEF MapInv, InTables
        <4>2. Translate(l) # NP BY <2>3, <3>2, <4>1 DEF Covered, Pending
        <4> QED BY <2>1, <4>2 DEF Translate, Table0, Table1, Table2, Lookup
      <3> QED BY <2>2, <3>1, <3>2
    <2> QED BY <2>1, <2>4, <2>5 DEF MapInv
  <1>6. CASE AllocTable BY <1>0, <1>6, AllocTableMap
  <1>7. CASE Descend BY <1>0, <1>7, DescendMap
  <1>8. CASE MapLeaf BY <1>0, <1>8, MapLeafMap
  <1>9. CASE load_pml4 \/ UNCHANGED vars
    <2>1. /\ UNCHANGED <<mem, oom, i, stack, biggestSegment, placement>>
          /\ InTables' <=> InTables
      BY <1>9 DEF load_pml4, vars, InTables
    <2>2. /\ cr3' = PML4 => pc' = "done"
          /\ pc' = "done" => i' = Limit /\ stack' = <<>>
      BY <1>9 DEF MapInv, load_pml4, vars
    <2>3. Allocated' = Allocated
      <3>1. CASE load_pml4 BY <3>1 DEF load_pml4, Allocated
      <3>2. CASE UNCHANGED vars BY <3>2 DEF vars, Allocated
      <3> QED BY <1>9, <3>1, <3>2
    <2>4. ASSUME NEW f, f.tbl = Table(f.logical, f.lev)
          PROVE  f.tbl = Table(f.logical, f.lev)'
      BY <2>1, <2>4 DEF Table, Table0, Table1, Table2, Lookup
    <2>5. ASSUME WalkOK PROVE WalkOK' BY <2>1, <2>4, <2>5 DEF WalkOK
    <2>6. ASSUME NEW l PROVE Translate(l)' = Translate(l) /\ (Pending(l)' <=> Pending(l))
      <3>1. Translate(l)' = Translate(l)
        BY <2>1 DEF Translate, Table0, Table1, Table2, Lookup
      <3>2. Pending(l)' <=> Pending(l) BY <2>1 DEF Pending
      <3> QED BY <3>1, <3>2
    <2>7. ASSUME Covered PROVE Covered' BY <2>1, <2>3, <2>6, <2>7 DEF Covered
    <2> QED BY <2>1, <2>2, <2>5, <2>7 DEF MapInv
  <1> QED
    BY <1>1, <1>2, <1>3, <1>4, <1>5, <1>6, <1>7, <1>8, <1>9
    DEF Next, Done

\* When init_vmm hands the tables to the MMU, all pages that it was to map and
\* the pages of the tables themselves are mapped, unless memory ran out.
THEOREM AllMapped == Spec => []EverythingMapped
PROOF
  <1>1. Init => MapInv BY TokenAssumption DEF Init, MapInv, InTables
  <1>2. TreeInv /\ MapInv => EverythingMapped
    <2> SUFFICES ASSUME TreeInv, MapInv, cr3 = PML4, ~oom,
                        NEW l \in 0 .. Limit - 1 \cup Allocated
                 PROVE  Translate(l) # NP
      BY DEF EverythingMapped
    <2>1. pc = "done" /\ i = Limit /\ stack = <<>> BY DEF MapInv
    <2>2. Covered BY <2>1 DEF MapInv, InTables
    <2> QED BY <2>1, <2>2, EmptySeq DEF Covered, Pending
  <1> QED BY <1>1, <1>2, TreeInit, TreeStep, MapStep, PTL DEF Spec


-----------------------------------------------------------------------------
(* The tables implement an address space.                                  *)

Xlate == [l \in Page |-> IF InTables /\ ~oom THEN Translate(l) ELSE NP]

\* A step that allocates a table changes no translation: the new table is
\* entered where the walk stopped, and the walk stops in it.
LEMMA AllocTableEveryWalk ==
  ASSUME TreeInv, AllocTable, ~oom', NEW l \in Page
  PROVE  Translate(l)' = Translate(l)
PROOF
  <1> DEFINE n == placement
             Same(a, b) == \/ a = b /\ a \in Tables \cup {NP}
                           \/ a = NP /\ b = n
  <1>1. /\ TypeInv /\ LevelsOK /\ EntriesOK /\ NP \notin Tables /\ PML4 \in Tables
        /\ n \notin Tables /\ n # NP /\ mem'[n] = Zeroed /\ slot \in Idx
        /\ mem[top.tbl][slot] = NP /\ top.lev \in 1 .. 3
        /\ top.tbl \in Tables /\ owner[top.tbl].lev = top.lev
    BY AllocTableEffect, TablesType, TokenAssumption DEF TreeInv, Tables
  <1>2. \A t \in Tables, x \in Idx :
          mem'[t][x] = IF t = top.tbl /\ x = slot THEN n ELSE mem[t][x]
    BY AllocTableEffect
  <1>3. \A k \in 0 .. 3 : Index(l, k) \in Idx BY ShiftType
  <1> HIDE DEF n
  <1>4. \A k \in 0 .. 3 : Table(l, k) \in Tables \cup {NP}
    BY <1>1, WalkTables
  <1>5. ASSUME NEW k \in 1 .. 3, NEW a, NEW b, Same(a, b), a = Table(l, k)
        PROVE  Same(Lookup(a, Index(l, k)), Lookup(b, Index(l, k))')
    <2>1. CASE a = NP /\ b = n
      BY <1>1, <1>3, <2>1 DEF Lookup, Zeroed
    <2>2. CASE a = b /\ a = NP
      BY <2>2 DEF Lookup
    <2>3. CASE a = b /\ a \in Tables
      <3> DEFINE e == mem[a][Index(l, k)]
      <3>1. Table(l, k - 1) = e BY <1>1, <1>5, <2>3, WalkStep DEF Lookup
      <3>2. e \in Tables \cup {NP}
        <4>1. k - 1 \in 0 .. 3 OBVIOUS
        <4> QED BY <1>4, <3>1, <4>1
      <3>3. Index(l, k) \in Idx BY <1>3
      <3>4. \/ mem'[a][Index(l, k)] = e
            \/ e = NP /\ mem'[a][Index(l, k)] = n
        BY <1>1, <1>2, <2>3, <3>3
      <3>5. /\ Lookup(a, Index(l, k)) = e
            /\ Lookup(b, Index(l, k))' = mem'[a][Index(l, k)]
        BY <1>1, <2>3 DEF Lookup
      <3> QED BY <3>2, <3>4, <3>5
    <2> QED BY <1>5, <2>1, <2>2, <2>3
  <1>6. Same(Table2(l), Table2(l)')
    <2>1. PML4 = Table(l, 3) /\ PML4 # NP BY TokenAssumption DEF Table
    <2>2. Same(Lookup(PML4, Index(l, 3)), Lookup(PML4, Index(l, 3))')
      BY <1>1, <1>5, <2>1
    <2> QED BY <2>1, <2>2 DEF Table2, Lookup
  <1>7. Same(Table1(l), Table1(l)')
    <2>1. PICK b : b = Table2(l)' OBVIOUS
    <2>2. Table2(l) = Table(l, 2) BY DEF Table
    <2>3. Same(Lookup(Table2(l), Index(l, 2)), Lookup(b, Index(l, 2))')
      BY <1>5, <1>6, <2>1, <2>2
    <2> QED BY <2>1, <2>3 DEF Table1, Lookup
  <1>8. Same(Table0(l), Table0(l)')
    <2>1. PICK b : b = Table1(l)' OBVIOUS
    <2>2. Table1(l) = Table(l, 1) BY DEF Table
    <2>3. Same(Lookup(Table1(l), Index(l, 1)), Lookup(b, Index(l, 1))')
      BY <1>5, <1>7, <2>1, <2>2
    <2> QED BY <2>1, <2>3 DEF Table0, Lookup
  <1>9. CASE Table0(l) = NP /\ Table0(l)' = n
    BY <1>1, <1>3, <1>9 DEF Translate, Lookup, Zeroed
  <1>10. CASE Table0(l)' = Table0(l) /\ Table0(l) = NP
    BY <1>10 DEF Translate, Lookup
  <1>11. CASE Table0(l)' = Table0(l) /\ Table0(l) # NP
    <2>1. Table0(l) = Table(l, 0) BY DEF Table
    <2>2. Table0(l) \in Tables /\ owner[Table0(l)].lev = 0
      BY <1>1, <1>11, <2>1, WalkTables
    <2>3. Table0(l) # top.tbl BY <1>1, <2>2
    <2>4. mem'[Table0(l)][Index(l, 0)] = mem[Table0(l)][Index(l, 0)]
      BY <1>2, <1>3, <2>2, <2>3
    <2> QED BY <1>11, <2>4 DEF Translate, Lookup
  <1> QED BY <1>8, <1>9, <1>10, <1>11

\* A step of the code is one of the address space, or leaves it as it is.
LEMMA RefinementStep ==
  TreeInv /\ MapInv /\ [Next]_vars => [AS!Next]_<<Xlate, oom>>
PROOF
  <1> SUFFICES ASSUME TreeInv, MapInv, [Next]_vars
               PROVE  AS!Next \/ UNCHANGED <<Xlate, oom>>
    OBVIOUS
  <1>0. TypeInv /\ TypeOK /\ Bounds BY DEF TreeInv, TypeInv
  <1>1. CASE init_tss \/ StartScan \/ ScanEntry
    BY <1>1 DEF Xlate, InTables, init_tss, StartScan, ScanEntry
  <1>2. CASE ScanDone
    <2>1. mem'[PML4] = Zeroed /\ ~InTables /\ UNCHANGED oom
      BY <1>0, <1>2 DEF TypeOK, ScanDone, InTables
    <2>2. ASSUME NEW l \in Page PROVE Translate(l)' = NP
      <3>1. Index(l, 3) \in Idx BY ShiftType
      <3> QED BY <2>1, <3>1 DEF Translate, Table0, Table1, Table2, Lookup, Zeroed
    <2> QED BY <2>1, <2>2 DEF Xlate
  <1>3. CASE AllocTable
    <2>1. CASE oom'
      <3>1. CASE oom BY <2>1, <3>1 DEF Xlate
      <3>2. CASE ~oom
        <4>1. oom' = TRUE BY <1>3, <2>1 DEF AllocTable
        <4>2. [l \in Page |-> IF InTables /\ ~oom THEN Translate(l) ELSE NP]'
                = [l \in Page |-> NP]
          BY <4>1
        <4>3. AS!Exhaust BY <3>2, <4>1, <4>2 DEF AS!Exhaust
        <4> QED BY <4>3 DEF AS!Next
      <3> QED BY <3>1, <3>2
    <2>2. CASE ~oom'
      <3>1. InTables /\ InTables' /\ ~oom
        BY <1>3, <2>2, AllocTableEffect DEF InTables
      <3>2. oom' = oom BY <1>0, <1>3, <2>2, <3>1 DEF TypeOK, AllocTable
      <3>3. \A l \in Page : Translate(l)' = Translate(l)
        BY <1>3, <2>2, AllocTableEveryWalk
      <3> QED BY <3>1, <3>2, <3>3 DEF Xlate
    <2> QED BY <2>1, <2>2
  <1>4. CASE MapLeaf
    <2>1. InTables /\ InTables' /\ oom' = oom
      BY <1>0, <1>4 DEF Bounds, MapLeaf, InTables
    <2>2. CASE oom BY <2>1, <2>2 DEF Xlate
    <2>3. CASE ~oom
      <3> DEFINE p == top.logical
      <3>1. p \in Page
        <4>1. top \in Frame BY <1>0, <1>4, StackTop DEF TypeOK, MapLeaf
        <4> QED BY <4>1 DEF Frame
      <3>2. \A l \in Page : Translate(l)' = IF l = p THEN l ELSE Translate(l)
        BY <1>4, <2>3, MapLeafEffect
      <3> HIDE DEF p
      <3>3. /\ Xlate = [l \in Page |-> Translate(l)]
            /\ Xlate' = [l \in Page |-> IF l = p THEN l ELSE Translate(l)]
        BY <2>1, <2>3, <3>2 DEF Xlate
      <3>4. Translate(p) \in {NP, p}
        BY <2>1, <2>3, <3>1, WalkIdentity DEF TreeInv, TreeOK
      <3>5. CASE Translate(p) = p
        <4>1. \A l \in Page : (IF l = p THEN l ELSE Translate(l)) = Translate(l)
          BY <3>5
        <4> QED BY <2>1, <3>3, <4>1
      <3>6. CASE Translate(p) = NP
        <4>1. Xlate' = [Xlate EXCEPT ![p] = p] BY <3>3
        <4>2. Xlate[p] = NP BY <3>1, <3>3, <3>6
        <4>3. AS!Map(p) BY <2>1, <2>3, <4>1, <4>2 DEF AS!Map, Xlate
        <4> QED BY <3>1, <4>3 DEF AS!Next
      <3> QED BY <3>4, <3>5, <3>6
    <2> QED BY <2>2, <2>3
  <1>5. CASE CallMapPage \/ Descend \/ load_pml4 \/ UNCHANGED vars
    <2>1. UNCHANGED <<mem, oom>> /\ (InTables' <=> InTables)
      BY <1>5 DEF CallMapPage, Descend, load_pml4, vars, InTables
    <2>2. ASSUME NEW l PROVE Translate(l)' = Translate(l)
      BY <2>1 DEF Translate, Table0, Table1, Table2, Lookup
    <2> QED BY <2>1, <2>2 DEF Xlate
  <1> QED BY <1>1, <1>2, <1>3, <1>4, <1>5 DEF Next, Done

\* The recursion of map_page implements an address space: each of its steps
\* maps one page to itself or changes no translation, until memory runs out.
THEOREM Refinement == Spec => ImplementsAddressSpace
PROOF
  <1>1. Init => AS!Init BY DEF Init, AS!Init, InTables
  <1>2. Init => MapInv BY TokenAssumption DEF Init, MapInv, InTables
  <1>3. TreeInv /\ MapInv /\ [Next]_vars => [AS!Next]_<<Xlate, oom>>
    BY RefinementStep
  <1> QED
    BY <1>1, <1>2, <1>3, TreeInit, TreeStep, MapStep, PTL
    DEF Spec, ImplementsAddressSpace, AS!Spec, Xlate

-----------------------------------------------------------------------------
(* Counting.                                                               *)

\* A set that is mapped into D one-to-one, all of it past d, is smaller than D.
LEMMA SmallerIfMissed ==
  ASSUME NEW A, NEW D, IsFiniteSet(D), NEW f \in [A -> D], NEW d \in D,
         \A t \in A, u \in A : f[t] = f[u] => t = u,
         \A t \in A : f[t] # d
  PROVE  IsFiniteSet(A) /\ Cardinality(A) \in Nat /\ Cardinality(A) < Cardinality(D)
PROOF
  <1>1. IsFiniteSet(D \ {d}) /\ Cardinality(D \ {d}) = Cardinality(D) - 1
    BY FS_RemoveElement
  <1>2. f \in Injection(A, D \ {d})
    <2>1. f \in [A -> D \ {d}] OBVIOUS
    <2> QED BY <2>1 DEF Injection, IsInjective
  <1>3. IsFiniteSet(A) /\ Cardinality(A) <= Cardinality(D \ {d})
    BY <1>1, <1>2, FS_Injection
  <1> QED BY <1>1, <1>3, FS_CardinalityType

\* A set that is mapped into D one-to-one is not larger than D.
LEMMA NotLarger ==
  ASSUME NEW A, NEW D, IsFiniteSet(D), NEW f \in [A -> D],
         \A t \in A, u \in A : f[t] = f[u] => t = u
  PROVE  IsFiniteSet(A) /\ Cardinality(A) \in Nat /\ Cardinality(A) <= Cardinality(D)
PROOF
  <1>1. f \in Injection(A, D) BY DEF Injection, IsInjective
  <1> QED BY <1>1, FS_Injection, FS_CardinalityType

\* The size of the union of two disjoint sets.
LEMMA TwoParts ==
  ASSUME NEW A, NEW B, IsFiniteSet(A), IsFiniteSet(B), A \cap B = {}
  PROVE  IsFiniteSet(A \cup B) /\ Cardinality(A \cup B) = Cardinality(A) + Cardinality(B)
PROOF
  <1>1. /\ IsFiniteSet(A \cup B)
        /\ Cardinality(A \cup B)
             = Cardinality(A) + Cardinality(B) - Cardinality(A \cap B)
    BY FS_Union
  <1>2. Cardinality(A \cap B) = 0 BY FS_EmptySet
  <1>3. Cardinality(A) \in Nat /\ Cardinality(B) \in Nat BY FS_CardinalityType
  <1> QED BY <1>1, <1>2, <1>3

\* The size of the union of three disjoint sets.
LEMMA ThreeParts ==
  ASSUME NEW A, NEW B, NEW C, IsFiniteSet(A), IsFiniteSet(B), IsFiniteSet(C),
         A \cap B = {}, A \cap C = {}, B \cap C = {}
  PROVE  Cardinality((A \cup B) \cup C)
           = Cardinality(A) + Cardinality(B) + Cardinality(C)
PROOF
  <1>1. IsFiniteSet(A \cup B) /\ Cardinality(A \cup B) = Cardinality(A) + Cardinality(B)
    BY TwoParts
  <1>2. (A \cup B) \cap C = {} OBVIOUS
  <1> DEFINE AB == A \cup B
  <1> HIDE DEF AB
  <1>3. IsFiniteSet(AB) /\ AB \cap C = {} BY <1>1, <1>2 DEF AB
  <1>4. Cardinality(AB \cup C) = Cardinality(AB) + Cardinality(C)
    BY <1>3, TwoParts
  <1> QED BY <1>1, <1>4 DEF AB

\* A set of pages has finitely many regions.
LEMMA ShiftsFinite ==
  ASSUME NEW S \in SUBSET Page, NEW k \in 0 .. 3
  PROVE  /\ IsFiniteSet({Shift(l, k) : l \in S})
         /\ Cardinality({Shift(l, k) : l \in S}) \in Nat
PROOF
  <1> DEFINE D == {Shift(l, k) : l \in S}
             f == [l \in S |-> Shift(l, k)]
  <1>1. IsFiniteSet(Page) BY PagesNat, FS_Interval DEF Page
  <1>2. IsFiniteSet(S) BY <1>1, FS_Subset
  <1>3. f \in Surjection(S, D) BY DEF Surjection
  <1> HIDE DEF f, D
  <1>4. IsFiniteSet(D) BY <1>2, <1>3, FS_Surjection
  <1> QED BY <1>4, FS_CardinalityType DEF D

-----------------------------------------------------------------------------
(* Tables of different pages.                                              *)

\* Pages that share their table of a level share the walk to it.
LEMMA SameWalk ==
  ASSUME NEW a \in Page, NEW b \in Page, NEW k \in 0 .. 3, Region(a, k) = Region(b, k)
  PROVE  Table(a, k) = Table(b, k)
PROOF
  <1>1. /\ Shift(a, 2) = Shift(a, 1) \div R /\ Shift(b, 2) = Shift(b, 1) \div R
        /\ Shift(a, 3) = Shift(a, 2) \div R /\ Shift(b, 3) = Shift(b, 2) \div R
    BY DEF Shift
  <1>2. ASSUME Shift(a, 3) = Shift(b, 3) PROVE Table2(a) = Table2(b)
    BY <1>2 DEF Table2, Index
  <1>3. ASSUME Shift(a, 2) = Shift(b, 2) PROVE Table1(a) = Table1(b)
    <2>1. Table2(a) = Table2(b) BY <1>1, <1>2, <1>3
    <2>2. Index(a, 2) = Index(b, 2) BY <1>3 DEF Index
    <2> QED BY <2>1, <2>2 DEF Table1
  <1>4. ASSUME Shift(a, 1) = Shift(b, 1) PROVE Table0(a) = Table0(b)
    <2>1. Table1(a) = Table1(b) BY <1>1, <1>3, <1>4
    <2>2. Index(a, 1) = Index(b, 1) BY <1>4 DEF Index
    <2> QED BY <2>1, <2>2 DEF Table0
  <1>5. CASE k = 3 BY <1>5 DEF Table
  <1>6. CASE k = 2 BY <1>2, <1>6 DEF Table, Region
  <1>7. CASE k = 1 BY <1>3, <1>7 DEF Table, Region
  <1>8. CASE k = 0 BY <1>4, <1>8 DEF Table, Region
  <1> QED BY <1>5, <1>6, <1>7, <1>8

\* A table lies on the walk to the page it was allocated for.
Registered == \A t \in Allocated : Table(owner[t].page, owner[t].lev) = t

\* No two tables have the same level and region, and none has those of the
\* table that is found to be missing.
LEMMA TablesDiffer ==
  ASSUME TreeInv, MapInv, InTables, ~oom, Registered
  PROVE  /\ \A t \in Allocated, u \in Allocated :
              owner[t].lev = owner[u].lev
              /\ Shift(owner[t].page, owner[t].lev + 1)
                   = Shift(owner[u].page, owner[u].lev + 1)
              => t = u
         /\ stack # <<>> /\ top.lev > 0 /\ mem[top.tbl][slot] = NP =>
              \A t \in Allocated :
                owner[t].lev = top.lev - 1 =>
                  Shift(owner[t].page, top.lev) # Shift(top.logical, top.lev)
PROOF
  <1>1. TypeInv /\ TypeOK /\ LevelsOK /\ EntriesOK /\ StackOK /\ WalkOK
    BY DEF TreeInv, TreeOK, TypeInv, MapInv
  <1>2. ASSUME NEW t \in Allocated
        PROVE  t \in Page /\ t # NP /\ owner[t].page \in Page /\ owner[t].lev \in 0 .. 2
    BY <1>1, AllocatedType, TokenAssumption DEF TypeOK, LevelsOK
  <1>3. ASSUME NEW t \in Allocated, NEW u \in Allocated,
               owner[t].lev = owner[u].lev,
               Shift(owner[t].page, owner[t].lev + 1)
                 = Shift(owner[u].page, owner[u].lev + 1)
        PROVE  t = u
    <2>1. Region(owner[t].page, owner[t].lev) = Region(owner[u].page, owner[t].lev)
      BY <1>2, <1>3 DEF Region
    <2>2. Table(owner[t].page, owner[t].lev) = Table(owner[u].page, owner[t].lev)
      BY <1>2, <2>1, SameWalk
    <2> QED BY <1>3, <2>2 DEF Registered
  <1>4. ASSUME stack # <<>>, top.lev > 0, mem[top.tbl][slot] = NP,
               NEW t \in Allocated, owner[t].lev = top.lev - 1,
               Shift(owner[t].page, top.lev) = Shift(top.logical, top.lev)
        PROVE  FALSE
    <2>1. top \in Frame /\ Len(stack) \in 1 .. Len(stack) BY <1>1, <1>4, StackTop DEF TypeOK
    <2>2. top.logical \in Page /\ top.lev \in 1 .. 3 BY <1>4, <2>1 DEF Frame
    <2>3. Region(owner[t].page, top.lev - 1) = Region(top.logical, top.lev - 1)
      BY <1>4, <2>2 DEF Region
    <2>4. Table(owner[t].page, top.lev - 1) = Table(top.logical, top.lev - 1)
      BY <1>2, <2>2, <2>3, SameWalk
    <2>5. top.tbl = Table(top.logical, top.lev) BY <1>1, <2>1 DEF WalkOK, top
    <2>6. top.tbl # NP
      <3>1. FrameOK(top, Tables, owner, mem) BY <1>1, <2>1 DEF StackOK, top
      <3> QED BY <1>1, <3>1, TablesType DEF FrameOK
    <2>7. Table(top.logical, top.lev - 1) = NP
      BY <1>4, <2>2, <2>5, <2>6, WalkStep DEF Lookup, slot
    <2> QED BY <1>2, <1>4, <2>4, <2>7 DEF Registered
  <1> QED BY <1>3, <1>4


-----------------------------------------------------------------------------
(* The segment and the pages that need tables.                             *)

Base  == biggestSegment.physAddr
Size  == biggestSegment.nPages + (placement - Base)
Space == 0 .. Limit - 1 \cup Base .. Base + Size - 1

InSpace == /\ \A t \in Allocated : owner[t].page \in Space
           /\ \A j \in 1 .. Len(stack) : stack[j].logical \in Space

SpaceInv ==
  /\ InTables /\ ~oom => Registered /\ InSpace
  /\ oom => Size < TablesFor(Space)

\* The bounds of the segment, and of its pages in use.
LEMMA SpacePages ==
  ASSUME TypeInv, InTables
  PROVE  /\ Base \in Nat /\ Size \in Nat /\ Base <= placement /\ placement \in Nat
         /\ Space \subseteq Page
         /\ Allocated = Base .. placement - 1
         /\ Allocated \subseteq Space
PROOF
  <1>1. /\ Base \in Nat /\ biggestSegment.nPages \in Nat /\ placement \in Nat
        /\ Base <= placement /\ UsableSegment(Base, Size)
    BY DEF TypeInv, TypeOK, Bounds, Base, Size
  <1>2. Size \in Nat /\ placement - Base <= Size BY <1>1 DEF Size
  <1>3. Size > 0 => Base + Size <= Pages
    BY <1>1, <1>2, SegmentBound DEF TypeInv
  <1> HIDE DEF Base, Size
  <1>4. Space \subseteq Page
    BY <1>1, <1>2, <1>3, LimitAssumption, PagesNat DEF Space, Page
  <1>5. Allocated = Base .. placement - 1
    BY DEF Allocated, InTables, Base
  <1>6. Allocated \subseteq Space BY <1>1, <1>2, <1>5 DEF Space
  <1> QED BY <1>1, <1>2, <1>4, <1>5, <1>6

\* When alloc_page runs dry, each page of the segment is a table, and one more
\* was needed.
LEMMA RunsDry ==
  ASSUME TreeInv, MapInv, SpaceInv, AllocTable, ~oom, biggestSegment.nPages = 0
  PROVE  Size < TablesFor(Space)
PROOF
  <1> DEFINE A(k) == {t \in Allocated : owner[t].lev = k - 1}
             D(k) == {Shift(l, k) : l \in Space}
             g(k) == [t \in A(k) |-> Shift(owner[t].page, k)]
  <1>1. TypeInv /\ TypeOK /\ Bounds BY DEF TreeInv, TypeInv
  <1>2. InTables /\ stack # <<>> /\ top.lev > 0 /\ mem[top.tbl][slot] = NP
    BY <1>1 DEF Bounds, AllocTable, InTables
  <1>3. Registered /\ InSpace /\ LevelsOK BY <1>2 DEF SpaceInv, TreeInv, TreeOK
  <1>4. Space \subseteq Page /\ Allocated = Base .. placement - 1
        /\ Size = placement - Base /\ Base \in Nat /\ placement \in Nat /\ Base <= placement
    BY <1>1, <1>2, SpacePages DEF Size
  <1>5. IsFiniteSet(Allocated) /\ Cardinality(Allocated) = Size
    BY <1>4, FS_Interval
  <1>6. top.lev \in 1 .. 3 /\ top.logical \in Space
    <2>1. top \in Frame /\ Len(stack) \in 1 .. Len(stack)
      BY <1>1, <1>2, StackTop DEF TypeOK
    <2> QED BY <1>2, <1>3, <2>1 DEF Frame, InSpace, top
  <1>7. ASSUME NEW k \in 1 .. 3
        PROVE  /\ IsFiniteSet(A(k)) /\ Cardinality(A(k)) \in Nat
               /\ Cardinality(D(k)) \in Nat
               /\ Cardinality(A(k)) <= Cardinality(D(k))
               /\ k = top.lev => Cardinality(A(k)) < Cardinality(D(k))
    <2> DEFINE a == A(k)  d == D(k)  f == g(k)
    <2>1. IsFiniteSet(d) /\ Cardinality(d) \in Nat
      <3>1. k \in 0 .. 3 /\ Space \in SUBSET Page BY <1>4
      <3>2. /\ IsFiniteSet({Shift(l, k) : l \in Space})
            /\ Cardinality({Shift(l, k) : l \in Space}) \in Nat
        BY <3>1, ShiftsFinite
      <3> QED BY <3>2
    <2>2. f \in [a -> d] BY <1>3 DEF InSpace
    <2>3. \A t \in a, u \in a : f[t] = f[u] => t = u
      BY <1>2, <1>3, TablesDiffer
    <2>4. k = top.lev => Shift(top.logical, k) \in d
                         /\ \A t \in a : f[t] # Shift(top.logical, k)
      BY <1>2, <1>3, <1>6, TablesDiffer
    <2> HIDE DEF a, d, f
    <2>5. IsFiniteSet(a) /\ Cardinality(a) \in Nat /\ Cardinality(a) <= Cardinality(d)
      BY <2>1, <2>2, <2>3, NotLarger
    <2>6. ASSUME k = top.lev PROVE Cardinality(a) < Cardinality(d)
      <3>1. PICK e \in d : \A t \in a : f[t] # e BY <2>4, <2>6
      <3> QED BY <2>1, <2>2, <2>3, <3>1, SmallerIfMissed
    <2> QED BY <2>1, <2>5, <2>6 DEF a, d
  <1>8. Allocated = (A(1) \cup A(2)) \cup A(3) BY <1>3 DEF LevelsOK
  <1>9. A(1) \cap A(2) = {} /\ A(1) \cap A(3) = {} /\ A(2) \cap A(3) = {}
    OBVIOUS
  <1>10. TablesFor(Space) = Cardinality(D(1)) + Cardinality(D(2)) + Cardinality(D(3))
    BY DEF TablesFor
  <1> HIDE DEF A, D, g
  <1>11. Cardinality((A(1) \cup A(2)) \cup A(3))
           = Cardinality(A(1)) + Cardinality(A(2)) + Cardinality(A(3))
    BY <1>7, <1>9, ThreeParts
  <1>12. Size = Cardinality(A(1)) + Cardinality(A(2)) + Cardinality(A(3))
    BY <1>5, <1>8, <1>11
  <1>13. /\ Cardinality(A(1)) \in Nat /\ Cardinality(A(1)) <= Cardinality(D(1))
         /\ Cardinality(A(2)) \in Nat /\ Cardinality(A(2)) <= Cardinality(D(2))
         /\ Cardinality(A(3)) \in Nat /\ Cardinality(A(3)) <= Cardinality(D(3))
         /\ Cardinality(D(1)) \in Nat /\ Cardinality(D(2)) \in Nat
         /\ Cardinality(D(3)) \in Nat
    BY <1>7
  <1>14. \/ Cardinality(A(1)) < Cardinality(D(1))
         \/ Cardinality(A(2)) < Cardinality(D(2))
         \/ Cardinality(A(3)) < Cardinality(D(3))
    <2>1. top.lev = 1 \/ top.lev = 2 \/ top.lev = 3 BY <1>6
    <2> QED BY <1>7, <2>1
  <1> QED BY <1>10, <1>12, <1>13, <1>14


\* alloc_page keeps the segment's base, and the total of its free and used pages.
LEMMA SpaceKept ==
  ASSUME TypeInv, AllocTable
  PROVE  Base' = Base /\ Size' = Size
PROOF
  <1>1. /\ biggestSegment \in Segment /\ placement \in Nat /\ biggestSegment.nPages \in Nat
        /\ biggestSegment.physAddr \in Nat
    BY DEF TypeInv, TypeOK
  <1>2. CASE biggestSegment.nPages = 0
    BY <1>1, <1>2 DEF AllocTable, alloc_page, Base, Size
  <1>3. CASE biggestSegment.nPages # 0
    <2>1. /\ biggestSegment' = [biggestSegment EXCEPT !.nPages = @ - 1]
          /\ placement' = placement + 1
      BY <1>3 DEF AllocTable, alloc_page
    <2>2. /\ biggestSegment'.physAddr = biggestSegment.physAddr
          /\ biggestSegment'.nPages = biggestSegment.nPages - 1
      BY <1>1, <2>1
    <2> QED BY <1>1, <2>1, <2>2 DEF Base, Size
  <1> QED BY <1>2, <1>3

\* A step that allocates a table keeps the invariant, the step that finds no
\* page included.
LEMMA AllocTableSpace ==
  TreeInv /\ MapInv /\ SpaceInv /\ AllocTable /\ TypeInv' => SpaceInv'
PROOF
  <1> SUFFICES ASSUME TreeInv, MapInv, SpaceInv, AllocTable, TypeInv' PROVE SpaceInv'
    OBVIOUS
  <1>1. TypeInv /\ TypeOK /\ Bounds BY DEF TreeInv, TypeInv
  <1>2. Base' = Base /\ Size' = Size BY <1>1, SpaceKept
  <1>3. Space' = Space BY <1>2 DEF Space
  <1>4. CASE oom'
    <2>1. \/ oom
          \/ ~oom /\ biggestSegment.nPages = 0
      BY <1>4 DEF AllocTable
    <2>2. Size < TablesFor(Space) BY <2>1, RunsDry DEF SpaceInv
    <2>3. Size' < TablesFor(Space') BY <1>2, <1>3, <2>2
    <2> QED BY <1>4, <2>3 DEF SpaceInv, TablesFor
  <1>5. CASE ~oom'
    <2> DEFINE n == placement
               g == [top EXCEPT !.tested = TRUE]
               s == [stack EXCEPT ![Len(stack)] = g]
               h == Activation(n)
    <2>1. InTables /\ InTables' BY <1>5, AllocTableEffect DEF InTables
    <2>2. /\ ~oom /\ LevelsOK /\ EntriesOK /\ n \in Page /\ NextPage = n /\ n # NP
          /\ stack \in Seq(Frame) /\ stack # <<>> /\ top \in Frame
          /\ top.lev \in 1 .. 3 /\ top.logical \in Page /\ slot \in Idx
          /\ n \notin Tables /\ Allocated' = Allocated \cup {n}
          /\ top.tbl \in Tables
      BY <1>5, AllocTableEffect, TokenAssumption
    <2>3. \A t \in Tables, x \in Idx :
            mem'[t][x] = IF t = top.tbl /\ x = slot THEN n ELSE mem[t][x]
      BY <1>5, AllocTableEffect
    <2>4. \A t \in Tables, x \in Idx : mem[t][x] # NP => mem'[t][x] = mem[t][x]
      BY <1>5, AllocTableEffect
    <2>5. Registered /\ InSpace /\ WalkOK
      BY <2>1, <2>2 DEF SpaceInv, MapInv
    <2>6. Allocated' \subseteq Space
      <3>1. /\ Base \in Nat /\ placement \in Nat /\ Base <= placement
            /\ Allocated \subseteq Space
        BY <1>1, <2>1, SpacePages
      <3>2. biggestSegment.nPages \in Nat /\ biggestSegment.nPages > 0
        <4>1. biggestSegment.nPages \in Nat BY <1>1 DEF TypeOK
        <4>2. biggestSegment.nPages # 0 BY <1>5 DEF AllocTable
        <4> QED BY <4>1, <4>2
      <3>3. n \in Space BY <3>1, <3>2 DEF Space, Size
      <3> QED BY <2>2, <3>1, <3>3
    <2>7. /\ owner'[n].lev = top.lev - 1 /\ owner'[n].page = top.logical
          /\ \A t \in Allocated : owner'[t] = owner[t]
      BY <1>1, <2>2 DEF TypeOK, AllocTable, Tables
    <2>8. Registered'
      <3> SUFFICES ASSUME NEW t \in Allocated \cup {n}
                   PROVE  (Table(owner[t].page, owner[t].lev) = t)'
        BY <2>2 DEF Registered
      <3>1. CASE t \in Allocated
        <4>1. PICK p \in Page, k \in 0 .. 2 : p = owner[t].page /\ k = owner[t].lev
          BY <1>1, <2>2, <3>1, AllocatedType DEF TypeOK, LevelsOK
        <4>2. Table(p, k) = t /\ t # NP
          BY <1>1, <2>5, <3>1, <4>1, AllocatedType, TokenAssumption DEF Registered
        <4>3. k \in 0 .. 3 OBVIOUS
        <4>4. Table(p, k)' = Table(p, k)
          BY <1>1, <2>2, <2>4, <4>2, <4>3, WalkStable
        <4> QED BY <2>7, <3>1, <4>1, <4>2, <4>4
      <3>2. CASE t = n
        <4>1. PICK p \in Page : p = top.logical BY <2>2
        <4>2. PICK k \in 1 .. 3 : k = top.lev BY <2>2
        <4>3. top.tbl = Table(p, k) /\ top.tbl # NP
          BY <1>1, <2>2, <2>5, <4>1, <4>2, StackTop, TablesType DEF WalkOK, top
        <4>4. Table(p, k)' = top.tbl
          BY <1>1, <2>2, <2>4, <4>1, <4>2, <4>3, WalkStable
        <4>5. mem'[top.tbl][Index(p, k)] = n
          BY <2>2, <2>3, <4>1, <4>2 DEF slot
        <4>6. Table(p, k - 1)' = n
          <5>1. CASE k = 3 BY <4>4, <4>5, <5>1 DEF Table, Table2
          <5>2. CASE k = 2
            <6>1. Table2(p)' = top.tbl BY <4>4, <5>2 DEF Table
            <6>2. Table1(p)' = n BY <4>3, <4>5, <5>2, <6>1 DEF Table1, Lookup
            <6> QED BY <5>2, <6>2 DEF Table
          <5>3. CASE k = 1
            <6>1. Table1(p)' = top.tbl BY <4>4, <5>3 DEF Table
            <6>2. Table0(p)' = n BY <4>3, <4>5, <5>3, <6>1 DEF Table0, Lookup
            <6> QED BY <5>3, <6>2 DEF Table
          <5> QED BY <5>1, <5>2, <5>3
        <4> QED BY <2>7, <3>2, <4>1, <4>2, <4>6
      <3> QED BY <3>1, <3>2
    <2>9. InSpace'
      <3>1. g \in Frame /\ h \in Frame /\ g.logical = top.logical /\ h.logical = n
        BY <2>2, ActivationFrame DEF Frame, Activation
      <3>2. stack' = Append(s, h) BY <2>2 DEF AllocTable
      <3> HIDE DEF g, h
      <3>3. /\ s \in Seq(Frame) /\ Len(s) = Len(stack) /\ Len(stack) \in 1 .. Len(stack)
            /\ \A j \in 1 .. Len(s) : s[j] = IF j = Len(s) THEN g ELSE stack[j]
        BY <2>2, <3>1, ReplaceTop, StackTop
      <3> HIDE DEF s
      <3>4. /\ Len(stack') = Len(stack) + 1 /\ stack'[Len(stack) + 1] = h
            /\ \A j \in 1 .. Len(stack) : stack'[j] = s[j]
        BY <3>1, <3>2, <3>3, AppendProperties
      <3>5. top.logical \in Space BY <2>5, <3>3 DEF InSpace, top
      <3>6. \A t \in Allocated' : owner'[t].page \in Space
        BY <2>2, <2>5, <2>7, <3>5 DEF InSpace
      <3>7. ASSUME NEW j \in 1 .. Len(stack') PROVE stack'[j].logical \in Space
        <4>1. CASE j = Len(stack) + 1 BY <2>2, <2>6, <3>1, <3>4, <4>1
        <4>2. CASE j \in 1 .. Len(stack)
          BY <2>5, <3>1, <3>3, <3>4, <3>5, <4>2 DEF InSpace
        <4> QED BY <3>3, <3>4, <4>1, <4>2
      <3> QED BY <1>3, <3>6, <3>7 DEF InSpace
    <2> QED BY <1>5, <2>8, <2>9 DEF SpaceInv
  <1> QED BY <1>4, <1>5

\* Every step keeps the invariant of the segment.
LEMMA SpaceStep == TreeInv /\ MapInv /\ SpaceInv /\ [Next]_vars => SpaceInv'
PROOF
  <1> SUFFICES ASSUME TreeInv, MapInv, SpaceInv, [Next]_vars PROVE SpaceInv' OBVIOUS
  <1>0. TypeInv /\ TypeInv' /\ TypeOK /\ Bounds BY TypeStep DEF TreeInv, TypeInv
  <1>1. CASE init_tss \/ StartScan \/ ScanEntry
    <2>1. ~InTables /\ ~InTables' /\ oom' = oom
      BY <1>1 DEF InTables, init_tss, StartScan, ScanEntry
    <2> QED BY <2>1 DEF SpaceInv, TreeInv
  <1>2. CASE ScanDone
    <2>1. stack' = <<>> /\ oom' = oom /\ ~oom
      BY <1>0, <1>2 DEF Bounds, ScanDone, TreeInv, InTables
    <2>2. Allocated' = {}
      <3>1. biggestSegment.physAddr \in Nat BY <1>0 DEF TypeOK
      <3>2. Allocated' = biggestSegment.physAddr .. biggestSegment.physAddr - 1
        BY <1>2 DEF Allocated, ScanDone
      <3> QED BY <3>1, <3>2
    <2> QED BY <2>1, <2>2, EmptySeq DEF SpaceInv, Registered, InSpace
  <1>3. CASE AllocTable BY <1>0, <1>3, AllocTableSpace
  <1>4. CASE CallMapPage \/ Descend \/ MapLeaf \/ load_pml4 \/ UNCHANGED vars
    <2>1. UNCHANGED <<oom, owner, biggestSegment, placement>> /\ (InTables' <=> InTables)
      BY <1>0, <1>4
      DEF CallMapPage, Descend, MapLeaf, load_pml4, vars, InTables, Bounds
    <2>2. Base' = Base /\ Size' = Size BY <2>1 DEF Base, Size
    <2>3. Space' = Space BY <2>2 DEF Space
    <2>4. Allocated' = Allocated
      BY <1>0, <1>4, <2>1
      DEF Allocated, CallMapPage, Descend, MapLeaf, load_pml4, vars, Bounds
    <2>5. ASSUME oom PROVE (Size < TablesFor(Space))'
      <3>1. Size' < TablesFor(Space') BY <2>2, <2>3, <2>5 DEF SpaceInv
      <3> QED BY <3>1 DEF TablesFor
    <2>6. ASSUME InTables, ~oom PROVE Registered' /\ InSpace'
      <3>1. Registered /\ InSpace BY <2>6 DEF SpaceInv
      <3>2. ASSUME NEW l \in Page, NEW k \in 0 .. 3 PROVE Table(l, k)' = Table(l, k)
        <4>1. CASE MapLeaf BY <2>6, <4>1, MapLeafEffect
        <4>2. CASE ~MapLeaf
          <5>1. mem' = mem BY <1>4, <4>2 DEF CallMapPage, Descend, load_pml4, vars
          <5> QED BY <5>1 DEF Table, Table0, Table1, Table2, Lookup
        <4> QED BY <4>1, <4>2
      <3>3. Registered'
        <4> SUFFICES ASSUME NEW t \in Allocated
                     PROVE  (Table(owner[t].page, owner[t].lev) = t)'
          BY <2>4 DEF Registered
        <4>1. PICK p \in Page, k \in 0 .. 3 : p = owner[t].page /\ k = owner[t].lev
          BY <1>0, AllocatedType DEF TypeOK
        <4>2. Table(p, k)' = t BY <3>1, <3>2, <4>1 DEF Registered
        <4> QED BY <2>1, <4>1, <4>2
      <3>4. ASSUME NEW j \in 1 .. Len(stack') PROVE stack'[j].logical \in Space
        <4>1. CASE CallMapPage
          <5>1. stack' = <<Activation(i)>> /\ i < Limit /\ i \in Nat
            BY <1>0, <4>1 DEF CallMapPage, TypeOK
          <5>2. stack'[j] = Activation(i) BY <3>4, <5>1
          <5>3. i \in 0 .. Limit - 1 BY <5>1, LimitAssumption
          <5> QED BY <5>2, <5>3 DEF Activation, Space
        <4>2. CASE Descend
          <5>1. stack \in Seq(Frame) /\ stack # <<>> /\ Len(stack) \in 1 .. Len(stack)
            BY <1>0, <4>2, StackTop DEF Descend, TypeOK
          <5>2. j \in 1 .. Len(stack) /\ stack'[j].logical = stack[j].logical
            BY <3>4, <4>2, <5>1 DEF Descend, top
          <5> QED BY <3>1, <5>2 DEF InSpace
        <4>3. CASE MapLeaf
          <5>1. stack \in Seq(Frame) /\ stack # <<>> /\ Len(stack) \in 1 .. Len(stack)
            BY <1>0, <4>3, StackTop DEF MapLeaf, TypeOK
          <5>2. j \in 1 .. Len(stack) /\ stack'[j] = stack[j]
            BY <3>4, <4>3, <5>1, PopStack DEF MapLeaf
          <5> QED BY <3>1, <5>2 DEF InSpace
        <4>4. CASE load_pml4 \/ UNCHANGED vars
          BY <3>1, <3>4, <4>4 DEF load_pml4, vars, InSpace
        <4> QED BY <1>4, <4>1, <4>2, <4>3, <4>4
      <3> QED BY <2>1, <2>3, <2>4, <3>1, <3>3, <3>4 DEF InSpace
    <2> QED BY <2>1, <2>5, <2>6 DEF SpaceInv
  <1> QED BY <1>1, <1>2, <1>3, <1>4 DEF Next, Done

\* alloc_page runs dry only if the segment is smaller than the number of tables
\* for the range of init_vmm and for the segment: the recursion of map_page
\* allocates no table twice and loses none, whatever the sizes.
THEOREM EnoughPages == Spec => []EnoughPagesSuffice
PROOF
  <1>1. Init => MapInv /\ SpaceInv
    BY TokenAssumption DEF Init, MapInv, SpaceInv, InTables
  <1>2. SpaceInv => EnoughPagesSuffice
    BY DEF SpaceInv, EnoughPagesSuffice, Space, Size, Base
  <1> QED BY <1>1, <1>2, TreeInit, TreeStep, MapStep, SpaceStep, PTL DEF Spec

=============================================================================
