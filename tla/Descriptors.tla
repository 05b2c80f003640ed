---------------------------- MODULE Descriptors ----------------------------
(***************************************************************************)
(* The tables of the CPU: gates of the IDT, the GDT and the TSS, composed  *)
(* of fields as IDT.c, gdt.asm and TSS.c do it, and taken apart as the CPU *)
(* does it.  A word is the set of its one bits; a descriptor is one word   *)
(* of 8 or 16 bytes, with the lowest byte first.                           *)
(***************************************************************************)
EXTENDS Integers, Sequences

Word(n) == SUBSET (0 .. n - 1)

\* An assignment to a field of n bits, w >> k, and a field in its place.
Trunc(w, n)  == w \cap (0 .. n - 1)
Shr(w, k)    == {b \in 0 .. 63 : b + k \in w}
Place(f, at) == {b + at : b \in f}

\* What the CPU finds in the n bits of d from bit lo on.
Field(d, lo, n) == {b \in 0 .. n - 1 : b + lo \in d}

-----------------------------------------------------------------------------
(* Gates.                                                                  *)

TRAP_GATE_FLAGS   == {0, 1, 2, 3, 7}
\* Mutant: interrupt gates are trap gates.
NOT_INT_GATE      == {0, 1, 2, 3, 7}
INT_GATE_FLAGS    == {1, 2, 3, 7}
IDT_INT_GATE_USER == {1, 2, 3, 5, 6, 7}

\* set_idt_vec.
Gate(isr, flags) ==
  [isr_low16  |-> Trunc(isr, 16),
   isr_mid16  |-> Trunc(Shr(isr, 16), 16),
   isr_high32 |-> Trunc(Shr(isr, 32), 32),
   attr       |-> flags,
   reserved   |-> {},
   kernel_cs  |-> {3},
   ist        |-> {}]

\* struct IDTVector is packed.
IDTVector(g) ==
  Place(g.isr_low16, 0) \cup Place(g.kernel_cs, 16) \cup Place(g.ist, 32)
  \cup Place(g.attr, 40) \cup Place(g.isr_mid16, 48) \cup Place(g.isr_high32, 64)
  \cup Place(g.reserved, 96)

\* idtr.limit.
IdtLimit == 16 * 256 - 1

GateSelector(d) == Field(d, 16, 16)
GateStack(d)    == Field(d, 32, 3)
GateAttr(d)     == Field(d, 40, 8)
GateOffset(d)   == Field(d, 0, 16) \cup Place(Field(d, 48, 16), 16)
                   \cup Place(Field(d, 64, 32), 32)

\* The attributes: types 14 and 15 are the gates of 64-bit mode, of which 14
\* clears IF; software may use a gate whose DPL is not below its own level.
Usable(attr)      == {1, 2, 3, 7} \subseteq attr /\ 4 \notin attr
ClearsIF(attr)    == 0 \notin attr
OpenToUsers(attr) == {5, 6} \subseteq attr

-----------------------------------------------------------------------------
(* The TSS and its descriptor.                                             *)

\* rsp0Low and rsp0High, which init_tss sets, follow a reserved double word;
\* the rest of tss_entry is zero.
tss_entry(stack) ==
  Place(Trunc(stack, 32), 32) \cup Place(Trunc(Shr(stack, 32), 32), 64)

\* sizeof(tss_entry): 112, as tss_entry_t is not packed.
SizeofTss == {4, 5, 6}

\* init_tss, on a descriptor that was zero.
Descriptor(tssp) ==
  [baseAddrLow         |-> Trunc(tssp, 16),
   baseAddrMiddle      |-> Trunc(Shr(tssp, 16), 8),
   baseAddrOtherMiddle |-> Trunc(Shr(tssp, 24), 8),
   baseAddrUpper       |-> Trunc(Shr(tssp, 32), 32),
   type |-> {0, 3}, zero |-> {}, dpl |-> {}, p |-> {0}, seglimit |-> SizeofTss,
   segLimitUpper |-> {}, avl |-> {}, unused |-> {}, g |-> {0}, reserved |-> {}]

\* tss_desc is packed.
tss_desc(t) ==
  Place(t.seglimit, 0) \cup Place(t.baseAddrLow, 16) \cup Place(t.baseAddrMiddle, 32)
  \cup Place(t.type, 40) \cup Place(t.zero, 44) \cup Place(t.dpl, 45) \cup Place(t.p, 47)
  \cup Place(t.segLimitUpper, 48) \cup Place(t.avl, 52) \cup Place(t.unused, 53)
  \cup Place(t.g, 55) \cup Place(t.baseAddrOtherMiddle, 56)
  \cup Place(t.baseAddrUpper, 64) \cup Place(t.reserved, 96)

SegmentBase(d) == Field(d, 16, 16) \cup Place(Field(d, 32, 8), 16)
                  \cup Place(Field(d, 56, 8), 24) \cup Place(Field(d, 64, 32), 32)

\* A present, available TSS of 64-bit mode.
IsTss(d) == Field(d, 40, 8) = {0, 3, 7}

\* The limit counts pages if bit 55 is set.
SegmentLimit(d) ==
  LET raw == Field(d, 0, 16) \cup Place(Field(d, 48, 4), 16)
  IN  IF 55 \in d THEN Place(raw, 12) \cup (0 .. 11) ELSE raw

RSP0(tss) == Field(tss, 32, 64)

-----------------------------------------------------------------------------
(* The GDT and the selectors.                                              *)

\* A segment with its access byte and its flags; base and limit do not count.
Segment(access, flags) == Place(access, 40) \cup Place(flags, 48)

\* The null descriptor, Code, Data, UserCode and UserData.  The TSS follows.
GDT64 == << {},
            Segment({1, 3, 4, 7}, {0, 1, 2, 3, 5, 7}), Segment({1, 4, 7}, {}),
            Segment({1, 3, 4, 5, 6, 7}, {0, 1, 2, 3, 5, 7}), Segment({1, 4, 5, 6, 7}, {}) >>

TSS == 8 * Len(GDT64)

\* Selectors: of load_gdt, context_switch_struct (with the level 3 in their
\* low bits) and load_tss.
KernelCS == 8
KernelDS == 16
UserCS   == 24 + 3
UserSS   == 32 + 3
TssSel   == 40

\* The CPU: the descriptor a selector selects, and its level.
Selected(sel) == GDT64[(sel \div 8) + 1]
Level(d)      == IF {45, 46} \subseteq d THEN 3 ELSE IF {45, 46} \cap d = {} THEN 0 ELSE 1
RPL(sel)      == sel % 4

\* Present code of 64-bit mode; present data that can be written.
IsCode(d) == {43, 44, 47, 53} \subseteq d /\ 54 \notin d
IsData(d) == {41, 44, 47} \subseteq d /\ 43 \notin d
=============================================================================
