------------------------- MODULE DescriptorsProofs -------------------------
(***************************************************************************)
(* Proofs about Descriptors: the CPU finds in the tables what the code was *)
(* asked to put there, for every address.                                  *)
(***************************************************************************)
EXTENDS Descriptors, TLAPS

\* The bits of a placed field.
LEMMA Placed ==
  ASSUME NEW f \in SUBSET Int, NEW at \in Int
  PROVE  \A b \in Int : b \in Place(f, at) <=> b - at \in f
PROOF BY DEF Place

\* Words are equal if their bits are.
LEMMA SameBits ==
  ASSUME NEW v \in SUBSET Int, NEW w \in SUBSET Int,
         \A b \in Int : b \in v <=> b \in w
  PROVE  v = w
PROOF OBVIOUS

\* A gate leads to the handler that set_idt_vec was given, in the kernel's code
\* segment, on the stack of the privilege level, with the flags it was given.
THEOREM GateLeadsToHandler ==
  ASSUME NEW isr \in Word(64), NEW flags \in Word(8)
  PROVE  LET d == IDTVector(Gate(isr, flags)) IN
           /\ GateOffset(d) = isr
           /\ GateSelector(d) = {3}
           /\ GateStack(d) = {}
           /\ GateAttr(d) = flags
PROOF
  <1> DEFINE g == Gate(isr, flags)  d == IDTVector(g)
  <1>1. /\ \A b \in Int : b \in g.isr_low16 <=> b \in 0 .. 15 /\ b \in isr
        /\ \A b \in Int : b \in g.isr_mid16 <=> b \in 0 .. 15 /\ b + 16 \in isr
        /\ \A b \in Int : b \in g.isr_high32 <=> b \in 0 .. 31 /\ b + 32 \in isr
    BY DEF Gate, Trunc, Shr
  <1>2. /\ g.isr_low16 \subseteq Int /\ g.isr_mid16 \subseteq Int
        /\ g.isr_high32 \subseteq Int /\ flags \subseteq 0 .. 7
    BY DEF Gate, Trunc, Word
  <1>3. /\ g.attr = flags /\ g.reserved = {} /\ g.kernel_cs = {3} /\ g.ist = {}
    BY DEF Gate
  <1> HIDE DEF g
  <1>4. \A b \in Int : b \in d <=>
          \/ b - 0 \in g.isr_low16 \/ b - 16 \in {3} \/ b - 40 \in flags
          \/ b - 48 \in g.isr_mid16 \/ b - 64 \in g.isr_high32
    BY <1>2, <1>3, Placed DEF IDTVector
  <1> HIDE DEF d
  <1>5. \A b \in Int : b \in d <=>
          \/ b \in 0 .. 15 /\ b \in isr
          \/ b = 19
          \/ b - 40 \in flags
          \/ b - 48 \in 0 .. 15 /\ b - 32 \in isr
          \/ b - 64 \in 0 .. 31 /\ b - 32 \in isr
    BY <1>1, <1>4
  <1>6. GateSelector(d) = {3} /\ GateStack(d) = {} /\ GateAttr(d) = flags
    <2>1. GateSelector(d) = {3} BY <1>2, <1>5 DEF GateSelector, Field
    <2>2. GateStack(d) = {} BY <1>2, <1>5 DEF GateStack, Field
    <2>3. \A b \in Int : b \in GateAttr(d) <=> b \in flags
      BY <1>2, <1>5 DEF GateAttr, Field
    <2>4. GateAttr(d) \in SUBSET Int BY DEF GateAttr, Field
    <2>5. GateAttr(d) = flags BY <1>2, <2>3, <2>4, SameBits
    <2> QED BY <2>1, <2>2, <2>5
  <1>7. GateOffset(d) = isr
    <2> DEFINE m == Field(d, 48, 16)  h == Field(d, 64, 32)
    <2>1. /\ \A b \in Int : b \in m <=> b \in 0 .. 15 /\ b + 16 \in isr
          /\ \A b \in Int : b \in h <=> b \in 0 .. 31 /\ b + 32 \in isr
          /\ \A b \in Int : b \in Field(d, 0, 16) <=> b \in 0 .. 15 /\ b \in isr
      BY <1>2, <1>5 DEF Field
    <2>2. m \subseteq Int /\ h \subseteq Int /\ Field(d, 0, 16) \subseteq Int BY DEF Field
    <2> HIDE DEF m, h
    <2>3. /\ \A b \in Int : b \in Place(m, 16) <=> b - 16 \in m
          /\ \A b \in Int : b \in Place(h, 32) <=> b - 32 \in h
      BY <2>2, Placed
    <2>4. Place(m, 16) \subseteq Int /\ Place(h, 32) \subseteq Int
      BY <2>2 DEF Place
    <2>5. \A b \in Int : b \in GateOffset(d) <=> b \in isr
      BY <2>1, <2>3 DEF GateOffset, m, h, Word
    <2>6. GateOffset(d) \subseteq Int BY <2>2, <2>4 DEF GateOffset, m, h
    <2> QED BY <2>5, <2>6, SameBits DEF Word
  <1> QED BY <1>6, <1>7, Zenon DEF d, g

\* The descriptor that init_tss fills in is one of a TSS, at the address of
\* tss_entry, and long enough for the CPU to read all of it.
THEOREM TssFound ==
  ASSUME NEW tssp \in Word(64)
  PROVE  LET d == tss_desc(Descriptor(tssp)) IN
           /\ SegmentBase(d) = tssp
           /\ IsTss(d)
           /\ \E b \in SegmentLimit(d) : b >= 7
PROOF
  <1> DEFINE t == Descriptor(tssp)  d == tss_desc(t)
  <1>1. /\ \A b \in Int : b \in t.baseAddrLow <=> b \in 0 .. 15 /\ b \in tssp
        /\ \A b \in Int : b \in t.baseAddrMiddle <=> b \in 0 .. 7 /\ b + 16 \in tssp
        /\ \A b \in Int : b \in t.baseAddrOtherMiddle <=> b \in 0 .. 7 /\ b + 24 \in tssp
        /\ \A b \in Int : b \in t.baseAddrUpper <=> b \in 0 .. 31 /\ b + 32 \in tssp
    BY DEF Descriptor, Trunc, Shr
  <1>2. /\ t.baseAddrLow \subseteq Int /\ t.baseAddrMiddle \subseteq Int
        /\ t.baseAddrOtherMiddle \subseteq Int /\ t.baseAddrUpper \subseteq Int
    BY DEF Descriptor, Trunc
  <1>3. /\ t.type = {0, 3} /\ t.zero = {} /\ t.dpl = {} /\ t.p = {0}
        /\ t.seglimit = {4, 5, 6} /\ t.segLimitUpper = {} /\ t.avl = {}
        /\ t.unused = {} /\ t.g = {0} /\ t.reserved = {}
    BY DEF Descriptor, SizeofTss
  <1> HIDE DEF t
  <1>4. \A b \in Int : b \in d <=>
          \/ b - 0 \in {4, 5, 6} \/ b - 16 \in t.baseAddrLow
          \/ b - 32 \in t.baseAddrMiddle \/ b - 40 \in {0, 3} \/ b - 47 \in {0}
          \/ b - 55 \in {0} \/ b - 56 \in t.baseAddrOtherMiddle
          \/ b - 64 \in t.baseAddrUpper
    <2>1. {4, 5, 6} \subseteq Int /\ {0, 3} \subseteq Int /\ {0} \subseteq Int OBVIOUS
    <2>2. \A at \in Int : Place({}, at) = {} BY DEF Place
    <2>3. d = Place({4, 5, 6}, 0) \cup Place(t.baseAddrLow, 16)
                \cup Place(t.baseAddrMiddle, 32) \cup Place({0, 3}, 40)
                \cup Place({0}, 47) \cup Place({0}, 55)
                \cup Place(t.baseAddrOtherMiddle, 56) \cup Place(t.baseAddrUpper, 64)
      BY <1>3, <2>2 DEF tss_desc
    <2> HIDE DEF d
    <2> QED BY <1>2, <2>1, <2>3, Placed
  <1> HIDE DEF d
  <1>5. \A b \in Int : b \in d <=>
          \/ b \in {4, 5, 6, 40, 43, 47, 55}
          \/ b - 16 \in 0 .. 15 /\ b - 16 \in tssp
          \/ b - 32 \in 0 .. 7 /\ b - 16 \in tssp
          \/ b - 56 \in 0 .. 7 /\ b - 32 \in tssp
          \/ b - 64 \in 0 .. 31 /\ b - 32 \in tssp
    <2> SUFFICES ASSUME NEW b \in Int
                 PROVE  b \in d <=>
                          \/ b \in {4, 5, 6, 40, 43, 47, 55}
                          \/ b - 16 \in 0 .. 15 /\ b - 16 \in tssp
                          \/ b - 32 \in 0 .. 7 /\ b - 16 \in tssp
                          \/ b - 56 \in 0 .. 7 /\ b - 32 \in tssp
                          \/ b - 64 \in 0 .. 31 /\ b - 32 \in tssp
      OBVIOUS
    <2>1. b - 16 \in t.baseAddrLow <=> b - 16 \in 0 .. 15 /\ b - 16 \in tssp
      BY <1>1
    <2>2. b - 32 \in t.baseAddrMiddle <=> b - 32 \in 0 .. 7 /\ b - 16 \in tssp
      <3>1. (b - 32) + 16 = b - 16 OBVIOUS
      <3>2. b - 32 \in Int OBVIOUS
      <3> QED BY <1>1, <3>1, <3>2
    <2>3. b - 56 \in t.baseAddrOtherMiddle <=> b - 56 \in 0 .. 7 /\ b - 32 \in tssp
      <3>1. (b - 56) + 24 = b - 32 OBVIOUS
      <3>2. b - 56 \in Int OBVIOUS
      <3> QED BY <1>1, <3>1, <3>2
    <2>4. b - 64 \in t.baseAddrUpper <=> b - 64 \in 0 .. 31 /\ b - 32 \in tssp
      <3>1. (b - 64) + 32 = b - 32 OBVIOUS
      <3>2. b - 64 \in Int OBVIOUS
      <3> QED BY <1>1, <3>1, <3>2
    <2>5. b \in {4, 5, 6, 40, 43, 47, 55} <=>
            \/ b - 0 \in {4, 5, 6} \/ b - 40 \in {0, 3} \/ b - 47 \in {0}
            \/ b - 55 \in {0}
      OBVIOUS
    <2> QED BY <1>4, <2>1, <2>2, <2>3, <2>4, <2>5
  <1>6. IsTss(d) BY <1>5 DEF IsTss, Field
  <1>7. \E b \in SegmentLimit(d) : b >= 7
    <2>1. 55 \in d /\ 4 \in Field(d, 0, 16) BY <1>5 DEF Field
    <2>2. 4 + 12 \in Place(Field(d, 0, 16) \cup Place(Field(d, 48, 4), 16), 12)
      BY <2>1 DEF Place
    <2> QED BY <2>1, <2>2 DEF SegmentLimit
  <1>8. SegmentBase(d) = tssp
    <2> DEFINE l == Field(d, 16, 16)  m == Field(d, 32, 8)
               o == Field(d, 56, 8)   u == Field(d, 64, 32)
    <2>1. /\ \A b \in Int : b \in l <=> b \in 0 .. 15 /\ b \in tssp
          /\ \A b \in Int : b \in m <=> b \in 0 .. 7 /\ b + 16 \in tssp
          /\ \A b \in Int : b \in o <=> b \in 0 .. 7 /\ b + 24 \in tssp
          /\ \A b \in Int : b \in u <=> b \in 0 .. 31 /\ b + 32 \in tssp
      BY <1>5 DEF Field
    <2>2. l \subseteq Int /\ m \subseteq Int /\ o \subseteq Int /\ u \subseteq Int
      BY DEF Field
    <2> HIDE DEF l, m, o, u
    <2>3. /\ \A b \in Int : b \in Place(m, 16) <=> b - 16 \in m
          /\ \A b \in Int : b \in Place(o, 24) <=> b - 24 \in o
          /\ \A b \in Int : b \in Place(u, 32) <=> b - 32 \in u
      BY <2>2, Placed
    <2>4. /\ Place(m, 16) \subseteq Int /\ Place(o, 24) \subseteq Int
          /\ Place(u, 32) \subseteq Int
      BY <2>2 DEF Place
    <2>5. \A b \in Int : b \in SegmentBase(d) <=> b \in tssp
      BY <2>1, <2>3 DEF SegmentBase, l, m, o, u, Word
    <2>6. SegmentBase(d) \subseteq Int BY <2>2, <2>4 DEF SegmentBase, l, m, o, u
    <2> QED BY <2>5, <2>6, SameBits DEF Word
  <1> QED BY <1>6, <1>7, <1>8, Zenon DEF d, t

\* The stack pointer that the CPU loads when user space is interrupted is the
\* one that init_tss was to set.
THEOREM KernelStackFound ==
  ASSUME NEW stack \in Word(64)
  PROVE  RSP0(tss_entry(stack)) = stack
PROOF
  <1> DEFINE lo == Trunc(stack, 32)  hi == Trunc(Shr(stack, 32), 32)
  <1>1. /\ \A b \in Int : b \in lo <=> b \in 0 .. 31 /\ b \in stack
        /\ \A b \in Int : b \in hi <=> b \in 0 .. 31 /\ b + 32 \in stack
        /\ lo \subseteq Int /\ hi \subseteq Int
    BY DEF Trunc, Shr
  <1>2. tss_entry(stack) = Place(lo, 32) \cup Place(hi, 64) BY DEF tss_entry
  <1> HIDE DEF lo, hi
  <1>3. \A b \in Int : b \in tss_entry(stack) <=> b - 32 \in lo \/ b - 64 \in hi
    BY <1>1, <1>2, Placed
  <1>4. \A b \in 0 .. 63 : b + 32 \in tss_entry(stack) <=> b \in stack
    BY <1>1, <1>3
  <1>5. \A b \in Int : b \in RSP0(tss_entry(stack)) <=> b \in stack
    BY <1>4 DEF RSP0, Field, Word
  <1>6. RSP0(tss_entry(stack)) \subseteq Int BY DEF RSP0, Field
  <1> QED BY <1>5, <1>6, SameBits DEF Word

\* The selectors that load_gdt, the gates, the context switch and load_tss use
\* are those of the segments they mean, at the levels they ask for.
THEOREM SelectorsFit ==
  /\ IsCode(Selected(KernelCS)) /\ Level(Selected(KernelCS)) = 0
  /\ IsData(Selected(KernelDS)) /\ Level(Selected(KernelDS)) = 0
  /\ IsCode(Selected(UserCS)) /\ Level(Selected(UserCS)) = 3 /\ RPL(UserCS) = 3
  /\ IsData(Selected(UserSS)) /\ Level(Selected(UserSS)) = 3 /\ RPL(UserSS) = 3
  /\ TssSel = TSS
PROOF
  <1>1. /\ Selected(KernelCS) = Segment({1, 3, 4, 7}, {0, 1, 2, 3, 5, 7})
        /\ Selected(KernelDS) = Segment({1, 4, 7}, {})
        /\ Selected(UserCS) = Segment({1, 3, 4, 5, 6, 7}, {0, 1, 2, 3, 5, 7})
        /\ Selected(UserSS) = Segment({1, 4, 5, 6, 7}, {})
        /\ TssSel = TSS
    BY DEF Selected, KernelCS, KernelDS, UserCS, UserSS, TssSel, TSS, GDT64
  <1>2. ASSUME NEW a \in Word(8), NEW f \in Word(8), NEW b \in Int
        PROVE  b \in Segment(a, f) <=> b - 40 \in a \/ b - 48 \in f
    BY Placed DEF Segment, Word
  <1>3. /\ {1, 3, 4, 7} \in Word(8) /\ {1, 4, 7} \in Word(8) /\ {} \in Word(8)
        /\ {1, 3, 4, 5, 6, 7} \in Word(8) /\ {1, 4, 5, 6, 7} \in Word(8)
        /\ {0, 1, 2, 3, 5, 7} \in Word(8)
    BY DEF Word
  <1>4. IsCode(Selected(KernelCS)) /\ Level(Selected(KernelCS)) = 0
    BY <1>1, <1>2, <1>3 DEF IsCode, Level
  <1>5. IsData(Selected(KernelDS)) /\ Level(Selected(KernelDS)) = 0
    BY <1>1, <1>2, <1>3 DEF IsData, Level
  <1>6. IsCode(Selected(UserCS)) /\ Level(Selected(UserCS)) = 3 /\ RPL(UserCS) = 3
    BY <1>1, <1>2, <1>3 DEF IsCode, Level, RPL, UserCS
  <1>7. IsData(Selected(UserSS)) /\ Level(Selected(UserSS)) = 3 /\ RPL(UserSS) = 3
    BY <1>1, <1>2, <1>3 DEF IsData, Level, RPL, UserSS
  <1> QED BY <1>1, <1>4, <1>5, <1>6, <1>7
=============================================================================
