----------------------------- MODULE PciProofs -----------------------------
(***************************************************************************)
(* Proofs about Pci, for any numbers of buses, slots and functions within  *)
(* the widths of their fields and any functions that exist.                *)
(***************************************************************************)
EXTENDS Pci, FiniteSetTheorems, TLAPS

-----------------------------------------------------------------------------
(* The fields of a configuration address.                                  *)

LEMMA Powers == /\ 2^0 = 1 /\ 2^1 = 2 /\ 2^2 = 4 /\ 2^3 = 8
                /\ 2^4 = 16 /\ 2^5 = 32 /\ 2^6 = 64 /\ 2^7 = 128
PROOF
  <1>1. 2^0 = 1 /\ 2^1 = 2 /\ 2^2 = 4 /\ 2^3 = 8 OBVIOUS
  <1>2. 2^4 = 16 /\ 2^5 = 32 /\ 2^6 = 64 /\ 2^7 = 128 OBVIOUS
  <1> QED BY <1>1, <1>2

\* Num undoes Bits.
LEMMA NumOfBits ==
  ASSUME NEW n \in 0 .. 255
  PROVE  Num(Bits(n)) = n
PROOF
  <1> DEFINE B(b) == (n \div 2^b) % 2
  <1>1. /\ B(0) = n % 2 /\ B(1) = (n \div 2) % 2 /\ B(2) = (n \div 4) % 2
        /\ B(3) = (n \div 8) % 2 /\ B(4) = (n \div 16) % 2 /\ B(5) = (n \div 32) % 2
        /\ B(6) = (n \div 64) % 2 /\ B(7) = (n \div 128) % 2
    BY Powers
  <1>2. \A b \in 0 .. 7 : b \in Bits(n) <=> B(b) = 1 BY DEF Bits
  <1> HIDE DEF B
  <1> DEFINE V(b) == IF b \in Bits(n) THEN 2^b ELSE 0
  <1>3. /\ V(0) = 1 * (n % 2) /\ V(1) = 2 * ((n \div 2) % 2)
        /\ V(2) = 4 * ((n \div 4) % 2) /\ V(3) = 8 * ((n \div 8) % 2)
    BY <1>1, <1>2, Powers
  <1>4. /\ V(4) = 16 * ((n \div 16) % 2) /\ V(5) = 32 * ((n \div 32) % 2)
        /\ V(6) = 64 * ((n \div 64) % 2) /\ V(7) = 128 * ((n \div 128) % 2)
    BY <1>1, <1>2, Powers
  <1>5. Num(Bits(n)) = V(0) + V(1) + V(2) + V(3) + V(4) + V(5) + V(6) + V(7)
    BY DEF Num
  <1> HIDE DEF V
  <1>6. /\ n = 2 * (n \div 2) + (n % 2)
        /\ n \div 2 = 2 * (n \div 4) + ((n \div 2) % 2)
        /\ n \div 4 = 2 * (n \div 8) + ((n \div 4) % 2)
        /\ n \div 8 = 2 * (n \div 16) + ((n \div 8) % 2)
    OBVIOUS
  <1>7. /\ n \div 16 = 2 * (n \div 32) + ((n \div 16) % 2)
        /\ n \div 32 = 2 * (n \div 64) + ((n \div 32) % 2)
        /\ n \div 64 = 2 * (n \div 128) + ((n \div 64) % 2)
        /\ n \div 128 = (n \div 128) % 2
    OBVIOUS
  <1>8. n = V(0) + V(1) + V(2) + V(3) + V(4) + V(5) + V(6) + V(7)
    BY <1>3, <1>4, <1>6, <1>7
  <1> QED BY <1>5, <1>8

\* Numbers that fit into a field have no bits above it.
LEMMA SmallBits ==
  /\ \A n \in 0 .. 31 : Bits(n) \subseteq 0 .. 4
  /\ \A n \in 0 .. 7 : Bits(n) \subseteq 0 .. 2
  /\ Bits(0) = {}
PROOF
  <1>1. ASSUME NEW n \in 0 .. 31 PROVE Bits(n) \subseteq 0 .. 4
    <2> DEFINE P(b) == (n \div 2^b) % 2 = 1
    <2>1. ~P(5) /\ ~P(6) /\ ~P(7) BY Powers
    <2>2. Bits(n) = {b \in 0 .. 7 : P(b)} BY DEF Bits
    <2> HIDE DEF P
    <2> QED BY <2>1, <2>2
  <1>2. ASSUME NEW n \in 0 .. 7 PROVE Bits(n) \subseteq 0 .. 2
    <2> DEFINE P(b) == (n \div 2^b) % 2 = 1
    <2>1. ~P(3) /\ ~P(4) /\ ~P(5) /\ ~P(6) /\ ~P(7) BY Powers
    <2>2. Bits(n) = {b \in 0 .. 7 : P(b)} BY DEF Bits
    <2> HIDE DEF P
    <2> QED BY <2>1, <2>2
  <1>3. Bits(0) = {}
    <2> DEFINE P(b) == (0 \div 2^b) % 2 = 1
    <2>1. /\ ~P(0) /\ ~P(1) /\ ~P(2) /\ ~P(3) /\ ~P(4) /\ ~P(5) /\ ~P(6) /\ ~P(7)
      BY Powers
    <2>2. Bits(0) = {b \in 0 .. 7 : P(b)} BY DEF Bits
    <2> HIDE DEF P
    <2> QED BY <2>1, <2>2
  <1> QED BY <1>1, <1>2, <1>3

\* The host bridge takes an address apart into what it was made of.
LEMMA AddressDecodes ==
  ASSUME NEW b \in 0 .. 255, NEW s \in 0 .. 31, NEW f \in 0 .. 7
  PROVE  /\ 31 \in Address(b, s, f, 0)
         /\ Decode(Address(b, s, f, 0)) = <<b, s, f>>
PROOF
  <1> DEFINE w == Address(b, s, f, 0)
  <1>1. Bits(b) \subseteq 0 .. 7 /\ Bits(s) \subseteq 0 .. 4 /\ Bits(f) \subseteq 0 .. 2
    BY SmallBits DEF Bits
  <1>2. \A k \in Int : k \in w <=> \/ k - 16 \in Bits(b) \/ k - 11 \in Bits(s)
                                  \/ k - 8 \in Bits(f) \/ k = 31
    BY <1>1, SmallBits DEF Address, Shl
  <1> HIDE DEF w
  <1>3. {k - 16 : k \in w \cap (16 .. 23)} = Bits(b)
    <2>1. ASSUME NEW j \in Bits(b)
          PROVE  j + 16 \in w \cap (16 .. 23) /\ j = (j + 16) - 16
      BY <1>1, <1>2
    <2>2. ASSUME NEW k \in w \cap (16 .. 23) PROVE k - 16 \in Bits(b)
      BY <1>1, <1>2
    <2> QED BY <2>1, <2>2
  <1>4. {k - 11 : k \in w \cap (11 .. 15)} = Bits(s)
    <2>1. ASSUME NEW j \in Bits(s)
          PROVE  j + 11 \in w \cap (11 .. 15) /\ j = (j + 11) - 11
      BY <1>1, <1>2
    <2>2. ASSUME NEW k \in w \cap (11 .. 15) PROVE k - 11 \in Bits(s)
      BY <1>1, <1>2
    <2> QED BY <2>1, <2>2
  <1>5. {k - 8 : k \in w \cap (8 .. 10)} = Bits(f)
    <2>1. ASSUME NEW j \in Bits(f)
          PROVE  j + 8 \in w \cap (8 .. 10) /\ j = (j + 8) - 8
      BY <1>1, <1>2
    <2>2. ASSUME NEW k \in w \cap (8 .. 10) PROVE k - 8 \in Bits(f)
      BY <1>1, <1>2
    <2> QED BY <2>1, <2>2
  <1>6. Field(w, 16, 23) = b /\ Field(w, 11, 15) = s /\ Field(w, 8, 10) = f
    <2>1. Num(Bits(b)) = b /\ Num(Bits(s)) = s /\ Num(Bits(f)) = f BY NumOfBits
    <2>2. /\ Field(w, 16, 23) = Num(Bits(b)) /\ Field(w, 11, 15) = Num(Bits(s))
          /\ Field(w, 8, 10) = Num(Bits(f))
      BY <1>3, <1>4, <1>5, Zenon DEF Field
    <2> QED BY <2>1, <2>2
  <1>7. 31 \in w BY <1>2
  <1> QED BY <1>6, <1>7 DEF Decode, w

-----------------------------------------------------------------------------
(* The scan.                                                               *)

IInv == TypeOK /\ FoundSoFar /\ IsFiniteSet(found)

\* What lies before the next counters is what lay before the present ones, and
\* the function that they name.
LEMMA Lexicographic ==
  ASSUME TypeOK, Scanning, Advance,
         NEW p \in Function
  PROVE  Before(p, bus', slot', func') <=> Before(p, bus, slot, func)
                                             \/ p = <<bus, slot, func>>
PROOF
  <1> DEFINE b == p[1]  s == p[2]  f == p[3]
  <1>1. /\ b \in 0 .. 255 /\ s \in 0 .. HighestSlot - 1 /\ f \in 0 .. HighestFunc - 1
        /\ p = <<bus, slot, func>> <=> b = bus /\ s = slot /\ f = func
    BY DEF Function
  <1> HIDE DEF b, s, f
  <1>2. /\ bus \in 0 .. 255 /\ slot \in 0 .. HighestSlot - 1 /\ func \in 0 .. HighestFunc - 1
        /\ HighestSlot \in 1 .. 32 /\ HighestFunc \in 1 .. 8
    BY HighestAssumption DEF TypeOK
  <1>3. Before(p, bus, slot, func) <=> \/ b < bus
                                       \/ b = bus /\ s < slot
                                       \/ b = bus /\ s = slot /\ f < func
    BY DEF Before, b, s, f
  <1>4. Before(p, bus', slot', func') <=> \/ b < bus'
                                          \/ b = bus' /\ s < slot'
                                          \/ b = bus' /\ s = slot' /\ f < func'
    BY DEF Before, b, s, f
  <1>5. CASE func < HighestFunc - 1 /\ func' = func + 1 /\ bus' = bus /\ slot' = slot
    BY <1>1, <1>2, <1>3, <1>4, <1>5
  <1>6. CASE /\ func = HighestFunc - 1 /\ slot < HighestSlot - 1
             /\ func' = 0 /\ slot' = slot + 1 /\ bus' = bus
    BY <1>1, <1>2, <1>3, <1>4, <1>6
  <1>7. CASE /\ func = HighestFunc - 1 /\ slot = HighestSlot - 1
             /\ func' = 0 /\ slot' = 0 /\ bus' = bus + 1
    BY <1>1, <1>2, <1>3, <1>4, <1>7
  <1> QED BY <1>5, <1>6, <1>7 DEF Advance

LEMMA InitEstablishes == Init => IInv
PROOF
  <1> SUFFICES ASSUME Init PROVE IInv OBVIOUS
  <1>1. TypeOK
    BY HighestAssumption, ScreenLinesAssumption DEF Init, TypeOK
  <1>2. present \subseteq Function BY PresentAssumption DEF Init
  <1>3. \A p \in present : ~Before(p, bus, slot, func)
    <2> SUFFICES ASSUME NEW p \in present PROVE ~Before(p, 0, 0, 0)
      BY DEF Init
    <2>1. p[1] \in Nat /\ p[2] \in Nat /\ p[3] \in Nat
      BY <1>2, HighestAssumption DEF Function
    <2> QED BY <2>1 DEF Before
  <1>4. FoundSoFar /\ IsFiniteSet(found) BY <1>3, FS_EmptySet DEF Init, FoundSoFar
  <1> QED BY <1>1, <1>4 DEF IInv

\* The loops go on in the types of their counters.
LEMMA AdvanceTypes ==
  ASSUME TypeOK, Scanning, Advance
  PROVE  /\ bus' \in 0 .. HighestBus
         /\ slot' \in 0 .. HighestSlot - 1 /\ func' \in 0 .. HighestFunc - 1
PROOF BY HighestAssumption DEF TypeOK, Scanning, Advance

\* A read finds the function that the counters name, if it exists.
LEMMA ReadsAreRight ==
  ASSUME TypeOK, Scanning
  PROVE  vendor_is_valid(bus, slot, func) <=> <<bus, slot, func>> \in present
PROOF
  <1>1. bus \in 0 .. 255 /\ slot \in 0 .. 31 /\ func \in 0 .. 7
    BY HighestAssumption DEF TypeOK, Scanning
  <1> QED BY <1>1, AddressDecodes DEF vendor_is_valid

LEMMA StepPreserves == IInv /\ [Next]_vars => IInv'
PROOF
  <1> SUFFICES ASSUME IInv, [Next]_vars PROVE IInv' OBVIOUS
  <1>0. TypeOK /\ present \subseteq Function
    BY PresentAssumption DEF IInv, TypeOK
  <1>1. CASE Log
    <2>1. Scanning /\ Advance /\ <<bus, slot, func>> \in present
      BY <1>0, <1>1, ReadsAreRight DEF Log
    <2> DEFINE q == <<bus, slot, func>>
    <2>2. /\ device_count' = device_count + 1 /\ tmp' = LinesLeft + 1
          /\ found' = found \cup {q} /\ present' = present
      BY <1>1 DEF Log
    <2>3. tmp' \in 0 .. ScreenLines
      BY <1>0, <2>2, ScreenLinesAssumption DEF TypeOK, LinesLeft
    <2>4. q \notin found
      <3>1. ~Before(q, bus, slot, func)
        BY <1>0, HighestAssumption DEF Before, TypeOK
      <3> QED BY <3>1 DEF IInv, FoundSoFar
    <2> HIDE DEF q
    <2>5. TypeOK'
      BY <1>0, <2>1, <2>2, <2>3, AdvanceTypes DEF TypeOK, q
    <2>6. found' = {p \in present' : Before(p, bus', slot', func')}
      <3>1. \A p \in present : Before(p, bus', slot', func')
                                <=> (Before(p, bus, slot, func) \/ p = q)
        BY <1>0, <2>1, Lexicographic DEF q
      <3>2. found = {p \in present : Before(p, bus, slot, func)}
        BY DEF IInv, FoundSoFar
      <3> QED BY <2>1, <2>2, <3>1, <3>2 DEF q
    <2>7. IsFiniteSet(found') /\ Cardinality(found') = Cardinality(found) + 1
      BY <2>2, <2>4, FS_AddElement DEF IInv
    <2> QED BY <2>2, <2>5, <2>6, <2>7 DEF IInv, FoundSoFar
  <1>2. CASE Skip
    <2>1. Scanning /\ Advance /\ <<bus, slot, func>> \notin present
      BY <1>0, <1>2, ReadsAreRight DEF Skip
    <2>2. tmp' = LinesLeft /\ UNCHANGED <<present, device_count, found>>
      BY <1>2 DEF Skip
    <2>3. tmp' \in 0 .. ScreenLines
      BY <1>0, <2>2, ScreenLinesAssumption DEF TypeOK, LinesLeft
    <2>4. TypeOK'
      BY <1>0, <2>1, <2>2, <2>3, AdvanceTypes DEF TypeOK
    <2>5. found' = {p \in present' : Before(p, bus', slot', func')}
      <3>1. \A p \in present : Before(p, bus', slot', func')
                                <=> Before(p, bus, slot, func)
        BY <1>0, <2>1, Lexicographic
      <3> QED BY <2>2, <3>1 DEF IInv, FoundSoFar
    <2> QED BY <2>2, <2>4, <2>5 DEF IInv, FoundSoFar
  <1>3. CASE Done \/ UNCHANGED vars
    <2>1. UNCHANGED vars BY <1>3 DEF Done
    <2> QED BY <2>1 DEF IInv, TypeOK, FoundSoFar, vars
  <1> QED BY <1>1, <1>2, <1>3 DEF Next

LEMMA Invariance == Spec => []IInv
PROOF BY InitEstablishes, StepPreserves, PTL DEF Spec

\* The counters stay in the ranges of their fields.
THEOREM TypeCorrect == Spec => []TypeOK
PROOF
  <1>1. IInv => TypeOK BY DEF IInv
  <1> QED BY <1>1, Invariance, PTL

\* The scan finds each existing function that it has passed, once, and nothing
\* else: no field of an address spills into another.
THEOREM ScanIsExact == Spec => []FoundSoFar
PROOF
  <1>1. IInv => FoundSoFar BY DEF IInv
  <1> QED BY <1>1, Invariance, PTL
=============================================================================
