-------------------------------- MODULE Pci --------------------------------
(***************************************************************************)
(* The bus scan of kernel/src/drivers/pci/impl/pci.c: every read of the    *)
(* configuration space writes an address made of shifted fields to a port, *)
(* and the host bridge takes the fields apart again.                       *)
(*                                                                         *)
(* A 32-bit word is the set of its one bits.  The configuration space is   *)
(* the set of functions that exist; a read of any other gives all ones,    *)
(* which is no valid vendor.                                               *)
(***************************************************************************)
EXTENDS Integers, FiniteSets

CONSTANTS
  HighestBus,   \* PCI_HIGHEST_BUS (255)
  HighestSlot,  \* PCI_HIGHEST_SLOT (32)
  HighestFunc,  \* PCI_HIGHEST_FUNC (8)
  ScreenLines,  \* devices logged before the screen is cleared (20)
  Present       \* sets of functions <<bus, slot, func>> that may exist

ASSUME HighestAssumption ==
  HighestBus \in 1 .. 255 /\ HighestSlot \in 1 .. 32 /\ HighestFunc \in 1 .. 8

\* A bus has as many slots, and a device as many functions, as the loops try.
Function == (0 .. 255) \X (0 .. HighestSlot - 1) \X (0 .. HighestFunc - 1)

ASSUME ScreenLinesAssumption == ScreenLines \in Nat /\ ScreenLines >= 1
ASSUME PresentAssumption ==
  \A P \in Present : P \subseteq Function

VARIABLES
  present,       \* the functions that exist
  bus,           \* the loop counters
  slot,
  func,
  device_count,  \* devices found
  tmp,           \* devices since the screen was cleared
  found          \* history: the functions logged

vars == <<present, bus, slot, func, device_count, tmp, found>>

-----------------------------------------------------------------------------
Bits(n) == {b \in 0 .. 7 : (n \div 2^b) % 2 = 1}
Shl(s, k) == {b + k : b \in s}
Num(s) == LET Bit(b) == IF b \in s THEN 2^b ELSE 0
          IN  Bit(0) + Bit(1) + Bit(2) + Bit(3) + Bit(4) + Bit(5) + Bit(6) + Bit(7)

\* Mutant: the slot is shifted too far.
AddressSlot(b, s, f, offset) ==
  Shl(Bits(b), 16) \cup Shl(Bits(s), 12) \cup Shl(Bits(f), 8)
  \cup (Bits(offset) \ {0, 1}) \cup {31}

\* The word that pci_read_word writes to CONFIG_ADDRESS.
Address(b, s, f, offset) ==
  Shl(Bits(b), 16) \cup Shl(Bits(s), 11) \cup Shl(Bits(f), 8)
  \cup (Bits(offset) \ {0, 1}) \cup {31}

\* Bits lo to hi of a word, as a number.
Field(w, lo, hi) == Num({b - lo : b \in w \cap (lo .. hi)})

\* The host bridge: the function a configuration address selects, and the
\* register.
Decode(w) == <<Field(w, 16, 23), Field(w, 11, 15), Field(w, 8, 10)>>

\* vendor_is_valid(pci_read_word(bus, slot, func, 0)).
vendor_is_valid(b, s, f) == 31 \in Address(b, s, f, 0)
                            /\ Decode(Address(b, s, f, 0)) \in present

Init ==
  /\ present \in Present
  /\ bus = 0 /\ slot = 0 /\ func = 0
  /\ device_count = 0
  /\ tmp = 0
  /\ found = {}

-----------------------------------------------------------------------------
\* The three nested loops advance.
Advance ==
  \/ /\ func < HighestFunc - 1
     /\ func' = func + 1
     /\ UNCHANGED <<bus, slot>>
  \/ /\ func = HighestFunc - 1 /\ slot < HighestSlot - 1
     /\ func' = 0 /\ slot' = slot + 1
     /\ UNCHANGED bus
  \/ /\ func = HighestFunc - 1 /\ slot = HighestSlot - 1
     /\ func' = 0 /\ slot' = 0 /\ bus' = bus + 1

\* Mutant: the outermost loop includes its bound.
ScanningLast == bus <= HighestBus

Scanning == bus < HighestBus

\* tmp after the test for a full screen, which precedes every read: a full
\* screen is cleared (see Console).
LinesLeft == IF tmp = ScreenLines THEN 0 ELSE tmp

\* The function exists: it is logged ...
Log ==
  /\ Scanning
  /\ vendor_is_valid(bus, slot, func)
  /\ device_count' = device_count + 1
  /\ tmp' = LinesLeft + 1
  /\ found' = found \cup {<<bus, slot, func>>}
  /\ Advance
  /\ UNCHANGED present

\* ... or it does not.
Skip ==
  /\ Scanning
  /\ ~vendor_is_valid(bus, slot, func)
  /\ tmp' = LinesLeft
  /\ Advance
  /\ UNCHANGED <<present, device_count, found>>

Done == ~Scanning /\ UNCHANGED vars

Next == Log \/ Skip \/ Done
Spec == Init /\ [][Next]_vars

-----------------------------------------------------------------------------
(* Properties.                                                             *)

\* Type invariant; the loop counters stay in their ranges.
TypeOK ==
  /\ present \in Present
  /\ bus \in 0 .. HighestBus
  /\ slot \in 0 .. HighestSlot - 1 /\ func \in 0 .. HighestFunc - 1
  /\ device_count \in Nat /\ tmp \in 0 .. ScreenLines
  /\ found \subseteq Function

Before(p, b, s, f) == \/ p[1] < b
                      \/ p[1] = b /\ p[2] < s
                      \/ p[1] = b /\ p[2] = s /\ p[3] < f

\* The scan has found exactly the functions that exist among those it has
\* passed: no field of the address spills into another, so that a read never
\* reaches a function other than the one it means, and each counts once.
FoundSoFar ==
  /\ found = {p \in present : Before(p, bus, slot, func)}
  /\ device_count = Cardinality(found)
=============================================================================
