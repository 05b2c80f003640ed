-------------------------------- MODULE Acpi --------------------------------
(***************************************************************************)
(* acpi_init of kernel/src/firmware/acpi/impl/acpi.c: it finds the FADT in *)
(* the RSDT and sums its bytes, or stops the machine.  Interrupts are off, *)
(* so nothing interferes; the difficulty is in what the tables may hold.   *)
(*                                                                         *)
(* A table is its signature, as far as locate_fadt looks at it, and its    *)
(* bytes; header.length is their number.  The boot loader may pass a null  *)
(* RSDP (see Bootloader), and then the RSDT is whatever page 0 points to,  *)
(* so the RSDT need not be well formed.  An entry of an RSDT is a table or  *)
(* zero, which strncmp takes for a match: a null pointer ends its loop.    *)
(***************************************************************************)
EXTENDS Integers, Sequences

CONSTANTS
  ByteMod,     \* number of values of an unsigned char
  WordMod,     \* number of values of the difference of two lengths
  HeaderSize,  \* sizeof(acpi_header_t)
  Tables,      \* tables that the entries of an RSDT may point to
  Rsdts,       \* what rsdtaddr may point to
  NULL         \* a zero entry, and fadt before it is found

Byte  == 0 .. ByteMod - 1
Table == [facp : BOOLEAN, bytes : Seq(Byte)]
Rsdt  == [bytes : Seq(Byte), tables : Seq(Table \cup {NULL})]

ASSUME SizesAssumption ==
  ByteMod \in Nat \ {0} /\ WordMod \in Nat \ {0} /\ HeaderSize \in Nat
ASSUME TablesAssumption == Tables \subseteq Table /\ Rsdts \subseteq Rsdt
\* header.length is no wider than the difference.
ASSUME LengthsAssumption == \A r \in Rsdts : Len(r.bytes) < WordMod
ASSUME NullAssumption == NULL \notin Table

VARIABLES
  pc,            \* where acpi_init is: "done", it has returned; "not_found" and
                 \* "invalid", it has stopped the machine
  low,           \* what a null fadt leads to: the bytes from address 0 on
  rsdt,          \* the RSDT
  rsdt_entries,  \* the number of its entries, as computed
  fadt,          \* the FADT
  i,             \* the loop counter of locate_fadt and of is_fadt_valid
  sum            \* is_fadt_valid's sum

vars == <<pc, low, rsdt, rsdt_entries, fadt, i, sum>>

Init ==
  /\ pc = "start"
  /\ low \in Tables
  /\ rsdt \in Rsdts
  /\ rsdt_entries = 0
  /\ fadt = NULL
  /\ i = 0
  /\ sum = 0

-----------------------------------------------------------------------------
\* Mutant: the counter does not advance.
Stuck(n) == n

\* ++i.
Succ(n) == n + 1

\* Mutant: the header is counted as entries.
EntryCountAll == Len(rsdt.bytes) \div 4

\* The subtraction is unsigned.
EntryCount == ((Len(rsdt.bytes) - HeaderSize) % WordMod) \div 4

\* The test of rsdt_valid is of the function's address, which is not null, so
\* the RSDT's checksum is never computed.
CountEntries ==
  /\ pc = "start"
  /\ rsdt_entries' = EntryCount
  /\ pc' = "locate"
  /\ UNCHANGED <<low, rsdt, fadt, i, sum>>

\* What entry k may be; past the end of the RSDT it is whatever lies there.
Entries(k) == IF k < Len(rsdt.tables) THEN {rsdt.tables[k + 1]} ELSE Tables \cup {NULL}

\* What lies where a pointer to a table points.
Pointee(p) == IF p = NULL THEN low ELSE p

\* strncmp compares nothing if it is given a null pointer, and returns 1.
strncmp(p) == p # NULL => p.facp

\* locate_fadt: the entry is another table, ...
LocateNext ==
  /\ pc = "locate"
  /\ i < rsdt_entries
  /\ \E p \in Entries(i) : ~strncmp(p)
  /\ i' = Succ(i)
  /\ UNCHANGED <<pc, low, rsdt, rsdt_entries, fadt, sum>>

\* ... it is the FADT, or is taken for it, ...
LocateFound ==
  /\ pc = "locate"
  /\ i < rsdt_entries
  /\ \E p \in Entries(i) : strncmp(p) /\ fadt' = p
  /\ i' = 0
  /\ pc' = "sum"
  /\ UNCHANGED <<low, rsdt, rsdt_entries, sum>>

\* ... or there is none: HALT.
LocateFailed ==
  /\ pc = "locate"
  /\ i >= rsdt_entries
  /\ pc' = "not_found"
  /\ UNCHANGED <<low, rsdt, rsdt_entries, fadt, i, sum>>

\* Mutant: the sum is wider than a byte.
AddedWide(b) == sum + b

\* Mutant: the first byte is left out.
AddedSkip(b) == IF i = 0 THEN 0 ELSE (sum + b) % ByteMod

\* An unsigned char wraps.
Added(b) == (sum + b) % ByteMod

\* is_fadt_valid adds up the bytes ...
SumByte ==
  /\ pc = "sum"
  /\ i < Len(Pointee(fadt).bytes)
  /\ sum' = Added(Pointee(fadt).bytes[i + 1])
  /\ i' = Succ(i)
  /\ UNCHANGED <<pc, low, rsdt, rsdt_entries, fadt>>

\* ... and acpi_init returns, or stops the machine if the sum is not 0.
SumDone ==
  /\ pc = "sum"
  /\ i = Len(Pointee(fadt).bytes)
  /\ pc' = IF sum = 0 THEN "done" ELSE "invalid"
  /\ UNCHANGED <<low, rsdt, rsdt_entries, fadt, i, sum>>

Ended == pc \in {"done", "not_found", "invalid"}

Stop == Ended /\ UNCHANGED vars

Next == \/ CountEntries \/ LocateNext \/ LocateFound \/ LocateFailed
        \/ SumByte \/ SumDone \/ Stop

Spec == Init /\ [][Next]_vars

\* Nothing but this code runs.
FairSpec == Spec /\ WF_vars(Next)

-----------------------------------------------------------------------------
(* Properties.                                                             *)

\* Type invariant; the sum stays a byte and the loops stay inside their tables.
TypeOK ==
  /\ pc \in {"start", "locate", "sum", "done", "not_found", "invalid"}
  /\ low \in Tables
  /\ rsdt \in Rsdts
  /\ rsdt_entries \in 0 .. WordMod
  /\ fadt \in Tables \cup {NULL} \cup {rsdt.tables[k] : k \in 1 .. Len(rsdt.tables)}
  /\ sum \in Byte
  /\ i \in 0 .. IF pc \in {"start", "locate", "not_found"}
                THEN rsdt_entries ELSE Len(Pointee(fadt).bytes)

\* The sums of the first n bytes, for every n.
Sums(bytes) ==
  LET first[n \in 0 .. Len(bytes)] == IF n = 0 THEN 0 ELSE first[n - 1] + bytes[n]
  IN  first

\* The bytes of a table add up to 0.
ChecksumOK(t) == Sums(t.bytes)[Len(t.bytes)] % ByteMod = 0

WellFormed(t) == Len(t.bytes) = HeaderSize + 4 * Len(t.tables)

ZeroEntries(t) == {k \in 1 .. Len(t.tables) : t.tables[k] = NULL}

FadtEntries(t) == {k \in (1 .. Len(t.tables)) \ ZeroEntries(t) : t.tables[k].facp}

\* Whatever the RSDT looks like, acpi_init returns only with a FADT whose bytes
\* add up to 0, and which has the signature unless it was named by a zero entry.
AcceptedFadtIsValid ==
  pc = "done" => (fadt = NULL \/ fadt.facp) /\ ChecksumOK(Pointee(fadt))

\* The FADT is the first one of the RSDT.
FirstFadt ==
  \E k \in FadtEntries(rsdt) :
    fadt = rsdt.tables[k] /\ \A j \in FadtEntries(rsdt) : k <= j

\* A zero entry lies before all FADTs of the RSDT.
ZeroFirst ==
  \E k \in ZeroEntries(rsdt) : \A j \in FadtEntries(rsdt) : k < j

\* On an RSDT of proper length acpi_init takes the FADT from the RSDT, the first
\* if there are several, unless there is a zero entry before it; it stops the
\* machine only if there is none or the bytes do not add up to 0.
WellFormedOutcome ==
  WellFormed(rsdt) =>
    /\ pc \in {"sum", "done", "invalid"} => IF fadt = NULL THEN ZeroFirst ELSE FirstFadt
    /\ pc = "not_found" => FadtEntries(rsdt) = {}
    /\ pc = "invalid" => ~ChecksumOK(Pointee(fadt))

\* acpi_init ends, however long the RSDT claims to be.
AcpiEnds == <>Ended

\* The boot goes on only with an RSDT whose bytes add up to 0.  The code says
\* "something funky happened if RSDT checksum goes invalid" and means to halt.
RsdtChecked == pc = "done" => ChecksumOK(rsdt)
=============================================================================
