---------------------------- MODULE MCBootloader ----------------------------
(* Model values and bounds for checking Bootloader with TLC. *)
EXTENDS Bootloader

\* A kernel of one page of text and two of data, one of which is .bss, with a
\* header between them that is not loaded; and one of a single segment.
MCPhdrs ==
  { << [load |-> TRUE,  addr |-> 2, filesz |-> 1, memsz |-> 1],
       [load |-> FALSE, addr |-> 0, filesz |-> 1, memsz |-> 1],
       [load |-> TRUE,  addr |-> 3, filesz |-> 1, memsz |-> 2] >>,
    << [load |-> TRUE,  addr |-> 1, filesz |-> 2, memsz |-> 3] >> }

\* The firmware uses page 0, and perhaps one where the kernel is to go.
MCInUse == {{0}, {0, 3}}

\* A PSF1 font, a text, and no file at all.
MCPsf1 == [magic |-> <<PSF1_MAGIC0, PSF1_MAGIC1>>]
MCText == [magic |-> <<{3, 6}, {0, 5}>>]
MCFonts == {MCPsf1, MCText, NULL}

\* The table for ACPI 2.0 first, last, or after the one for ACPI 1.0.
MCConfigTables ==
  LET other  == [acpi20 |-> FALSE, signed |-> FALSE]
      acpi10 == [acpi20 |-> FALSE, signed |-> TRUE]
      acpi20 == [acpi20 |-> TRUE,  signed |-> TRUE]
  IN  {<<acpi20, other>>, <<acpi10, other, acpi20>>, <<other>>}

\* The table for ACPI 2.0 alone, in front.
MCConfigFirst == {<<[acpi20 |-> TRUE, signed |-> TRUE], [acpi20 |-> FALSE, signed |-> FALSE]>>}

MCJunkSizes == {0, 9}
MCZero == {0}
MCNoKey   == {0}
MCJunkKeys == {0, RIGHT}
=============================================================================
