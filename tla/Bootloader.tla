----------------------------- MODULE Bootloader -----------------------------
(***************************************************************************)
(* efi_main of gnu-efi/bootloader/main.c: it loads the kernel's segments,  *)
(* loads a font, runs the boot menu, takes the firmware's memory map,      *)
(* looks for the RSDP, ends the firmware's boot services and enters the    *)
(* kernel.  The return status of no call but the opening of files is       *)
(* tested, so every call may fail silently.                                *)
(*                                                                         *)
(* The firmware (its memory map, its pool, its keyboard) is the            *)
(* environment.  Memory is a set of pages; files are read completely; the  *)
(* frame buffer is there.  Drawing is left out, except which menu is shown. *)
(***************************************************************************)
EXTENDS Integers, Sequences, FiniteSets

CONSTANTS
  Pages,         \* the pages of physical memory
  Phdrs,         \* the kernel's program headers that efi_main may meet
  InUse,         \* sets of pages the firmware may use from the start
  Fonts,         \* font files: magic bytes as sets of bits
  ConfigTables,  \* the firmware's configuration tables
  JunkSizes,     \* what mapSize may hold before it is set
  JunkKeys,      \* what Key.ScanCode may hold before it is set
  NULL           \* the null pointer

\* A program header, in pages.
Phdr == [load : BOOLEAN, addr : Pages, filesz : Nat, memsz : Nat]

\* What ELF allows: no segment has more in the file than in memory.
Executable == {p \in Seq(Phdr) : \A s \in DOMAIN p : p[s].filesz <= p[s].memsz}

\* What a page holds: a page of a segment, counted from 1, or one of these.
Junk    == <<0, 0>>
Pool    == <<0, 1>>
Content == Nat \X Nat

\* An entry of the configuration table: has it the GUID of ACPI 2.0, and does
\* its table start with "RSD PTR "?
ConfigEntry == [acpi20 : BOOLEAN, signed : BOOLEAN]

Bits == SUBSET (0 .. 7)
Font == [magic : Bits \X Bits]

PSF1_MAGIC0 == {1, 2, 4, 5}
PSF1_MAGIC1 == {2}

\* EFI scan codes.
UP == 1
DOWN == 2
RIGHT == 3
LEFT == 4
Keys == {UP, DOWN, RIGHT, LEFT, 0}     \* 0: any other key

ASSUME PagesAssumption == Pages \subseteq Nat
ASSUME InputsAssumption ==
  /\ Phdrs \subseteq Executable
  /\ \A u \in InUse : u \subseteq Pages
  /\ Fonts \subseteq Font \cup {NULL}
  /\ ConfigTables \subseteq Seq(ConfigEntry)
  /\ JunkSizes \subseteq Nat /\ JunkKeys \subseteq Keys
\* A buffer for the memory map: its length, and has it been filled?
Buffer == [len : Nat, filled : BOOLEAN]

ASSUME NullAssumption == NULL \notin Font /\ NULL \notin Nat /\ NULL \notin Buffer

VARIABLES
  pc,          \* where efi_main is; "kernel": it has called kernel_entry
  phdrs,       \* the program headers in kernel.elf
  fontFile,    \* the font file, NULL: there is none
  config,      \* the firmware's configuration table
  i,           \* the counter of the loop in progress
  mem,         \* what each page holds
  taken,       \* the pages that are not free
  font,        \* the font, NULL: none
  Key,         \* the last scan code
  menuEntry,   \* 1: BOOT, 0: REBOOT
  legacy_boot, \* legacy support was selected
  mapLen,      \* length of the firmware's memory map
  mapSize,     \* the length efi_main believes
  map,         \* the buffer of the map: NULL, or its length and contents
  mapKey,      \* "junk", "current", or "stale": the map has changed since
  rsdp,        \* the number of the entry that the RSDP was taken from
  exited,      \* have boot services ended?
  refused,     \* history: a segment's pages could not be claimed
  shown        \* history: the menu on the screen

vars == <<pc, phdrs, fontFile, config, i, mem, taken, font, Key, menuEntry,
          legacy_boot, mapLen, mapSize, map, mapKey, rsdp, exited, refused, shown>>

files    == <<phdrs, fontFile, config>>
menu     == <<Key, menuEntry, legacy_boot, shown>>
firmware == <<mapLen, mapKey, taken, mem>>
result   == <<mapSize, map, rsdp, exited>>

-----------------------------------------------------------------------------
(* The firmware's memory map.                                              *)

\* A change of the map makes the key stale.
MapChanges == /\ mapLen' \in {mapLen, mapLen + 1}
              /\ mapKey' = IF mapKey = "current" THEN "stale" ELSE mapKey

\* AllocatePool either finds room in the pages the pool has, or takes a free
\* page for it.
AllocatePool ==
  \/ UNCHANGED firmware
  \/ \E p \in Pages \ taken :
       /\ taken' = taken \cup {p}
       /\ mem' = [mem EXCEPT ![p] = Pool]
       /\ MapChanges

\* GetMemoryMap, given a buffer for size descriptors (NULL: none): it fills
\* the buffer if that is large enough, and tells the size otherwise.  Only a
\* call that succeeds sets the key for sure.
GetMemoryMap(buffer) ==
  IF mapSize >= mapLen /\ buffer # NULL
  THEN /\ mapSize' = mapLen
       /\ map' = [len |-> buffer.len, filled |-> TRUE]
       /\ mapKey' = "current"
  ELSE /\ mapSize' \in IF mapSize >= mapLen THEN {mapSize, mapLen} ELSE {mapLen}
       /\ map' = buffer
       /\ mapKey' \in {mapKey, "current"}

-----------------------------------------------------------------------------
Init ==
  /\ pc = "open"
  /\ phdrs \in Phdrs
  /\ fontFile \in Fonts
  /\ config \in ConfigTables
  /\ i = 0
  /\ taken \in InUse
  /\ mem = [p \in Pages |-> Junk]
  /\ font = NULL
  /\ Key \in JunkKeys
  /\ menuEntry = 1
  /\ legacy_boot = FALSE
  /\ mapLen = 1
  /\ mapSize \in JunkSizes
  /\ map = NULL
  /\ mapKey = "junk"
  /\ rsdp = NULL
  /\ exited = FALSE
  /\ refused = FALSE
  /\ shown = "none"

\* There is no kernel.elf, or its header is bad: back to the firmware.
NoKernel ==
  /\ pc = "open"
  /\ pc' = "firmware"
  /\ UNCHANGED <<files, i, menu, font, firmware, result, refused>>

\* The program headers are read into the pool.
ReadHeaders ==
  /\ pc = "open"
  /\ AllocatePool
  /\ pc' = "segments"
  /\ UNCHANGED <<files, i, menu, font, result, refused>>

Range(p, n) == p .. p + n - 1

\* Mutant: only the part of a segment that is in the file is claimed.
ClaimedFile(ph) == Range(ph.addr, ph.filesz)

\* The pages of a segment.
Claimed(ph) == Range(ph.addr, ph.memsz)

\* AllocatePages for a segment: it fails, silently, if a page is not there or
\* is in use.
Claim(ph) ==
  IF Claimed(ph) \subseteq Pages \ taken
  THEN taken' = taken \cup Claimed(ph) /\ MapChanges /\ UNCHANGED refused
  ELSE refused' = TRUE /\ UNCHANGED <<taken, mapLen, mapKey>>

\* The segment's pages are claimed, and the part that is in the file is read.
\* The rest of them (.bss) keeps what is in memory.
LoadSegment ==
  /\ pc = "segments" /\ i < Len(phdrs)
  /\ phdrs[i + 1].load
  /\ LET ph == phdrs[i + 1] IN
       /\ Claim(ph)
       /\ mem' = [p \in Pages |-> IF p \in Range(ph.addr, ph.filesz)
                                  THEN <<i + 1, p - ph.addr>> ELSE mem[p]]
  /\ i' = i + 1
  /\ UNCHANGED <<pc, files, menu, font, result>>

SkipSegment ==
  /\ pc = "segments" /\ i < Len(phdrs)
  /\ ~phdrs[i + 1].load
  /\ i' = i + 1
  /\ UNCHANGED <<pc, files, menu, font, firmware, result, refused>>

\* initGOP takes its frame buffer's description from the pool.
initGOP ==
  /\ pc = "segments" /\ i = Len(phdrs)
  /\ AllocatePool
  /\ pc' = "font"
  /\ UNCHANGED <<files, i, menu, font, result, refused>>

-----------------------------------------------------------------------------
(* loadFont.                                                               *)

\* The test of the header's magic bytes.
magic_ok(f) == f.magic[1] \cap PSF1_MAGIC0 # {} /\ f.magic[2] \cap PSF1_MAGIC1 # {}

NoFont ==
  /\ pc = "font" /\ fontFile = NULL
  /\ pc' = "menu" /\ shown' = "boot"
  /\ UNCHANGED <<files, i, Key, menuEntry, legacy_boot, font, firmware, result, refused>>

\* The header is read into the pool; a bad one is given up ...
BadFont ==
  /\ pc = "font" /\ fontFile # NULL /\ ~magic_ok(fontFile)
  /\ AllocatePool
  /\ pc' = "menu" /\ shown' = "boot"
  /\ UNCHANGED <<files, i, Key, menuEntry, legacy_boot, font, result, refused>>

FontHeader ==
  /\ pc = "font" /\ fontFile # NULL /\ magic_ok(fontFile)
  /\ AllocatePool
  /\ pc' = "glyphs"
  /\ UNCHANGED <<files, i, menu, font, result, refused>>

\* ... and the glyphs follow, in a buffer of their own, and the pair of both.
FontGlyphs ==
  /\ pc = "glyphs"
  /\ AllocatePool
  /\ pc' = "result"
  /\ UNCHANGED <<files, i, menu, font, result, refused>>

\* Then the menu is drawn.
FontResult ==
  /\ pc = "result"
  /\ AllocatePool
  /\ font' = fontFile
  /\ pc' = "menu" /\ shown' = "boot"
  /\ UNCHANGED <<files, i, Key, menuEntry, legacy_boot, result, refused>>

-----------------------------------------------------------------------------
(* The menu.                                                               *)

\* ReadKeyStroke: there is a key, or there is none, and Key is cleared or, as
\* the status is not looked at, keeps its value: any value will do.
ReadKeyStroke ==
  /\ pc = "menu"
  /\ Key' \in Keys
  /\ pc' = "key"
  /\ UNCHANGED <<files, i, menuEntry, legacy_boot, shown, font, firmware, result, refused>>

Select(entry, screen) ==
  /\ pc' = "menu" /\ menuEntry' = entry /\ shown' = screen
  /\ UNCHANGED <<files, i, Key, legacy_boot, font, firmware, result, refused>>

\* Mutant: the selection stays where it was.
MenuDownStays == pc = "key" /\ Key = DOWN /\ menuEntry = 1 /\ Select(1, "reboot")

MenuDown == pc = "key" /\ Key = DOWN /\ menuEntry = 1 /\ Select(0, "reboot")
MenuUp   == pc = "key" /\ Key = UP /\ menuEntry = 0 /\ Select(1, "boot")

Leave(to, legacy) ==
  /\ pc' = to /\ legacy_boot' = legacy
  /\ UNCHANGED <<files, i, Key, menuEntry, shown, font, firmware, result, refused>>

\* BOOT; REBOOT resets the machine; the left arrow asks for legacy support.
MenuBoot   == pc = "key" /\ Key = RIGHT /\ menuEntry = 1 /\ Leave("size", legacy_boot)
MenuReboot == pc = "key" /\ Key = RIGHT /\ menuEntry = 0 /\ Leave("reset", legacy_boot)
MenuLegacy == pc = "key" /\ Key = LEFT /\ menuEntry = 1 /\ Leave("size", TRUE)

MenuIgnore ==
  /\ pc = "key"
  /\ \/ Key = 0
     \/ Key \in {DOWN, LEFT} /\ menuEntry = 0
     \/ Key = UP /\ menuEntry = 1
  /\ Leave("menu", legacy_boot)

-----------------------------------------------------------------------------
(* The memory map, the RSDP, and the kernel.                               *)

\* The first GetMemoryMap has no buffer: it is there for the size.
GetMapSize ==
  /\ pc = "size"
  /\ GetMemoryMap(NULL)
  /\ pc' = "buffer"
  /\ UNCHANGED <<files, i, menu, font, mapLen, taken, mem, rsdp, exited, refused>>

\* Mutant: the key of the first call is used, the buffer being allocated since.
AllocateMapLast ==
  /\ pc = "buffer"
  /\ AllocatePool
  /\ map' = [len |-> mapSize, filled |-> mapSize >= mapLen]
  /\ pc' = "rsdp" /\ i' = 0
  /\ UNCHANGED <<files, menu, font, mapSize, rsdp, exited, refused>>

\* The pool gives a buffer of that size, or, if it is absurd, none.
AllocateMap ==
  /\ pc = "buffer"
  /\ \/ AllocatePool /\ map' = [len |-> mapSize, filled |-> FALSE]
     \/ mapSize > mapLen /\ UNCHANGED <<firmware, map>>
  /\ pc' = "map"
  /\ UNCHANGED <<files, i, menu, font, mapSize, rsdp, exited, refused>>

GetMap ==
  /\ pc = "map"
  /\ GetMemoryMap(map)
  /\ pc' = "rsdp" /\ i' = 0
  /\ UNCHANGED <<files, menu, font, mapLen, taken, mem, rsdp, exited, refused>>

\* Has configTable[i] the GUID of ACPI 2.0?  configTable has been advanced by
\* i already, so that is entry 2*i; past the end of the table the memory may
\* hold anything.
GuidIsAcpi20 == IF 2*i < Len(config) THEN {config[2*i + 1].acpi20} ELSE BOOLEAN

\* Mutant: the table, too, is that of configTable[i].
TableTwice == 2*i + 1

\* The table is that of *configTable.
TableHere == i + 1

\* The search for the RSDP.  CompareGuid returns 0 if the GUIDs are equal, so
\* that the one the code names is the one it passes over.
RsdpEntry ==
  /\ pc = "rsdp" /\ i < Len(config)
  /\ \E acpi20 \in GuidIsAcpi20 :
       rsdp' = IF ~acpi20 /\ config[i + 1].signed THEN TableHere ELSE rsdp
  /\ i' = i + 1
  /\ UNCHANGED <<pc, files, menu, font, firmware, mapSize, map, exited, refused>>

\* Without a font efi_main returns; with one, boot services end, if the key is
\* current, and the kernel is entered.
NoEntry ==
  /\ pc = "rsdp" /\ i = Len(config)
  /\ font = NULL
  /\ pc' = "firmware"
  /\ UNCHANGED <<files, i, menu, font, firmware, result, refused>>

kernel_entry ==
  /\ pc = "rsdp" /\ i = Len(config)
  /\ font # NULL
  /\ exited' = (mapKey = "current")
  /\ pc' = "kernel"
  /\ UNCHANGED <<files, i, menu, font, firmware, mapSize, map, rsdp, refused>>

Stop == pc \in {"firmware", "reset", "kernel"} /\ UNCHANGED vars

Menu == \/ ReadKeyStroke \/ MenuDown \/ MenuUp
        \/ MenuBoot \/ MenuReboot \/ MenuLegacy \/ MenuIgnore

Next ==
  \/ NoKernel \/ ReadHeaders \/ LoadSegment \/ SkipSegment \/ initGOP
  \/ NoFont \/ BadFont \/ FontHeader \/ FontGlyphs \/ FontResult
  \/ Menu
  \/ GetMapSize \/ AllocateMap \/ GetMap \/ RsdpEntry \/ NoEntry \/ kernel_entry
  \/ Stop

Spec == Init /\ [][Next]_vars

-----------------------------------------------------------------------------
(* Properties.                                                             *)

\* Type invariant of the loader and of what it hands to the kernel.
TypeOK ==
  /\ pc \in {"open", "segments", "font", "glyphs", "result", "menu", "key", "size", "buffer",
            "map", "rsdp", "firmware", "reset", "kernel"}
  /\ phdrs \in Phdrs /\ fontFile \in Fonts /\ config \in ConfigTables
  /\ i \in Nat
  /\ mem \in [Pages -> Content] /\ taken \subseteq Pages
  /\ font \in Fonts \cup {NULL}
  /\ Key \in Keys
  /\ menuEntry \in {0, 1} /\ legacy_boot \in BOOLEAN
  /\ mapLen \in Nat /\ mapSize \in Nat
  /\ map \in Buffer \cup {NULL}
  /\ mapKey \in {"junk", "current", "stale"}
  /\ rsdp = NULL \/ rsdp \in 1 .. Len(config)
  /\ exited \in BOOLEAN /\ refused \in BOOLEAN
  /\ shown \in {"none", "boot", "reboot"}

\* When the kernel is entered, every segment is in place as it is in the file,
\* and nothing the loader or the firmware took from the pool afterwards lies
\* in a page of it, .bss included, unless a claim was refused.
KernelImageLoaded ==
  pc = "kernel" /\ ~refused =>
    \A s \in 1 .. Len(phdrs) : phdrs[s].load =>
      /\ \A k \in 0 .. phdrs[s].filesz - 1 : mem[phdrs[s].addr + k] = <<s, k>>
      /\ \A k \in 0 .. phdrs[s].memsz - 1 : mem[phdrs[s].addr + k] # Pool

\* The machine boots or resets only from the menu that offers it, however
\* often a stale key is handled again.
MenuObeyed ==
  /\ pc = "reset" => shown = "reboot"
  /\ pc \in {"size", "buffer", "map", "rsdp", "kernel"} => shown = "boot"

\* A kernel that is given a filled memory map is given all of it, within its
\* buffer, and owns the machine: nothing changes the map between the second
\* GetMemoryMap and ExitBootServices.  (If the map grew by more than the buffer
\* allocated for it allows, it is not filled, and the kernel is entered all the
\* same.)
FilledMapIsCurrent ==
  pc = "kernel" /\ map # NULL /\ map.filled =>
    exited /\ mapSize = mapLen /\ mapSize <= map.len

\* The RSDP is found if the firmware has one for ACPI 2.0: the code means to
\* "look for RSDP", and names the GUID of ACPI 2.0.
RsdpFound ==
  pc = "kernel" =>
    ((\E k \in 1 .. Len(config) : config[k].acpi20 /\ config[k].signed)
       => rsdp # NULL)
=============================================================================
