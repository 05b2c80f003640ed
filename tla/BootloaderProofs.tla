-------------------------- MODULE BootloaderProofs --------------------------
(***************************************************************************)
(* Proofs about Bootloader, for any kernel file, any size of memory and    *)
(* any choice of the firmware's pool.                                      *)
(***************************************************************************)
EXTENDS Bootloader, TLAPS

-----------------------------------------------------------------------------
(* The type invariant needs the bounds of the two loops.                   *)

TypeInv == /\ TypeOK
           /\ pc = "open" => i = 0
           /\ pc = "segments" => i <= Len(phdrs)
           /\ pc = "rsdp" => i <= Len(config)

\* The files are what the assumptions on the constants say.
LEMMA Files ==
  ASSUME TypeOK
  PROVE  /\ phdrs \in Seq(Phdr) /\ Len(phdrs) \in Nat
         /\ \A s \in 1 .. Len(phdrs) :
              /\ phdrs[s] \in Phdr
              /\ phdrs[s].filesz \in Nat /\ phdrs[s].memsz \in Nat
              /\ phdrs[s].filesz <= phdrs[s].memsz
              /\ phdrs[s].addr \in Pages /\ phdrs[s].addr \in Nat
         /\ config \in Seq(ConfigEntry) /\ Len(config) \in Nat
PROOF
  <1>1. phdrs \in Executable /\ config \in Seq(ConfigEntry)
    BY InputsAssumption DEF TypeOK
  <1>2. phdrs \in Seq(Phdr) /\ Len(phdrs) \in Nat /\ Len(config) \in Nat
    BY <1>1 DEF Executable
  <1>3. ASSUME NEW s \in 1 .. Len(phdrs)
        PROVE  /\ phdrs[s] \in Phdr
               /\ phdrs[s].filesz <= phdrs[s].memsz
    BY <1>1, <1>2 DEF Executable
  <1>4. ASSUME NEW ph \in Phdr
        PROVE  ph.filesz \in Nat /\ ph.memsz \in Nat /\ ph.addr \in Pages /\ ph.addr \in Nat
    BY PagesAssumption DEF Phdr
  <1> QED BY <1>1, <1>2, <1>3, <1>4

\* What an allocation from the pool changes: one page, if any, that was free.
LEMMA PoolTakesFree ==
  ASSUME TypeOK, AllocatePool
  PROVE  /\ mem' \in [Pages -> Content] /\ taken' \subseteq Pages
         /\ mapLen' \in Nat /\ mapKey' \in {"junk", "current", "stale"}
         /\ taken \subseteq taken'
         /\ \A p \in taken : mem'[p] = mem[p]
         /\ \A p \in Pages : mem'[p] = mem[p] \/ (mem'[p] = Pool /\ p \in taken')
PROOF
  <1>1. CASE UNCHANGED firmware BY <1>1 DEF TypeOK, firmware
  <1>2. ASSUME NEW p \in Pages \ taken,
               taken' = taken \cup {p}, mem' = [mem EXCEPT ![p] = Pool], MapChanges
        PROVE  /\ mem' \in [Pages -> Content] /\ taken' \subseteq Pages
               /\ mapLen' \in Nat /\ mapKey' \in {"junk", "current", "stale"}
               /\ taken \subseteq taken'
               /\ \A q \in taken : mem'[q] = mem[q]
               /\ \A q \in Pages : mem'[q] = mem[q] \/ (mem'[q] = Pool /\ q \in taken')
    <2>1. Pool \in Content BY DEF Pool, Content
    <2>2. mapLen' \in Nat /\ mapKey' \in {"junk", "current", "stale"}
      BY <1>2 DEF MapChanges, TypeOK
    <2>3. mem \in [Pages -> Content] /\ taken \subseteq Pages BY DEF TypeOK
    <2> QED BY <1>2, <2>1, <2>2, <2>3
  <1> QED BY <1>1, <1>2 DEF AllocatePool

\* GetMemoryMap in the types of its results.
LEMMA MapTypes ==
  ASSUME TypeOK, NEW buffer \in Buffer \cup {NULL}, GetMemoryMap(buffer)
  PROVE  /\ mapSize' \in Nat /\ map' \in Buffer \cup {NULL}
         /\ mapKey' \in {"junk", "current", "stale"}
PROOF
  <1>1. CASE mapSize >= mapLen /\ buffer # NULL
    <2>1. buffer \in Buffer BY <1>1
    <2>2. buffer.len \in Nat BY <2>1 DEF Buffer
    <2>3. [len |-> buffer.len, filled |-> TRUE] \in Buffer BY <2>2 DEF Buffer
    <2> QED BY <1>1, <2>3 DEF GetMemoryMap, TypeOK
  <1>2. CASE ~(mapSize >= mapLen /\ buffer # NULL)
    BY <1>2 DEF GetMemoryMap, TypeOK
  <1> QED BY <1>1, <1>2

LEMMA TypeInit == Init => TypeInv
PROOF
  <1> SUFFICES ASSUME Init PROVE TypeInv OBVIOUS
  <1>1. Junk \in Content BY DEF Junk, Content
  <1>2. TypeOK BY <1>1, InputsAssumption DEF Init, TypeOK, Keys
  <1> QED BY <1>2 DEF Init, TypeInv

\* The steps that allocate from the pool and change little else.
PoolStep == ReadHeaders \/ initGOP \/ BadFont \/ FontHeader \/ FontGlyphs \/ FontResult

\* The steps that leave memory, the memory map and the results alone.
QuietStep == NoKernel \/ SkipSegment \/ NoFont \/ Menu

LEMMA TypeStep == TypeInv /\ [Next]_vars => TypeInv'
PROOF
  <1> SUFFICES ASSUME TypeInv, [Next]_vars PROVE TypeInv' OBVIOUS
  <1>0. TypeOK /\ Len(phdrs) \in Nat /\ Len(config) \in Nat BY Files DEF TypeInv
  <1>1. CASE QuietStep
    <2>1. CASE NoKernel \/ NoFont
      BY <1>0, <2>1 DEF TypeInv, TypeOK, NoKernel, NoFont, files, menu, firmware, result
    <2>2. CASE SkipSegment
      BY <1>0, <2>2 DEF TypeInv, TypeOK, SkipSegment, files, menu, firmware, result
    <2>3. CASE ReadKeyStroke
      BY <1>0, <2>3 DEF TypeInv, TypeOK, ReadKeyStroke, files, firmware, result
    <2>4. CASE MenuDown \/ MenuUp
      BY <1>0, <2>4 DEF TypeInv, TypeOK, MenuDown, MenuUp, Select, files, firmware, result
    <2>5. CASE MenuBoot \/ MenuReboot \/ MenuLegacy \/ MenuIgnore
      <3>1. /\ UNCHANGED <<files, i, Key, menuEntry, shown, font, firmware, result, refused>>
            /\ legacy_boot' \in BOOLEAN
            /\ pc' \in {"menu", "size", "reset"}
        BY <1>0, <2>5 DEF MenuBoot, MenuReboot, MenuLegacy, MenuIgnore, Leave, TypeOK
      <3> QED BY <1>0, <3>1 DEF TypeInv, TypeOK, files, firmware, result
    <2> QED BY <1>1, <2>1, <2>2, <2>3, <2>4, <2>5 DEF QuietStep, Menu
  <1>2. CASE PoolStep
    <2>1. AllocatePool
      BY <1>2 DEF PoolStep, ReadHeaders, initGOP, BadFont, FontHeader, FontGlyphs, FontResult
    <2>2. /\ mem' \in [Pages -> Content] /\ taken' \subseteq Pages
          /\ mapLen' \in Nat /\ mapKey' \in {"junk", "current", "stale"}
      BY <1>0, <2>1, PoolTakesFree
    <2>3. /\ UNCHANGED <<files, i, Key, menuEntry, legacy_boot, result, refused>>
          /\ font' \in Fonts \cup {NULL}
          /\ pc' \in {"segments", "font", "glyphs", "result", "menu"}
          /\ pc' = "segments" => pc = "open"
          /\ shown' \in {"none", "boot", "reboot"}
      BY <1>0, <1>2 DEF PoolStep, ReadHeaders, initGOP, BadFont, FontHeader, FontGlyphs,
                        FontResult, TypeOK, menu
    <2> QED BY <1>0, <2>2, <2>3 DEF TypeInv, TypeOK, files, result
  <1>3. CASE LoadSegment
    <2> DEFINE ph == phdrs[i + 1]
    <2>1. /\ i + 1 \in 1 .. Len(phdrs) /\ i + 1 \in Nat
      BY <1>0, <1>3 DEF LoadSegment, TypeOK
    <2>2. ph.addr \in Nat /\ ph.filesz \in Nat BY <1>0, <2>1, Files
    <2>3. mem' \in [Pages -> Content]
      <3>1. mem' = [p \in Pages |-> IF p \in Range(ph.addr, ph.filesz)
                                   THEN <<i + 1, p - ph.addr>> ELSE mem[p]]
        BY <1>3 DEF LoadSegment
      <3>2. ASSUME NEW p \in Pages, p \in Range(ph.addr, ph.filesz)
            PROVE  <<i + 1, p - ph.addr>> \in Content
        BY <2>1, <2>2, <3>2 DEF Range, Content
      <3>3. mem \in [Pages -> Content] BY <1>0 DEF TypeOK
      <3> QED BY <3>1, <3>2, <3>3
    <2>4. /\ taken' \subseteq Pages /\ mapLen' \in Nat
          /\ mapKey' \in {"junk", "current", "stale"} /\ refused' \in BOOLEAN
      <3>1. Claim(ph) BY <1>3 DEF LoadSegment
      <3>2. CASE Claimed(ph) \subseteq Pages \ taken
        BY <1>0, <3>1, <3>2 DEF Claim, MapChanges, TypeOK
      <3>3. CASE ~(Claimed(ph) \subseteq Pages \ taken)
        BY <1>0, <3>1, <3>3 DEF Claim, TypeOK
      <3> QED BY <3>2, <3>3
    <2>5. /\ UNCHANGED <<pc, files, menu, font, result>> /\ i' = i + 1 /\ pc = "segments"
      BY <1>3 DEF LoadSegment
    <2> QED BY <1>0, <2>1, <2>3, <2>4, <2>5 DEF TypeInv, TypeOK, files, menu, result
  <1>4. CASE GetMapSize \/ GetMap
    <2>1. \E buffer \in Buffer \cup {NULL} : GetMemoryMap(buffer)
      BY <1>0, <1>4 DEF GetMapSize, GetMap, TypeOK
    <2>2. /\ mapSize' \in Nat /\ map' \in Buffer \cup {NULL}
          /\ mapKey' \in {"junk", "current", "stale"}
      BY <1>0, <2>1, MapTypes
    <2>3. /\ UNCHANGED <<files, menu, font, mapLen, taken, mem, rsdp, exited, refused>>
          /\ pc' \in {"buffer", "rsdp"} /\ i' \in Nat
          /\ pc' = "rsdp" => i' = 0
      BY <1>0, <1>4 DEF GetMapSize, GetMap, TypeOK
    <2> QED BY <1>0, <2>2, <2>3 DEF TypeInv, TypeOK, files, menu
  <1>5. CASE AllocateMap
    <2>1. AllocatePool \/ UNCHANGED firmware BY <1>5 DEF AllocateMap
    <2>2. /\ mem' \in [Pages -> Content] /\ taken' \subseteq Pages
          /\ mapLen' \in Nat /\ mapKey' \in {"junk", "current", "stale"}
      BY <1>0, <2>1, PoolTakesFree DEF AllocatePool
    <2>3. map' \in Buffer \cup {NULL}
      <3>1. [len |-> mapSize, filled |-> FALSE] \in Buffer BY <1>0 DEF TypeOK, Buffer
      <3>2. map \in Buffer \cup {NULL} BY <1>0 DEF TypeOK
      <3> QED BY <1>5, <3>1, <3>2 DEF AllocateMap
    <2>4. /\ UNCHANGED <<files, i, menu, font, mapSize, rsdp, exited, refused>>
          /\ pc' = "map"
      BY <1>5 DEF AllocateMap
    <2> QED BY <1>0, <2>2, <2>3, <2>4 DEF TypeInv, TypeOK, files, menu
  <1>6. CASE RsdpEntry
    <2>1. i + 1 \in 1 .. Len(config) BY <1>0, <1>6 DEF RsdpEntry, TypeOK
    <2>2. rsdp' = NULL \/ rsdp' \in 1 .. Len(config)
      BY <1>0, <1>6, <2>1 DEF RsdpEntry, TypeOK, TableHere
    <2>3. /\ UNCHANGED <<pc, files, menu, font, firmware, mapSize, map, exited, refused>>
          /\ i' = i + 1 /\ pc = "rsdp"
      BY <1>6 DEF RsdpEntry
    <2> QED BY <1>0, <2>1, <2>2, <2>3 DEF TypeInv, TypeOK, files, menu, firmware
  <1>7. CASE NoEntry \/ kernel_entry
    BY <1>0, <1>7 DEF TypeInv, TypeOK, NoEntry, kernel_entry, files, menu, firmware, result
  <1>8. CASE UNCHANGED vars
    BY <1>0, <1>8 DEF TypeInv, TypeOK, vars
  <1> QED
    BY <1>1, <1>2, <1>3, <1>4, <1>5, <1>6, <1>7, <1>8
       DEF Next, QuietStep, PoolStep, Stop

\* Every reachable state of the boot loader has its type, and what it takes
\* from the configuration table is an entry of it.
THEOREM TypeCorrect == Spec => []TypeOK
PROOF
  <1>1. TypeInv => TypeOK BY DEF TypeInv
  <1> QED BY <1>1, TypeInit, TypeStep, PTL DEF Spec
-----------------------------------------------------------------------------
(* The menu: what is on the screen is what menuEntry says.                 *)

MenuInv ==
  /\ pc \in {"menu", "key"} => /\ menuEntry \in {0, 1}
                              /\ shown = IF menuEntry = 1 THEN "boot" ELSE "reboot"
  /\ pc \in {"open", "segments", "font", "glyphs", "result"} => menuEntry = 1
  /\ MenuObeyed

LEMMA MenuStep == MenuInv /\ [Next]_vars => MenuInv'
PROOF
  <1> SUFFICES ASSUME MenuInv, [Next]_vars PROVE MenuInv' OBVIOUS
  <1> USE DEF MenuInv, MenuObeyed
  <1>1. CASE NoKernel \/ NoEntry BY <1>1 DEF NoKernel, NoEntry
  <1>2. CASE ReadHeaders \/ LoadSegment \/ SkipSegment \/ initGOP \/ FontHeader \/ FontGlyphs
    BY <1>2 DEF ReadHeaders, LoadSegment, SkipSegment, initGOP, FontHeader, FontGlyphs, menu
  <1>3. CASE NoFont \/ BadFont \/ FontResult BY <1>3 DEF NoFont, BadFont, FontResult
  <1>4. CASE ReadKeyStroke BY <1>4 DEF ReadKeyStroke
  <1>5. CASE MenuDown \/ MenuUp BY <1>5 DEF MenuDown, MenuUp, Select
  <1>6. CASE MenuBoot \/ MenuReboot \/ MenuLegacy \/ MenuIgnore
    BY <1>6 DEF MenuBoot, MenuReboot, MenuLegacy, MenuIgnore, Leave
  <1>7. CASE GetMapSize \/ AllocateMap \/ GetMap \/ RsdpEntry \/ kernel_entry
    BY <1>7 DEF GetMapSize, AllocateMap, GetMap, RsdpEntry, kernel_entry, menu
  <1>8. CASE UNCHANGED vars BY <1>8 DEF vars
  <1> QED BY <1>1, <1>2, <1>3, <1>4, <1>5, <1>6, <1>7, <1>8 DEF Next, Menu, Stop

\* The machine boots or resets only from the menu that offers it, whatever keys
\* come, and however often one of them is handled.
THEOREM MenuIsObeyed == Spec => []MenuObeyed
PROOF
  <1>1. Init => MenuInv BY DEF Init, MenuInv, MenuObeyed
  <1>2. MenuInv => MenuObeyed BY DEF MenuInv
  <1> QED BY <1>1, <1>2, MenuStep, PTL DEF Spec

-----------------------------------------------------------------------------
(* The memory map: no buffer, one that is not filled, one that is.         *)

MapInv ==
  /\ pc \notin {"map", "rsdp", "kernel", "firmware"} => map = NULL
  /\ pc = "map" /\ map # NULL => ~map.filled /\ map.len = mapSize
  /\ map # NULL /\ map.filled =>
       mapKey = "current" /\ mapSize = mapLen /\ mapSize <= map.len
  /\ pc = "kernel" => exited = (mapKey = "current")

LEMMA MapStep == TypeInv /\ MapInv /\ [Next]_vars => MapInv'
PROOF
  <1> SUFFICES ASSUME TypeInv, MapInv, [Next]_vars PROVE MapInv' OBVIOUS
  <1>0. TypeOK BY DEF TypeInv
  <1>1. CASE QuietStep
    <2>1. /\ UNCHANGED <<firmware, result>>
          /\ pc \notin {"map", "rsdp", "kernel", "firmware"}
          /\ pc' \notin {"map", "rsdp", "kernel"}
      BY <1>1 DEF QuietStep, NoKernel, SkipSegment, NoFont, Menu, ReadKeyStroke, MenuDown,
                  MenuUp, Select, MenuBoot, MenuReboot, MenuLegacy, MenuIgnore, Leave
    <2> QED BY <2>1 DEF MapInv, firmware, result
  <1>2. CASE PoolStep
    <2>1. /\ UNCHANGED result
          /\ pc \notin {"map", "rsdp", "kernel", "firmware"}
          /\ pc' \notin {"map", "rsdp", "kernel"}
      BY <1>2 DEF PoolStep, ReadHeaders, initGOP, BadFont, FontHeader, FontGlyphs, FontResult
    <2> QED BY <2>1 DEF MapInv, result
  <1>3. CASE LoadSegment BY <1>3 DEF LoadSegment, MapInv, result
  <1>4. CASE GetMapSize BY <1>4 DEF GetMapSize, GetMemoryMap, MapInv
  <1>5. CASE AllocateMap
    <2>1. pc = "buffer" /\ pc' = "map" /\ map = NULL /\ mapSize' = mapSize
      BY <1>5 DEF AllocateMap, MapInv
    <2>2. map' = [len |-> mapSize, filled |-> FALSE] \/ map' = NULL
      BY <1>5, <2>1 DEF AllocateMap
    <2> QED BY <2>1, <2>2 DEF MapInv
  <1>6. CASE GetMap
    <2>1. /\ pc = "map" /\ pc' = "rsdp" /\ mapLen' = mapLen /\ GetMemoryMap(map)
          /\ mapLen \in Nat /\ mapSize \in Nat
      BY <1>0, <1>6 DEF GetMap, TypeOK
    <2>2. CASE mapSize >= mapLen /\ map # NULL
      BY <2>1, <2>2 DEF GetMemoryMap, MapInv
    <2>3. CASE ~(mapSize >= mapLen /\ map # NULL)
      BY <2>1, <2>3 DEF GetMemoryMap, MapInv
    <2> QED BY <2>2, <2>3
  <1>7. CASE RsdpEntry BY <1>7 DEF RsdpEntry, MapInv, firmware
  <1>8. CASE NoEntry \/ kernel_entry
    BY <1>8 DEF NoEntry, kernel_entry, MapInv, firmware, result
  <1>9. CASE UNCHANGED vars BY <1>9 DEF vars, MapInv
  <1> QED
    BY <1>1, <1>2, <1>3, <1>4, <1>5, <1>6, <1>7, <1>8, <1>9
       DEF Next, QuietStep, PoolStep, Stop

\* A kernel that is given a filled memory map is given all of it, and owns the
\* machine.
THEOREM FilledMapCurrent == Spec => []FilledMapIsCurrent
PROOF
  <1>1. Init => MapInv BY DEF Init, MapInv
  <1>2. MapInv => FilledMapIsCurrent BY DEF MapInv, FilledMapIsCurrent
  <1> QED BY <1>1, <1>2, TypeInit, TypeStep, MapStep, PTL DEF Spec

-----------------------------------------------------------------------------
(* The kernel's image.                                                     *)

\* The segments that have been dealt with.
Loaded == CASE pc = "open" -> 0 [] pc = "segments" -> i [] OTHER -> Len(phdrs)

\* A segment's pages are taken and hold what they should.
InPlace(s) ==
  /\ Claimed(phdrs[s]) \subseteq taken
  /\ \A k \in 0 .. phdrs[s].filesz - 1 : mem[phdrs[s].addr + k] = <<s, k>>
  /\ \A k \in 0 .. phdrs[s].memsz - 1 : mem[phdrs[s].addr + k] # Pool

ImageInv ==
  /\ \A p \in Pages : mem[p] = Pool => p \in taken
  /\ pc # "firmware" /\ ~refused =>
       \A s \in 1 .. Loaded : phdrs[s].load => InPlace(s)

\* The pages that a segment in place speaks of.
LEMMA PagesOf ==
  ASSUME TypeOK, NEW s \in 1 .. Len(phdrs)
  PROVE  /\ \A k \in 0 .. phdrs[s].memsz - 1 : phdrs[s].addr + k \in Claimed(phdrs[s])
         /\ \A k \in 0 .. phdrs[s].filesz - 1 : k \in 0 .. phdrs[s].memsz - 1
PROOF BY Files DEF Claimed, Range

\* It stays in place if the pages that are taken stay taken and are not written.
LEMMA StaysInPlace ==
  ASSUME TypeOK, NEW s \in 1 .. Len(phdrs), InPlace(s),
         phdrs' = phdrs, taken \subseteq taken',
         \A p \in Claimed(phdrs[s]) : mem'[p] = mem[p]
  PROVE  InPlace(s)'
PROOF
  <1>1. \A k \in 0 .. phdrs[s].memsz - 1 : mem'[phdrs[s].addr + k] = mem[phdrs[s].addr + k]
    BY PagesOf
  <1>2. \A k \in 0 .. phdrs[s].filesz - 1 : mem'[phdrs[s].addr + k] = mem[phdrs[s].addr + k]
    BY <1>1, PagesOf
  <1>3. Claimed(phdrs[s])' = Claimed(phdrs[s]) BY DEF Claimed
  <1> QED BY <1>1, <1>2, <1>3 DEF InPlace

\* Allocations from the pool leave the image alone.
LEMMA PoolKeepsImage ==
  ASSUME TypeOK, ImageInv, AllocatePool, UNCHANGED <<phdrs, refused>>,
         pc # "firmware", Loaded' = Loaded, Loaded \in 0 .. Len(phdrs)
  PROVE  ImageInv'
PROOF
  <1>1. /\ taken \subseteq taken'
        /\ \A p \in taken : mem'[p] = mem[p]
        /\ \A p \in Pages : mem'[p] = mem[p] \/ (mem'[p] = Pool /\ p \in taken')
    BY PoolTakesFree
  <1>2. \A p \in Pages : mem'[p] = Pool => p \in taken' BY <1>1 DEF ImageInv
  <1>3. ASSUME ~refused', NEW s \in 1 .. Loaded', phdrs'[s].load PROVE InPlace(s)'
    <2>1. InPlace(s) /\ s \in 1 .. Len(phdrs) BY <1>3, Files DEF ImageInv
    <2>2. \A p \in Claimed(phdrs[s]) : mem'[p] = mem[p] BY <1>1, <2>1 DEF InPlace
    <2> QED BY <1>1, <2>1, <2>2, StaysInPlace
  <1> QED BY <1>2, <1>3 DEF ImageInv

\* What neither loads nor allocates leaves it alone, too.
LEMMA RestKeepsImage ==
  ASSUME ImageInv, UNCHANGED <<phdrs, refused, mem, taken>>,
         pc = "firmware" => pc' = "firmware",
         pc' = "firmware" \/ Loaded' = Loaded
  PROVE  ImageInv'
PROOF
  <1>1. \A p \in Pages : mem'[p] = Pool => p \in taken' BY DEF ImageInv
  <1>2. ASSUME pc' # "firmware", ~refused', NEW s \in 1 .. Loaded', phdrs'[s].load
        PROVE  InPlace(s)'
    <2>1. InPlace(s) BY <1>2 DEF ImageInv
    <2>2. Claimed(phdrs[s])' = Claimed(phdrs[s]) BY DEF Claimed
    <2> QED BY <2>1, <2>2 DEF InPlace
  <1> QED BY <1>1, <1>2 DEF ImageInv

\* A segment is loaded into pages that were free, so that it spoils none of
\* the others.
LEMMA LoadKeepsImage == TypeInv /\ ImageInv /\ LoadSegment => ImageInv'
PROOF
  <1> SUFFICES ASSUME TypeInv, ImageInv, LoadSegment PROVE ImageInv' OBVIOUS
  <1> PICK n \in Int : n = i + 1 BY DEF TypeInv, TypeOK
  <1> DEFINE ph == phdrs[n]
             InFile(p) == p \in Range(ph.addr, ph.filesz)
  <1>1. /\ TypeOK /\ i \in Nat /\ n \in 1 .. Len(phdrs) /\ Len(phdrs) \in Nat
        /\ pc = "segments" /\ pc' = "segments" /\ i' = i + 1 /\ phdrs' = phdrs
    BY Files DEF TypeInv, TypeOK, LoadSegment, files
  <1>2. /\ ph.addr \in Nat /\ ph.filesz \in Nat /\ ph.memsz \in Nat /\ ph.filesz <= ph.memsz
    BY <1>1, Files
  <1>3. \A p \in Pages : mem'[p] = IF InFile(p) THEN <<n, p - ph.addr>> ELSE mem[p]
    BY DEF LoadSegment
  <1>4. taken \subseteq taken'
    BY DEF LoadSegment, Claim
  <1>5. \A p \in Pages : mem'[p] = Pool => p \in taken'
    <2> SUFFICES ASSUME NEW p \in Pages, mem'[p] = Pool PROVE p \in taken' OBVIOUS
    <2>1. ~InFile(p)
      <3>1. ASSUME InFile(p) PROVE FALSE
        <4>1. mem'[p] = <<n, p - ph.addr>> BY <1>3, <3>1
        <4> QED BY <1>1, <4>1 DEF Pool
      <3> QED BY <3>1
    <2>2. mem[p] = Pool BY <1>3, <2>1
    <2> QED BY <1>4, <2>2 DEF ImageInv
  <1>6. ASSUME ~refused' PROVE \A s \in 1 .. Loaded' : phdrs'[s].load => InPlace(s)'
    <2>1. /\ ~refused
          /\ Claimed(ph) \subseteq Pages \ taken
          /\ taken' = taken \cup Claimed(ph)
      BY <1>6 DEF LoadSegment, Claim
    <2>2. Loaded = i /\ Loaded' = i + 1 BY <1>1 DEF Loaded
    <2>3. \A p \in Int : InFile(p) => p \in Claimed(ph) BY <1>2 DEF Range, Claimed
    <2>4. ASSUME NEW s \in 1 .. i, phdrs[s].load PROVE InPlace(s)'
      <3>1. InPlace(s) /\ s \in 1 .. Len(phdrs)
        BY <1>1, <2>1, <2>2, <2>4 DEF ImageInv
      <3>2. ASSUME NEW p \in Claimed(phdrs[s]) PROVE mem'[p] = mem[p]
        <4>1. p \in taken BY <3>1, <3>2 DEF InPlace
        <4>2. taken \subseteq Pages BY <1>1 DEF TypeOK
        <4>3. p \in Pages /\ p \in Int BY <4>1, <4>2, PagesAssumption
        <4>4. ~InFile(p) BY <2>1, <2>3, <4>1, <4>3
        <4> QED BY <1>3, <4>3, <4>4
      <3> QED BY <1>1, <1>4, <3>1, <3>2, StaysInPlace
    <2>5. InPlace(n)'
      <3>1. \A k \in 0 .. ph.memsz - 1 : ph.addr + k \in Claimed(ph)
        BY <1>1, PagesOf
      <3>2. ASSUME NEW k \in 0 .. ph.filesz - 1
            PROVE  mem'[ph.addr + k] = <<n, k>>
        <4>1. ph.addr + k \in Pages BY <1>2, <2>1, <3>1
        <4>2. InFile(ph.addr + k) /\ (ph.addr + k) - ph.addr = k BY <1>2 DEF Range
        <4> QED BY <1>3, <4>1, <4>2
      <3>3. ASSUME NEW k \in 0 .. ph.memsz - 1
            PROVE  mem'[ph.addr + k] # Pool
        <4>1. ph.addr + k \in Pages \ taken BY <2>1, <3>1
        <4>2. mem[ph.addr + k] # Pool BY <4>1 DEF ImageInv
        <4>3. CASE InFile(ph.addr + k)
          <5>1. mem'[ph.addr + k] = <<n, (ph.addr + k) - ph.addr>>
            BY <1>3, <4>1, <4>3
          <5> QED BY <1>1, <5>1 DEF Pool
        <4>4. CASE ~InFile(ph.addr + k) BY <1>3, <4>1, <4>2, <4>4
        <4> QED BY <4>3, <4>4
      <3>4. Claimed(ph)' = Claimed(ph) /\ Claimed(ph) \subseteq taken'
        BY <1>1, <2>1 DEF Claimed
      <3>5. ph' = ph BY <1>1
      <3> QED BY <3>2, <3>3, <3>4, <3>5 DEF InPlace
    <2> QED BY <1>1, <2>2, <2>4, <2>5
  <1> QED BY <1>5, <1>6 DEF ImageInv
LEMMA ImageStep == TypeInv /\ ImageInv /\ [Next]_vars => ImageInv'
PROOF
  <1> SUFFICES ASSUME TypeInv, ImageInv, [Next]_vars PROVE ImageInv' OBVIOUS
  <1>0. TypeOK /\ Len(phdrs) \in Nat /\ Loaded \in 0 .. Len(phdrs)
    BY Files DEF TypeInv, TypeOK, Loaded
  <1>1. CASE QuietStep
    <2>1. CASE SkipSegment
      <3>1. /\ pc = "segments" /\ pc' = "segments" /\ i \in Nat /\ i' = i + 1
            /\ phdrs' = phdrs /\ mem' = mem /\ taken' = taken /\ refused' = refused
            /\ ~phdrs[i + 1].load
        BY <1>0, <2>1 DEF SkipSegment, files, firmware, TypeOK
      <3>2. Loaded = i /\ Loaded' = i + 1 BY <3>1 DEF Loaded
      <3>3. ASSUME ~refused, NEW s \in 1 .. i + 1, phdrs[s].load PROVE InPlace(s)'
        <4>1. s \in 1 .. i BY <3>1, <3>3
        <4>2. InPlace(s) BY <3>1, <3>2, <3>3, <4>1 DEF ImageInv
        <4>3. Claimed(phdrs[s])' = Claimed(phdrs[s]) BY <3>1 DEF Claimed
        <4> QED BY <3>1, <4>2, <4>3 DEF InPlace
      <3>4. \A p \in Pages : mem'[p] = Pool => p \in taken' BY <3>1 DEF ImageInv
      <3> QED BY <3>1, <3>2, <3>3, <3>4 DEF ImageInv
    <2>2. CASE ~SkipSegment
      <3>1. /\ UNCHANGED <<phdrs, refused, mem, taken>>
            /\ pc # "firmware"
            /\ pc' = "firmware" \/ Loaded' = Loaded
        BY <1>1, <2>2 DEF QuietStep, NoKernel, NoFont, Menu, ReadKeyStroke, MenuDown, MenuUp,
                          Select, MenuBoot, MenuReboot, MenuLegacy, MenuIgnore, Leave, files,
                          firmware, Loaded
      <3> QED BY <3>1, RestKeepsImage
    <2> QED BY <2>1, <2>2
  <1>2. CASE PoolStep
    <2>1. AllocatePool /\ UNCHANGED <<phdrs, refused>> /\ pc # "firmware"
      BY <1>2 DEF PoolStep, ReadHeaders, initGOP, BadFont, FontHeader, FontGlyphs, FontResult,
                  files
    <2>2. Loaded' = Loaded
      <3>1. CASE ReadHeaders
        <4>1. pc = "open" /\ pc' = "segments" /\ i' = i /\ i = 0
          BY <3>1 DEF ReadHeaders, TypeInv
        <4> QED BY <4>1 DEF Loaded
      <3>2. CASE initGOP
        <4>1. pc = "segments" /\ pc' = "font" /\ i = Len(phdrs) /\ phdrs' = phdrs
          BY <3>2 DEF initGOP, files
        <4> QED BY <4>1 DEF Loaded
      <3>3. CASE BadFont \/ FontHeader \/ FontGlyphs \/ FontResult
        <4>1. /\ pc \notin {"open", "segments"} /\ pc' \notin {"open", "segments"}
              /\ phdrs' = phdrs
          BY <3>3 DEF BadFont, FontHeader, FontGlyphs, FontResult, files
        <4> QED BY <4>1 DEF Loaded
      <3> QED BY <1>2, <3>1, <3>2, <3>3 DEF PoolStep
    <2> QED BY <1>0, <2>1, <2>2, PoolKeepsImage
  <1>3. CASE LoadSegment BY <1>3, LoadKeepsImage
  <1>4. CASE AllocateMap
    <2>1. /\ UNCHANGED <<phdrs, refused>> /\ pc # "firmware" /\ Loaded' = Loaded
          /\ AllocatePool \/ UNCHANGED firmware
      BY <1>4 DEF AllocateMap, files, Loaded
    <2>2. AllocatePool BY <2>1 DEF AllocatePool
    <2> QED BY <1>0, <2>1, <2>2, PoolKeepsImage
  <1>5. CASE GetMapSize \/ GetMap \/ RsdpEntry \/ NoEntry \/ kernel_entry
    <2>1. /\ UNCHANGED <<phdrs, refused, mem, taken>>
          /\ pc # "firmware"
          /\ pc' = "firmware" \/ Loaded' = Loaded
      BY <1>5 DEF GetMapSize, GetMap, RsdpEntry, NoEntry, kernel_entry, files, firmware, Loaded
    <2> QED BY <2>1, RestKeepsImage
  <1>6. CASE UNCHANGED vars
    <2>1. /\ UNCHANGED <<phdrs, refused, mem, taken>> /\ pc' = pc /\ Loaded' = Loaded
      BY <1>6 DEF vars, Loaded
    <2> QED BY <2>1, RestKeepsImage
  <1> QED
    BY <1>1, <1>2, <1>3, <1>4, <1>5, <1>6 DEF Next, QuietStep, PoolStep, Stop

\* The kernel is entered with each of its segments in place, whatever the pool
\* took after they were loaded.
THEOREM ImageIntact == Spec => []KernelImageLoaded
PROOF
  <1>1. Init => ImageInv
    <2> SUFFICES ASSUME Init PROVE ImageInv OBVIOUS
    <2>1. \A p \in Pages : mem[p] # Pool BY DEF Init, Junk, Pool
    <2>2. Loaded = 0 BY DEF Init, Loaded
    <2> QED BY <2>1, <2>2 DEF ImageInv
  <1>2. TypeInv /\ ImageInv => KernelImageLoaded
    <2> SUFFICES ASSUME ImageInv PROVE KernelImageLoaded OBVIOUS
    <2>1. pc = "kernel" => Loaded = Len(phdrs) BY DEF Loaded
    <2> QED BY <2>1 DEF ImageInv, InPlace, KernelImageLoaded
  <1> QED BY <1>1, <1>2, TypeInit, TypeStep, ImageStep, PTL DEF Spec
=============================================================================
