# A verification project for KessOS

KessOS boots from UEFI through its own boot loader, sets up a 64-bit kernel,
scans the PCI bus and enters a user program. This directory holds TLA+ modules
that model that code, TLC configurations that check them on small instances,
and proofs of some of their properties that TLAPS checks for every value of
the constants. Paths below are relative to the repository; `kernel/src` is
left off where the file name is unique.

## 1. Inventory

### Components

| Component | State | Operations | What makes it correct |
|---|---|---|---|
| **Boot loader** `gnu-efi/bootloader/main.c` | the loaded segments, `font`, `Key`, `menuEntry`, `legacy_boot`, `mapSize`, `mapKey`, `map`, `rsdp` | `efi_main`, `loadFile`, `loadFont`, `initGOP`, the menu, the jump to the kernel | the kernel's image is intact when entered; the menu does what it shows; the map handed over is the whole, current one; the RSDP is found |
| **Memory manager** `vmm.c`, `memory.c`, `pml4.asm`, `init_tss` | `biggestSegment`, `placement`, `pml4` and every table, `cr3`, `rsp0` | `set_placement`, `alloc_page`, `map_page` (recursive), `init_vmm`, `load_pml4`, `init_tss` | the tables map pages to themselves, all below 6 GB and all tables; tables lie in usable memory; the recursion ends |
| **Boot thread** `kernel.c` | instruction order, IF | `_start`, `init`, `footer_init`, `log` | devices, gates, masks and IF come in a safe order; it reaches user space |
| **IDT and exceptions** `IDT.c`, `exceptions.asm` | `idt`, `idtr` | `set_idt_vec`, `idt_install`, 12 panic handlers | a vector finds its handler; a panic ends the machine |
| **PIC** `legacy-pic.c` | the two 8259A chips | `init_pic`, `PIC_sendEOI`, masks toggled in place | a line is in service exactly while handled |
| **Timer** `PIT.c` | `ticks`, deadline of a sleep | `set_pit_phase`, `pit_sleep`, `irq0_handler` | a sleep is long enough and ends |
| **PC speaker** `pcspkr.c` | port 0x61 | `pcspkr_play`, `pcspkr_shutup` | it sounds from `pcspkr_play` to `pcspkr_shutup` only, and other bits stay |
| **Threads** `thread.c` | `threads`, `ctid`, `nthreads` | `mkthread`, `unlist_thread`, `thread_pit_schedule` | in order, at most once, one at a time; an unlisted thread never starts; each keeps its slot, as far as no two get the same |
| **ACPI** `acpi.c` | `rsdt`, `rsdt_entries`, `fadt` | `acpi_init`, `locate_fadt`, `is_fadt_valid` | the FADT accepted is the RSDT's first, with a valid checksum, if no zero entry comes before it; it ends |
| **PCI** `pci.c` | loop counters, `device_count`, `tmp` | `pci_enumerate_and_log`, `pci_read_word`, accessors | every device found exactly once |
| **Keyboard** `Keyboard.c` | `ps2_keystroke_buffer`, the controller's output buffer | `ps2_keyboard_init`, `irq1_handler`, `fetch_last_ps2_keystroke` | a key pressed is noticed and decoded, and never read half written |
| **System calls** `syscall.c`, `syscall_gate.asm`, `userspace/` | `regs` | `syscall_dispatcher`, three calls | a call does what its number says, and its caller's registers survive |
| **Console** `FrameBuffer.c`, `log` | `canvas` (x, y, prevX) | `kwrite`, `clearScreen`, `draw_square` | drawing stays on the screen |
| **Descriptor tables** `gdt.asm`, `IDT.c`, `TSS.c`, `TSS.asm`, `iopl.asm` | GDT, IDT, TSS, IOPL | `load_gdt`, `set_idt_vec`, `init_tss`, `_context_switch`, `iopl_zero` | the CPU finds in the fields what the code was asked to put there |
| **Strings, memory** `string.c`, `mem.c` | static buffers | `dec2str`, `hex2str`, `strncmp`, `memzero` | they compute what they say |
| **Lock** `lock.c` | the lock's byte | `mutex_lock`, `mutex_unlock` | mutual exclusion; no caller exists |

Without code of their own: the AHCI headers (types only), `docs/xhci.txt` (the
driver is not in the repository), `gnu-efi/{lib,inc,gnuefi,apps}` and
`OVMFbin` (third party).

### How they interact

* The boot loader calls the kernel with a frame buffer, a font, the memory map
  and the RSDP. It leaves memory as it was outside of the parts of segments that are
  in the file, so the kernel's `.bss` is not zero.
* `init` calls `init_tss`, which calls the page allocator before `init_vmm` has
  given it memory; `init_vmm` reads the boot loader's memory map.
* The boot thread and `irq0_handler` share `ticks` and the PIC; the boot
  thread and `irq0_handler` share the thread table, as the handler calls
  `thread_pit_schedule`, which calls a thread inside the interrupt.
* `irq1_handler` shares the PIC with the timer, and the CPU with the threads that run
  inside the timer's interrupt.
* Exceptions interrupt anything, with interrupts left as they were (trap gates).
* An interrupt writes below the stack pointer of what it interrupts, and the kernel is
  compiled with a red zone there (`kernel/Makefile:9` lacks `-mno-red-zone`): leaf functions share
  their arguments with the CPU.
* User space reaches the kernel through `int 0x80` only.

### What is hard here

Interrupts at every instruction of code that reads and writes ports and shared
counters, and on the red zone of leaf functions; threads inside an interrupt, beside
another one; a page-table builder that calls itself on the tables it is building;
memory that starts with anything in it; firmware calls whose status nobody looks at;
tables of the firmware with lengths to be trusted or not. The list with a
source line for each is `hazards` in `PROJECT.json`.

## 2. Modules

| Module | Models | Composed of |
|---|---|---|
| `AddressSpace` | abstract: pages become mapped, one at a time, each to itself | |
| `Vmm` | `vmm.c` and the allocation in `init_tss` | `AddressSpace` through a refinement mapping |
| `VmmProofs` | theorems: types, identity, everything mapped, refinement, memory used | `Vmm`, TLAPS |
| `Pic` | the 8259A as operators on a record | |
| `Descriptors` | gates, the GDT, the TSS: as they are put together and as the CPU takes them apart | |
| `DescriptorsProofs` | theorems about these for every address | `Descriptors`, TLAPS |
| `Kernel` | the boot thread, its handlers, the devices | `Pic`, `Descriptors` |
| `KernelProofs` | theorems about it | `Kernel`, TLAPS |
| `Keyboard` | `Keyboard.c` and the controller's output buffer as operators on a record | |
| `Threads` | `thread.c` under the interrupts of the timer and of the keyboard | `Pic`, `Keyboard` |
| `ThreadsProofs` | theorems about it | `Threads`, TLAPS |
| `Acpi`, `AcpiProofs` | `acpi.c`, and theorems | |
| `Pci`, `PciProofs` | `pci.c`, and theorems | |
| `Bootloader`, `BootloaderProofs` | `efi_main`, and theorems | |
| `Console` | `log`, `kwrite`, `clearScreen`, the conversions of numbers, the panic report | |
| `ConsoleProofs` | theorems about it | `Console`, TLAPS |
| `MC...` | constants for TLC | the module in the name |

Variables and actions have the names of the code's variables and functions
where they stand for one. Operators marked "Mutant" are the faulty variants of
the definition that follows them. No specification uses them: they are what
the properties must be able to tell from the code.

### Vmm

Addresses are page numbers, a table has `R` entries (512 in the code), and there are
four levels. All of memory is the variable `mem`, in which any page can be read
as a table, because that is what the code does: a table is a page that
`alloc_page` returned, and page 0 becomes one if it returned NULL. `map_page` is
recursive; its activations are the variable `stack`, and each block between
two tests of a present bit is a step. `AllocTable` is the block that finds an
absent entry: it allocates, zeroes, links, and calls itself. `Descend` goes to the
next level, `MapLeaf` is the last block. `Lookup` and `Translate` are the walk the MMU
does; they occur in properties only.

`biggestSegment` is in `.bss`, so its start value is a constant set
(`JunkSegments`); memory starts with any word of `Junk` everywhere.

`oom` and `owner` are history variables: whether `alloc_page` ever returned
NULL to `map_page`, and for which level and address a table was allocated.

### Descriptors

A word is the set of its one bits. `Gate`, `Descriptor` and `tss_entry` assign the fields as
`set_idt_vec` and `init_tss` do (`Trunc` is the width of a field, `Shr` the shift); `IDTVector` and
`tss_desc` are the packed structures; `GateOffset`, `SegmentBase`, `RSP0` and the others
are what the CPU reads. `Kernel` takes the flags of its gates from here, and whether a
gate can be used, clears IF and is open to user space is decided from these bits.

### Kernel

`Main` is the boot thread as a listing of instructions, translated from
`_start`, `init`, `pcspkr_play` and the others, with each port access an instruction of its
own. Code that touches nothing a handler or a property looks at (drawing, logging, the
bus scan, building the page tables) is left out, except for its `CLI` and `STI`.
Interrupted contexts are the stack `ctx`. A port access is two instructions, because `inportb` and
`outportb` are leaf functions: `frame` holds the arguments in their red zone, and an
interrupt that comes before they are used puts the selector in SS (`KernelSS`) over them, so that
the access goes to port 0 (`Port0` is what reading it may return). The history variable
`torn` collects the places where that happened. The CPU takes an interrupt between any two
instructions if IF is set, but not directly after `STI`. The PIC (two
instances of the operators of `Pic`), the timer and the keyboard are the environment.

Assumed: `ticks` and the unset entries of the IDT are zero at the start (they
lie in `.bss`, see the boot loader); `ticks` is read from memory in each turn of
`pit_sleep` (the Makefile asks for no optimisation, and the variable is not
`volatile`); handlers take less than a timer period.

### Threads

The kernel creates no thread, so the module models `thread.c` for any user of
`thread.h`: a boot thread that calls `mkthread` (three accesses to memory),
`unlist_thread`, `CLI` and `STI` at will, and threads that return or not, enable
interrupts or not, create others and unlist each other. Assumed of the callers: they
respect the length of the array and pass no negative `tid`, neither of which the code tests. `mkthread` calls `UNGLITCH_ARG` and so has a frame of its
own (`Unglitched`); `unlist_thread` does not, and an interrupt on its argument makes it clear
slot 0 (`RedZone`). No statement of the repository says otherwise, so the properties name this
exception (`torn`) instead of a run refuting it. A thread's `mkthread` is one step, as nothing
interrupts a thread (`OneThreadAtATime`), but the tick it runs in may lie inside a `mkthread` of the boot
thread: if between the read and the write of `nthreads`, both get the same slot and one
thread is lost. The history `raced` records it; `created` holds the threads by slot up to
the first such one, where the properties about the order and the slots end. `dropped` are
the slots that were to be cleared before their thread started; a slot filled again leaves it.

The timer and the keyboard are lines 0 and 1 of the same `Pic`. `irq` is the stack of the
activations of both handlers. A thread is a step of the timer's handler.

### Keyboard

`irq1_handler` is two steps, the scan code (which empties the output buffer) and its
character, as a reader could come between. `SC_ASCII` has 59 bytes; what the handler reads
behind it for a key going up is an entry of its own, `Beyond`. `fetch_last_ps2_keystroke` returns the
buffer in one load of eight bytes and executes `CLI` and `STI`: a reader is anyone who
could call it, so `KeystrokeWhole` speaks of all states of the boot thread and of a thread, and
its `STI` is the `Sti` that both may do.

### Acpi, Pci, Bootloader

`Acpi`: a table is its bytes and whether its signature is "FACP"; an entry is a table or
zero, which `strncmp` takes for a match since a null pointer ends its loop before anything is
compared: `fadt` is then null, and `is_fadt_valid` sums what lies at address 0 (`Pointee`, `low`). The
difference that gives the number of entries wraps at `WordMod`, and an RSDT may be
shorter than its header or longer than its entries, in which case entries past the end lead to
any table or are zero. `Pci`: a configuration address is a set of bits, composed as
`pci_read_word` composes it and taken apart as the host bridge does.
`Bootloader`: the firmware's pool may or may not take a page at each allocation and then
change the memory map; keys come at any time or not at all, and `Key` is then
kept or cleared, as the status is not looked at; reads of files are complete;
memory behind the configuration table holds anything. A page holds junk, data of
the pool, or a given page of a given segment (a pair of numbers); that the image is intact
means that each page of a segment holds that page of the file.

### Console

`job` is the listing of what is still to be drawn: pieces of text (a number of
glyphs, as only the space they take matters), newlines, numbers, which are
converted into the static buffer of their conversion in one step and drawn from
it in the next, and calls. `Main` holds every message of the kernel from the
first `log` on; the bus scan puts its lines in front of it. `shown` is a history
variable: the rectangles drawn since the screen was cleared, with what they
show. An exception replaces `job` by the report of its vector, at any step after
`idt_install`, and in a report as well: the handlers never return. A number is
the sequence of its digits; an `int` is given to `hex2str` as eight nibbles.

## 3. Runs

Runs that pass:

| Run | Instance | What it shows |
|---|---|---|
| `vmm` | `R` = 2 (16 pages), 7 of them mapped by `init_vmm`, 132 memory maps, three contents of memory | below |
| `kernel` | sleeps of 3, 2 and 1 ticks, 2 ticks outside of sleeps, exceptions 3 (no gate) and 14 (gate), three start values of port 0x61, two of port 0 | below |
| `threads` | 3 slots as in the code, two functions of which one never returns, a key going up | below |
| `acpi` | bytes of 4 values, a header of 4 bytes, lengths modulo 20, up to two entries, each zero or a table, tables of up to 2 bytes | below |
| `pci` | the real widths of slot and function, 2 buses, the screen cleared every 2 devices, all subsets of 5 functions at the corners of the fields | below |
| `bootloader` | 7 pages, two kernels, fonts good, bad and missing, three configuration tables | below |
| `console` | the real messages and pixel positions, up to 22 devices, three screens, exceptions 0 and 13, two of them in a row | below |

* `vmm`. With two entries per table, every kind of crossing between tables happens
  within 16 pages: the range that `init_vmm` maps ends in the middle of the last
  table it needs, the segment lies inside, across and outside of it, and its size
  goes from nothing to everything, so that `alloc_page` runs dry at each point of
  the recursion and not at all. `IdentityMapping` and `ImplementsAddressSpace`
  say that no step of the recursion, in the middle of which the table under construction is not yet
  mapped, changes or misdirects a translation. `EverythingMapped` says
  that the tables loaded into `cr3` map what `init_vmm` says and themselves.
  `EnoughPagesSuffice` gives the exact amount of memory that is enough.
  `LargestSegmentChosen` and
  `TablesInUsableMemory` are about `set_placement`; `BootCompletes` is the
  termination of it all.
* `kernel`. `InterruptsFindTheirHandler`: no window in the order of gates, PIC,
  masks and `STI`, and the gate found is one that can be used. `InServiceMatchesHandlers`,
  `HandlersDoNotNest`: end of interrupt exactly once, at the right time. `SleepsLongEnough`: at least
  n-1 whole periods. `OnlyShutupExposed`: of all port accesses, an interrupt can only hit
  those of `pcspkr_shutup`. `SpeakerOnlyWhilePlaying`: unless one has, port 0x61 changes at places
  of `pcspkr_play` and `pcspkr_shutup` only (`InPlay`, `InShutup`), in the two bits of the speaker only, and neither
  call is left before it has set or cleared them. `UserSpaceUndisturbed`: user space runs with IF clear
  and then with a silent speaker. `BootReachesUserSpace`: nothing waits for
  ever. `PanicStopsTheMachine`: nor does an exception, though its report can be
  interrupted. Two idle ticks are enough for an edge to wait in the PIC in any
  window with interrupts off, and for one more to be handled. `KernelSS` is 1 in this run, on the
  scale of its short sleeps, so that a deadline of `pit_sleep` lost to the red zone would show; the run
  `kernel_redzone` has the 16 of the code.
* `threads`. `StartedInOrder` and `CreatedKeepTheirSlots` hold in spite of
  interrupts between the accesses of `mkthread` and on its argument, and of threads that create
  others meanwhile, up to the first slot that two calls got; `OneThreadAtATime` in spite
  of threads that enable interrupts, and it bounds how deep handlers nest; `DroppedNeverStarts` in
  spite of threads that unlist others; `KeystrokeWhole`: no reader comes between the two
  stores (about a scan code beyond the table it says nothing, as what lies there is nobody's promise);
  `HeadStarts` is the liveness of the scheduler, `KeysGetThrough` that of the
  keyboard. The last slot is never started, as the code stops at `MAX_THREADS - 1`. Two
  functions and one key are enough, since the code compares neither with anything but 0 and 128, and
  three slots are the code's own number.
* `acpi`. `AcceptedFadtIsValid` for all RSDTs (the bytes of the table accepted add up to 0, and it has
  the signature unless a zero entry named it), `WellFormedOutcome` (the first
  FADT is taken unless a zero entry lies before it, the machine stops only for a reason) for the ones of
  proper length, `AcpiEnds` for the ones with a wrapped count too.
* `pci`. `FoundSoFar`: at every point of the scan exactly the functions passed
  are found, once each.
* `bootloader`. `KernelImageLoaded`: what the pool takes later never lies in the
  kernel's pages. `MenuObeyed`: a key handled twice does not do what is not on the
  screen. `FilledMapIsCurrent`: a map that was filled is whole and its key is current.
* `console`. Two of the screens are the smallest for which the properties promise
  something (with a row or a column less TLC finds them violated), the third is one on
  which a list of devices moves on to the next column. `ReportWhole`: a panic report is
  complete, alone and on the screen, whatever it interrupted. `NeverOverdraws`: lines neither
  overlap nor run off a screen of 920 by 551 pixels (on the 800 by 600 of some firmware, the
  longest message of `acpi_init` does). `NumbersRight`: shared buffers and sign extension never
  show a wrong number (hexadecimals of any int; the decimals logged are never negative). 22 devices pass the limit of 20 with lines before and after.

Runs that find a disagreement between the code and what the repository says
(`findings` in `PROJECT.json` quotes it):

| Run | What the trace shows |
|---|---|
| `vmm_rsp0` | the ring 0 stack's page comes from an allocator without memory: NULL or a constant address, on which a table may land |
| `kernel_redzone` | an interrupt on `outportb`, called from `pcspkr_shutup` with interrupts on, sends the byte to port 0: the speaker sounds on in user space |
| `kernel_keyboard` | IRQ 1 is unmasked, but user space runs with IF clear: a key press is never noticed |
| `acpi_rsdt` | `acpi_init` tests the address of `rsdt_valid`, so an RSDT with a bad sum is accepted |
| `bootloader_rsdp` | an ACPI 2.0 table in the first entry is passed over, since `CompareGuid` returns 0 for equal GUIDs |

### Fairness

`Vmm` and `Acpi` run with nothing else on the CPU: weak fairness of the next step.
`Kernel`: the timer is a free-running chip (weak), an interrupt that
stays possible is taken (weak), and the boot thread and the handlers each get the CPU between
interrupts, which a handler of microseconds against a period of 10 ms justifies; since
an interrupt disables the interrupted code's steps for a while, this is
strong fairness. `Threads`: the timer, the handlers and returning
threads (weak); the boot thread does not keep interrupts off for ever (weak, an
assumption about users of `thread.h`; its calls need no fairness, nothing waits for them); an interrupt
that is possible again and again is taken (strong, one condition per line). A key can starve if ticks
follow each other without a gap, which the model's timer may do and a period of 10 ms does
not: `KeysGetThrough` has the premise `TimerLeavesTime`, that again and again the boot
thread has interrupts on and no tick is waiting. `Pci`, `Bootloader` and `Console` state no liveness: the menu waits for its user.

### Deadlock

It is checked in every run; a system that has come to its end stutters in a
named action (`Done`, `Stop`, `Idle`).

## 4. Proofs

All theorems hold for every value of the constants under the named `ASSUME`s of the modules,
which TLC evaluates in each run.

**Memory manager** (`VmmProofs`), for every `R >= 2`, every set of memory maps,
every content of memory and of `biggestSegment`. All invariants of the run `vmm` and its refinement are proved:

* `TypeCorrect`: `Spec => []TypeOK`. `TypeOK` is not inductive: that
  `NextPage` is a page needs that the segment never reaches past the last page. `Bounds`
  says so, during the scan from `MemMapAssumption` and afterwards since
  `placement` and the count move together; `TypeInv == TypeOK /\ Bounds`.
* `TablesSafe`: `Spec => []TablesInUsableMemory`, as the pages handed out are the
  front part of the chosen segment, whose other end stays put.
* `MappingIsIdentity`: `Spec => []IdentityMapping`. The inductive invariant
  is `TreeInv`, about a run in which `alloc_page` has not run dry: each
  allocated page is a table of a known level (`owner`, a history variable, holds it with
  the page it was first needed for); an entry of a table of level k > 0 is absent or
  an allocated page of level k-1 whose range is that entry's; an entry of a level 0 table is
  absent or the page that the table's range and the index give; and
  each activation on the stack is at a table whose range holds its page. It needs
  arithmetic about `Shift` and `Index` (the lemmas at the start of the module): pages
  that agree in `Shift(_, k+1)` and in `Index(_, k)` agree in `Shift(_, k)`. A
  page that has just been allocated is in no entry and is no table yet, which is what
  makes zeroing and linking it safe.
* `SegmentChosen`: `Spec => []LargestSegmentChosen`, with the loop invariant of the scan.
* `AllMapped`: `Spec => []EverythingMapped`. `MapInv`: a page that was given to `map_page` is mapped or
  is pending, an activation on the stack works on it; and an activation is at the table that
  the walk to its page leads to, so that its last step maps this page. Walks that
  do not stop are not changed by later steps (`WalkStable`).
* `Refinement`: `Spec => AddressSpace!Spec` under the refinement mapping of `Vmm`. A step that
  allocates changes no translation (`AllocTableEveryWalk`: a walk that now goes on into the new
  table stops there); the last step of an activation changes one at most (`MapLeafEffect`).
* `EnoughPages`: `Spec => []EnoughPagesSuffice`. Each table lies on the walk to the page it was
  allocated for (`Registered`), so no two tables have the same level and range, and none has those of
  the one that is found missing: when the segment is used up, its pages are mapped one-to-one, but not onto,
  the ranges that need tables.

**Kernel** (`KernelProofs`), for any lengths of the sleeps, any exceptions, any contents of the ports and any
selector in SS: all eight safety properties of the run `kernel`. They follow from one invariant, `IInv`
(`Invariant`), since none is inductive alone: whether an interrupt finds its gate depends on the masks,
these on the instruction, and the instruction may be the one an interrupt is about to return to. Its parts
speak of the boot thread's place `ip` in the listing:

* `FlagInv`: the interrupt flag that the boot thread has, or will have when what interrupted it
  returns, is on exactly at the places of `On`: the effect of every `CLI` and `STI`.
* `StackInv`: what can be on `ctx`. A handler runs with interrupts off and returns to code that had them
  on, since its gate cleared IF; a panic report (a trap gate) may be interrupted, or come in a
  handler's or the boot thread's code; hence at most two contexts. `HandlersDoNotNest` is a consequence.
* `TableInv`, `PicInv`: the gates, the masks, the vector base and the step of the initialisation, by
  place. `VectorNumber` computes the vector from the base the PIC was sent, so that the lemma about `Vector` ties the
  port writes of `init_pic` to entry 32 of the IDT.
* `FrameInv`: the arguments of a port function in progress are those of the instruction, or
  an interrupt has hit them, at a place that is in `torn`; these are the two of `Exposed`.
* `PortInv`: what `al` and the ports hold between the instructions that read, change and write them, and that
  the speaker's bits are set from the write of `pcspkr_play` to that of `pcspkr_shutup`; `SpeakerTheorem`
  (`SpeakerOnlyWhilePlaying`) follows with `Listing`, which says at which places these writes are.
* `SleepInv`: while `pit_sleep` waits, the ticks to its deadline and the periods gone by are together no less
  than its argument and the ticks on their way, but for one that may have been on its way before.

The lemma `Listing` says what the places of the listing are; the other proofs cite it.

**Threads** (`ThreadsProofs`), for any length of the table, any entry points and keys: `TypeCorrect`,
`HandlersInTurn` (`OneThreadAtATime`), `ThreadsInOrder`, `UnlistedStayOut`, `SlotsKept`,
`KeystrokesWhole`. `MachineInv` relates the stack of activations with the chip: the line of the
innermost activation is in service until its end of interrupt, an interrupted activation is at its
last step and had a thread, and a raised line 1 means a byte in the output buffer. `TableOK` relates
`nthreads`, the call of `mkthread` in progress and the history, and holds since the handler moves
`ctid` over filled slots only; while nothing has `raced`, `created` has a thread for every slot counted. `ReserveTable`
and `FillTable` are the parts that a call of the boot thread and one of a thread share.

**PCI** (`PciProofs`), for any number of buses, slots and functions within the widths of the fields:
`TypeCorrect` and `ScanIsExact` (`FoundSoFar`). The address lemma takes the composed
configuration address apart again: the fields do not overlap. The functions passed are those before
the counters in lexicographic order, to which a step adds exactly one.

**ACPI** (`AcpiProofs`), for every length an RSDT may claim below the range of the difference
(`LengthsAssumption`: the field has 32 bits): `TypeCorrect`; `FadtIsValid` (`AcceptedFadtIsValid`);
`OutcomeIsRight` (`WellFormedOutcome`: on an RSDT of proper length the table taken is the first with the
signature, unless a zero entry lies before it, and the machine stops only without one or on a bad sum). The loop of `is_fadt_valid` adds modulo the
width of a byte, `ChecksumOK` takes the remainder of the whole sum `Sums`, a recursive function; that they
agree (`SumInv`) is an induction over the bytes. `NatSetInduction` is the principle for a *set* of numbers, derived from
`WFMin` of the library, as the induction rules that take an operator cannot be used.

**Boot loader** (`BootloaderProofs`): `TypeCorrect`; `MenuIsObeyed`, since what is on the screen follows
`menuEntry`; `FilledMapCurrent`, with a buffer that does not exist, is empty, or is filled by the map whose key is
then current; `ImageIntact` (`KernelImageLoaded`): pages claimed for a segment are not in the
pool's choice, so later allocations leave them alone, and a later segment lies elsewhere or the claim was refused. It
needs the ELF rule that a segment's part in the file is not larger than the segment (an assumption).

**Descriptor tables** (`DescriptorsProofs`): for every 64-bit address, the gate leads to the handler
with its flags (`GateLeadsToHandler`), the TSS is found and long enough (`TssFound`), the ring 0 stack is
what was asked for (`KernelStackFound`); and each selector selects its segment (`SelectorsFit`). These
are statements about words of 64 bits, which TLC could not enumerate.

**Console** (`ConsoleProofs`), for any screens, functions found, bytes on the stack, system calls, and
exceptions however often they strike: all three invariants of the run `console`. The inductive invariant
`IInv` (`Invariant`) has these parts:

* `JobInv`, `BufferInv`: what is left to do is a listing of instructions, of which only the first can be a
  number that is converted and not yet drawn; and its buffer still holds it. This is why the
  static buffers can be shared: an exception between the two steps drops the number together with its listing.
* `ShownInv`: what is on the screen is right. `NumbersAreRight` (`NumbersRight`) follows. It rests on
  `DecString` and `HexRight`: what `dec2str` returns for every natural number and `hex2str` for every int; no negative decimal is logged.
  The first is an induction over the digits, with `NatSetInduction` as in `AcpiProofs`, and it has to be shown
  first that a function as `DecLoop` exists (`DecExists`, `DecUnique`); the second goes by the place of the highest
  nibble that is not 0.
* `ReportInv`: after an exception, the machine is at some place k of its report: k instructions are carried out, what they
  draw is all that is on the screen, and if there is room the cursor is at most where the tables `Rows` and
  `Cols` have it. `ReportIsWhole` (`ReportWhole`) is the case k = 41. `PanicSteps` compares the tables
  with the report: no row has more than 100 glyphs, a number counting as ten, and there are 16 rows.

The assumptions are those of the constants: the numbers logged are ints (`FunctionsAssumption`,
`RspAssumption`; the bytes of the dump are signed).

Checked only by TLC: the liveness properties and everything under fairness (beyond this prover), and
`NeverOverdraws`, which depends on the widths of all the kernel's messages and on how many of them lie between two
calls of `clearScreen`.

## 5. Not modelled

* Colours and the bits of glyphs; `strlen` and the like, which change nothing (`strncmp` is in `Acpi`); the registers across the
  system call gate (it saves none, and the user program loads all of them before each call).
* `Lock`: nobody takes one, and a test-and-set loop alone has no behaviour to check.
* `iopl_zero`, which clears bits of RFLAGS that `iretq` then overwrites, and the I/O bitmap of the TSS.
  `tss_entry_t` is not packed, so the fields after `rsp2` lie four bytes later than the CPU reads
  them; all of them are zero, and `Descriptors` leaves them out.
* Red zones in a panic report: `Console` lets it run undisturbed, though the timer may interrupt
  it (trap gates) and hit an argument of a leaf function. `Kernel` has these interrupts.
* Third-party code: `gnu-efi/{lib,inc,gnuefi,apps}` and the firmware image. It makes up nine tenths
  of the lines in the repository; the kernel, the boot loader's `main.c` and the user program are what
  KessOS itself consists of.
* The frame buffer protocol, errors of file reads, `ResetSystem` by port 0x64
  (the end of a behaviour).
* Time beyond the order of ticks; caches, the TLB (the tables are loaded once); the slave
  PIC's lines (always masked); NMIs and spurious interrupts.
* `getMemSize` (never called), `rsdt_valid` (never called), the accessors of
  `pci.c` that nothing calls.
* Six oddities are modelled without a run of their own, as no comment or test promises otherwise: bus 255 is never scanned, the font's magic
  bytes are tested bit by bit (`magic_ok`), the last thread slot is never started, a zero entry of the RSDT
  passes for the FADT, a `mkthread` of the boot thread and one of a thread that interrupts it may get the same slot, and
  the menu acts on a key that was never pressed if `Key`, which is not initialised,
  starts as one and the firmware leaves it alone.

## 6. Plan

Done, in this order: `Vmm` with `AddressSpace`, `Kernel` with `Pic`, `Threads`, `Acpi`, `Pci`,
`Bootloader`, `Console`; then `Keyboard` under `Threads`, the red zone in `Kernel` and `Threads`,
`Descriptors` under `Kernel`; and the proofs of section 4.

Left:

1. `Console` under the interrupts of `Kernel`: the red zones of the drawing functions in a panic report.
2. A proof of `NeverOverdraws`: tables as `Rows` and `Cols` for `init`, a bound on the lines of the scan by
   `tmp`, and an assumption on the longest name of a class.
