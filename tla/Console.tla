------------------------------ MODULE Console ------------------------------
(***************************************************************************)
(* What the kernel writes on the screen, from _start to user space: log    *)
(* with its number conversions, the cursor of kwrite and clearScreen, the  *)
(* bus scan's list of devices, the system calls that draw, and the report  *)
(* of a panic, which may interrupt any of them and another report.         *)
(*                                                                         *)
(* A piece of text is a number of glyphs without a newline; kwrite and log *)
(* draw them in one step, as the cursor moves by the same amount for each. *)
(* Positions are pixels.  What a step leaves to do is the listing job.     *)
(***************************************************************************)
EXTENDS Integers, SequencesExt

CONSTANTS
  Screens,     \* frame buffers [w, h] the firmware may hand over
  Functions,   \* functions the bus scan may find: [bus, slot, id, type], the
               \* last one the length of the class's name
  MaxDevices,  \* bound: functions found
  Stacks,      \* five bytes on the stack, as char
  Rsp,         \* the low half of rsp at a panic, as an int
  UserCalls,   \* numbers of the system calls the user program makes
  Faults,      \* exception vectors that code may raise
  MaxFaults    \* bound: exceptions, nested ones included

\* The largest int; log takes every number as one.
INT_MAX == 2147483647

ASSUME ScreensAssumption == Screens \subseteq [w : Nat, h : Nat]
ASSUME FunctionsAssumption ==
  Functions \subseteq [bus : Nat, slot : Nat, id : 0 .. INT_MAX, type : Nat]
ASSUME StacksAssumption == Stacks \subseteq [1 .. 5 -> -128 .. 127]
ASSUME CallsAssumption == UserCalls \subseteq Seq(Nat)
ASSUME BoundsAssumption ==
  MaxDevices \in Nat /\ MaxFaults \in Nat /\ Faults \subseteq 0 .. 31
ASSUME RspAssumption == Rsp \in -INT_MAX - 1 .. INT_MAX

VARIABLES
  screen,        \* canvas.lfb
  device,        \* the functions on this machine look like this one
  stack,         \* what lies at rsp
  calls,         \* what the user program does
  job,           \* what the CPU has yet to do
  idtr,          \* are the kernel's exception handlers in place?
  x, y, prevX,   \* canvas: the cursor and the column's left edge
  dec_string,    \* the static buffers of the two conversions
  hex_string,
  device_count,  \* the scan's counters
  tmp,
  shown,         \* history: what was drawn since the screen was cleared
  vector,        \* history: the exception reported last
  faults         \* exceptions so far

machine == <<screen, device, stack, calls>>
cursor  == <<x, y, prevX>>
buffers == <<dec_string, hex_string>>
scan    == <<device_count, tmp>>
panics  == <<idtr, vector, faults>>

vars == <<machine, job, cursor, buffers, scan, shown, panics>>

NoVector == -1

-----------------------------------------------------------------------------
(* Numbers.  A digit is 0 to 15; the other symbols are the next numbers.   *)

Minus == 16
Ex    == 17

\* The loop of dec2str: digits, the lowest first.
DecLoop[n \in Nat] == IF n = 0 THEN <<>> ELSE <<n % 10>> \o DecLoop[n \div 10]

dec2str(number) ==
  Reverse(IF number = 0 THEN <<0>>
          ELSE IF number < 0 THEN Append(DecLoop[-number], Minus)
          ELSE DecLoop[number])

\* The weights of the nibbles, the highest first: the powers of 16.
Weight == <<268435456, 16777216, 1048576, 65536, 4096, 256, 16, 1>>

\* An int as the uint32_t that hex2str takes: eight nibbles, the highest first.
Word(n) == LET Nibble(m, k) == (m \div Weight[k]) % 16
           IN  [k \in 1 .. 8 |-> IF n >= 0 THEN Nibble(n, k)
                                 ELSE 15 - Nibble(-n - 1, k)]

\* The loop of hex2str on a word that lost its k lowest nibbles.
HexLoop(w) ==
  LET loop[k \in 0 .. 8] == IF \A j \in 1 .. 8 - k : w[j] = 0 THEN <<>>
                            ELSE <<w[8 - k]>> \o loop[k + 1]
  IN  loop[0]

\* Mutant: a single digit is not padded.
Unpadded(digits) == digits
Padded(digits) == IF Len(digits) < 2 THEN Append(digits, 0) ELSE digits

hex2str(number) ==
  LET digits == IF number = 0 THEN <<0>> ELSE HexLoop(Word(number))
  IN  Reverse(Padded(digits) \o <<Ex, 0>>)

-----------------------------------------------------------------------------
(* Listings.                                                               *)

Text(n) == <<"text", n>>
Dec(n)  == <<"dec", n>>
Hex(n)  == <<"hex", n>>
NL      == <<"newline">>
Clear   == <<"clearScreen">>

\* log: the prefix of a status, then the format.
S_INFO     == << Text(7) >>
S_CRITICAL == << Text(11) >>
S_PANIC    == << Text(18), NL >>
S_NONE     == <<>>
log(format, status) == status \o format

init ==
  log(<<Text(23), NL>>, S_INFO)
  \o log(<<Text(39), NL>>, S_INFO) \o << <<"idt_install">> >>
  \o log(<<Text(64), NL>>, S_INFO)
  \o log(<<Text(17), NL>>, S_INFO) \o << <<"acpi_init">> >>

\* _start, to the switch to user space; the scan takes its own steps.
Main ==
  init \o << <<"pci_scan">> >> \o <<Clear>>
  \o log(<<Text(27), NL>>, S_INFO) \o << <<"ui_start">> >>

found(d) ==
  log(<<Text(22), Dec(d.bus), Text(7), Dec(d.slot), Text(12), Hex(d.id),
        Text(8), Text(d.type), NL>>, S_INFO)

\* The address of byte i of the dump, of which log takes an int.
Address(i) == LET a == Rsp + i - 1
              IN  IF a <= INT_MAX THEN a ELSE a - INT_MAX - INT_MAX - 2

dump_stack(data) ==
  LET line == <<Text(29), NL>>
      Byte(i) == <<Hex(Address(i)), Text(4), Hex(data[i]), NL>>
  IN  line \o <<Text(20), NL>>
      \o Byte(1) \o Byte(2) \o Byte(3) \o Byte(4) \o Byte(5) \o line

\* Mutant: the report is added to what is on the screen.
PanicStartsDirty == <<>>
PanicStarts == <<Clear>>

\* The macro panic.
panic(v, data) ==
  PanicStarts
  \o log(<<NL, Text(100), NL>>, S_PANIC)
  \o log(<<NL, Text(14)>>, S_NONE) \o log(<<Hex(v)>>, S_NONE)
  \o log(<<NL>>, S_NONE)
  \o log(<<NL, Text(28), NL, NL>>, S_NONE)
  \o dump_stack(data) \o << <<"halt">> >>

-----------------------------------------------------------------------------
Does(o) == job # <<>> /\ Head(job)[1] = o
Arg     == Head(job)[2]

Init ==
  /\ screen \in Screens /\ device \in Functions /\ stack \in Stacks
  /\ calls \in UserCalls
  /\ job = Main
  /\ idtr = FALSE
  /\ x = 0 /\ y = 55 /\ prevX = 0
  /\ dec_string = <<>> /\ hex_string = <<>>
  /\ device_count = 0 /\ tmp = 0
  /\ shown = <<>>
  /\ vector = NoVector /\ faults = 0

Below == y >= screen.h

\* kwrite draws n glyphs: below the screen it goes to the top of the next
\* column, whose edge x takes only at the next newline.
kwrite(n, what) ==
  LET row == IF Below THEN 10 ELSE y IN
    /\ prevX' = IF Below THEN prevX + 300 ELSE prevX
    /\ y' = row
    /\ x' = x + 8 * n
    /\ shown' = Append(shown, [x |-> x, y |-> row, w |-> 8 * n, h |-> 16,
                               what |-> what])

Glyphs ==
  /\ Does("text")
  /\ kwrite(Arg, [piece |-> Head(job), text |-> <<>>])
  /\ job' = Tail(job)
  /\ UNCHANGED <<machine, buffers, scan, panics>>

\* Mutant: lines are closer than glyphs are high.
LineHeightSmall == 10
LineHeight == 20

Newline ==
  /\ Does("newline")
  /\ x' = prevX
  /\ y' = y + LineHeight
  /\ job' = Tail(job)
  /\ UNCHANGED <<machine, prevX, buffers, scan, shown, panics>>

\* A number is converted into its static buffer ...
Convert ==
  /\ \/ /\ Does("dec")
        /\ dec_string' = dec2str(Arg)
        /\ UNCHANGED hex_string
     \/ /\ Does("hex")
        /\ hex_string' = hex2str(Arg)
        /\ UNCHANGED dec_string
  /\ job' = << <<"buffer", Head(job)>> >> \o Tail(job)
  /\ UNCHANGED <<machine, cursor, scan, shown, panics>>

\* ... and the buffer is drawn.
Number ==
  /\ Does("buffer")
  /\ LET text == IF Arg[1] = "dec" THEN dec_string ELSE hex_string
     IN  kwrite(Len(text), [piece |-> Arg, text |-> text])
  /\ job' = Tail(job)
  /\ UNCHANGED <<machine, buffers, scan, panics>>

\* Mutant: the column is kept.
ColumnKept == prevX
FirstColumn == 0

clearScreen ==
  /\ Does("clearScreen")
  /\ prevX' = FirstColumn
  /\ x' = 0
  /\ y' = 55
  /\ shown' = <<>>
  /\ job' = Tail(job)
  /\ UNCHANGED <<machine, buffers, scan, panics>>

idt_install ==
  /\ Does("idt_install")
  /\ idtr' = TRUE
  /\ job' = Tail(job)
  /\ UNCHANGED <<machine, cursor, buffers, scan, shown, vector, faults>>

\* acpi_init has found its tables, or says what is wrong with them (44 or 104
\* glyphs) and halts.
acpi_init ==
  /\ Does("acpi_init")
  /\ \/ job' = Tail(job)
     \/ \E n \in {44, 104} :
          job' = log(<<Text(n), NL>>, S_CRITICAL) \o << <<"halt">> >>
  /\ UNCHANGED <<machine, cursor, buffers, scan, shown, panics>>

\* Mutant: the test for a full screen is late by one.
FullLate == tmp = 21
Full == tmp = 20

\* The bus scan, between two functions: the screen is cleared if it is full ...
ScanClear ==
  /\ Does("pci_scan") /\ Full
  /\ tmp' = 0
  /\ job' = <<Clear>> \o job
  /\ UNCHANGED <<machine, cursor, buffers, device_count, shown, panics>>

\* ... before the next function is looked at and logged.
ScanFound ==
  /\ Does("pci_scan") /\ ~Full
  /\ device_count < MaxDevices
  /\ device_count' = device_count + 1
  /\ tmp' = tmp + 1
  /\ job' = found(device) \o job
  /\ UNCHANGED <<machine, cursor, buffers, shown, panics>>

\* The scan ends, perhaps with the screen full.
ScanEnd ==
  /\ Does("pci_scan")
  /\ job' = log(<<Dec(device_count), Text(15), NL>>, S_INFO) \o Tail(job)
  /\ UNCHANGED <<machine, cursor, buffers, scan, shown, panics>>

\* The user program runs for ever; calls is what it has yet to ask for.
UserLoops == Does("ui_start") /\ calls = <<>>

\* syscall_table: sys_reboot resets the machine, the others draw.  A number
\* past the table returns.
syscall_table(rax) ==
  CASE rax = 0 -> << <<"halt">> >>
    [] rax = 1 -> log(<<Text(14), NL>>, S_INFO)
    [] rax = 2 -> << <<"draw_square", [x |-> 0, y |-> 0, w |-> 500, h |-> 30]>> >>

syscall_dispatcher ==
  /\ Does("ui_start") /\ calls # <<>>
  /\ calls' = Tail(calls)
  /\ job' = IF Head(calls) < 3 THEN syscall_table(Head(calls)) \o job ELSE job
  /\ UNCHANGED <<screen, device, stack, cursor, buffers, scan, shown, panics>>

draw_square ==
  /\ Does("draw_square")
  /\ shown' = Append(shown, [x |-> Arg.x, y |-> Arg.y, w |-> Arg.w, h |-> Arg.h,
                             what |-> [piece |-> Head(job), text |-> <<>>]])
  /\ job' = Tail(job)
  /\ UNCHANGED <<machine, cursor, buffers, scan, panics>>

halt ==
  /\ Does("halt")
  /\ job' = <<>>
  /\ UNCHANGED <<machine, cursor, buffers, scan, shown, panics>>

\* An exception anywhere.  Its handler never returns, so that what was
\* interrupted, a report included, is never taken up again.
Fault(v) ==
  /\ idtr /\ job # <<>> /\ faults < MaxFaults
  /\ faults' = faults + 1
  /\ vector' = v
  /\ job' = panic(v, stack)
  /\ UNCHANGED <<machine, idtr, cursor, buffers, scan, shown>>

Stop == (job = <<>> \/ UserLoops) /\ UNCHANGED vars

Next ==
  \/ Glyphs \/ Newline \/ Convert \/ Number \/ clearScreen
  \/ idt_install \/ acpi_init \/ ScanClear \/ ScanFound \/ ScanEnd
  \/ syscall_dispatcher \/ draw_square \/ halt
  \/ \E v \in Faults : Fault(v)
  \/ Stop

Spec == Init /\ [][Next]_vars

-----------------------------------------------------------------------------
(* Properties.                                                             *)

\* Type invariant of the console and of what uses it.
TypeOK ==
  /\ screen \in Screens /\ device \in Functions /\ stack \in Stacks
  /\ x \in Nat /\ y \in Nat /\ prevX \in Nat
  /\ dec_string \in Seq(0 .. Minus) /\ hex_string \in Seq(0 .. Ex)
  /\ device_count \in 0 .. MaxDevices /\ tmp \in 0 .. 20
  /\ idtr \in BOOLEAN
  /\ vector \in Faults \cup {NoVector} /\ faults \in 0 .. MaxFaults

OnScreen(r) == r.x + r.w <= screen.w /\ r.y + r.h <= screen.h
Apart(r, s) == \/ r.x + r.w <= s.x \/ s.x + s.w <= r.x
               \/ r.y + r.h <= s.y \/ s.y + s.h <= r.y

\* On a screen with room for 25 lines of 115 glyphs, nothing the kernel or
\* the user program draws lies on what was there, or off the screen: the scan
\* clears it in time, the four lines of init and the count of devices
\* included.
NeverOverdraws ==
  [][screen.w >= 920 /\ screen.h >= 551 /\ Len(shown') > Len(shown) =>
       /\ OnScreen(shown'[Len(shown')])
       /\ \A r \in ToSet(shown) : Apart(shown'[Len(shown')], r)]_vars

\* What the first n instructions of a listing draw, for every n.
DrawnBy(listing) ==
  LET first[n \in 0 .. Len(listing)] ==
        IF n = 0 THEN <<>>
        ELSE IF listing[n][1] \in {"text", "dec", "hex"} THEN Append(first[n - 1], listing[n])
        ELSE first[n - 1]
  IN  first
Drawn(listing) == DrawnBy(listing)[Len(listing)]
Pieces(s) == [k \in 1 .. Len(s) |-> s[k].what.piece]

\* A machine that halted after an exception shows the report of the last one,
\* from its first line to the end of the dump, and nothing else, whatever was
\* interrupted in the middle of a line or of a report.  Where there is room
\* for 16 lines of 100 glyphs, all of it is on the screen, from the first
\* column on.
ReportWhole ==
  job = <<>> /\ vector # NoVector =>
    /\ Pieces(shown) = Drawn(panic(vector, stack))
    /\ screen.w >= 800 /\ screen.h >= 371 =>
         /\ shown[1].x = 0 /\ shown[1].y = 55
         /\ \A r \in ToSet(shown) : OnScreen(r)

\* The value of the first n digits, for every n.
DecValues(s) ==
  LET first[n \in 0 .. Len(s)] == IF n = 0 THEN 0 ELSE 10 * first[n - 1] + s[n]
  IN  first
DecValue(s) == DecValues(s)[Len(s)]

\* Every number on the screen is the one that was to be shown, although all
\* conversions share their buffers: decimals, of natural numbers as no negative
\* one is ever logged, without leading zeros, hexadecimals of any int with at
\* least two digits, as the eight-nibble two's complement of the number, leading
\* zeros left out.
NumbersRight ==
  \A r \in ToSet(shown) :
    LET p == r.what.piece  t == r.what.text  digits == SubSeq(t, 3, Len(t)) IN
      /\ p[1] = "dec" => DecValue(t) = p[2] /\ (Len(t) > 1 => t[1] # 0)
      /\ p[1] = "hex" =>
           /\ SubSeq(t, 1, 2) = <<0, Ex>>
           /\ Len(digits) >= 2 /\ (Len(digits) > 2 => digits[1] # 0)
           /\ Word(p[2]) = [k \in 1 .. 8 - Len(digits) |-> 0] \o digits
=============================================================================
