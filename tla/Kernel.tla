------------------------------- MODULE Kernel -------------------------------
(***************************************************************************)
(* The kernel from _start to user space: the boot thread of kernel.c with  *)
(* the interrupts that preempt it.  The boot thread is the listing Main;   *)
(* the CPU, the two interrupt controllers, the timer and the keyboard are  *)
(* its environment.  Handlers run on a stack of interrupted contexts.      *)
(*                                                                         *)
(* Steps of the boot thread that touch nothing a handler or this module's  *)
(* properties look at (drawing, logging, the tables of Vmm, the bus scan)  *)
(* are left out of the listing.                                            *)
(*                                                                         *)
(* The kernel is compiled with a red zone: a function that calls no other, *)
(* as inportb and outportb, keeps its arguments below the stack pointer,   *)
(* where the CPU pushes SS, RSP, RFLAGS, CS and RIP when it takes an       *)
(* interrupt.                                                              *)
(***************************************************************************)
EXTENDS Pic, Sequences, FiniteSets

CONSTANTS
  Sleeps,    \* the three arguments of pit_sleep (200, 150 and 25 in the code)
  MaxIdle,   \* bound: timer periods outside of pit_sleep
  Faults,    \* exception vectors that code may raise while it runs
  Speaker0,  \* what port 0x61 may hold when the kernel starts
  Port0,     \* what reading port 0 may return
  KernelSS   \* the selector in SS, as a number (16 in the code)

ASSUME SleepsAssumption == Sleeps \in [1 .. 3 -> Nat]
ASSUME MaxIdleAssumption == MaxIdle \in Nat
ASSUME FaultsAssumption == Faults \subseteq 0 .. 31
ASSUME SpeakerAssumption == Speaker0 \subseteq Byte /\ Port0 \subseteq Byte
ASSUME KernelSSAssumption == KernelSS \in Nat

VARIABLES
  ip,        \* the next instruction of Main
  iflag,     \* IF, the interrupt flag
  shadow,    \* the instruction after STI is not interrupted
  al,        \* the register of port input and output
  frame,     \* arguments and result of the port function that is running
  ctx,       \* handlers in progress, the innermost one last
  halted,    \* CLI; HLT: nothing ever happens again
  pic,       \* the master (1) and the slave (2)
  idt,       \* gates installed by set_idt_vec, by vector
  idtr,      \* has idt_install loaded the table?
  spk,       \* port 0x61: bits 0 and 1 drive the speaker
  ticks,     \* the timer driver's count
  eticks,    \* pit_sleep's deadline
  sleeping,  \* pit_sleep has set its deadline and polls
  periods,   \* history: timer periods since the deadline was set, up to Arg
  idle,      \* timer periods outside of pit_sleep so far
  torn       \* history: instructions whose frame an interrupt has overwritten

vars == <<ip, iflag, shadow, al, frame, ctx, halted, pic, idt, idtr, spk, ticks,
          eticks, sleeping, periods, idle, torn>>

tables   == <<idt, idtr>>
devices  == <<pic, spk>>
timer    == <<ticks, eticks, sleeping, periods, idle>>
redzone  == <<frame, torn>>

-----------------------------------------------------------------------------
PIC1_COMMAND == 32
PIC1_DATA    == 33
PIC2_COMMAND == 160
PIC2_DATA    == 161
SPEAKER      == 97

PIC_EOI == ByteOf(32)

\* The flags of gates, and what the CPU does with them.
Cpu == INSTANCE Descriptors

Exceptions == {0, 1, 4, 5, 6, 7, 8, 10, 11, 12, 13, 14}

\* Mutant: init_pic leaves the lines unmasked.
all_unmasked == {}
all_masked == ByteOf(255)

\* init_pic, one port write at a time.
init_pic ==
  << <<"out", PIC1_COMMAND, ByteOf(17)>>, <<"out", PIC2_COMMAND, ByteOf(17)>>,
     <<"out", PIC1_DATA, ByteOf(32)>>,    <<"out", PIC2_DATA, ByteOf(40)>>,
     <<"out", PIC1_DATA, ByteOf(4)>>,     <<"out", PIC2_DATA, ByteOf(2)>>,
     <<"out", PIC1_DATA, ByteOf(1)>>,     <<"out", PIC2_DATA, ByteOf(1)>>,
     <<"out", PIC1_DATA, all_masked>>,    <<"out", PIC2_DATA, all_masked>> >>

\* Mutant: the mask is written back as it was read.
toggle_nothing(b) == << <<"in", PIC1_DATA>>, <<"out_al", PIC1_DATA>> >>

\* outportb(PIC1_DATA, inportb(PIC1_DATA) ^ b).
toggle_mask(b) ==
  << <<"in", PIC1_DATA>>, <<"xor", b>>, <<"out_al", PIC1_DATA>> >>

init ==
  << <<"gates", Exceptions, "panic", Cpu!TRAP_GATE_FLAGS>>,
     <<"lidt">> >>
  \o init_pic \o
  << <<"gates", {32}, "irq0_handler", Cpu!INT_GATE_FLAGS>>,
     <<"gates", {33}, "irq1_handler", Cpu!INT_GATE_FLAGS>>,
     <<"gates", {128}, "syscall_gate", Cpu!IDT_INT_GATE_USER>> >>
  \o toggle_mask({0}) \o
  << <<"acpi_init">> >>

\* Mutant: the other bits of the port are lost.
pcspkr_play_clobber ==
  << <<"cli">>, <<"out", SPEAKER, {0, 1}>>, <<"sti">> >>

\* Mutant: the port is changed with interrupts on.
pcspkr_play_open ==
  << <<"in", SPEAKER>>, <<"or", {0, 1}>>, <<"out_al", SPEAKER>> >>

\* Mutant: only one of the speaker's bits is cleared.
pcspkr_shutup_half ==
  << <<"in", SPEAKER>>, <<"and", ByteOf(253)>>, <<"out_al", SPEAKER>> >>

\* The two bits are always written: the code skips the write when they are
\* set already, and then it would change nothing.
pcspkr_play ==
  << <<"cli">>, <<"in", SPEAKER>>, <<"or", {0, 1}>>, <<"out_al", SPEAKER>>,
     <<"sti">> >>

pcspkr_shutup ==
  << <<"in", SPEAKER>>, <<"and", ByteOf(252)>>, <<"out_al", SPEAKER>> >>

ps2_keyboard_init == toggle_mask({1})

\* _start, up to the call of pcspkr_shutup and from its return on.
until_shutup ==
  << <<"cli">> >> \o init \o << <<"sti">> >>
  \o << <<"cli">>, <<"sti">> >>                    \* around the bus scan
  \o << <<"sleep", Sleeps[1]>>, <<"sleep", Sleeps[2]>> >>
  \o << <<"cli">>, <<"sti">> >>                    \* around clearScreen
  \o pcspkr_play \o << <<"sleep", Sleeps[3]>> >>

after_shutup ==
  << <<"cli">> >> \o ps2_keyboard_init \o << <<"context_switch">> >>

start == until_shutup \o pcspkr_shutup \o after_shutup

ui_start == << <<"int80">>, <<"int80">> >>

\* All of it; ui_start ends in an empty loop.
Main == start \o ui_start

UserEntry == Len(start) + 1

-----------------------------------------------------------------------------
user      == ctx = <<>> /\ ip >= UserEntry
panicking == \E k \in 1 .. Len(ctx) : ctx[k].isr = "panic"

\* The boot thread or the user program has the CPU.
Running == ctx = <<>> /\ ~halted
At(o)   == Running /\ ip <= Len(Main) /\ Main[ip][1] = o
Arg     == Main[ip][2]

\* The boot thread goes on; an instruction has passed since any STI.
Advance == ip' = ip + 1 /\ shadow' = FALSE

\* No port function is running.
NoFrame == [step |-> "none", port |-> 0, val |-> {}]

Init ==
  /\ ip = 1
  /\ iflag \in BOOLEAN
  /\ shadow = FALSE
  /\ al = {}
  /\ frame = NoFrame
  /\ ctx = <<>>
  /\ halted = FALSE
  \* The firmware leaves the master at its reset vector, its mask unknown.
  /\ \E m \in {{}, 0 .. 7} :
       pic = [c \in {1, 2} |->
                [icw |-> 0, base |-> ByteOf(8), imr |-> m, irr |-> {}, isr |-> {}]]
  /\ idt = <<>>
  /\ idtr = FALSE
  /\ spk \in Speaker0
  /\ ticks = 0
  /\ eticks = 0
  /\ sleeping = FALSE
  /\ periods = 0
  /\ idle = 0
  /\ torn = {}

Cli ==
  /\ At("cli")
  /\ iflag' = FALSE
  /\ Advance
  /\ UNCHANGED <<al, ctx, halted, devices, tables, timer, redzone>>

Sti ==
  /\ At("sti")
  /\ iflag' = TRUE
  /\ ip' = ip + 1
  /\ shadow' = TRUE
  /\ UNCHANGED <<al, ctx, halted, devices, tables, timer, redzone>>

set_idt_vec ==
  /\ At("gates")
  /\ idt' = [v \in DOMAIN idt \cup Arg |->
               IF v \in Arg THEN [isr |-> Main[ip][3], attr |-> Main[ip][4]]
               ELSE idt[v]]
  /\ Advance
  /\ UNCHANGED <<iflag, al, ctx, halted, devices, idtr, timer, redzone>>

idt_install ==
  /\ At("lidt")
  /\ idtr' = TRUE
  /\ Advance
  /\ UNCHANGED <<iflag, al, ctx, halted, devices, idt, timer, redzone>>

\* The CPU pushes SS, RSP and RFLAGS over the frame of a port function: what is
\* zero in them takes the place of the port and of inportb's result, and the
\* selector in SS that of outportb's data.
Overwritten ==
  CASE frame.step = "none" -> frame
    [] frame.step = "out"  -> [frame EXCEPT !.port = 0, !.val = ByteOf(KernelSS)]
    [] OTHER               -> [frame EXCEPT !.port = 0, !.val = {}]

\* What a write of v to a port does to the devices.
Write(port, v) ==
  /\ pic' = CASE port = PIC1_COMMAND -> [pic EXCEPT ![1] = Command(@, v)]
              [] port = PIC2_COMMAND -> [pic EXCEPT ![2] = Command(@, v)]
              [] port = PIC1_DATA    -> [pic EXCEPT ![1] = Data(@, v)]
              [] port = PIC2_DATA    -> [pic EXCEPT ![2] = Data(@, v)]
              [] OTHER               -> pic
  /\ spk' = IF port = SPEAKER THEN v ELSE spk

\* What a read of a port returns.
Reads(port) ==
  CASE port = PIC1_DATA -> {pic[1].imr}
    [] port = SPEAKER   -> {spk}
    [] OTHER            -> Port0

\* inportb and outportb store their arguments ...
PortCall ==
  /\ \/ At("in") /\ frame' = [step |-> "in", port |-> Arg, val |-> {}]
     \/ At("out") /\ frame' = [step |-> "out", port |-> Arg, val |-> Main[ip][3]]
     \/ At("out_al") /\ frame' = [step |-> "out", port |-> Arg, val |-> al]
  /\ frame = NoFrame
  /\ shadow' = FALSE
  /\ UNCHANGED <<ip, iflag, al, ctx, halted, devices, tables, timer, torn>>

\* ... outportb loads and uses them ...
Out ==
  /\ Running /\ frame.step = "out"
  /\ Write(frame.port, frame.val)
  /\ frame' = NoFrame
  /\ Advance
  /\ UNCHANGED <<iflag, al, ctx, halted, tables, timer, torn>>

\* ... and inportb also stores the result ...
In ==
  /\ Running /\ frame.step = "in"
  /\ \E v \in Reads(frame.port) : frame' = [frame EXCEPT !.step = "result", !.val = v]
  /\ UNCHANGED <<ip, iflag, shadow, al, ctx, halted, devices, tables, timer, torn>>

\* ... and loads it.
InResult ==
  /\ Running /\ frame.step = "result"
  /\ al' = frame.val
  /\ frame' = NoFrame
  /\ Advance
  /\ UNCHANGED <<iflag, ctx, halted, devices, tables, timer, torn>>

\* The operators applied to what inportb returned.
Compute ==
  /\ \/ At("xor") /\ al' = Xor(al, Arg)
     \/ At("or") /\ al' = al \cup Arg
     \/ At("and") /\ al' = al \cap Arg
  /\ Advance
  /\ UNCHANGED <<iflag, ctx, halted, devices, tables, timer, redzone>>

\* acpi_init returns, or stops the machine when it dislikes the tables.
acpi_init ==
  /\ At("acpi_init")
  /\ \/ Advance /\ UNCHANGED <<iflag, halted>>
     \/ iflag' = FALSE /\ halted' = TRUE /\ UNCHANGED <<ip, shadow>>
  /\ UNCHANGED <<al, ctx, devices, tables, timer, redzone>>

\* Mutant: the difference instead of the sum.
deadline_minus == Arg - ticks

deadline == ticks + Arg

\* Mutant: the last tick is not awaited.
expired_early == ticks + 1 >= eticks

expired == ticks >= eticks

\* pit_sleep reads ticks once for its deadline ...
SleepBegin ==
  /\ At("sleep")
  /\ ~sleeping
  /\ eticks' = deadline
  /\ sleeping' = TRUE
  /\ periods' = 0
  /\ shadow' = FALSE
  /\ UNCHANGED <<ip, iflag, al, ctx, halted, devices, tables, ticks, idle, redzone>>

\* ... and polls it until the deadline is reached.
SleepEnd ==
  /\ At("sleep")
  /\ sleeping
  /\ expired
  /\ sleeping' = FALSE
  /\ Advance
  /\ UNCHANGED <<iflag, al, ctx, halted, devices, tables, ticks, eticks,
                 periods, idle, redzone>>

\* iretq into user space, with the RFLAGS of context_switch_struct: zero.
context_switch ==
  /\ At("context_switch")
  /\ iflag' = FALSE
  /\ Advance
  /\ UNCHANGED <<al, ctx, halted, devices, tables, timer, redzone>>

-----------------------------------------------------------------------------
(* Handlers.                                                               *)

\* The CPU takes the gate of vector v: the interrupted IF is saved, and
\* cleared by an interrupt gate.
Enter(v) ==
  /\ ctx' = Append(ctx, [isr |-> idt[v].isr, step |-> "enter", saved |-> iflag])
  /\ iflag' = (iflag /\ ~Cpu!ClearsIF(idt[v].attr))

\* Mutant: without UNGLITCH_ARG pit_sleep calls no other function, and the
\* selector in SS takes the place of its deadline.
Glitched(deadline_) == KernelSS

\* UNGLITCH_ARG(_ticks) is a call, so that pit_sleep has a frame of its own.
Unglitched(deadline_) == deadline_

\* The vector the master presents, as a number.
VectorNumber(l) == Value(Vector(pic[1], l))

\* The CPU accepts the first line that is ready, between two instructions of
\* whatever it runs.
Interrupt ==
  /\ ~halted /\ iflag /\ ~shadow
  /\ Ready(pic[1]) # {}
  /\ LET l == First(Ready(pic[1])) IN
       /\ idtr /\ VectorNumber(l) \in DOMAIN idt
       /\ Enter(VectorNumber(l))
       /\ pic' = [pic EXCEPT ![1] = Acknowledge(@, l)]
  /\ frame' = Overwritten
  /\ torn' = IF frame = NoFrame THEN torn ELSE torn \cup {ip}
  /\ eticks' = IF sleeping THEN Unglitched(eticks) ELSE eticks
  /\ UNCHANGED <<ip, shadow, al, halted, tables, spk, ticks, sleeping, periods, idle>>

\* int 0x80 of the user program.  A gate that is not open to it raises a general
\* protection fault instead.
Syscall ==
  /\ At("int80")
  /\ idtr /\ 128 \in DOMAIN idt
  /\ Enter(IF Cpu!OpenToUsers(idt[128].attr) THEN 128 ELSE 13)
  /\ Advance
  /\ UNCHANGED <<al, halted, devices, tables, timer, redzone>>

\* An instruction faults, once per boot: the handlers never return.  A vector
\* without a gate raises segment-not-present (11) instead.  Before idt_install
\* the firmware's table is in use, which is not modelled.  The delivery of the
\* exception ends the shadow of an STI.
Fault(v) ==
  /\ ~halted /\ idtr /\ ~panicking
  /\ Enter(IF v \in DOMAIN idt THEN v ELSE 11)
  /\ shadow' = FALSE
  /\ UNCHANGED <<ip, al, halted, devices, tables, timer, redzone>>

current == ctx[Len(ctx)]
InHandler(h, s) == ctx # <<>> /\ ~halted /\ current.isr = h /\ current.step = s
Goto(s) == ctx' = [ctx EXCEPT ![Len(ctx)].step = s]

\* irq0_handler: ++ticks.  thread_pit_schedule returns at once, because the
\* kernel creates no thread (see Threads for the case that it does).
Tick ==
  /\ InHandler("irq0_handler", "enter")
  /\ ticks' = ticks + 1
  /\ Goto("eoi")
  /\ UNCHANGED <<ip, iflag, shadow, al, halted, devices, tables, eticks,
                 sleeping, periods, idle, redzone>>

\* Mutant: the end of interrupt goes to the slave only.
PIC_sendEOI_slave(line) == [pic EXCEPT ![2] = Command(@, PIC_EOI)]

\* The slave is told as well if the line is one of its own.
PIC_sendEOI(line) ==
  [pic EXCEPT ![1] = Command(@, PIC_EOI),
              ![2] = IF line >= 8 THEN Command(@, PIC_EOI) ELSE @]

\* The end of irq0_handler.
TickEOI ==
  /\ InHandler("irq0_handler", "eoi")
  /\ pic' = PIC_sendEOI(0)
  /\ Goto("iret")
  /\ UNCHANGED <<ip, iflag, shadow, al, halted, tables, spk, timer, redzone>>

\* syscall_dispatcher: log or draw_square.
syscall_dispatcher ==
  /\ InHandler("syscall_gate", "enter")
  /\ Goto("iret")
  /\ UNCHANGED <<ip, iflag, shadow, al, halted, devices, tables, timer, redzone>>

\* iretq restores the flags of the interrupted context.
Iret ==
  /\ ctx # <<>> /\ ~halted /\ current.step = "iret"
  /\ iflag' = current.saved
  /\ ctx' = SubSeq(ctx, 1, Len(ctx) - 1)
  /\ UNCHANGED <<ip, shadow, al, halted, devices, tables, timer, redzone>>

\* The panic macro: the report runs with the flags of the faulting code ...
PanicReport ==
  /\ InHandler("panic", "enter")
  /\ Goto("stop")
  /\ UNCHANGED <<ip, iflag, shadow, al, halted, devices, tables, timer, redzone>>

\* Mutant: HLT without CLI; an interrupt wakes the CPU.
hlt_only == iflag
cli_hlt == FALSE

\* ... and CLI; HLT ends it.
PanicHalt ==
  /\ InHandler("panic", "stop")
  /\ iflag' = cli_hlt
  /\ halted' = TRUE
  /\ UNCHANGED <<ip, shadow, al, ctx, devices, tables, timer, redzone>>

-----------------------------------------------------------------------------
(* The environment.                                                        *)

\* A period of the timer ends.  Outside of pit_sleep that happens MaxIdle
\* times at most, and in pit_sleep only until the deadline: further periods
\* would change nothing but the count.
TimerPeriod ==
  /\ ~halted
  /\ \/ /\ sleeping /\ ticks < eticks
        /\ periods' = IF periods < Arg THEN periods + 1 ELSE periods
        /\ UNCHANGED idle
     \/ /\ ~sleeping /\ idle < MaxIdle
        /\ idle' = idle + 1
        /\ UNCHANGED periods
  /\ pic' = [pic EXCEPT ![1] = Raise(@, 0)]
  /\ UNCHANGED <<ip, iflag, shadow, al, ctx, halted, tables, spk, ticks,
                 eticks, sleeping, redzone>>

\* The keyboard controller has a byte.  It raises its line again only after
\* the byte was read.
KeyPress ==
  /\ ~halted
  /\ 1 \notin pic[1].irr \cup pic[1].isr
  /\ pic' = [pic EXCEPT ![1] = Raise(@, 1)]
  /\ UNCHANGED <<ip, iflag, shadow, al, ctx, halted, tables, spk, timer, redzone>>

-----------------------------------------------------------------------------
Main_Step ==
  \/ Cli \/ Sti \/ set_idt_vec \/ idt_install
  \/ PortCall \/ Out \/ In \/ InResult \/ Compute
  \/ acpi_init \/ SleepBegin \/ SleepEnd \/ context_switch \/ Syscall

Handler_Step ==
  \/ Tick \/ TickEOI \/ syscall_dispatcher \/ Iret \/ PanicReport \/ PanicHalt

\* The empty loop of ui_start, or a stopped machine.
Idle == (halted \/ (user /\ ip > Len(Main))) /\ UNCHANGED vars

Next ==
  \/ Main_Step \/ Handler_Step \/ Interrupt
  \/ \E v \in Faults : Fault(v)
  \/ TimerPeriod \/ KeyPress
  \/ Idle

Spec == Init /\ [][Next]_vars

\* The timer never stops.  The CPU executes whatever it runs: a handler, which
\* is not preempted for ever, and the boot thread, which gets the CPU between
\* two interrupts again and again, as a handler takes far less time than the
\* 10 ms to the next interrupt.
Fairness ==
  /\ WF_vars(TimerPeriod)
  /\ WF_vars(Interrupt)
  /\ SF_vars(Handler_Step)
  /\ SF_vars(Main_Step)

FairSpec == Spec /\ Fairness

-----------------------------------------------------------------------------
(* Properties.                                                             *)

\* Type invariant of the boot thread, its handlers and its devices.
TypeOK ==
  /\ ip \in 1 .. Len(Main) + 1
  /\ iflag \in BOOLEAN /\ shadow \in BOOLEAN /\ halted \in BOOLEAN
  /\ al \in Byte /\ spk \in Byte
  /\ frame \in [step : {"none", "in", "result", "out"}, port : 0 .. 255, val : Byte]
  /\ torn \subseteq 1 .. Len(Main)
  /\ \A k \in 1 .. Len(ctx) :
       ctx[k] \in [isr : {"panic", "irq0_handler", "irq1_handler", "syscall_gate"},
                  step : {"enter", "eoi", "iret", "stop"}, saved : BOOLEAN]
  /\ pic \in [{1, 2} -> Chip]
  /\ DOMAIN idt \subseteq 0 .. 255
  /\ idtr \in BOOLEAN /\ sleeping \in BOOLEAN
  /\ ticks \in Nat /\ eticks \in Nat /\ periods \in Nat /\ idle \in 0 .. MaxIdle

\* Whenever the CPU may accept an interrupt, the vector it will be given for
\* every line that is not masked leads to that line's handler, and is not the
\* vector of a CPU exception: init_pic, the gates, the masks and STI come in
\* an order that leaves no window.  (Until the first CLI the machine still has
\* the firmware's table, and its handlers are not part of the model.)
InterruptsFindTheirHandler ==
  ip > 1 /\ iflag /\ ~shadow /\ ~panicking =>
    \A l \in (0 .. 7) \ pic[1].imr :
      /\ idtr
      /\ VectorNumber(l) \in DOMAIN idt
      /\ Cpu!Usable(idt[VectorNumber(l)].attr)
      /\ l = 0 => idt[VectorNumber(l)].isr = "irq0_handler"
      /\ l = 1 => idt[VectorNumber(l)].isr = "irq1_handler"
      /\ l \in {0, 1}

\* A line is in service exactly while its handler runs and has not yet sent
\* its end of interrupt: none is left in service, which would silence the
\* timer for ever, and none is retired early.
InServiceMatchesHandlers ==
  pic[1].isr = {0 : k \in {j \in 1 .. Len(ctx) :
                             ctx[j].isr = "irq0_handler" /\ ctx[j].step # "iret"}}

\* The interrupt handler is never preempted by another interrupt: ++ticks is
\* not atomic, and the handler's stack use would be unbounded.
HandlersDoNotNest ==
  Cardinality({k \in 1 .. Len(ctx) : ctx[k].isr = "irq0_handler"}) <= 1

\* pit_sleep(n) returns only after n-1 whole timer periods: the first tick it
\* counts may be an old edge that waited in the PIC while interrupts were off,
\* and no more than one edge can wait there.
SleepsLongEnough ==
  [][sleeping /\ ~sleeping' => periods + 1 >= Arg]_vars

\* User space runs with interrupts off and with the speaker silent, whatever
\* was pending or playing before, unless an interrupt has hit a port function.
UserSpaceUndisturbed ==
  user => ~iflag /\ (torn = {} => spk \cap {0, 1} = {})

\* The places of the two calls in _start: pcspkr_play is the last before a sleep.
InPlay   == ip \in Len(until_shutup) - Len(pcspkr_play) .. Len(until_shutup) - 1
Shutup   == Len(until_shutup) + 1 .. Len(until_shutup) + Len(pcspkr_shutup)
InShutup == ip \in Shutup

\* The port functions called from pcspkr_shutup are the only ones that an
\* interrupt can hit: the PIC is programmed and the speaker is started with
\* interrupts off, and the masks are never read and written back around one.
OnlyShutupExposed == torn \subseteq Shutup

\* Unless an interrupt has hit a port function, the speaker sounds from the call
\* of pcspkr_play to that of pcspkr_shutup, however the timer interrupts them:
\* its port is changed by these calls only, which set and clear the two bits of
\* the speaker, keep the others, and have done so when they return.
SpeakerOnlyWhilePlaying ==
  [][torn = {} =>
       /\ spk' # spk => \/ InPlay /\ spk' = spk \cup {0, 1}
                        \/ InShutup /\ spk' = spk \ {0, 1}
       /\ InPlay /\ ~InPlay' => {0, 1} \subseteq spk'
       /\ InShutup /\ ~InShutup' => spk' \cap {0, 1} = {}]_vars

\* pcspkr_shutup is called so that the speaker is silent when the user program
\* starts, and UNGLITCH_ARG "Fixes bizzare bug", that interrupts overwrite what
\* functions keep in the red zone.
SpeakerSilenced == user => spk \cap {0, 1} = {}

\* Without a fault the boot reaches user space, or acpi_init stops the machine:
\* no sleep waits for a tick that cannot come.
BootReachesUserSpace == <>(user \/ halted)

\* A CPU exception stops the machine: the report is never cut short by an
\* endless run of interrupts, and CLI; HLT leaves nothing that could run.
PanicStopsTheMachine == panicking ~> [](halted /\ ~iflag)

\* A key press is noticed: footer_init calls ps2_keyboard_init, which says it
\* will "unmask channel for IRQ 1", so that a raised line 1 is acknowledged.
KeyPressNoticed == (user /\ 1 \in pic[1].irr) ~> (1 \notin pic[1].irr)

=============================================================================
