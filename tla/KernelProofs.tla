---------------------------- MODULE KernelProofs ----------------------------
(***************************************************************************)
(* Proofs about Kernel, for any lengths of the sleeps, any exceptions, any *)
(* contents of the ports and any selector in SS.                           *)
(***************************************************************************)
EXTENDS Kernel, Integers, SequenceTheorems, FiniteSetTheorems, TLAPS

-----------------------------------------------------------------------------
(* The inductive invariant, part by part.                                  *)

\* Instructions: those before which the boot thread has interrupts on, those in
\* which it sleeps, or is in a function that writes, or that reads a port, and
\* those whose port function an interrupt may hit.
On      == {22} \cup (24 .. 26) \cup {28} \cup (33 .. 37)
Naps    == {24, 25, 33}
Writes  == (4 .. 13) \cup {19, 31, 36, 40}
Inputs  == {17, 29, 34, 38}
Exposed == {34, 36}

\* An entry of the stack ctx.
Context == [isr : {"panic", "irq0_handler", "irq1_handler", "syscall_gate"},
            step : {"enter", "eoi", "iret", "stop"}, saved : BOOLEAN]

\* The boot thread's IF, which the innermost interrupted context has saved.
FlagInv ==
  ip > 1 => ((IF ctx = <<>> THEN iflag ELSE ctx[1].saved) <=> ip \in On)

\* A report of a panic never returns, a handler never stops the machine, and
\* irq0_handler interrupts code that had IF set.
Proper(c) ==
  /\ c.isr \in {"panic", "irq0_handler", "syscall_gate"}
  /\ c.isr = "panic" => c.step \in {"enter", "stop"}
  /\ c.isr # "panic" => c.step # "stop"
  /\ c.isr = "irq0_handler" => c.saved = TRUE

\* A handler runs alone, or over a panic that has interrupts on, or is itself
\* hit by a fault.
StackInv ==
  /\ ctx \in Seq(Context) /\ Len(ctx) \in 0 .. 2
  /\ \A k \in 1 .. Len(ctx) : Proper(ctx[k])
  /\ Len(ctx) = 1 /\ ctx[1].isr = "panic" => halted \/ iflag = ctx[1].saved
  /\ Len(ctx) = 1 /\ ctx[1].isr # "panic" => iflag = FALSE
  /\ Len(ctx) = 2 =>
       /\ iflag = FALSE
       /\ ctx[1].isr = "panic" <=> ctx[2].isr # "panic"
       /\ ctx[2].isr \in {"panic", "irq0_handler"}
       /\ ctx[2].isr = "irq0_handler" => ctx[1].saved = TRUE

\* The table holds what init has installed so far.
TableInv ==
  /\ idtr <=> ip > 3
  /\ DOMAIN idt \subseteq Exceptions \cup {32, 33, 128}
  /\ ip > 2 =>
       \A v \in Exceptions : v \in DOMAIN idt
                             /\ idt[v] = [isr |-> "panic", attr |-> Cpu!TRAP_GATE_FLAGS]
  /\ ip > 14 => 32 \in DOMAIN idt
                /\ idt[32] = [isr |-> "irq0_handler", attr |-> Cpu!INT_GATE_FLAGS]
  /\ ip > 16 => 128 \in DOMAIN idt
                /\ idt[128] = [isr |-> "syscall_gate", attr |-> Cpu!IDT_INT_GATE_USER]

\* The master is initialised and masked step by step.
PicInv ==
  /\ pic[1].irr \subseteq {0, 1}
  /\ pic[1].icw = IF ip <= 4 \/ ip > 10 THEN 0
                  ELSE IF ip <= 6 THEN 2 ELSE IF ip <= 8 THEN 3 ELSE 4
  /\ ip > 6 => pic[1].base = {5}
  /\ ip > 12 /\ ip <= 19 => pic[1].imr = 0 .. 7
  /\ ip > 19 /\ ip <= 40 => pic[1].imr = 1 .. 7
  /\ ip > 40 => pic[1].imr = 2 .. 7

\* Unless it was hit, a port function has its arguments and its result.
Intact ==
  /\ frame.step # "result" => frame.port = Arg
  /\ frame.step = "out" =>
       frame.val = IF Main[ip][1] = "out" THEN Main[ip][3] ELSE al
  /\ frame.step = "result" => frame.val \in Reads(Arg)

\* A port function runs only in an instruction that calls it.
FrameInv ==
  /\ frame.step = "none" => frame = NoFrame
  /\ frame.step = "out" => ip \in Writes
  /\ frame.step \in {"in", "result"} => ip \in Inputs
  /\ torn \subseteq Exposed
  /\ frame # NoFrame => Intact \/ (ip \in torn /\ frame.port = 0)

\* What the boot thread computes from a port, and what it leaves in the speaker's.
PortInv ==
  /\ ip = 18 => al = 0 .. 7
  /\ ip \in {19, 39} => al = 1 .. 7
  /\ ip = 40 => al = 2 .. 7
  /\ ip = 30 => al = spk
  /\ ip = 31 => al = spk \cup {0, 1}
  /\ ip \in 32 .. 36 => {0, 1} \subseteq spk
  /\ torn = {} =>
       /\ ip = 35 => al = spk
       /\ ip = 36 => al = spk \ {0, 1}
       /\ ip > 36 => spk \cap {0, 1} = {}

\* A tick that was raised or accepted but is not counted yet.
Pending ==
  (IF 0 \in pic[1].irr THEN 1 ELSE 0) +
  (IF InHandler("irq0_handler", "enter") THEN 1 ELSE 0)

\* The ticks since the deadline was set, and those on their way, are as many as
\* the periods since then, and one more that may have been on its way before.
SleepInv ==
  /\ sleeping =>
       /\ ip \in Naps
       /\ periods >= Arg \/ ticks + Arg + Pending <= eticks + periods + 1
  /\ ip \in 34 .. 36 => ticks >= eticks

\* The inductive invariant.
IInv ==
  /\ TypeOK /\ InServiceMatchesHandlers
  /\ FlagInv /\ StackInv /\ TableInv /\ PicInv /\ FrameInv /\ PortInv /\ SleepInv

-----------------------------------------------------------------------------
(* The listing.                                                            *)

\* What Main consists of, instruction by instruction.
LEMMA Listing ==
  /\ Len(Main) = 43 /\ UserEntry = 42
  /\ Len(until_shutup) = 33 /\ Len(pcspkr_play) = 5 /\ Len(pcspkr_shutup) = 3
  /\ Main[1]  = <<"cli">>
  /\ Main[2]  = <<"gates", Exceptions, "panic", Cpu!TRAP_GATE_FLAGS>>
  /\ Main[3]  = <<"lidt">>
  /\ Main[4]  = <<"out", PIC1_COMMAND, ByteOf(17)>>
  /\ Main[5]  = <<"out", PIC2_COMMAND, ByteOf(17)>>
  /\ Main[6]  = <<"out", PIC1_DATA, ByteOf(32)>>
  /\ Main[7]  = <<"out", PIC2_DATA, ByteOf(40)>>
  /\ Main[8]  = <<"out", PIC1_DATA, ByteOf(4)>>
  /\ Main[9]  = <<"out", PIC2_DATA, ByteOf(2)>>
  /\ Main[10] = <<"out", PIC1_DATA, ByteOf(1)>>
  /\ Main[11] = <<"out", PIC2_DATA, ByteOf(1)>>
  /\ Main[12] = <<"out", PIC1_DATA, ByteOf(255)>>
  /\ Main[13] = <<"out", PIC2_DATA, ByteOf(255)>>
  /\ Main[14] = <<"gates", {32}, "irq0_handler", Cpu!INT_GATE_FLAGS>>
  /\ Main[15] = <<"gates", {33}, "irq1_handler", Cpu!INT_GATE_FLAGS>>
  /\ Main[16] = <<"gates", {128}, "syscall_gate", Cpu!IDT_INT_GATE_USER>>
  /\ Main[17] = <<"in", PIC1_DATA>>
  /\ Main[18] = <<"xor", {0}>>
  /\ Main[19] = <<"out_al", PIC1_DATA>>
  /\ Main[20] = <<"acpi_init">>
  /\ Main[21] = <<"sti">>
  /\ Main[22] = <<"cli">>
  /\ Main[23] = <<"sti">>
  /\ Main[24] = <<"sleep", Sleeps[1]>>
  /\ Main[25] = <<"sleep", Sleeps[2]>>
  /\ Main[26] = <<"cli">>
  /\ Main[27] = <<"sti">>
  /\ Main[28] = <<"cli">>
  /\ Main[29] = <<"in", SPEAKER>>
  /\ Main[30] = <<"or", {0, 1}>>
  /\ Main[31] = <<"out_al", SPEAKER>>
  /\ Main[32] = <<"sti">>
  /\ Main[33] = <<"sleep", Sleeps[3]>>
  /\ Main[34] = <<"in", SPEAKER>>
  /\ Main[35] = <<"and", ByteOf(252)>>
  /\ Main[36] = <<"out_al", SPEAKER>>
  /\ Main[37] = <<"cli">>
  /\ Main[38] = <<"in", PIC1_DATA>>
  /\ Main[39] = <<"xor", {1}>>
  /\ Main[40] = <<"out_al", PIC1_DATA>>
  /\ Main[41] = <<"context_switch">>
  /\ Main[42] = <<"int80">>
  /\ Main[43] = <<"int80">>
PROOF
  BY DEF Main, UserEntry, start, ui_start, until_shutup, after_shutup, pcspkr_shutup,
         pcspkr_play, ps2_keyboard_init, init, init_pic, toggle_mask, all_masked

\* Where each instruction is.
LEMMA Opcodes ==
  ASSUME ip \in 1 .. Len(Main) + 1
  PROVE  /\ ip \in 1 .. 44
         /\ At("cli") => ip \in {1, 22, 26, 28, 37}
         /\ At("sti") => ip \in {21, 23, 27, 32}
         /\ At("gates") => ip \in {2, 14, 15, 16}
         /\ At("lidt") => ip = 3
         /\ At("in") => ip \in Inputs
         /\ At("out") => ip \in 4 .. 13
         /\ At("out_al") => ip \in {19, 31, 36, 40}
         /\ At("xor") => ip \in {18, 39}
         /\ At("or") => ip = 30
         /\ At("and") => ip = 35
         /\ At("acpi_init") => ip = 20
         /\ At("sleep") => ip \in Naps
         /\ At("context_switch") => ip = 41
         /\ At("int80") => ip \in {42, 43}
PROOF
  BY Listing DEF At, Inputs, Naps

\* The arguments of instructions that have them.
LEMMA Arguments ==
  /\ ip \in {17, 19, 38, 40} => Arg = PIC1_DATA
  /\ ip \in {29, 31, 34, 36} => Arg = SPEAKER
  /\ ip = 18 => Arg = {0}
  /\ ip = 39 => Arg = {1}
  /\ ip = 30 => Arg = {0, 1}
  /\ ip = 35 => Arg = ByteOf(252)
  /\ ip \in Naps => Arg \in Nat
PROOF
  BY Listing, SleepsAssumption DEF Arg, Naps

\* Which port each write is to, and what the constant ones write.
LEMMA Ports ==
  ASSUME ip \in Writes
  PROVE  /\ ip \in {4, 6, 8, 10, 12} => Arg # PIC2_COMMAND /\ Arg # PIC2_DATA
         /\ ip = 4 => Arg = PIC1_COMMAND /\ Main[ip][1] = "out" /\ Main[ip][3] = ByteOf(17)
         /\ ip = 6 => Arg = PIC1_DATA /\ Main[ip][1] = "out" /\ Main[ip][3] = ByteOf(32)
         /\ ip \in {8, 10} => Arg = PIC1_DATA
         /\ ip = 12 => Arg = PIC1_DATA /\ Main[ip][1] = "out" /\ Main[ip][3] = ByteOf(255)
         /\ ip \in {5, 7, 9, 11, 13} => Arg \in {PIC2_COMMAND, PIC2_DATA}
         /\ ip \in {19, 31, 36, 40} => Main[ip][1] = "out_al"
         /\ ip \in 4 .. 13 => Main[ip][1] = "out" /\ Main[ip][3] \in Byte
PROOF
  BY Listing DEF Arg, Writes, Byte, ByteOf, PIC1_COMMAND, PIC2_COMMAND, PIC1_DATA, PIC2_DATA

-----------------------------------------------------------------------------
(* Bytes.                                                                  *)

\* The bits of a number below 256, one by one.
LEMMA Bits ==
  ASSUME NEW n \in 0 .. 255
  PROVE  /\ 0 \in ByteOf(n) <=> n % 2 = 1
         /\ 1 \in ByteOf(n) <=> (n \div 2) % 2 = 1
         /\ 2 \in ByteOf(n) <=> (n \div 4) % 2 = 1
         /\ 3 \in ByteOf(n) <=> (n \div 8) % 2 = 1
         /\ 4 \in ByteOf(n) <=> (n \div 16) % 2 = 1
         /\ 5 \in ByteOf(n) <=> (n \div 32) % 2 = 1
         /\ 6 \in ByteOf(n) <=> (n \div 64) % 2 = 1
         /\ 7 \in ByteOf(n) <=> (n \div 128) % 2 = 1
         /\ ByteOf(n) \subseteq 0 .. 7
PROOF
  <1>1. 2^0 = 1 /\ 2^1 = 2 /\ 2^2 = 4 /\ 2^3 = 8 OBVIOUS
  <1>2. 2^4 = 16 /\ 2^5 = 32 /\ 2^6 = 64 /\ 2^7 = 128 OBVIOUS
  <1> QED BY <1>1, <1>2 DEF ByteOf

\* The bytes that the kernel writes to the controller and to the speaker.
LEMMA Constants ==
  /\ 4 \in ByteOf(17)
  /\ ByteOf(32) = {5}
  /\ ByteOf(252) = 2 .. 7
  /\ ByteOf(255) = 0 .. 7
  /\ ByteOf(0) = {}
PROOF
  <1>1. 4 \in ByteOf(17) BY Bits
  <1>2. ByteOf(32) = {5} BY Bits
  <1>3. ByteOf(252) = 2 .. 7 BY Bits
  <1>4. ByteOf(255) = 0 .. 7 BY Bits
  <1>5. ByteOf(0) = {} BY Bits
  <1> QED BY <1>1, <1>2, <1>3, <1>4, <1>5

\* With the base that init_pic sets, line 0 has the vector of irq0_handler.
LEMMA Vector32 ==
  ASSUME pic[1].base = {5}
  PROVE  VectorNumber(0) = 32
PROOF
  <1>1. Vector(pic[1], 0) = {5} BY Constants DEF Vector
  <1>2. 2^5 = 32 OBVIOUS
  <1> QED BY <1>1, <1>2 DEF VectorNumber, Value

-----------------------------------------------------------------------------
(* The controllers.                                                        *)

\* The end of interrupt retires a line in service and changes nothing else.
LEMMA EOI ==
  ASSUME NEW c \in Chip
  PROVE  /\ Command(c, PIC_EOI) \in Chip
         /\ Command(c, PIC_EOI).imr = c.imr /\ Command(c, PIC_EOI).base = c.base
         /\ Command(c, PIC_EOI).icw = c.icw /\ Command(c, PIC_EOI).irr = c.irr
         /\ c.isr \subseteq {0} => Command(c, PIC_EOI).isr = {}
PROOF
  <1>1. PIC_EOI = {5} /\ ~(4 \in {5}) BY Constants DEF PIC_EOI
  <1>2. Command(c, PIC_EOI) =
          [c EXCEPT !.isr = IF @ = {} THEN {} ELSE @ \ {First(@)}]
    BY <1>1 DEF Command
  <1>3. c.isr \in Byte /\ c \in Chip BY DEF Chip
  <1>4. (IF c.isr = {} THEN {} ELSE c.isr \ {First(c.isr)}) \in Byte BY <1>3 DEF Byte
  <1>5. First({0}) = 0 BY DEF First
  <1>6. c.isr \subseteq {0} => (IF c.isr = {} THEN {} ELSE c.isr \ {First(c.isr)}) = {}
    <2>1. c.isr \subseteq {0} => c.isr = {} \/ c.isr = {0} OBVIOUS
    <2> QED BY <1>5, <2>1
  <1> QED BY <1>2, <1>3, <1>4, <1>6 DEF Chip

\* The other operations of the controller keep it a controller.
LEMMA Chips ==
  ASSUME NEW c \in Chip, NEW l \in 0 .. 7, NEW v \in Byte
  PROVE  /\ Raise(c, l) \in Chip /\ Acknowledge(c, l) \in Chip
         /\ Command(c, v) \in Chip /\ Data(c, v) \in Chip
PROOF
  <1>1. /\ c.base \in Byte /\ c.imr \in Byte /\ c.irr \in Byte /\ c.isr \in Byte
        /\ c.icw \in {0, 2, 3, 4}
    BY DEF Chip
  <1>2. Raise(c, l) \in Chip
    <2>1. c.irr \cup {l} \in Byte BY <1>1 DEF Byte
    <2> QED BY <1>1, <2>1 DEF Raise, Chip
  <1>3. Acknowledge(c, l) \in Chip
    <2>1. c.irr \ {l} \in Byte /\ c.isr \cup {l} \in Byte BY <1>1 DEF Byte
    <2> QED BY <1>1, <2>1 DEF Acknowledge, Chip
  <1>4. Command(c, v) \in Chip
    <2>1. CASE 4 \in v
      <3>1. {} \in Byte BY DEF Byte
      <3> QED BY <1>1, <2>1, <3>1 DEF Command, Chip
    <2>2. CASE v = {5}
      BY <2>2, EOI, Constants DEF PIC_EOI
    <2>3. CASE ~(4 \in v) /\ v # {5}
      BY <2>3 DEF Command
    <2> QED BY <2>1, <2>2, <2>3
  <1>5. Data(c, v) \in Chip
    <2>1. v \ {0, 1, 2} \in Byte BY DEF Byte
    <2> QED BY <1>1, <2>1 DEF Data, Chip
  <1> QED BY <1>2, <1>3, <1>4, <1>5

-----------------------------------------------------------------------------
(* The stack of handlers.                                                  *)

\* The innermost context is one.
LEMMA Top ==
  ASSUME ctx \in Seq(Context), ctx # <<>>
  PROVE  Len(ctx) \in Nat /\ Len(ctx) \in 1 .. Len(ctx) /\ current \in Context
PROOF
  <1>1. Len(ctx) \in Nat \ {0} BY EmptySeq
  <1> QED BY <1>1, ElementOfSeq DEF current

\* The stack after a handler was entered ...
LEMMA Pushed ==
  ASSUME ctx \in Seq(Context), NEW a \in Context, ctx' = Append(ctx, a)
  PROVE  /\ ctx' \in Seq(Context) /\ Len(ctx') = Len(ctx) + 1 /\ ctx' # <<>>
         /\ ctx'[Len(ctx')] = a
         /\ \A k \in 1 .. Len(ctx) : ctx'[k] = ctx[k]
PROOF
  <1>1. /\ ctx' \in Seq(Context) /\ Len(ctx') = Len(ctx) + 1
        /\ ctx'[Len(ctx) + 1] = a
        /\ \A k \in 1 .. Len(ctx) : ctx'[k] = ctx[k]
    BY AppendProperties
  <1> QED BY <1>1, EmptySeq, LenProperties

\* ... after a handler went on to its next step ...
LEMMA Replaced ==
  ASSUME ctx \in Seq(Context), ctx # <<>>, NEW s \in {"enter", "eoi", "iret", "stop"},
         Goto(s)
  PROVE  /\ ctx' \in Seq(Context) /\ Len(ctx') = Len(ctx) /\ ctx' # <<>>
         /\ ctx'[Len(ctx)] = [current EXCEPT !.step = s]
         /\ \A k \in 1 .. Len(ctx) - 1 : ctx'[k] = ctx[k]
PROOF
  <1>1. Len(ctx) \in Nat /\ Len(ctx) \in 1 .. Len(ctx) /\ current \in Context BY Top
  <1>2. [current EXCEPT !.step = s] \in Context BY <1>1 DEF Context
  <1>3. ctx' = [ctx EXCEPT ![Len(ctx)] = [current EXCEPT !.step = s]]
    BY DEF Goto, current
  <1>4. /\ ctx' \in Seq(Context) /\ Len(ctx') = Len(ctx)
        /\ \A k \in 1 .. Len(ctx) :
             ctx'[k] = IF k = Len(ctx) THEN [current EXCEPT !.step = s] ELSE ctx[k]
    BY <1>1, <1>2, <1>3, ExceptSeq
  <1>5. ctx' # <<>> BY <1>1, <1>4, EmptySeq
  <1> QED BY <1>1, <1>4, <1>5

\* ... and after it returned.
LEMMA Popped ==
  ASSUME ctx \in Seq(Context), ctx # <<>>, ctx' = SubSeq(ctx, 1, Len(ctx) - 1)
  PROVE  /\ ctx' \in Seq(Context) /\ Len(ctx') = Len(ctx) - 1
         /\ Len(ctx) = 1 => ctx' = <<>>
         /\ \A k \in 1 .. Len(ctx) - 1 : ctx'[k] = ctx[k]
PROOF
  <1>1. Len(ctx) \in Nat /\ Len(ctx) \in 1 .. Len(ctx) BY Top
  <1> DEFINE n == Len(ctx) - 1
  <1>2. n \in Nat /\ n + 1 = Len(ctx) BY <1>1
  <1>3. \A k \in 1 .. n : ctx[k] \in Context BY <1>1, <1>2, ElementOfSeq
  <1>4. /\ ctx' \in Seq(Context)
        /\ Len(ctx') = IF 1 <= n THEN n - 1 + 1 ELSE 0
        /\ \A k \in 1 .. n - 1 + 1 : ctx'[k] = ctx[1 + k - 1]
    BY <1>2, <1>3, SubSeqProperties
  <1>5. Len(ctx') = n BY <1>2, <1>4
  <1>6. \A k \in 1 .. n : ctx'[k] = ctx[k] BY <1>2, <1>4
  <1>7. n = 0 => ctx' = <<>> BY <1>4, <1>5, EmptySeq
  <1> QED BY <1>1, <1>2, <1>4, <1>5, <1>6, <1>7

-----------------------------------------------------------------------------
(* What the kinds of steps leave alone.                                    *)

\* The boot thread goes on from one instruction to the next, or stays.
LEMMA IpSteps ==
  ASSUME [Next]_vars, TypeOK, FrameInv
  PROVE  \/ ip' = ip
         \/ ip' = ip + 1 /\ ctx = <<>> /\ ~halted /\ ip \in 1 .. 43
PROOF
  <1>1. ip \in 1 .. 44 /\ Len(Main) = 43 BY Listing DEF TypeOK
  <1>2. frame # NoFrame => ip \in 1 .. 43
    BY <1>1 DEF FrameInv, Writes, Inputs, TypeOK
  <1>3. frame.step \in {"out", "in", "result"} => frame # NoFrame BY DEF NoFrame
  <1>4. CASE Main_Step
    <2>1. CASE PortCall \/ Out \/ In \/ InResult
      BY <1>2, <1>3, <2>1 DEF PortCall, Out, In, InResult, At, Running, Advance
    <2>2. CASE Cli \/ Sti \/ set_idt_vec \/ idt_install \/ Compute \/ context_switch
      BY <1>1, <2>2 DEF Cli, Sti, set_idt_vec, idt_install, Compute, context_switch,
         At, Running, Advance
    <2>3. CASE acpi_init \/ SleepBegin \/ SleepEnd \/ Syscall
      BY <1>1, <2>3 DEF acpi_init, SleepBegin, SleepEnd, Syscall, At, Running, Advance
    <2> QED BY <1>4, <2>1, <2>2, <2>3 DEF Main_Step
  <1>5. CASE Handler_Step \/ Interrupt \/ (\E v \in Faults : Fault(v))
    BY <1>5 DEF Handler_Step, Tick, TickEOI, syscall_dispatcher, Iret, PanicReport,
       PanicHalt, Interrupt, Fault
  <1>6. CASE TimerPeriod \/ KeyPress \/ Idle \/ UNCHANGED vars
    BY <1>6 DEF TimerPeriod, KeyPress, Idle, vars
  <1> QED BY <1>4, <1>5, <1>6 DEF Next

\* Most steps leave the stack of handlers alone, or there is none.
LEMMA CtxSteps ==
  ASSUME [Next]_vars
  PROVE  \/ UNCHANGED <<ctx, iflag, halted>>
         \/ ctx = <<>> /\ ctx' = <<>> /\ Main_Step
         \/ Interrupt \/ Syscall \/ (\E v \in Faults : Fault(v)) \/ Handler_Step
PROOF
  <1>1. CASE Main_Step
    <2>1. CASE Cli \/ Sti \/ set_idt_vec \/ idt_install \/ Compute \/ context_switch
      BY <1>1, <2>1 DEF Cli, Sti, set_idt_vec, idt_install, Compute, context_switch,
         At, Running
    <2>2. CASE acpi_init \/ SleepBegin \/ SleepEnd
      BY <1>1, <2>2 DEF acpi_init, SleepBegin, SleepEnd, At, Running
    <2>3. CASE PortCall \/ Out \/ In \/ InResult
      BY <1>1, <2>3 DEF PortCall, Out, In, InResult, At, Running
    <2> QED BY <1>1, <2>1, <2>2, <2>3 DEF Main_Step
  <1>2. CASE TimerPeriod \/ KeyPress \/ Idle \/ UNCHANGED vars
    BY <1>2 DEF TimerPeriod, KeyPress, Idle, vars
  <1> QED BY <1>1, <1>2 DEF Next

\* The boot thread advances by the action that its instruction names.
LEMMA Advances ==
  ASSUME [Next]_vars, TypeOK, FrameInv, ip' # ip
  PROVE  /\ ip' = ip + 1 /\ ip \in 1 .. 43 /\ ctx = <<>> /\ ~halted
         /\ ip \in {1, 22, 26, 28, 37} => Cli
         /\ ip \in {21, 23, 27, 32} => Sti
         /\ ip \in {2, 14, 15, 16} => set_idt_vec
         /\ ip = 3 => idt_install
         /\ ip \in Writes => Out
         /\ ip \in Inputs => InResult
         /\ ip \in {18, 30, 35, 39} => Compute
         /\ ip = 20 => acpi_init
         /\ ip \in Naps => SleepEnd
         /\ ip = 41 => context_switch
         /\ ip \in {42, 43} => Syscall
PROOF
  <1>1. ip' = ip + 1 /\ ip \in 1 .. 43 /\ ctx = <<>> /\ ~halted BY IpSteps
  <1>2. ip \in 1 .. Len(Main) + 1 BY DEF TypeOK
  <1>3. ~PortCall /\ ~In /\ ~SleepBegin BY DEF PortCall, In, SleepBegin
  <1>4. ~Handler_Step /\ ~Interrupt /\ ~(\E v \in Faults : Fault(v))
    BY DEF Handler_Step, Tick, TickEOI, syscall_dispatcher, Iret, PanicReport,
       PanicHalt, Interrupt, Fault
  <1>5. ~TimerPeriod /\ ~KeyPress /\ ~Idle /\ ~UNCHANGED vars
    BY DEF TimerPeriod, KeyPress, Idle, vars
  <1>6. Main_Step BY <1>4, <1>5 DEF Next
  <1>7. Cli => ip \in {1, 22, 26, 28, 37} BY <1>2, Opcodes DEF Cli
  <1>8. Sti => ip \in {21, 23, 27, 32} BY <1>2, Opcodes DEF Sti
  <1>9. set_idt_vec => ip \in {2, 14, 15, 16} BY <1>2, Opcodes DEF set_idt_vec
  <1>10. idt_install => ip = 3 BY <1>2, Opcodes DEF idt_install
  <1>11. Out => ip \in Writes BY DEF Out, FrameInv
  <1>12. InResult => ip \in Inputs BY DEF InResult, FrameInv
  <1>13. Compute => ip \in {18, 30, 35, 39} BY <1>2, Opcodes DEF Compute
  <1>14. acpi_init => ip = 20 BY <1>2, Opcodes DEF acpi_init
  <1>15. SleepEnd => ip \in Naps BY <1>2, Opcodes DEF SleepEnd
  <1>16. context_switch => ip = 41 BY <1>2, Opcodes DEF context_switch
  <1>17. Syscall => ip \in {42, 43} BY <1>2, Opcodes DEF Syscall
  <1>18. Cli \/ Sti \/ set_idt_vec \/ idt_install \/ Out \/ InResult \/ Compute
         \/ acpi_init \/ SleepEnd \/ context_switch \/ Syscall
    BY <1>3, <1>6 DEF Main_Step
  <1> HIDE DEF Cli, Sti, set_idt_vec, idt_install, Out, InResult, Compute, acpi_init,
           SleepEnd, context_switch, Syscall
  <1> QED
    BY <1>1, <1>7, <1>8, <1>9, <1>10, <1>11, <1>12, <1>13, <1>14, <1>15, <1>16,
       <1>17, <1>18 DEF Writes, Inputs, Naps

\* Any other step leaves the tables, the registers and the masks alone, and
\* the history of overwritten frames only grows.
LEMMA Stays ==
  ASSUME [Next]_vars, TypeOK, ip' = ip
  PROVE  /\ idt' = idt /\ idtr' = idtr /\ al' = al /\ spk' = spk
         /\ torn \subseteq torn'
         /\ pic'[1].imr = pic[1].imr /\ pic'[1].base = pic[1].base
         /\ pic'[1].icw = pic[1].icw
PROOF
  <1>1. pic \in [{1, 2} -> Chip] /\ ip \in Nat BY DEF TypeOK
  <1>2. CASE Main_Step
    <2>1. PortCall \/ In \/ acpi_init \/ SleepBegin
      BY <1>1, <1>2 DEF Main_Step, Cli, Sti, set_idt_vec, idt_install, Out, InResult,
         Compute, SleepEnd, context_switch, Syscall, Advance
    <2> QED
      BY <1>1, <2>1 DEF PortCall, In, acpi_init, Advance, SleepBegin, devices, tables, redzone
  <1>3. CASE Handler_Step
    <2>1. CASE TickEOI
      <3>1. pic[1] \in Chip /\ pic[2] \in Chip BY <1>1
      <3>2. pic'[1] = Command(pic[1], PIC_EOI) BY <1>1, <2>1 DEF TickEOI, PIC_sendEOI
      <3> QED BY <2>1, <3>1, <3>2, EOI DEF TickEOI, tables, redzone
    <2> QED
      BY <1>1, <1>3, <2>1 DEF Handler_Step, Tick, syscall_dispatcher, Iret, PanicReport,
         PanicHalt, devices, tables, redzone
  <1>4. CASE Interrupt
    BY <1>1, <1>4 DEF Interrupt, Acknowledge, Chip, tables
  <1>5. CASE (\E v \in Faults : Fault(v)) \/ Idle \/ UNCHANGED vars
    BY <1>1, <1>5 DEF Fault, Idle, vars, devices, tables, redzone
  <1>6. CASE TimerPeriod \/ KeyPress
    BY <1>1, <1>6 DEF TimerPeriod, KeyPress, Raise, Chip, devices, tables, redzone
  <1> QED BY <1>2, <1>3, <1>4, <1>5, <1>6 DEF Next

-----------------------------------------------------------------------------
(* Each part of the invariant is kept by every step.                       *)

\* The gates are installed in the order of init, and never removed.
LEMMA TableStep ==
  ASSUME [Next]_vars, TypeOK, FrameInv, TableInv
  PROVE  TableInv'
PROOF
  <1>1. CASE ip' = ip BY <1>1, Stays DEF TableInv
  <1>2. CASE ip' # ip
    <2>1. ip' = ip + 1 /\ ip \in 1 .. 43 BY <1>2, Advances
    <2>2. CASE ip \in {2, 14, 15, 16}
      <3>1. /\ idt' = [v \in DOMAIN idt \cup Arg |->
                         IF v \in Arg THEN [isr |-> Main[ip][3], attr |-> Main[ip][4]]
                         ELSE idt[v]]
            /\ idtr' = idtr
        BY <1>2, <2>2, Advances DEF set_idt_vec
      <3>2. CASE ip = 2
        <4>1. Arg = Exceptions /\ Main[ip][3] = "panic" /\ Main[ip][4] = Cpu!TRAP_GATE_FLAGS
          BY <3>2, Listing DEF Arg
        <4> QED BY <2>1, <3>1, <3>2, <4>1 DEF TableInv
      <3>3. CASE ip = 14
        <4>1. /\ Arg = {32} /\ Main[ip][3] = "irq0_handler"
              /\ Main[ip][4] = Cpu!INT_GATE_FLAGS
          BY <3>3, Listing DEF Arg
        <4> QED BY <2>1, <3>1, <3>3, <4>1 DEF TableInv, Exceptions
      <3>4. CASE ip = 15
        <4>1. Arg = {33} BY <3>4, Listing DEF Arg
        <4> QED BY <2>1, <3>1, <3>4, <4>1 DEF TableInv, Exceptions
      <3>5. CASE ip = 16
        <4>1. /\ Arg = {128} /\ Main[ip][3] = "syscall_gate"
              /\ Main[ip][4] = Cpu!IDT_INT_GATE_USER
          BY <3>5, Listing DEF Arg
        <4> QED BY <2>1, <3>1, <3>5, <4>1 DEF TableInv, Exceptions
      <3> QED BY <2>2, <3>2, <3>3, <3>4, <3>5
    <2>3. CASE ip = 3
      <3>1. idtr' = TRUE /\ idt' = idt BY <1>2, <2>3, Advances DEF idt_install
      <3> QED BY <2>1, <2>3, <3>1 DEF TableInv
    <2>4. CASE ~(ip \in {2, 3, 14, 15, 16})
      <3>1. idt' = idt /\ idtr' = idtr
        <4>1. CASE ip \in {1, 22, 26, 28, 37} \cup {21, 23, 27, 32}
          BY <1>2, <4>1, Advances DEF Cli, Sti, tables
        <4>2. CASE ip \in Writes \cup Inputs \cup {18, 30, 35, 39}
          BY <1>2, <4>2, Advances DEF Out, InResult, Compute, tables
        <4>3. CASE ip \in Naps \cup {20, 41, 42, 43}
          BY <1>2, <4>3, Advances DEF SleepEnd, acpi_init, context_switch, Syscall, tables
        <4> QED BY <2>1, <2>4, <4>1, <4>2, <4>3 DEF Writes, Inputs, Naps
      <3> QED BY <2>1, <2>4, <3>1 DEF TableInv
    <2> QED BY <2>2, <2>3, <2>4
  <1> QED BY <1>1, <1>2

\* The devices change at a port write, at an interrupt and its end, and when a
\* line is raised.
LEMMA DeviceSteps ==
  ASSUME [Next]_vars
  PROVE  \/ Out
         \/ spk' = spk /\ (pic' = pic \/ Interrupt \/ TickEOI \/ TimerPeriod \/ KeyPress)
PROOF
  <1>1. CASE Main_Step
    <2>1. CASE Cli \/ Sti \/ set_idt_vec \/ idt_install \/ PortCall \/ In \/ InResult
      BY <2>1 DEF Cli, Sti, set_idt_vec, idt_install, PortCall, In, InResult, devices
    <2>2. CASE Compute \/ acpi_init \/ SleepBegin \/ SleepEnd \/ context_switch \/ Syscall
      BY <2>2 DEF Compute, acpi_init, SleepBegin, SleepEnd, context_switch, Syscall, devices
    <2> QED BY <1>1, <2>1, <2>2 DEF Main_Step
  <1>2. CASE Handler_Step
    BY <1>2 DEF Handler_Step, Tick, TickEOI, syscall_dispatcher, Iret, PanicReport,
       PanicHalt, devices
  <1>3. CASE (\E v \in Faults : Fault(v)) \/ Idle \/ UNCHANGED vars
    BY <1>3 DEF Fault, Idle, vars, devices
  <1>4. CASE Interrupt \/ TimerPeriod \/ KeyPress
    BY <1>4 DEF Interrupt, TimerPeriod, KeyPress
  <1> QED BY <1>1, <1>2, <1>3, <1>4 DEF Next

\* A port function that is exposed runs at no other write but the speaker's.
LEMMA Written ==
  ASSUME TypeOK, FrameInv, Out
  PROVE  /\ ip \in Writes
         /\ \/ frame.port = 0 /\ ip = 36 /\ torn # {}
            \/ /\ frame.port = Arg
               /\ frame.val = IF Main[ip][1] = "out" THEN Main[ip][3] ELSE al
PROOF
  <1>1. frame.step = "out" /\ frame # NoFrame BY DEF Out, NoFrame
  <1>2. ip \in Writes BY <1>1 DEF FrameInv
  <1>3. CASE Intact BY <1>1, <1>2, <1>3 DEF Intact
  <1>4. CASE ip \in torn /\ frame.port = 0
    <2>1. ip \in Exposed /\ torn # {} BY <1>4 DEF FrameInv
    <2> QED BY <1>2, <1>4, <2>1 DEF Exposed, Writes
  <1> QED BY <1>1, <1>3, <1>4 DEF FrameInv

\* Out is the only step that programs the master, and in the order of init_pic.
LEMMA PicStep ==
  ASSUME [Next]_vars, TypeOK, FrameInv, PortInv, PicInv
  PROVE  PicInv'
PROOF
  <1>1. pic \in [{1, 2} -> Chip] /\ pic[1] \in Chip /\ pic[2] \in Chip BY DEF TypeOK
  <1>2. CASE ~Out
    <2>1. pic'[1].irr \subseteq {0, 1}
      <3>1. CASE pic' = pic BY <3>1 DEF PicInv
      <3>2. CASE Interrupt BY <1>1, <3>2 DEF Interrupt, Acknowledge, PicInv, Chip
      <3>3. CASE TickEOI
        <4>1. pic'[1] = Command(pic[1], PIC_EOI) BY <1>1, <3>3 DEF TickEOI, PIC_sendEOI
        <4> QED BY <1>1, <4>1, EOI DEF PicInv
      <3>4. CASE TimerPeriod \/ KeyPress
        BY <1>1, <3>4 DEF TimerPeriod, KeyPress, Raise, PicInv, Chip
      <3> QED BY <1>2, <3>1, <3>2, <3>3, <3>4, DeviceSteps
    <2>2. /\ pic'[1].imr = pic[1].imr /\ pic'[1].base = pic[1].base
          /\ pic'[1].icw = pic[1].icw
      <3>1. CASE ip' = ip BY <3>1, Stays
      <3>2. CASE ip' # ip
        <4>1. ~Interrupt /\ ~TickEOI /\ ~TimerPeriod /\ ~KeyPress
          BY <3>2 DEF Interrupt, TickEOI, TimerPeriod, KeyPress
        <4> QED BY <1>2, <4>1, DeviceSteps
      <3> QED BY <3>1, <3>2
    <2>3. ip' = ip \/ (ip' = ip + 1 /\ ip \in 1 .. 43 /\ ~(ip \in Writes))
      BY <1>2, Advances
    <2> QED BY <2>1, <2>2, <2>3 DEF PicInv, Writes
  <1>3. CASE Out
    <2>1. Write(frame.port, frame.val) /\ ip' = ip + 1 BY <1>3 DEF Out, Advance
    <2>2. ip \in Writes BY <1>3, Written
    <2>3. 4 \in ByteOf(17) /\ ByteOf(32) = {5} /\ ByteOf(255) = 0 .. 7 BY Constants
    <2>4. PIC1_COMMAND = 32 /\ PIC1_DATA = 33 /\ PIC2_COMMAND = 160 /\ PIC2_DATA = 161
          /\ SPEAKER = 97
      BY DEF PIC1_COMMAND, PIC1_DATA, PIC2_COMMAND, PIC2_DATA, SPEAKER
    <2>5. CASE ip = 4
      <3>1. frame.port = 32 /\ frame.val = ByteOf(17) BY <1>3, <2>2, <2>4, <2>5, Written, Ports
      <3>2. pic'[1] = Command(pic[1], ByteOf(17)) BY <1>1, <2>1, <2>4, <3>1 DEF Write
      <3> QED BY <2>1, <2>3, <2>5, <3>2 DEF Command, PicInv
    <2>6. CASE ip \in {6, 8, 10, 12}
      <3>1. /\ frame.port = 33
            /\ ip = 6 => frame.val = {5}
            /\ ip = 12 => frame.val = 0 .. 7
        BY <1>3, <2>2, <2>3, <2>4, <2>6, Written, Ports
      <3>2. pic'[1] = Data(pic[1], frame.val) BY <1>1, <2>1, <2>4, <3>1 DEF Write
      <3>3. pic[1] \in Chip BY <1>1
      <3> QED BY <2>1, <2>6, <3>1, <3>2, <3>3 DEF Data, Chip, PicInv
    <2>7. CASE ip \in {19, 40}
      <3>1. frame.port = 33 /\ frame.val = al
        BY <1>3, <2>2, <2>4, <2>7, Written, Ports, Arguments
      <3>2. pic'[1] = Data(pic[1], al) BY <1>1, <2>1, <2>4, <3>1 DEF Write
      <3>3. al = IF ip = 19 THEN 1 .. 7 ELSE 2 .. 7 BY <2>7 DEF PortInv
      <3> QED BY <1>1, <2>1, <2>7, <3>2, <3>3 DEF Data, Chip, PicInv
    <2>8. CASE ip \in {5, 7, 9, 11, 13, 31, 36}
      <3>1. frame.port \notin {PIC1_COMMAND, PIC1_DATA}
        BY <1>3, <2>2, <2>4, <2>8, Written, Ports, Arguments
      <3>2. pic'[1] = pic[1] BY <1>1, <2>1, <2>4, <3>1 DEF Write
      <3> QED BY <2>1, <2>8, <3>2 DEF PicInv
    <2> QED BY <2>2, <2>5, <2>6, <2>7, <2>8 DEF Writes
  <1> QED BY <1>2, <1>3

\* What was read is changed and written back as the listing says.
LEMMA PortStep ==
  ASSUME [Next]_vars, TypeOK, FrameInv, PicInv, PortInv
  PROVE  PortInv'
PROOF
  <1>1. CASE ip' = ip
    <2>1. torn' = {} => torn = {} BY <1>1, Stays
    <2> QED BY <1>1, <2>1, Stays DEF PortInv
  <1>2. CASE ip' # ip
    <2>1. ip' = ip + 1 /\ ip \in 1 .. 43 BY <1>2, Advances
    <2>2. al \in Byte /\ spk \in Byte BY DEF TypeOK
    <2>3. CASE ip \in Inputs
      <3>1. InResult /\ frame # NoFrame BY <1>2, <2>3, Advances DEF InResult, NoFrame
      <3>2. /\ al' = frame.val /\ spk' = spk /\ torn' = torn /\ frame.step = "result"
        BY <3>1 DEF InResult, devices
      <3>3. CASE Intact
        <4>1. al' \in Reads(Arg) BY <3>2, <3>3 DEF Intact
        <4>2. CASE ip \in {17, 38}
          <5>1. al' = pic[1].imr BY <4>1, <4>2, Arguments DEF Reads, PIC1_DATA, SPEAKER
          <5> QED BY <2>1, <3>2, <4>2, <5>1 DEF PicInv, PortInv
        <4>3. CASE ip \in {29, 34}
          <5>1. al' = spk
            BY <4>1, <4>3, Arguments DEF Reads, PIC1_DATA, SPEAKER
          <5> QED BY <2>1, <3>2, <4>3, <5>1 DEF PortInv
        <4> QED BY <2>3, <4>2, <4>3 DEF Inputs
      <3>4. CASE ip \in torn
        BY <2>1, <2>3, <3>2, <3>4 DEF FrameInv, Exposed, Inputs, PortInv
      <3> QED BY <3>1, <3>3, <3>4 DEF FrameInv
    <2>4. CASE ip \in {18, 30, 35, 39}
      <3>1. Compute /\ spk' = spk /\ torn' = torn
        BY <1>2, <2>4, Advances DEF Compute, devices, redzone
      <3>2. ip \in 1 .. Len(Main) + 1 BY DEF TypeOK
      <3>3. CASE ip \in {18, 39}
        <4>1. al' = Xor(al, Arg) BY <3>1, <3>2, <3>3, Opcodes DEF Compute
        <4> QED BY <2>1, <3>1, <3>3, <4>1, Arguments DEF Xor, PortInv
      <3>4. CASE ip = 30
        <4>1. al' = al \cup Arg BY <3>1, <3>2, <3>4, Opcodes DEF Compute
        <4> QED BY <2>1, <3>1, <3>4, <4>1, Arguments DEF PortInv
      <3>5. CASE ip = 35
        <4>1. al' = al \cap (2 .. 7)
          BY <3>1, <3>2, <3>5, Opcodes, Arguments, Constants DEF Compute
        <4>2. spk \cap (2 .. 7) = spk \ {0, 1}
          <5>1. \A b \in 0 .. 7 : b \in 2 .. 7 <=> b \notin {0, 1} OBVIOUS
          <5>2. spk \subseteq 0 .. 7 BY <2>2 DEF Byte
          <5> QED BY <5>1, <5>2
        <4> QED BY <2>1, <3>1, <3>5, <4>1, <4>2 DEF PortInv
      <3> QED BY <2>4, <3>3, <3>4, <3>5
    <2>5. CASE ip \in Writes
      <3>1. Out BY <1>2, <2>5, Advances
      <3>2. Write(frame.port, frame.val) /\ torn' = torn /\ al' = al BY <3>1 DEF Out
      <3>3. CASE ip = 36
        <4>1. torn = {} => spk' = spk \ {0, 1}
          <5>1. torn = {} => frame.port = SPEAKER /\ frame.val = al
            BY <2>5, <3>1, <3>3, Written, Ports, Arguments
          <5> QED BY <3>2, <3>3, <5>1 DEF Write, PortInv
        <4> QED BY <2>1, <3>2, <3>3, <4>1 DEF PortInv
      <3>4. CASE ip = 40
        <4>1. spk' = spk
          BY <2>5, <3>1, <3>2, <3>4, Written, Arguments DEF Write, PIC1_DATA, SPEAKER
        <4> QED BY <2>1, <3>2, <3>4, <4>1 DEF PortInv
      <3>5. CASE ip = 31
        <4>1. frame.port = SPEAKER /\ frame.val = al
          BY <2>5, <3>1, <3>5, Written, Ports, Arguments
        <4>2. spk' = spk \cup {0, 1} BY <3>2, <3>5, <4>1 DEF Write, PortInv
        <4> QED BY <2>1, <3>2, <3>5, <4>2 DEF PortInv
      <3>6. CASE ip \notin {31, 36, 40}
        BY <2>1, <2>5, <3>2, <3>6 DEF PortInv, Writes
      <3> QED BY <3>3, <3>4, <3>5, <3>6
    <2>6. CASE ip \notin Inputs \cup Writes \cup {18, 30, 35, 39}
      <3>1. spk' = spk /\ torn' = torn /\ al' = al
        <4>1. CASE ip \in {1, 22, 26, 28, 37} \cup {21, 23, 27, 32} \cup {2, 14, 15, 16, 3}
          BY <1>2, <4>1, Advances DEF Cli, Sti, set_idt_vec, idt_install, devices, redzone
        <4>2. CASE ip \in Naps \cup {20, 41, 42, 43}
          BY <1>2, <4>2, Advances DEF SleepEnd, acpi_init, context_switch, Syscall,
             devices, redzone
        <4> QED BY <2>1, <2>6, <4>1, <4>2 DEF Writes, Inputs, Naps
      <3> QED BY <2>1, <2>6, <3>1 DEF PortInv, Inputs, Writes
    <2> QED BY <2>3, <2>4, <2>5, <2>6
  <1> QED BY <1>1, <1>2

\* The stack is no deeper than two.
LEMMA Depth ==
  ASSUME StackInv
  PROVE  /\ ctx \in Seq(Context) /\ Len(ctx) \in 0 .. 2
         /\ Len(ctx) = 0 <=> ctx = <<>>
PROOF
  <1>1. ctx \in Seq(Context) BY DEF StackInv
  <1>2. Len(<<>>) = 0 /\ (ctx # <<>> => Len(ctx) # 0) BY <1>1, EmptySeq
  <1>3. Len(ctx) = 0 <=> ctx = <<>> BY <1>2
  <1> QED BY <1>3 DEF StackInv

\* Some handler of the stack c has its line in service.
Serving(c) ==
  \E k \in 1 .. Len(c) : c[k].isr = "irq0_handler" /\ c[k].step # "iret"

\* InServiceMatchesHandlers in a form that does not count.
LEMMA Served ==
  /\ InServiceMatchesHandlers <=> pic[1].isr = IF Serving(ctx) THEN {0} ELSE {}
  /\ InServiceMatchesHandlers' <=> pic'[1].isr = IF Serving(ctx') THEN {0} ELSE {}
PROOF
  <1> DEFINE S(c) == {k \in 1 .. Len(c) : c[k].isr = "irq0_handler" /\ c[k].step # "iret"}
  <1>1. /\ InServiceMatchesHandlers <=> pic[1].isr = {0 : k \in S(ctx)}
        /\ InServiceMatchesHandlers' <=> pic'[1].isr = {0 : k \in S(ctx')}
    BY DEF InServiceMatchesHandlers
  <1>2. ASSUME NEW c PROVE {0 : k \in S(c)} = IF Serving(c) THEN {0} ELSE {}
    <2>1. Serving(c) <=> S(c) # {} BY DEF Serving
    <2> HIDE DEF S
    <2> QED BY <2>1
  <1> HIDE DEF S
  <1> QED BY <1>1, <1>2

\* The CPU accepts line 0 only, with the boot thread between two instructions
\* or in the report of a panic, and enters its handler.
LEMMA Accepted ==
  ASSUME IInv, Interrupt
  PROVE  /\ ip \in On /\ iflag
         /\ ctx = <<>> \/ (Len(ctx) = 1 /\ ctx[1].isr = "panic" /\ ctx[1].saved)
         /\ ctx' = Append(ctx, [isr |-> "irq0_handler", step |-> "enter", saved |-> TRUE])
         /\ iflag' = FALSE
         /\ 0 \in pic[1].irr
         /\ pic' = [pic EXCEPT ![1] = Acknowledge(@, 0)]
PROOF
  <1> DEFINE l == First(Ready(pic[1]))
  <1>1. /\ ~halted /\ iflag /\ idtr /\ Ready(pic[1]) # {}
        /\ Enter(VectorNumber(l)) /\ pic' = [pic EXCEPT ![1] = Acknowledge(@, l)]
    BY DEF Interrupt
  <1>2. ctx \in Seq(Context) /\ Len(ctx) \in 0 .. 2 /\ (Len(ctx) = 0 => ctx = <<>>)
    BY Depth DEF IInv
  <1>3. ctx = <<>> \/ (Len(ctx) = 1 /\ ctx[1].isr = "panic" /\ ctx[1].saved)
    <2>1. Len(ctx) # 2 BY <1>1 DEF IInv, StackInv
    <2>2. Len(ctx) = 1 => ctx[1].isr = "panic" /\ ctx[1].saved
      BY <1>1 DEF IInv, StackInv
    <2> QED BY <1>2, <2>1, <2>2
  <1>4. ip \in On
    <2>1. ip > 3 BY <1>1 DEF IInv, TableInv
    <2>2. ip \in Nat /\ (ctx = <<>> => Len(ctx) = 0) BY Depth DEF IInv, TypeOK
    <2> QED BY <1>1, <1>3, <2>1, <2>2 DEF IInv, FlagInv
  <1>5. ip \in 22 .. 37 BY <1>4 DEF On
  <1>6. pic[1].imr = 1 .. 7 /\ pic[1].irr \subseteq {0, 1} /\ pic[1].base = {5}
    BY <1>5 DEF IInv, PicInv
  <1>7. Ready(pic[1]) = {0} /\ 0 \in pic[1].irr
    <2>1. Ready(pic[1]) \subseteq {0} BY <1>6 DEF Ready
    <2>2. 0 \in Ready(pic[1]) BY <1>1, <2>1
    <2> QED BY <2>1, <2>2 DEF Ready
  <1>8. l = 0 BY <1>7 DEF First
  <1>9. VectorNumber(l) = 32 BY <1>6, <1>8, Vector32
  <1>10. idt[32] = [isr |-> "irq0_handler", attr |-> Cpu!INT_GATE_FLAGS]
    BY <1>5 DEF IInv, TableInv
  <1>11. Cpu!ClearsIF(idt[32].attr) BY <1>10 DEF Cpu!ClearsIF, Cpu!INT_GATE_FLAGS
  <1>12. iflag = TRUE BY <1>1 DEF IInv, TypeOK
  <1>13. Enter(32) BY <1>1, <1>9
  <1>14. ctx' = Append(ctx, [isr |-> "irq0_handler", step |-> "enter", saved |-> TRUE])
    BY <1>10, <1>12, <1>13 DEF Enter
  <1>15. iflag' = FALSE BY <1>11, <1>13 DEF Enter
  <1>16. pic' = [pic EXCEPT ![1] = Acknowledge(@, 0)] BY <1>1, <1>8
  <1> HIDE DEF l
  <1> QED BY <1>1, <1>3, <1>4, <1>7, <1>14, <1>15, <1>16

\* An exception enters the report of a panic, over at most one handler.
LEMMA Faulted ==
  ASSUME IInv, NEW v \in Faults, Fault(v)
  PROVE  /\ \/ ctx = <<>>
            \/ Len(ctx) = 1 /\ ctx[1].isr \in {"irq0_handler", "syscall_gate"} /\ ~iflag
         /\ ctx' = Append(ctx, [isr |-> "panic", step |-> "enter", saved |-> iflag])
         /\ iflag' = iflag
PROOF
  <1> DEFINE n == IF v \in DOMAIN idt THEN v ELSE 11
  <1>1. idtr /\ ~panicking /\ Enter(n) BY DEF Fault
  <1>2. ctx \in Seq(Context) /\ Len(ctx) \in 0 .. 2 /\ (Len(ctx) = 0 => ctx = <<>>)
    BY Depth DEF IInv
  <1>3. \A k \in 1 .. Len(ctx) : ctx[k].isr \in {"irq0_handler", "syscall_gate"}
    BY <1>1 DEF panicking, IInv, StackInv, Proper
  <1>4. Len(ctx) # 2
    <2>1. Len(ctx) = 2 => 1 \in 1 .. Len(ctx) /\ 2 \in 1 .. Len(ctx) OBVIOUS
    <2>2. Len(ctx) = 2 => (ctx[1].isr = "panic" <=> ctx[2].isr # "panic")
      BY DEF IInv, StackInv
    <2> QED BY <1>3, <2>1, <2>2
  <1>6. Len(ctx) = 1 => ctx[1].isr \in {"irq0_handler", "syscall_gate"} /\ ~iflag
    <2>1. Len(ctx) = 1 => 1 \in 1 .. Len(ctx) OBVIOUS
    <2>2. Len(ctx) = 1 => ctx[1].isr \in {"irq0_handler", "syscall_gate"} BY <1>3, <2>1
    <2> QED BY <2>2 DEF IInv, StackInv
  <1>7. n \in Exceptions
    <2>1. v \in 0 .. 31 BY FaultsAssumption
    <2>2. v \in DOMAIN idt => v \in Exceptions BY <2>1 DEF IInv, TableInv
    <2> QED BY <2>2 DEF Exceptions
  <1>8. idt[n] = [isr |-> "panic", attr |-> Cpu!TRAP_GATE_FLAGS]
    <2>1. ip > 2
      <3>1. ip > 3 /\ ip \in Nat BY <1>1 DEF IInv, TableInv, TypeOK
      <3> QED BY <3>1
    <2> QED BY <1>7, <2>1 DEF IInv, TableInv
  <1>9. ~Cpu!ClearsIF(Cpu!TRAP_GATE_FLAGS) BY DEF Cpu!ClearsIF, Cpu!TRAP_GATE_FLAGS
  <1>10. iflag \in BOOLEAN BY DEF IInv, TypeOK
  <1> HIDE DEF n
  <1>11. ctx' = Append(ctx, [isr |-> "panic", step |-> "enter", saved |-> iflag])
    BY <1>1, <1>8 DEF Enter
  <1>12. iflag' = iflag BY <1>1, <1>8, <1>9, <1>10 DEF Enter
  <1> QED BY <1>2, <1>4, <1>6, <1>11, <1>12

\* A system call enters its dispatcher with interrupts off.
LEMMA Called ==
  ASSUME IInv, Syscall
  PROVE  /\ ctx = <<>> /\ ip \in {42, 43}
         /\ ctx' = Append(ctx, [isr |-> "syscall_gate", step |-> "enter", saved |-> iflag])
         /\ iflag' = FALSE
PROOF
  <1>1. ctx = <<>> /\ At("int80") BY DEF Syscall, At, Running
  <1>2. ip \in {42, 43} BY <1>1, Opcodes DEF IInv, TypeOK
  <1>3. idt[128] = [isr |-> "syscall_gate", attr |-> Cpu!IDT_INT_GATE_USER]
    BY <1>2 DEF IInv, TableInv
  <1>4. Cpu!OpenToUsers(idt[128].attr) /\ Cpu!ClearsIF(idt[128].attr)
    BY <1>3 DEF Cpu!OpenToUsers, Cpu!ClearsIF, Cpu!IDT_INT_GATE_USER
  <1>5. Enter(128) BY <1>4 DEF Syscall
  <1>6. ctx' = Append(ctx, [isr |-> "syscall_gate", step |-> "enter", saved |-> iflag])
    BY <1>3, <1>5 DEF Enter
  <1>7. iflag' = FALSE BY <1>4, <1>5 DEF Enter
  <1> QED BY <1>1, <1>2, <1>6, <1>7

\* What the invariant says of a stack of one and of two contexts.
LEMMA StackOfOne ==
  ASSUME ctx' \in Seq(Context), Len(ctx') = 1, Proper(ctx'[1]),
         ctx'[1].isr = "panic" => halted' \/ iflag' = ctx'[1].saved,
         ctx'[1].isr # "panic" => iflag' = FALSE
  PROVE  StackInv'
PROOF
  <1>1. Len(ctx') \in 0 .. 2 /\ Len(ctx') # 2 OBVIOUS
  <1>2. \A k \in 1 .. Len(ctx') : k = 1 OBVIOUS
  <1>3. \A k \in 1 .. Len(ctx') : Proper(ctx'[k]) BY <1>2
  <1> QED BY <1>1, <1>3 DEF StackInv

\* The two contexts are a panic and something else, in either order.
LEMMA StackOfTwo ==
  ASSUME ctx' \in Seq(Context), Len(ctx') = 2, Proper(ctx'[1]), Proper(ctx'[2]),
         iflag' = FALSE,
         \/ ctx'[1].isr # "panic" /\ ctx'[2].isr = "panic"
         \/ ctx'[1].isr = "panic" /\ ctx'[2].isr = "irq0_handler" /\ ctx'[1].saved = TRUE
  PROVE  StackInv'
PROOF
  <1>1. Len(ctx') \in 0 .. 2 /\ Len(ctx') # 1 OBVIOUS
  <1>2. \A k \in 1 .. Len(ctx') : k = 1 \/ k = 2 OBVIOUS
  <1>3. \A k \in 1 .. Len(ctx') : Proper(ctx'[k]) BY <1>2
  <1> QED BY <1>1, <1>3 DEF StackInv

\* A handler that goes on to its next step.
LEMMA StackReplaced ==
  ASSUME StackInv, ctx # <<>>, NEW s \in {"eoi", "iret", "stop"}, Goto(s),
         UNCHANGED <<iflag, halted>>,
         s = "stop" <=> current.isr = "panic"
  PROVE  StackInv'
PROOF
  <1>1. ctx \in Seq(Context) /\ Len(ctx) \in 1 .. 2 BY Depth
  <1>2. /\ ctx' \in Seq(Context) /\ Len(ctx') = Len(ctx)
        /\ ctx'[Len(ctx)] = [current EXCEPT !.step = s]
        /\ \A k \in 1 .. Len(ctx) - 1 : ctx'[k] = ctx[k]
    BY <1>1, Replaced
  <1>3. current \in Context /\ current = ctx[Len(ctx)] BY <1>1, Top DEF current
  <1>4. /\ ctx'[Len(ctx)].isr = current.isr /\ ctx'[Len(ctx)].saved = current.saved
        /\ ctx'[Len(ctx)].step = s
    BY <1>2, <1>3 DEF Context
  <1>5. Proper(current) BY <1>1, <1>3 DEF StackInv
  <1>6. Proper(ctx'[Len(ctx)]) BY <1>4, <1>5 DEF Proper
  <1>7. CASE Len(ctx) = 1
    <2>1. current = ctx[1] BY <1>3, <1>7
    <2>2. ctx[1].isr = "panic" => halted \/ iflag = ctx[1].saved BY <1>7 DEF StackInv
    <2>3. ctx[1].isr # "panic" => iflag = FALSE BY <1>7 DEF StackInv
    <2> QED BY <1>2, <1>4, <1>6, <1>7, <2>1, <2>2, <2>3, StackOfOne
  <1>8. CASE Len(ctx) = 2
    <2>1. ctx'[1] = ctx[1] /\ current = ctx[2] BY <1>2, <1>3, <1>8
    <2>2. Proper(ctx[1]) BY <1>8 DEF StackInv
    <2>3. /\ iflag = FALSE
          /\ \/ ctx[1].isr # "panic" /\ ctx[2].isr = "panic"
             \/ (ctx[1].isr = "panic" /\ ctx[2].isr = "irq0_handler" /\ ctx[1].saved = TRUE)
      BY <1>8 DEF StackInv
    <2> QED BY <1>2, <1>4, <1>6, <1>8, <2>1, <2>2, <2>3, StackOfTwo
  <1> QED BY <1>1, <1>7, <1>8

\* A handler is entered on an empty stack, by a fault, or over a panic.
LEMMA StackStep ==
  ASSUME IInv, [Next]_vars
  PROVE  StackInv'
PROOF
  <1>1. StackInv /\ ctx \in Seq(Context) /\ Len(ctx) \in 0 .. 2 /\ (Len(ctx) = 0 <=> ctx = <<>>)
    BY Depth DEF IInv
  <1>2. CASE UNCHANGED <<ctx, iflag, halted>> BY <1>1, <1>2 DEF StackInv
  <1>3. CASE ctx' = <<>>
    <2>1. ctx' \in Seq(Context) /\ Len(ctx') = 0 BY <1>3, EmptySeq
    <2> QED BY <2>1 DEF StackInv
  <1>4. CASE Interrupt
    <2> DEFINE a == [isr |-> "irq0_handler", step |-> "enter", saved |-> TRUE]
    <2>1. a \in Context BY DEF Context
    <2>2. /\ ctx' = Append(ctx, a) /\ iflag' = FALSE
          /\ ctx = <<>> \/ (Len(ctx) = 1 /\ ctx[1].isr = "panic" /\ ctx[1].saved)
      BY <1>4, Accepted
    <2>3. /\ ctx' \in Seq(Context) /\ Len(ctx') = Len(ctx) + 1 /\ ctx'[Len(ctx')] = a
          /\ \A k \in 1 .. Len(ctx) : ctx'[k] = ctx[k]
      BY <1>1, <2>1, <2>2, Pushed
    <2>4. CASE Len(ctx) = 0
      <3>1. ctx'[1] = a /\ Len(ctx') = 1 BY <2>3, <2>4
      <3>2. Proper(ctx'[1]) /\ ctx'[1].isr # "panic" BY <3>1 DEF Proper
      <3> HIDE DEF a
      <3> QED BY <2>2, <2>3, <3>1, <3>2, StackOfOne
    <2>5. CASE Len(ctx) = 1
      <3>1. ctx'[1] = ctx[1] /\ ctx'[2] = a /\ Len(ctx') = 2 BY <2>3, <2>5
      <3>2. Proper(a) /\ Proper(ctx[1]) BY <1>1, <2>5 DEF StackInv, Proper
      <3>3. ctx[1] \in Context /\ iflag \in BOOLEAN
        BY <1>1, <2>5, ElementOfSeq DEF IInv, TypeOK
      <3>4. ctx # <<>> /\ iflag' = FALSE BY <1>1, <2>2, <2>5, <3>3
      <3>5. Proper(ctx'[2]) /\ ctx'[2].isr = "irq0_handler" /\ ctx[1].saved = TRUE
        BY <2>2, <3>1, <3>2, <3>3, <3>4 DEF Context
      <3> HIDE DEF a
      <3> QED BY <2>2, <2>3, <3>1, <3>2, <3>4, <3>5, StackOfTwo
    <2> QED BY <1>1, <2>2, <2>4, <2>5
  <1>5. ASSUME NEW v \in Faults, Fault(v) PROVE StackInv'
    <2> DEFINE a == [isr |-> "panic", step |-> "enter", saved |-> iflag]
    <2>1. a \in Context BY DEF Context, IInv, TypeOK
    <2>2. /\ ctx' = Append(ctx, a) /\ iflag' = iflag
          /\ \/ ctx = <<>>
             \/ Len(ctx) = 1 /\ ctx[1].isr \in {"irq0_handler", "syscall_gate"} /\ ~iflag
      BY <1>5, Faulted
    <2>3. /\ ctx' \in Seq(Context) /\ Len(ctx') = Len(ctx) + 1 /\ ctx'[Len(ctx')] = a
          /\ \A k \in 1 .. Len(ctx) : ctx'[k] = ctx[k]
      BY <1>1, <2>1, <2>2, Pushed
    <2>4. CASE Len(ctx) = 0
      <3>1. ctx'[1] = a /\ Len(ctx') = 1 BY <2>3, <2>4
      <3>2. Proper(ctx'[1]) /\ ctx'[1].isr = "panic" /\ ctx'[1].saved = iflag
        BY <3>1 DEF Proper
      <3> HIDE DEF a
      <3> QED BY <2>2, <2>3, <3>1, <3>2, StackOfOne
    <2>5. CASE Len(ctx) = 1
      <3>1. ctx'[1] = ctx[1] /\ ctx'[2] = a /\ Len(ctx') = 2 BY <2>3, <2>5
      <3>2. Proper(a) /\ Proper(ctx[1]) BY <1>1, <2>5 DEF StackInv, Proper
      <3>3. ctx[1] \in Context /\ iflag \in BOOLEAN
        BY <1>1, <2>5, ElementOfSeq DEF IInv, TypeOK
      <3>4. ctx # <<>> /\ iflag' = FALSE BY <1>1, <2>2, <2>5, <3>3
      <3>5. Proper(ctx'[2]) /\ ctx'[2].isr = "panic" BY <3>1, <3>2
      <3>6. ctx[1].isr # "panic" BY <2>2, <3>4
      <3> HIDE DEF a
      <3> QED BY <2>3, <3>1, <3>2, <3>4, <3>5, <3>6, StackOfTwo
    <2> QED BY <1>1, <2>2, <2>4, <2>5
  <1>6. CASE Syscall
    <2> DEFINE a == [isr |-> "syscall_gate", step |-> "enter", saved |-> iflag]
    <2>1. a \in Context BY DEF Context, IInv, TypeOK
    <2>2. ctx = <<>> /\ ctx' = Append(ctx, a) /\ iflag' = FALSE BY <1>6, Called
    <2>3. /\ ctx' \in Seq(Context) /\ Len(ctx') = Len(ctx) + 1 /\ ctx'[Len(ctx')] = a
      BY <1>1, <2>1, <2>2, Pushed
    <2>4. ctx'[1] = a /\ Len(ctx') = 1 BY <1>1, <2>2, <2>3
    <2>5. Proper(ctx'[1]) /\ ctx'[1].isr # "panic" BY <2>4 DEF Proper
    <2> HIDE DEF a
    <2> QED BY <2>2, <2>3, <2>4, <2>5, StackOfOne
  <1>7. CASE Tick
    <2>1. ctx # <<>> /\ current.isr = "irq0_handler" /\ Goto("eoi") /\ UNCHANGED <<iflag, halted>>
      BY <1>7 DEF Tick, InHandler
    <2> QED BY <1>1, <2>1, StackReplaced
  <1>8. CASE TickEOI
    <2>1. ctx # <<>> /\ current.isr = "irq0_handler" /\ Goto("iret") /\ UNCHANGED <<iflag, halted>>
      BY <1>8 DEF TickEOI, InHandler
    <2> QED BY <1>1, <2>1, StackReplaced
  <1>9. CASE syscall_dispatcher
    <2>1. ctx # <<>> /\ current.isr = "syscall_gate" /\ Goto("iret") /\ UNCHANGED <<iflag, halted>>
      BY <1>9 DEF syscall_dispatcher, InHandler
    <2> QED BY <1>1, <2>1, StackReplaced
  <1>10. CASE PanicReport
    <2>1. ctx # <<>> /\ current.isr = "panic" /\ Goto("stop") /\ UNCHANGED <<iflag, halted>>
      BY <1>10 DEF PanicReport, InHandler
    <2> QED BY <1>1, <2>1, StackReplaced
  <1>11. CASE PanicHalt
    <2>1. ctx' = ctx /\ iflag' = FALSE /\ halted' = TRUE BY <1>11 DEF PanicHalt, cli_hlt
    <2> QED BY <1>1, <2>1 DEF StackInv
  <1>12. CASE Iret
    <2>1. /\ ctx # <<>> /\ ctx' = SubSeq(ctx, 1, Len(ctx) - 1) /\ iflag' = current.saved
          /\ current.step = "iret"
      BY <1>12 DEF Iret
    <2>2. /\ ctx' \in Seq(Context) /\ Len(ctx') = Len(ctx) - 1
          /\ Len(ctx) = 1 => ctx' = <<>>
          /\ \A k \in 1 .. Len(ctx) - 1 : ctx'[k] = ctx[k]
      BY <1>1, <2>1, Popped
    <2>3. CASE Len(ctx) = 2
      <3>1. current = ctx[2] /\ 2 \in 1 .. Len(ctx) BY <2>3 DEF current
      <3>2. Proper(ctx[1]) /\ Proper(ctx[2]) BY <1>1, <2>3, <3>1 DEF StackInv
      <3>3. ctx[2].isr = "irq0_handler" BY <1>1, <2>1, <2>3, <3>1, <3>2 DEF StackInv, Proper
      <3>4. iflag' = TRUE /\ ctx[1].saved = TRUE /\ ctx[1].isr = "panic"
        BY <1>1, <2>1, <2>3, <3>1, <3>2, <3>3 DEF StackInv, Proper
      <3>5. Len(ctx') = 1 /\ ctx'[1] = ctx[1] BY <2>2, <2>3
      <3> QED BY <2>2, <3>2, <3>4, <3>5, StackOfOne
    <2> QED BY <1>1, <1>3, <2>1, <2>2, <2>3
  <1> QED BY <1>2, <1>3, <1>4, <1>5, <1>6, <1>7, <1>8, <1>9, <1>10, <1>11, <1>12,
             CtxSteps DEF Handler_Step

\* IF as the boot thread has it.
threadIF == IF ctx = <<>> THEN iflag ELSE ctx[1].saved

\* IF changes at CLI, STI and the switch, and a return restores it.
LEMMA FlagStep ==
  ASSUME IInv, [Next]_vars
  PROVE  FlagInv'
PROOF
  <1>0. FlagInv <=> (ip > 1 => (threadIF <=> ip \in On)) BY DEF FlagInv, threadIF
  <1>1. /\ FlagInv /\ ctx \in Seq(Context) /\ Len(ctx) \in 0 .. 2
        /\ Len(ctx) = 0 <=> ctx = <<>>
        /\ TypeOK /\ FrameInv /\ iflag \in BOOLEAN
    BY Depth DEF IInv, TypeOK
  <1>2. CASE ip' # ip
    <2>1. ip' = ip + 1 /\ ip \in 1 .. 43 /\ ctx = <<>> BY <1>1, <1>2, Advances
    <2>2. CASE ip \in {1, 22, 26, 28, 37}
      <3>1. iflag' = FALSE /\ ctx' = ctx BY <1>1, <1>2, <2>2, Advances DEF Cli
      <3> QED BY <2>1, <2>2, <3>1 DEF FlagInv, On
    <2>3. CASE ip \in {21, 23, 27, 32}
      <3>1. iflag' = TRUE /\ ctx' = ctx BY <1>1, <1>2, <2>3, Advances DEF Sti
      <3> QED BY <2>1, <2>3, <3>1 DEF FlagInv, On
    <2>4. CASE ip = 41
      <3>1. iflag' = FALSE /\ ctx' = ctx BY <1>1, <1>2, <2>4, Advances DEF context_switch
      <3> QED BY <2>1, <2>4, <3>1 DEF FlagInv, On
    <2>5. CASE ip \in {42, 43}
      <3>1. Syscall BY <1>1, <1>2, <2>5, Advances
      <3>2. ctx' = Append(ctx, [isr |-> "syscall_gate", step |-> "enter", saved |-> iflag])
        BY <3>1, Called
      <3>3. [isr |-> "syscall_gate", step |-> "enter", saved |-> iflag] \in Context
        BY <1>1 DEF Context
      <3>4. Len(ctx') = 1 /\ ctx' # <<>>
            /\ ctx'[1] = [isr |-> "syscall_gate", step |-> "enter", saved |-> iflag]
        BY <1>1, <2>1, <3>2, <3>3, Pushed
      <3>5. ctx'[1].saved = iflag BY <3>4
      <3> QED BY <1>1, <2>1, <2>5, <3>4, <3>5 DEF FlagInv, On
    <2>6. CASE ip \notin {1, 22, 26, 28, 37, 21, 23, 27, 32, 41, 42, 43}
      <3>1. iflag' = iflag /\ ctx' = ctx
        <4>1. CASE ip \in {2, 14, 15, 16, 3, 20} \cup Naps
          BY <1>1, <1>2, <2>1, <4>1, Advances DEF set_idt_vec, idt_install, acpi_init, SleepEnd
        <4>2. CASE ip \in Writes \cup Inputs \cup {18, 30, 35, 39}
          BY <1>1, <1>2, <4>2, Advances DEF Out, InResult, Compute
        <4> QED BY <2>1, <2>6, <4>1, <4>2 DEF Writes, Inputs, Naps
      <3> QED BY <1>1, <2>1, <2>6, <3>1 DEF FlagInv, On
    <2> QED BY <2>2, <2>3, <2>4, <2>5, <2>6
  <1>3. CASE ip' = ip
    <2>1. threadIF' = threadIF \/ (ip = 20 /\ ctx = <<>> /\ ctx' = <<>> /\ iflag' = FALSE)
      <3>1. CASE UNCHANGED <<ctx, iflag, halted>> BY <3>1 DEF threadIF
      <3>2. CASE ctx = <<>> /\ ctx' = <<>> /\ Main_Step
        <4>1. PortCall \/ In \/ acpi_init \/ SleepBegin
          <5>1. ip' # ip + 1 BY <1>1, <1>3 DEF TypeOK
          <5> QED BY <3>2, <5>1 DEF Main_Step, Cli, Sti, set_idt_vec, idt_install, Out, InResult,
             Compute, SleepEnd, context_switch, Syscall, Advance
        <4>2. CASE acpi_init
          <5>1. ip = 20 BY <1>1, <4>2, Opcodes DEF acpi_init, TypeOK
          <5>2. iflag' = FALSE \/ iflag' = iflag BY <4>2 DEF acpi_init
          <5> QED BY <3>2, <5>1, <5>2 DEF threadIF
        <4> QED BY <3>2, <4>1, <4>2 DEF PortCall, In, SleepBegin, threadIF
      <3>3. CASE Interrupt \/ \E v \in Faults : Fault(v)
        <4>1. \E h \in {"irq0_handler", "panic"} :
                ctx' = Append(ctx, [isr |-> h, step |-> "enter", saved |-> iflag])
          <5>1. CASE Interrupt
            <6>1. iflag = TRUE BY <1>1, <5>1, Accepted
            <6> QED BY <5>1, <6>1, Accepted
          <5> QED BY <3>3, <5>1, Faulted
        <4>2. \E a \in Context : ctx' = Append(ctx, a) /\ a.saved = iflag
          <5>1. PICK h \in {"irq0_handler", "panic"} :
                  ctx' = Append(ctx, [isr |-> h, step |-> "enter", saved |-> iflag])
            BY <4>1
          <5>2. [isr |-> h, step |-> "enter", saved |-> iflag] \in Context
            BY <1>1 DEF Context
          <5> QED BY <5>1, <5>2
        <4>3. PICK a \in Context : ctx' = Append(ctx, a) /\ a.saved = iflag BY <4>2
        <4>4. /\ ctx' # <<>> /\ Len(ctx') = Len(ctx) + 1 /\ ctx'[Len(ctx')] = a
              /\ \A k \in 1 .. Len(ctx) : ctx'[k] = ctx[k]
          BY <1>1, <4>3, Pushed
        <4>5. CASE ctx = <<>>
          BY <1>1, <4>3, <4>4, <4>5 DEF threadIF
        <4>6. CASE ctx # <<>>
          <5>1. 1 \in 1 .. Len(ctx) BY <1>1, <4>6
          <5> QED BY <4>4, <4>6, <5>1 DEF threadIF
        <4> QED BY <4>5, <4>6
      <3>4. CASE Syscall
        <4>1. FALSE BY <1>1, <1>3, <3>4 DEF Syscall, Advance, TypeOK
        <4> QED BY <4>1
      <3>5. CASE Handler_Step
        <4>1. CASE Iret
          <5>1. /\ ctx # <<>> /\ ctx' = SubSeq(ctx, 1, Len(ctx) - 1) /\ iflag' = current.saved
            BY <4>1 DEF Iret
          <5>2. /\ Len(ctx') = Len(ctx) - 1
                /\ Len(ctx) = 1 => ctx' = <<>>
                /\ \A k \in 1 .. Len(ctx) - 1 : ctx'[k] = ctx[k]
            BY <1>1, <5>1, Popped
          <5>3. CASE Len(ctx) = 1
            BY <5>1, <5>2, <5>3 DEF threadIF, current
          <5>4. CASE Len(ctx) = 2
            <6>1. ctx'[1] = ctx[1] /\ Len(ctx') = 1 BY <5>2, <5>4
            <6>2. Len(<<>>) = 0 BY EmptySeq
            <6>3. ctx' # <<>> BY <6>1, <6>2
            <6> QED BY <5>1, <6>1, <6>3 DEF threadIF
          <5>5. Len(ctx) = 1 \/ Len(ctx) = 2 BY <1>1, <5>1
          <5> QED BY <5>3, <5>4, <5>5
        <4>2. CASE Tick \/ TickEOI \/ syscall_dispatcher \/ PanicReport
          <5>1. ctx # <<>> /\ \E s \in {"eoi", "iret", "stop"} : Goto(s)
            BY <4>2 DEF Tick, TickEOI, syscall_dispatcher, PanicReport, InHandler
          <5>2. PICK s \in {"eoi", "iret", "stop"} : Goto(s) BY <5>1
          <5>3. /\ ctx' # <<>> /\ ctx'[Len(ctx)] = [current EXCEPT !.step = s]
                /\ \A k \in 1 .. Len(ctx) - 1 : ctx'[k] = ctx[k]
            BY <1>1, <5>1, <5>2, Replaced
          <5>4. current \in Context /\ current = ctx[Len(ctx)] BY <1>1, <5>1, Top DEF current
          <5>5. ctx'[1].saved = ctx[1].saved
            <6>1. CASE Len(ctx) = 1 BY <5>3, <5>4, <6>1 DEF Context
            <6>2. CASE Len(ctx) = 2 BY <5>3, <6>2
            <6> QED BY <1>1, <5>1, <6>1, <6>2
          <5> QED BY <5>1, <5>3, <5>5 DEF threadIF
        <4>3. CASE PanicHalt
          BY <4>3 DEF PanicHalt, InHandler, threadIF
        <4> QED BY <3>5, <4>1, <4>2, <4>3 DEF Handler_Step
      <3> QED BY <3>1, <3>2, <3>3, <3>4, <3>5, CtxSteps
    <2>2. CASE threadIF' = threadIF BY <1>0, <1>1, <1>3, <2>2 DEF FlagInv, threadIF
    <2>3. CASE ip = 20 /\ ctx' = <<>> /\ iflag' = FALSE
      BY <1>3, <2>3 DEF FlagInv, On
    <2> QED BY <2>1, <2>2, <2>3
  <1> QED BY <1>2, <1>3

\* Line 0 goes in service with its handler and out with its end of interrupt.
LEMMA ServiceStep ==
  ASSUME IInv, [Next]_vars
  PROVE  InServiceMatchesHandlers'
PROOF
  <1>1. /\ ctx \in Seq(Context) /\ Len(ctx) \in 0 .. 2
        /\ Len(ctx) = 0 <=> ctx = <<>>
        /\ TypeOK /\ FrameInv
        /\ pic \in [{1, 2} -> Chip]
    BY Depth DEF IInv, TypeOK
  <1>2. pic[1].isr = IF Serving(ctx) THEN {0} ELSE {} BY Served DEF IInv
  <1>3. Len(<<>>) = 0 /\ ~Serving(<<>>) BY EmptySeq DEF Serving
  <1>4. pic[1] \in Chip /\ pic[2] \in Chip BY <1>1
  <1> SUFFICES pic'[1].isr = IF Serving(ctx') THEN {0} ELSE {} BY Served
  <1>5. CASE UNCHANGED <<ctx, iflag, halted>>
    <2>1. pic'[1].isr = pic[1].isr
      <3>1. CASE Out
        <4>1. ctx = <<>> /\ pic[1].isr = {} BY <1>2, <1>3, <3>1 DEF Out, Running
        <4> QED BY <1>1, <1>4, <3>1, <4>1 DEF Out, Write, Command, Data, Chip
      <3>2. CASE Interrupt BY <1>5, <3>2, Accepted
      <3>3. CASE TickEOI
        <4>1. ctx' # ctx
          <5>1. ctx # <<>> /\ Goto("iret") /\ current.step = "eoi" BY <3>3 DEF TickEOI, InHandler
          <5>2. ctx'[Len(ctx)] = [current EXCEPT !.step = "iret"] BY <1>1, <5>1, Replaced
          <5>3. current = ctx[Len(ctx)] /\ current \in Context BY <1>1, <5>1, Top DEF current
          <5> QED BY <5>1, <5>2, <5>3 DEF Context
        <4> QED BY <1>5, <4>1
      <3>4. CASE TimerPeriod \/ KeyPress
        BY <1>1, <1>4, <3>4 DEF TimerPeriod, KeyPress, Raise, Chip
      <3> QED BY <3>1, <3>2, <3>3, <3>4, DeviceSteps
    <2> QED BY <1>2, <1>5, <2>1
  <1>6. CASE ctx = <<>> /\ ctx' = <<>> /\ Main_Step
    <2>1. pic[1].isr = {} BY <1>2, <1>3, <1>6
    <2>2. CASE Out
      BY <1>1, <1>3, <1>4, <1>6, <2>1, <2>2 DEF Out, Write, Command, Data, Chip
    <2>3. CASE ~Out
      <3>1. ~Interrupt BY <1>1, <1>6, Accepted, Pushed DEF Context
      <3>2. ~TickEOI BY <1>6 DEF TickEOI, InHandler
      <3>3. pic'[1].isr = pic[1].isr
        BY <1>1, <1>4, <2>3, <3>1, <3>2, DeviceSteps DEF TimerPeriod, KeyPress, Raise, Chip
      <3> QED BY <1>3, <1>6, <2>1, <3>3
    <2> QED BY <2>2, <2>3
  <1>7. CASE Interrupt
    <2> DEFINE a == [isr |-> "irq0_handler", step |-> "enter", saved |-> TRUE]
    <2>1. a \in Context /\ ctx' = Append(ctx, a) BY <1>7, Accepted DEF Context
    <2>2. Len(ctx') = Len(ctx) + 1 /\ ctx'[Len(ctx')] = a BY <1>1, <2>1, Pushed
    <2>3. Len(ctx') \in 1 .. Len(ctx') BY <1>1, <2>2
    <2>4. Serving(ctx') BY <2>2, <2>3 DEF Serving
    <2>5. pic'[1].isr = pic[1].isr \cup {0}
      BY <1>1, <1>4, <1>7, Accepted DEF Acknowledge, Chip
    <2> QED BY <1>2, <2>4, <2>5
  <1>8. ASSUME NEW a \in Context, a.isr # "irq0_handler", ctx' = Append(ctx, a), pic' = pic
        PROVE  pic'[1].isr = IF Serving(ctx') THEN {0} ELSE {}
    <2>1. /\ Len(ctx') = Len(ctx) + 1 /\ ctx'[Len(ctx')] = a
          /\ \A k \in 1 .. Len(ctx) : ctx'[k] = ctx[k]
      BY <1>1, <1>8, Pushed
    <2>2. \A k \in 1 .. Len(ctx') : k = Len(ctx') \/ k \in 1 .. Len(ctx)
      BY <1>1, <2>1
    <2>3. \A k \in 1 .. Len(ctx) : k \in 1 .. Len(ctx') BY <1>1, <2>1
    <2>4. Serving(ctx') <=> Serving(ctx) BY <1>8, <2>1, <2>2, <2>3 DEF Serving
    <2> QED BY <1>2, <1>8, <2>4
  <1>9. CASE Syscall
    <2> DEFINE a == [isr |-> "syscall_gate", step |-> "enter", saved |-> iflag]
    <2>1. a \in Context /\ a.isr # "irq0_handler" BY <1>1 DEF Context, TypeOK
    <2>2. ctx' = Append(ctx, a) /\ pic' = pic BY <1>9, Called DEF Syscall, devices
    <2> QED BY <1>8, <2>1, <2>2
  <1>10. ASSUME NEW v \in Faults, Fault(v)
         PROVE  pic'[1].isr = IF Serving(ctx') THEN {0} ELSE {}
    <2> DEFINE a == [isr |-> "panic", step |-> "enter", saved |-> iflag]
    <2>1. a \in Context /\ a.isr # "irq0_handler" BY <1>1 DEF Context, TypeOK
    <2>2. ctx' = Append(ctx, a) /\ pic' = pic BY <1>10, Faulted DEF Fault, devices
    <2> QED BY <1>8, <2>1, <2>2
  <1>11. CASE Tick \/ syscall_dispatcher \/ PanicReport \/ TickEOI
    <2>1. PICK s \in {"eoi", "iret", "stop"} :
            /\ ctx # <<>> /\ Goto(s)
            /\ s = "iret" => current.isr = "syscall_gate" \/ TickEOI
      BY <1>11 DEF Tick, syscall_dispatcher, PanicReport, TickEOI, InHandler
    <2>2. /\ Len(ctx') = Len(ctx) /\ ctx'[Len(ctx)] = [current EXCEPT !.step = s]
          /\ \A k \in 1 .. Len(ctx) - 1 : ctx'[k] = ctx[k]
      BY <1>1, <2>1, Replaced
    <2>3. current \in Context /\ current = ctx[Len(ctx)] /\ Len(ctx) \in 1 .. Len(ctx)
      BY <1>1, <2>1, Top DEF current
    <2>4. ctx'[Len(ctx)].isr = current.isr /\ ctx'[Len(ctx)].step = s
      BY <2>2, <2>3 DEF Context
    <2>5. \A k \in 1 .. Len(ctx) : k = Len(ctx) \/ k \in 1 .. Len(ctx) - 1 BY <1>1
    <2>6. CASE TickEOI
      <3>1. /\ current.isr = "irq0_handler" /\ current.step = "eoi"
            /\ pic'[1] = Command(pic[1], PIC_EOI) /\ Goto("iret")
        BY <1>1, <2>6 DEF TickEOI, InHandler, PIC_sendEOI
      <3>2. pic'[1].isr = {} BY <1>2, <1>4, <3>1, EOI
      <3>3. ctx'[Len(ctx)].step = "iret"
        <4>1. ctx'[Len(ctx)] = [current EXCEPT !.step = "iret"]
          BY <1>1, <2>1, <3>1, Replaced
        <4> QED BY <2>3, <4>1 DEF Context
      <3>4. \A k \in 1 .. Len(ctx) - 1 : ctx[k].isr # "irq0_handler"
        <4>1. Len(ctx) = 2 => ctx[1].isr = "panic"
          BY <2>3, <3>1 DEF IInv, StackInv
        <4>2. \A n \in 0 .. 2 : \A k \in 1 .. n - 1 : n = 2 /\ k = 1 OBVIOUS
        <4> QED BY <1>1, <4>1, <4>2
      <3>5. ~Serving(ctx') BY <2>2, <2>5, <3>3, <3>4 DEF Serving
      <3> QED BY <3>2, <3>5
    <2>7. CASE ~TickEOI
      <3>1. pic' = pic /\ current.step = "enter"
        BY <1>11, <2>7 DEF Tick, syscall_dispatcher, PanicReport, InHandler, devices
      <3>2. s = "iret" => current.isr # "irq0_handler" BY <2>1, <2>7
      <3>3. (ctx'[Len(ctx)].isr = "irq0_handler" /\ ctx'[Len(ctx)].step # "iret")
            <=> (ctx[Len(ctx)].isr = "irq0_handler" /\ ctx[Len(ctx)].step # "iret")
        BY <2>3, <2>4, <3>1, <3>2
      <3>4. Serving(ctx') <=> Serving(ctx) BY <2>2, <2>5, <3>3 DEF Serving
      <3> QED BY <1>2, <3>1, <3>4
    <2> QED BY <2>6, <2>7
  <1>12. CASE Iret
    <2>1. ctx # <<>> /\ ctx' = SubSeq(ctx, 1, Len(ctx) - 1) /\ pic' = pic /\ current.step = "iret"
      BY <1>12 DEF Iret, devices
    <2>2. Len(ctx') = Len(ctx) - 1 /\ \A k \in 1 .. Len(ctx) - 1 : ctx'[k] = ctx[k]
      BY <1>1, <2>1, Popped
    <2>3. current = ctx[Len(ctx)] BY DEF current
    <2>4. \A k \in 1 .. Len(ctx) : k = Len(ctx) \/ k \in 1 .. Len(ctx') BY <1>1, <2>2
    <2>5. \A k \in 1 .. Len(ctx') : k \in 1 .. Len(ctx) /\ ctx'[k] = ctx[k] BY <1>1, <2>2
    <2>6. Serving(ctx') <=> Serving(ctx) BY <2>1, <2>3, <2>4, <2>5 DEF Serving
    <2> QED BY <1>2, <2>1, <2>6
  <1>13. CASE PanicHalt
    BY <1>2, <1>13 DEF PanicHalt, devices
  <1> QED BY <1>5, <1>6, <1>7, <1>9, <1>10, <1>11, <1>12, <1>13, CtxSteps DEF Handler_Step

\* The frame of a port function changes with its steps and at interrupts only.
LEMMA FrameSteps ==
  ASSUME [Next]_vars, ~Interrupt, ~PortCall, ~In, ~Out, ~InResult
  PROVE  frame' = frame /\ torn' = torn
PROOF
  <1>1. CASE Main_Step
    <2>1. CASE Cli \/ Sti \/ set_idt_vec \/ idt_install \/ Compute \/ context_switch
      BY <2>1 DEF Cli, Sti, set_idt_vec, idt_install, Compute, context_switch, redzone
    <2>2. CASE acpi_init \/ SleepBegin \/ SleepEnd \/ Syscall
      BY <2>2 DEF acpi_init, SleepBegin, SleepEnd, Syscall, redzone
    <2> QED BY <1>1, <2>1, <2>2 DEF Main_Step
  <1>2. CASE Handler_Step
    BY <1>2 DEF Handler_Step, Tick, TickEOI, syscall_dispatcher, Iret, PanicReport,
       PanicHalt, redzone
  <1>3. CASE (\E v \in Faults : Fault(v)) \/ TimerPeriod \/ KeyPress \/ Idle \/ UNCHANGED vars
    BY <1>3 DEF Fault, TimerPeriod, KeyPress, Idle, vars, redzone
  <1> QED BY <1>1, <1>2, <1>3 DEF Next

\* An interrupt hits a port function only where one is exposed.
LEMMA FrameStep ==
  ASSUME IInv, [Next]_vars
  PROVE  FrameInv'
PROOF
  <1>1. TypeOK /\ FrameInv /\ ip \in Nat BY DEF IInv, TypeOK
  <1>2. CASE Interrupt
    <2>1. ip' = ip /\ frame' = Overwritten
          /\ torn' = IF frame = NoFrame THEN torn ELSE torn \cup {ip}
      BY <1>2 DEF Interrupt
    <2>2. CASE frame = NoFrame
      <3>1. frame' = NoFrame /\ torn' = torn BY <2>1, <2>2 DEF Overwritten, NoFrame
      <3> QED BY <1>1, <3>1 DEF FrameInv, NoFrame
    <2>3. CASE frame # NoFrame
      <3>1. frame.step \in {"out", "in", "result"} BY <1>1, <2>3 DEF TypeOK, FrameInv
      <3>2. ip \in On BY <1>2, Accepted
      <3>3. ip \in Exposed
        BY <1>1, <3>1, <3>2 DEF FrameInv, Writes, Inputs, On, Exposed
      <3>4. frame'.step = frame.step /\ frame'.port = 0
        BY <1>1, <2>1, <3>1 DEF Overwritten, TypeOK
      <3> QED BY <1>1, <2>1, <2>3, <3>1, <3>3, <3>4 DEF FrameInv, NoFrame
    <2> QED BY <2>2, <2>3
  <1>3. CASE PortCall
    <2>1. ip' = ip /\ torn' = torn /\ al' = al BY <1>3 DEF PortCall
    <2>2. CASE At("in") /\ frame' = [step |-> "in", port |-> Arg, val |-> {}]
      <3>1. ip \in Inputs BY <1>1, <2>2, Opcodes DEF TypeOK
      <3>2. frame'.step = "in" /\ frame'.port = Arg BY <2>2
      <3>3. Arg' = Arg BY <2>1 DEF Arg
      <3> QED BY <1>1, <2>1, <3>1, <3>2, <3>3 DEF FrameInv, Intact, NoFrame
    <2>3. CASE At("out") /\ frame' = [step |-> "out", port |-> Arg, val |-> Main[ip][3]]
      <3>1. ip \in Writes BY <1>1, <2>3, Opcodes DEF TypeOK, Writes
      <3>2. frame'.step = "out" /\ frame'.port = Arg /\ frame'.val = Main[ip][3] BY <2>3
      <3>3. Arg' = Arg /\ Main[ip][1] = "out" BY <2>1, <2>3 DEF Arg, At
      <3> QED BY <1>1, <2>1, <3>1, <3>2, <3>3 DEF FrameInv, Intact, NoFrame
    <2>4. CASE At("out_al") /\ frame' = [step |-> "out", port |-> Arg, val |-> al]
      <3>1. ip \in Writes BY <1>1, <2>4, Opcodes DEF TypeOK, Writes
      <3>2. frame'.step = "out" /\ frame'.port = Arg /\ frame'.val = al BY <2>4
      <3>3. Arg' = Arg /\ Main[ip][1] = "out_al" BY <2>1, <2>4 DEF Arg, At
      <3> QED BY <1>1, <2>1, <3>1, <3>2, <3>3 DEF FrameInv, Intact, NoFrame
    <2> QED BY <1>3, <2>2, <2>3, <2>4 DEF PortCall
  <1>4. CASE In
    <2>1. frame.step = "in" /\ ip' = ip /\ torn' = torn /\ pic' = pic /\ spk' = spk
      BY <1>4 DEF In, devices
    <2>2. PICK v \in Reads(frame.port) : frame' = [frame EXCEPT !.step = "result", !.val = v]
      BY <1>4 DEF In
    <2>3. frame'.step = "result" /\ frame'.port = frame.port /\ frame'.val = v
      BY <1>1, <2>2 DEF TypeOK
    <2>4. ip \in Inputs /\ frame # NoFrame BY <1>1, <2>1 DEF FrameInv, NoFrame
    <2>5. CASE Intact
      <3>1. frame.port = Arg BY <2>1, <2>5 DEF Intact
      <3>2. frame'.val \in Reads(Arg)' BY <2>1, <2>3, <3>1 DEF Reads, Arg
      <3>3. Intact' BY <2>3, <3>2 DEF Intact
      <3> QED BY <1>1, <2>1, <2>3, <2>4, <3>3 DEF FrameInv
    <2>6. CASE ip \in torn /\ frame.port = 0
      BY <1>1, <2>1, <2>3, <2>4, <2>6 DEF FrameInv
    <2> QED BY <1>1, <2>4, <2>5, <2>6 DEF FrameInv
  <1>5. CASE Out \/ InResult
    <2>1. frame' = NoFrame /\ torn' = torn BY <1>5 DEF Out, InResult
    <2> QED BY <1>1, <2>1 DEF FrameInv, NoFrame
  <1>6. CASE ~Interrupt /\ ~PortCall /\ ~In /\ ~Out /\ ~InResult
    <2>1. frame' = frame /\ torn' = torn BY <1>6, FrameSteps
    <2>2. CASE frame = NoFrame BY <1>1, <2>1, <2>2 DEF FrameInv, NoFrame
    <2>3. CASE frame # NoFrame
      <3>1. ip \in Writes \cup Inputs BY <1>1, <2>3 DEF FrameInv, TypeOK
      <3>2. ip' = ip BY <1>1, <1>6, <3>1, Advances
      <3>3. al' = al /\ spk' = spk /\ pic'[1].imr = pic[1].imr BY <1>1, <3>2, Stays
      <3>4. Intact => Intact'
        <4>1. Arg' = Arg /\ \A p : Reads(p)' = Reads(p) BY <3>2, <3>3 DEF Arg, Reads
        <4> QED BY <2>1, <3>2, <3>3, <4>1 DEF Intact
      <3> QED BY <1>1, <2>1, <3>2, <3>4 DEF FrameInv
    <2> QED BY <2>2, <2>3
  <1> QED BY <1>2, <1>3, <1>4, <1>5, <1>6

\* The tick is counted by the handler that was entered for it.
LEMMA SleepStep ==
  ASSUME IInv, [Next]_vars
  PROVE  SleepInv'
PROOF
  <1>1. /\ TypeOK /\ FrameInv /\ SleepInv /\ ip \in Nat /\ ctx \in Seq(Context)
        /\ ticks \in Nat /\ eticks \in Nat /\ periods \in Nat
        /\ pic \in [{1, 2} -> Chip] /\ pic[1] \in Chip
    BY Depth DEF IInv, TypeOK
  <1> DEFINE edge == IF 0 \in pic[1].irr THEN 1 ELSE 0
             entered == IF InHandler("irq0_handler", "enter") THEN 1 ELSE 0
             entered_ == IF InHandler("irq0_handler", "enter")' THEN 1 ELSE 0
  <1>2. Pending = edge + entered /\ Pending' = edge' + entered_ BY DEF Pending
  <1>3. /\ edge \in {0, 1} /\ edge' \in {0, 1} /\ entered \in {0, 1} /\ entered_ \in {0, 1}
    OBVIOUS
  <1>4. sleeping => Arg \in Nat BY <1>1, Arguments DEF SleepInv
  \* No more than Pending stays pending.
  <1>5. ASSUME ip' = ip, ticks' = ticks, eticks' = eticks, sleeping' = sleeping,
               periods' = periods, edge' + entered_ <= edge + entered
        PROVE  SleepInv'
    <2>1. Arg' = Arg BY <1>5 DEF Arg
    <2>2. Pending \in Int /\ Pending' \in Int /\ Pending' <= Pending BY <1>2, <1>3, <1>5
    <2> HIDE DEF edge, entered, entered_
    <2>3. sleeping /\ ~(periods >= Arg) => ticks + Arg + Pending' <= eticks + periods + 1
      BY <1>1, <1>4, <2>2 DEF SleepInv
    <2> QED BY <1>1, <1>5, <2>1, <2>3 DEF SleepInv
  <1>6. CASE SleepBegin
    <2>1. /\ ip \in Naps /\ ip' = ip /\ ctx = <<>> /\ ctx' = <<>> /\ pic' = pic /\ ticks' = ticks
          /\ eticks' = ticks + Arg /\ sleeping' = TRUE /\ periods' = 0
      BY <1>1, <1>6, Opcodes DEF SleepBegin, deadline, At, Running, TypeOK, devices
    <2>2. entered_ = 0 /\ Arg' = Arg /\ Arg \in Nat BY <2>1, Arguments DEF InHandler, Arg
    <2>3. ip' \notin 34 .. 36 BY <2>1 DEF Naps
    <2>4. Pending' \in {0, 1} BY <1>2, <1>3, <2>2
    <2> HIDE DEF edge, entered, entered_
    <2>5. \A n \in Nat, p \in {0, 1} : n + p <= n + 0 + 1 OBVIOUS
    <2>6. ticks + Arg \in Nat BY <1>1, <2>2
    <2>7. ticks + Arg + Pending' <= (ticks + Arg) + 0 + 1 BY <2>4, <2>5, <2>6
    <2> QED BY <2>1, <2>2, <2>3, <2>7 DEF SleepInv
  <1>7. CASE ip' # ip
    <2>1. ip' = ip + 1 /\ ip \in 1 .. 43 BY <1>1, <1>7, Advances
    <2>2. CASE ip \in Naps
      <3>1. sleeping' = FALSE /\ ticks >= eticks /\ ticks' = ticks /\ eticks' = eticks
        BY <1>1, <1>7, <2>2, Advances DEF SleepEnd, expired
      <3> QED BY <3>1 DEF SleepInv
    <2>3. CASE ip \notin Naps
      <3>1. sleeping' = sleeping /\ ticks' = ticks /\ eticks' = eticks
        <4>1. CASE ip \in {1, 22, 26, 28, 37} \cup {21, 23, 27, 32} \cup {2, 14, 15, 16, 3}
          BY <1>1, <1>7, <4>1, Advances DEF Cli, Sti, set_idt_vec, idt_install, timer
        <4>2. CASE ip \in {20, 41, 42, 43}
          BY <1>1, <1>7, <4>2, Advances DEF acpi_init, context_switch, Syscall, timer
        <4>3. CASE ip \in Writes \cup Inputs \cup {18, 30, 35, 39}
          BY <1>1, <1>7, <4>3, Advances DEF Out, InResult, Compute, timer
        <4> QED BY <2>1, <2>3, <4>1, <4>2, <4>3 DEF Writes, Inputs, Naps
      <3>2. ~sleeping BY <1>1, <2>3 DEF SleepInv
      <3> QED BY <1>1, <2>1, <2>3, <3>1, <3>2 DEF SleepInv, Naps
    <2> QED BY <2>2, <2>3
  <1>8. CASE Interrupt
    <2>1. /\ ip' = ip /\ ticks' = ticks /\ eticks' = eticks /\ sleeping' = sleeping
          /\ periods' = periods /\ halted' = halted
      BY <1>8 DEF Interrupt, Unglitched
    <2>2. edge = 1 /\ edge' = 0
      <3>1. 0 \in pic[1].irr /\ pic' = [pic EXCEPT ![1] = Acknowledge(@, 0)]
        BY <1>8, Accepted
      <3>2. pic'[1].irr = pic[1].irr \ {0} BY <1>1, <3>1 DEF Acknowledge, Chip
      <3> QED BY <3>1, <3>2
    <2> QED BY <1>3, <1>5, <2>1, <2>2
  <1>9. CASE Tick
    <2>1. /\ ip' = ip /\ ticks' = ticks + 1 /\ eticks' = eticks /\ sleeping' = sleeping
          /\ periods' = periods /\ pic' = pic /\ Goto("eoi") /\ ctx # <<>>
          /\ InHandler("irq0_handler", "enter")
      BY <1>9 DEF Tick, devices, InHandler
    <2>2. entered = 1 /\ edge' = edge BY <2>1
    <2>3. entered_ = 0
      <3>1. ctx'[Len(ctx)] = [current EXCEPT !.step = "eoi"] /\ Len(ctx') = Len(ctx)
        BY <1>1, <2>1, Replaced
      <3>2. current \in Context BY <1>1, <2>1, Top
      <3>3. current'.step = "eoi" BY <3>1, <3>2 DEF current, Context
      <3> QED BY <3>3 DEF InHandler
    <2>4. Arg' = Arg BY <2>1 DEF Arg
    <2> HIDE DEF edge, entered, entered_
    <2> QED BY <1>1, <1>2, <1>3, <1>4, <2>1, <2>2, <2>3, <2>4 DEF SleepInv
  <1>10. CASE TickEOI \/ syscall_dispatcher \/ PanicReport \/ PanicHalt \/ Iret
    <2>1. /\ ip' = ip /\ ticks' = ticks /\ eticks' = eticks /\ sleeping' = sleeping
          /\ periods' = periods
      BY <1>10 DEF TickEOI, syscall_dispatcher, PanicReport, PanicHalt, Iret, timer
    <2>2. edge' = edge
      <3>1. CASE TickEOI
        <4>1. pic'[1] = Command(pic[1], PIC_EOI) BY <1>1, <3>1 DEF TickEOI, PIC_sendEOI
        <4> QED BY <1>1, <4>1, EOI
      <3> QED BY <1>10, <3>1 DEF syscall_dispatcher, PanicReport, PanicHalt, Iret, devices
    <2>3. entered_ <= entered
      <3>1. CASE PanicHalt
        BY <1>3, <3>1 DEF PanicHalt, InHandler
      <3>2. CASE TickEOI \/ syscall_dispatcher \/ PanicReport
        <4>1. PICK s \in {"iret", "stop"} : ctx # <<>> /\ Goto(s)
          BY <3>2 DEF TickEOI, syscall_dispatcher, PanicReport, InHandler
        <4>2. ctx'[Len(ctx)] = [current EXCEPT !.step = s] /\ Len(ctx') = Len(ctx)
          BY <1>1, <4>1, Replaced
        <4>3. current \in Context BY <1>1, <4>1, Top
        <4>4. current'.step = s BY <4>2, <4>3 DEF current, Context
        <4>5. entered_ = 0 BY <4>4 DEF InHandler
        <4> QED BY <1>3, <4>5
      <3>3. CASE Iret
        <4>1. ctx # <<>> /\ ctx' = SubSeq(ctx, 1, Len(ctx) - 1) BY <3>3 DEF Iret
        <4>2. /\ Len(ctx') = Len(ctx) - 1
              /\ Len(ctx) = 1 => ctx' = <<>>
              /\ \A k \in 1 .. Len(ctx) - 1 : ctx'[k] = ctx[k]
          BY <1>1, <4>1, Popped
        <4>3. Len(ctx) \in 1 .. 2 BY <4>1, Depth DEF IInv
        <4>4. CASE Len(ctx) = 1
          <5>1. ctx' = <<>> BY <4>2, <4>4
          <5>2. entered_ = 0 BY <5>1 DEF InHandler
          <5> QED BY <1>3, <5>2
        <4>5. CASE Len(ctx) = 2
          <5>1. current' = ctx[1] BY <4>2, <4>5 DEF current
          <5>2. current = ctx[2] /\ current.step = "iret" BY <3>3, <4>5 DEF Iret, current
          <5>3. ctx[1].isr = "panic"
            BY <4>5, <5>2 DEF IInv, StackInv, Proper
          <5>4. entered_ = 0 BY <5>1, <5>3 DEF InHandler
          <5> QED BY <1>3, <5>4
        <4> QED BY <4>3, <4>4, <4>5
      <3> QED BY <1>10, <3>1, <3>2, <3>3
    <2> QED BY <1>3, <1>5, <2>1, <2>2, <2>3
  <1>11. ASSUME NEW v \in Faults, Fault(v) PROVE SleepInv'
    <2>1. /\ ip' = ip /\ ticks' = ticks /\ eticks' = eticks /\ sleeping' = sleeping
          /\ periods' = periods /\ pic' = pic
      BY <1>11 DEF Fault, timer, devices
    <2>2. [isr |-> "panic", step |-> "enter", saved |-> iflag] \in Context
      BY <1>1 DEF Context, TypeOK
    <2>3. ctx'[Len(ctx')] = [isr |-> "panic", step |-> "enter", saved |-> iflag]
      BY <1>1, <1>11, <2>2, Faulted, Pushed
    <2>4. current'.isr = "panic" BY <2>3 DEF current
    <2>5. entered_ = 0 /\ edge' = edge BY <2>1, <2>4 DEF InHandler
    <2> QED BY <1>3, <1>5, <2>1, <2>5
  <1>12. CASE TimerPeriod
    <2>1. /\ ip' = ip /\ ticks' = ticks /\ eticks' = eticks /\ sleeping' = sleeping
          /\ sleeping => periods' = IF periods < Arg THEN periods + 1 ELSE periods
          /\ UNCHANGED <<ctx, halted>>
      BY <1>12 DEF TimerPeriod
    <2>2. Arg' = Arg /\ entered_ = entered BY <2>1 DEF Arg, InHandler, current
    <2>3. Pending \in Int /\ Pending' \in Int /\ Pending' <= Pending + 1 BY <1>2, <1>3, <2>2
    <2> HIDE DEF edge, entered, entered_
    <2>4. sleeping => \/ periods >= Arg /\ periods' = periods
                      \/ ~(periods >= Arg) /\ periods' = periods + 1
      BY <1>1, <1>4, <2>1
    <2>5. sleeping /\ ~(periods >= Arg) => ticks + Arg + Pending' <= eticks + (periods + 1) + 1
      BY <1>1, <1>4, <2>3 DEF SleepInv
    <2> QED BY <1>1, <2>1, <2>2, <2>4, <2>5 DEF SleepInv
  <1>13. CASE KeyPress
    <2>1. /\ ip' = ip /\ ticks' = ticks /\ eticks' = eticks /\ sleeping' = sleeping
          /\ periods' = periods /\ UNCHANGED <<ctx, halted>>
      BY <1>13 DEF KeyPress, timer
    <2>2. edge' = edge BY <1>1, <1>13 DEF KeyPress, Raise, Chip
    <2>3. entered_ = entered BY <2>1 DEF InHandler, current
    <2> QED BY <1>3, <1>5, <2>1, <2>2, <2>3
  <1>14. CASE Idle \/ UNCHANGED vars
    <2>1. UNCHANGED vars BY <1>14 DEF Idle
    <2>2. edge' = edge /\ entered_ = entered BY <2>1 DEF vars, InHandler, current
    <2> QED BY <1>3, <1>5, <2>1, <2>2 DEF vars
  <1>15. CASE Main_Step /\ ip' = ip /\ ~SleepBegin
    <2>1. PortCall \/ In \/ acpi_init
      BY <1>1, <1>15 DEF Main_Step, Cli, Sti, set_idt_vec, idt_install, Out, InResult,
         Compute, SleepEnd, context_switch, Syscall, Advance
    <2>2. /\ ticks' = ticks /\ eticks' = eticks /\ sleeping' = sleeping
          /\ periods' = periods /\ ctx = <<>> /\ ctx' = <<>> /\ pic' = pic
      BY <2>1 DEF PortCall, In, acpi_init, At, Running, timer, devices
    <2>3. edge' = edge /\ entered_ = 0 BY <2>2 DEF InHandler
    <2> QED BY <1>3, <1>5, <1>15, <2>2, <2>3
  <1> HIDE DEF edge, entered, entered_
  <1> QED BY <1>6, <1>7, <1>8, <1>9, <1>10, <1>11, <1>12, <1>13, <1>14, <1>15
       DEF Next, Handler_Step

\* Each variable keeps its type.
LEMMA TypeStep ==
  ASSUME IInv, [Next]_vars
  PROVE  TypeOK'
PROOF
  <1>1. TypeOK /\ FrameInv /\ StackInv BY DEF IInv
  <1>2. (ip \in 1 .. Len(Main) + 1 /\ idtr \in BOOLEAN)'
    <2>1. ip \in 1 .. 44 /\ Len(Main) = 43 BY <1>1, Listing DEF TypeOK
    <2>2. ip' \in 1 .. 44
      <3>1. ip' = ip \/ (ip' = ip + 1 /\ ip \in 1 .. 43) BY <1>1, IpSteps
      <3> QED BY <2>1, <3>1
    <2>3. idtr' \in BOOLEAN
      <3>1. CASE ip' = ip BY <1>1, <3>1, Stays DEF TypeOK
      <3>2. CASE ip' # ip
        <4>1. CASE ip \in {1, 22, 26, 28, 37} \cup {21, 23, 27, 32} \cup {2, 14, 15, 16, 3}
          BY <1>1, <3>2, <4>1, Advances DEF Cli, Sti, set_idt_vec, idt_install, tables, TypeOK
        <4>2. CASE ip \in Naps \cup {20, 41, 42, 43}
          BY <1>1, <3>2, <4>2, Advances DEF SleepEnd, acpi_init, context_switch, Syscall,
             tables, TypeOK
        <4>3. CASE ip \in Writes \cup Inputs \cup {18, 30, 35, 39}
          BY <1>1, <3>2, <4>3, Advances DEF Out, InResult, Compute, tables, TypeOK
        <4>4. ip \in 1 .. 43 BY <1>1, <3>2, Advances
        <4> QED BY <4>1, <4>2, <4>3, <4>4 DEF Writes, Inputs, Naps
      <3> QED BY <3>1, <3>2
    <2> QED BY <2>1, <2>2, <2>3
  <1>3. (iflag \in BOOLEAN /\ shadow \in BOOLEAN /\ halted \in BOOLEAN)'
    <2>1. iflag \in BOOLEAN /\ shadow \in BOOLEAN /\ halted \in BOOLEAN BY <1>1 DEF TypeOK
    <2>2. CASE Main_Step
      <3>1. CASE Cli \/ Sti \/ set_idt_vec \/ idt_install \/ Compute \/ context_switch
        BY <2>1, <3>1 DEF Cli, Sti, set_idt_vec, idt_install, Compute, context_switch, Advance
      <3>2. CASE PortCall \/ Out \/ In \/ InResult
        BY <2>1, <3>2 DEF PortCall, Out, In, InResult, Advance
      <3>3. CASE acpi_init \/ SleepBegin \/ SleepEnd
        BY <2>1, <3>3 DEF acpi_init, SleepBegin, SleepEnd, Advance
      <3>4. CASE Syscall
        <4>1. iflag' = FALSE BY <3>4, Called
        <4> QED BY <2>1, <3>4, <4>1 DEF Syscall, Advance
      <3> QED BY <2>2, <3>1, <3>2, <3>3, <3>4 DEF Main_Step
    <2>3. CASE Iret
      <3>1. ctx # <<>> /\ iflag' = current.saved /\ UNCHANGED <<shadow, halted>>
        BY <2>3 DEF Iret
      <3>2. current \in Context BY <1>1, <3>1, Depth, Top
      <3> QED BY <2>1, <3>1, <3>2 DEF Context
    <2>4. CASE Tick \/ TickEOI \/ syscall_dispatcher \/ PanicReport \/ PanicHalt
      BY <2>1, <2>4 DEF Tick, TickEOI, syscall_dispatcher, PanicReport, PanicHalt, cli_hlt
    <2>5. CASE Interrupt
      <3>1. iflag' = FALSE BY <2>5, Accepted
      <3> QED BY <2>1, <2>5, <3>1 DEF Interrupt
    <2>6. ASSUME NEW v \in Faults, Fault(v) PROVE (iflag \in BOOLEAN /\ shadow \in BOOLEAN /\ halted \in BOOLEAN)'
      <3>1. iflag' = iflag BY <2>6, Faulted
      <3> QED BY <2>1, <2>6, <3>1 DEF Fault
    <2>7. CASE TimerPeriod \/ KeyPress \/ Idle \/ UNCHANGED vars
      BY <2>1, <2>7 DEF TimerPeriod, KeyPress, Idle, vars
    <2> QED BY <2>2, <2>3, <2>4, <2>5, <2>6, <2>7 DEF Next, Handler_Step
  <1>4. (al \in Byte)'
    <2>1. al \in Byte BY <1>1 DEF TypeOK
    <2>2. CASE InResult BY <1>1, <2>2 DEF InResult, TypeOK
    <2>3. CASE Compute
      <3>1. ip \in {18, 30, 35, 39} BY <1>1, <2>3, Opcodes DEF Compute, TypeOK
      <3>2. ip \in {18, 39, 30} => Arg \in Byte BY Arguments DEF Byte
      <3>3. \/ al' = al \cap Arg
            \/ al' = al \cup Arg /\ ip = 30
            \/ al' = Xor(al, Arg) /\ ip \in {18, 39}
        BY <1>1, <2>3, Opcodes DEF Compute, TypeOK
      <3> QED BY <2>1, <3>2, <3>3 DEF Byte, Xor
    <2>4. CASE ~InResult /\ ~Compute
      <3>1. al' = al
        <4>1. CASE Main_Step
          BY <2>4, <4>1 DEF Main_Step, Cli, Sti, set_idt_vec, idt_install, PortCall, Out, In,
             acpi_init, SleepBegin, SleepEnd, context_switch, Syscall
        <4>2. CASE ~Main_Step
          <5>1. ip' = ip
            BY <4>2 DEF Next, Handler_Step, Tick, TickEOI, syscall_dispatcher, Iret,
               PanicReport, PanicHalt, Interrupt, Fault, TimerPeriod, KeyPress, Idle, vars
          <5> QED BY <1>1, <5>1, Stays
        <4> QED BY <4>1, <4>2
      <3> QED BY <2>1, <3>1
    <2> QED BY <2>2, <2>3, <2>4
  <1>5. (frame \in [step : {"none", "in", "result", "out"}, port : 0 .. 255, val : Byte])'
    <2> DEFINE F == [step : {"none", "in", "result", "out"}, port : 0 .. 255, val : Byte]
    <2>1. frame \in F /\ al \in Byte /\ pic \in [{1, 2} -> Chip] /\ spk \in Byte
      BY <1>1 DEF TypeOK
    <2>2. {} \in Byte /\ ByteOf(KernelSS) \in Byte BY DEF Byte, ByteOf
    <2>3. CASE Interrupt
      <3>1. frame' = Overwritten BY <2>3 DEF Interrupt
      <3>5. ASSUME NEW b \in Byte, frame' = [frame EXCEPT !.port = 0, !.val = b]
            PROVE  frame' \in F
        <4>1. frame' = [step |-> frame.step, port |-> 0, val |-> b] BY <2>1, <3>5
        <4>2. frame.step \in {"none", "in", "result", "out"} BY <2>1
        <4>3. 0 \in 0 .. 255 OBVIOUS
        <4> QED BY <4>1, <4>2, <4>3
      <3>2. CASE frame.step = "none" BY <2>1, <3>1, <3>2 DEF Overwritten
      <3>3. CASE frame.step = "out"
        <4>1. frame' = [frame EXCEPT !.port = 0, !.val = ByteOf(KernelSS)]
          BY <3>1, <3>3 DEF Overwritten
        <4> QED BY <2>2, <3>5, <4>1
      <3>4. CASE frame.step \notin {"none", "out"}
        <4>1. frame' = [frame EXCEPT !.port = 0, !.val = {}]
          BY <3>1, <3>4 DEF Overwritten
        <4> QED BY <2>2, <3>5, <4>1
      <3> QED BY <3>2, <3>3, <3>4
    <2>4. CASE PortCall
      <3>1. /\ At("in") => Arg \in 0 .. 255
            /\ At("out") => Arg \in 0 .. 255 /\ Main[ip][3] \in Byte
            /\ At("out_al") => Arg \in 0 .. 255
        <4>1. PIC1_COMMAND \in 0 .. 255 /\ PIC1_DATA \in 0 .. 255 /\ PIC2_COMMAND \in 0 .. 255
              /\ PIC2_DATA \in 0 .. 255 /\ SPEAKER \in 0 .. 255
          BY DEF PIC1_COMMAND, PIC1_DATA, PIC2_COMMAND, PIC2_DATA, SPEAKER
        <4>2. ip \in Inputs => Arg \in 0 .. 255 BY <4>1, Arguments DEF Inputs
        <4>3. ip \in Writes => Arg \in 0 .. 255 BY <4>1, Ports, Arguments DEF Writes
        <4>4. ip \in 4 .. 13 => ip \in Writes /\ Main[ip][3] \in Byte BY Ports DEF Writes
        <4>5. ip \in {19, 31, 36, 40} => ip \in Writes BY DEF Writes
        <4> QED BY <1>1, <4>2, <4>3, <4>4, <4>5, Opcodes DEF TypeOK
      <3> QED BY <2>1, <2>2, <2>4, <3>1 DEF PortCall
    <2>5. CASE In
      <3>1. PICK v \in Reads(frame.port) : frame' = [frame EXCEPT !.step = "result", !.val = v]
        BY <2>5 DEF In
      <3>2. Reads(frame.port) \subseteq Byte
        <4>1. pic[1].imr \in Byte BY <2>1 DEF Chip
        <4> QED BY <2>1, <4>1, SpeakerAssumption DEF Reads
      <3> QED BY <2>1, <3>1, <3>2
    <2>6. CASE Out \/ InResult
      BY <2>2, <2>6 DEF Out, InResult, NoFrame
    <2>7. CASE ~Interrupt /\ ~PortCall /\ ~In /\ ~Out /\ ~InResult
      <3>1. frame' = frame BY <2>7, FrameSteps
      <3> QED BY <2>1, <3>1
    <2> QED BY <2>3, <2>4, <2>5, <2>6, <2>7
  <1>6. (spk \in Byte)'
    <2>1. spk \in Byte /\ frame.val \in Byte BY <1>1 DEF TypeOK
    <2>2. CASE Out BY <2>1, <2>2 DEF Out, Write
    <2> QED BY <2>1, <2>2, DeviceSteps
  <1>7. (pic \in [{1, 2} -> Chip])'
    <2>1. pic \in [{1, 2} -> Chip] /\ pic[1] \in Chip /\ pic[2] \in Chip /\ frame.val \in Byte
      BY <1>1 DEF TypeOK
    <2>2. CASE Out
      <3>1. /\ Command(pic[1], frame.val) \in Chip /\ Command(pic[2], frame.val) \in Chip
            /\ Data(pic[1], frame.val) \in Chip /\ Data(pic[2], frame.val) \in Chip
        BY <2>1, Chips
      <3>2. Write(frame.port, frame.val) BY <2>2 DEF Out
      <3> QED BY <2>1, <3>1, <3>2 DEF Write
    <2>3. CASE TickEOI
      <3>1. pic' = [pic EXCEPT ![1] = Command(@, PIC_EOI), ![2] = @]
        BY <2>3 DEF TickEOI, PIC_sendEOI
      <3> QED BY <2>1, <3>1, EOI
    <2>4. CASE Interrupt
      <3>1. pic' = [pic EXCEPT ![1] = Acknowledge(@, 0)] BY <2>4, Accepted
      <3> QED BY <2>1, <3>1, Chips
    <2>5. CASE TimerPeriod \/ KeyPress
      <3>1. Raise(pic[1], 0) \in Chip /\ Raise(pic[1], 1) \in Chip BY <2>1, Chips
      <3> QED BY <2>1, <2>5, <3>1 DEF TimerPeriod, KeyPress
    <2> QED BY <2>1, <2>2, <2>3, <2>4, <2>5, DeviceSteps
  <1>8. (torn \subseteq 1 .. Len(Main))'
    <2>1. FrameInv' BY FrameStep
    <2> QED BY <2>1, Listing DEF FrameInv, Exposed
  <1>9. (\A k \in 1 .. Len(ctx) : ctx[k] \in Context)'
    <2>1. StackInv' BY StackStep
    <2>2. ctx' \in Seq(Context) BY <2>1 DEF StackInv
    <2> QED BY <2>2, ElementOfSeq
  <1>10. (DOMAIN idt \subseteq 0 .. 255)'
    <2>1. TableInv' BY TableStep DEF IInv
    <2> QED BY <2>1 DEF TableInv, Exceptions
  <1>11. (sleeping \in BOOLEAN /\ ticks \in Nat /\ eticks \in Nat /\ periods \in Nat
          /\ idle \in 0 .. MaxIdle)'
    <2>1. sleeping \in BOOLEAN /\ ticks \in Nat /\ eticks \in Nat /\ periods \in Nat
          /\ idle \in 0 .. MaxIdle
      BY <1>1 DEF TypeOK
    <2>2. CASE SleepBegin
      <3>1. Arg \in Nat BY <1>1, <2>2, Opcodes, Arguments DEF SleepBegin, TypeOK
      <3> QED BY <2>1, <2>2, <3>1 DEF SleepBegin, deadline
    <2>3. CASE SleepEnd BY <2>1, <2>3 DEF SleepEnd
    <2>4. CASE Tick BY <2>1, <2>4 DEF Tick
    <2>5. CASE Interrupt BY <2>1, <2>5 DEF Interrupt, Unglitched
    <2>6. CASE TimerPeriod BY <2>1, <2>6, MaxIdleAssumption DEF TimerPeriod
    <2>7. CASE ~SleepBegin /\ ~SleepEnd /\ ~Tick /\ ~Interrupt /\ ~TimerPeriod
      <3>1. UNCHANGED timer
        <4>1. CASE Main_Step
          <5>1. CASE Cli \/ Sti \/ set_idt_vec \/ idt_install \/ Compute \/ context_switch
            BY <5>1 DEF Cli, Sti, set_idt_vec, idt_install, Compute, context_switch
          <5>2. CASE PortCall \/ Out \/ In \/ InResult \/ acpi_init \/ Syscall
            BY <5>2 DEF PortCall, Out, In, InResult, acpi_init, Syscall
          <5> QED BY <2>7, <4>1, <5>1, <5>2 DEF Main_Step
        <4>2. CASE Handler_Step
          BY <2>7, <4>2 DEF Handler_Step, TickEOI, syscall_dispatcher, Iret, PanicReport, PanicHalt
        <4>3. CASE (\E v \in Faults : Fault(v)) \/ KeyPress \/ Idle \/ UNCHANGED vars
          BY <4>3 DEF Fault, KeyPress, Idle, vars, timer
        <4> QED BY <2>7, <4>1, <4>2, <4>3 DEF Next
      <3> QED BY <2>1, <3>1 DEF timer
    <2> QED BY <2>2, <2>3, <2>4, <2>5, <2>6, <2>7
  <1> QED BY <1>2, <1>3, <1>4, <1>5, <1>6, <1>7, <1>8, <1>9, <1>10, <1>11
       DEF TypeOK, Context

-----------------------------------------------------------------------------
(* The invariant, and what follows from it.                                *)

\* The kernel starts with nothing installed and nothing in progress.
LEMMA Initially == Init => IInv
PROOF
  <1> SUFFICES ASSUME Init PROVE IInv OBVIOUS
  <1>1. ip = 1 /\ Len(Main) = 43 BY Listing DEF Init
  <1>2. {} \in Byte /\ 0 .. 7 \in Byte /\ ByteOf(8) \in Byte BY DEF Byte, ByteOf
  <1>3. /\ pic \in [{1, 2} -> Chip] /\ pic[1].irr = {} /\ pic[1].isr = {} /\ pic[1].icw = 0
    <2>1. PICK m \in {{}, 0 .. 7} :
            pic = [c \in {1, 2} |->
                     [icw |-> 0, base |-> ByteOf(8), imr |-> m, irr |-> {}, isr |-> {}]]
      BY DEF Init
    <2>2. [icw |-> 0, base |-> ByteOf(8), imr |-> m, irr |-> {}, isr |-> {}] \in Chip
      BY <1>2, <2>1 DEF Chip
    <2> QED BY <2>1, <2>2
  <1>4. ctx = <<>> /\ ctx \in Seq(Context) /\ Len(ctx) = 0
    <2>1. ctx = <<>> BY DEF Init
    <2> QED BY <2>1, EmptySeq
  <1>5. TypeOK
    <2>1. NoFrame \in [step : {"none", "in", "result", "out"}, port : 0 .. 255, val : Byte]
      BY <1>2 DEF NoFrame
    <2>2. spk \in Byte BY SpeakerAssumption DEF Init
    <2>3. DOMAIN idt \subseteq 0 .. 255 BY DEF Init
    <2>4. idle \in 0 .. MaxIdle BY MaxIdleAssumption DEF Init
    <2>5. ip \in 1 .. Len(Main) + 1 BY <1>1
    <2>6. iflag \in BOOLEAN /\ shadow \in BOOLEAN /\ halted \in BOOLEAN BY DEF Init
    <2>7. al \in Byte /\ frame = NoFrame /\ torn \subseteq 1 .. Len(Main) BY <1>2 DEF Init
    <2>8. \A k \in 1 .. Len(ctx) :
            ctx[k] \in [isr : {"panic", "irq0_handler", "irq1_handler", "syscall_gate"},
                       step : {"enter", "eoi", "iret", "stop"}, saved : BOOLEAN]
      BY <1>4
    <2>9. idtr \in BOOLEAN /\ sleeping \in BOOLEAN BY DEF Init
    <2>10. ticks \in Nat /\ eticks \in Nat /\ periods \in Nat BY DEF Init
    <2> QED BY <1>3, <2>1, <2>2, <2>3, <2>4, <2>5, <2>6, <2>7, <2>8, <2>9, <2>10 DEF TypeOK
  <1>6. InServiceMatchesHandlers BY <1>3, <1>4 DEF InServiceMatchesHandlers
  <1>7. FlagInv /\ StackInv BY <1>1, <1>4 DEF FlagInv, StackInv
  <1>8. TableInv
    <2>1. DOMAIN idt = {} BY DEF Init
    <2> QED BY <1>1, <2>1 DEF Init, TableInv
  <1>9. PicInv BY <1>1, <1>3 DEF PicInv
  <1>10. FrameInv BY DEF Init, FrameInv, NoFrame
  <1>11. PortInv BY <1>1 DEF PortInv
  <1>12. SleepInv BY <1>1 DEF Init, SleepInv
  <1> QED BY <1>5, <1>6, <1>7, <1>8, <1>9, <1>10, <1>11, <1>12 DEF IInv

\* The parts of the invariant, together, are kept.
LEMMA Inductive == IInv /\ [Next]_vars => IInv'
PROOF
  <1> SUFFICES ASSUME IInv, [Next]_vars PROVE IInv' OBVIOUS
  <1>1. TypeOK' /\ InServiceMatchesHandlers' BY TypeStep, ServiceStep
  <1>2. FlagInv' /\ StackInv' /\ TableInv' BY FlagStep, StackStep, TableStep DEF IInv
  <1>3. PicInv' /\ FrameInv' BY PicStep, FrameStep DEF IInv
  <1>4. PortInv' /\ SleepInv' BY PortStep, SleepStep DEF IInv
  <1> QED BY <1>1, <1>2, <1>3, <1>4 DEF IInv

\* The parts of IInv hold in every state of the boot.
THEOREM Invariant == Spec => []IInv
PROOF
  BY Initially, Inductive, PTL DEF Spec

\* The boot thread, its handlers and its devices keep their types.
THEOREM TypeCorrect == Spec => []TypeOK
PROOF
  <1>1. IInv => TypeOK BY DEF IInv
  <1> QED BY <1>1, Invariant, PTL

\* The order of init_pic, of the gates, of the masks and of STI in _start leaves
\* no moment at which the CPU takes an interrupt without a handler for it.
THEOREM HandlersFound == Spec => []InterruptsFindTheirHandler
PROOF
  <1>1. IInv => InterruptsFindTheirHandler
    <2> SUFFICES ASSUME IInv, ip > 1, iflag, ~panicking,
                        NEW l \in (0 .. 7) \ pic[1].imr
                 PROVE  /\ idtr
                        /\ VectorNumber(l) \in DOMAIN idt
                        /\ Cpu!Usable(idt[VectorNumber(l)].attr)
                        /\ l = 0 => idt[VectorNumber(l)].isr = "irq0_handler"
                        /\ l = 1 => idt[VectorNumber(l)].isr = "irq1_handler"
                        /\ l \in {0, 1}
      BY DEF InterruptsFindTheirHandler
    <2>1. ctx = <<>>
      <3>1. ctx \in Seq(Context) /\ Len(ctx) \in 0 .. 2 BY DEF IInv, StackInv
      <3>2. Len(ctx) # 1 BY DEF IInv, StackInv, panicking
      <3>3. Len(ctx) # 2 BY DEF IInv, StackInv
      <3> QED BY <3>1, <3>2, <3>3, EmptySeq
    <2>2. ip \in On BY <2>1 DEF IInv, FlagInv
    <2>3. pic[1].imr = 1 .. 7 /\ pic[1].base = {5} BY <2>2 DEF On, IInv, PicInv
    <2>4. l = 0 /\ VectorNumber(l) = 32 BY <2>3, Vector32
    <2>5. idtr /\ 32 \in DOMAIN idt
          /\ idt[32] = [isr |-> "irq0_handler", attr |-> Cpu!INT_GATE_FLAGS]
      BY <2>2 DEF On, IInv, TableInv
    <2>6. Cpu!Usable(Cpu!INT_GATE_FLAGS) BY DEF Cpu!Usable, Cpu!INT_GATE_FLAGS
    <2> QED BY <2>4, <2>5, <2>6
  <1> QED BY <1>1, Invariant, PTL

\* The interrupt controller and the handlers agree on what is in service:
\* PIC_sendEOI at the end of irq0_handler retires line 0, and nothing else does.
THEOREM ServiceTheorem == Spec => []InServiceMatchesHandlers
PROOF
  <1>1. IInv => InServiceMatchesHandlers BY DEF IInv
  <1> QED BY <1>1, Invariant, PTL

\* irq0_handler is never on the stack twice.
THEOREM NoNesting == Spec => []HandlersDoNotNest
PROOF
  <1>1. IInv => HandlersDoNotNest
    <2> SUFFICES ASSUME IInv PROVE HandlersDoNotNest OBVIOUS
    <2> DEFINE H == {k \in 1 .. Len(ctx) : ctx[k].isr = "irq0_handler"}
    <2>1. Len(ctx) \in 0 .. 2 BY DEF IInv, StackInv
    <2>2. Len(ctx) = 2 => ~(1 \in H /\ 2 \in H) BY DEF IInv, StackInv
    <2>3. H = {} \/ H = {1} \/ H = {2} BY <2>1, <2>2
    <2>4. Cardinality(H) \in {0, 1} BY <2>3, FS_EmptySet, FS_Singleton
    <2> QED BY <2>4 DEF HandlersDoNotNest
  <1> QED BY <1>1, Invariant, PTL

\* context_switch leaves interrupts off for the user program, and the calls of
\* pcspkr_play and pcspkr_shutup before it leave the speaker silent.
THEOREM UserUndisturbed == Spec => []UserSpaceUndisturbed
PROOF
  <1>1. IInv => UserSpaceUndisturbed
    <2> SUFFICES ASSUME IInv, user PROVE ~iflag /\ (torn = {} => spk \cap {0, 1} = {})
      BY DEF UserSpaceUndisturbed
    <2>1. ctx = <<>> /\ ip >= 42 /\ ip \in Nat BY Listing DEF user, IInv, TypeOK
    <2>2. ~iflag BY <2>1 DEF IInv, FlagInv, On
    <2>3. torn = {} => spk \cap {0, 1} = {} BY <2>1 DEF IInv, PortInv
    <2> QED BY <2>2, <2>3
  <1> QED BY <1>1, Invariant, PTL

\* No interrupt overwrites the frame of a port function but in pcspkr_shutup,
\* which _start calls with interrupts on.
THEOREM OnlyShutup == Spec => []OnlyShutupExposed
PROOF
  <1>1. IInv => OnlyShutupExposed
    BY Listing DEF IInv, FrameInv, Exposed, Shutup, OnlyShutupExposed
  <1> QED BY <1>1, Invariant, PTL

\* pit_sleep waits for all but one of the periods it was asked for, whatever
\* was pending when it was called and however the interrupts fall.
THEOREM SleepLength == Spec => SleepsLongEnough
PROOF
  <1>1. IInv /\ [Next]_vars => [sleeping /\ ~sleeping' => periods + 1 >= Arg]_vars
    <2> SUFFICES ASSUME IInv, [Next]_vars, sleeping, ~sleeping'
                 PROVE  periods + 1 >= Arg
      OBVIOUS
    <2>1. /\ ip \in Nat /\ ticks \in Nat /\ eticks \in Nat /\ periods \in Nat /\ ip \in Naps
          /\ TypeOK
      BY Depth DEF IInv, TypeOK, SleepInv
    <2>2. SleepEnd
      <3>1. CASE Main_Step
        BY <3>1 DEF Main_Step, Cli, Sti, set_idt_vec, idt_install, PortCall, Out, In, InResult,
           Compute, acpi_init, SleepBegin, context_switch, Syscall, timer
      <3>2. CASE Handler_Step
        BY <3>2 DEF Handler_Step, Tick, TickEOI, syscall_dispatcher, Iret, PanicReport,
           PanicHalt, timer
      <3>3. CASE Interrupt BY <3>3 DEF Interrupt
      <3>4. CASE (\E v \in Faults : Fault(v)) \/ TimerPeriod \/ KeyPress \/ Idle \/ UNCHANGED vars
        BY <3>4 DEF Fault, TimerPeriod, KeyPress, Idle, vars, timer
      <3> QED BY <3>1, <3>2, <3>3, <3>4 DEF Next
    <2>3. ticks >= eticks BY <2>2 DEF SleepEnd, expired
    <2>4. Arg \in Nat BY <2>1, Arguments
    <2>5. Pending \in {0, 1, 2} BY DEF Pending
    <2>6. periods >= Arg \/ ticks + Arg + Pending <= eticks + periods + 1
      BY DEF IInv, SleepInv
    <2> QED BY <2>1, <2>3, <2>4, <2>5, <2>6
  <1> QED BY <1>1, Invariant, PTL DEF Spec, SleepsLongEnough

\* While no interrupt has hit a port function, the speaker's port is changed by
\* the write of pcspkr_play, which sets its two bits, and by that of
\* pcspkr_shutup, which clears them; both keep the other bits, and neither call
\* is left without its write.
THEOREM SpeakerTheorem == Spec => SpeakerOnlyWhilePlaying
PROOF
  <1> DEFINE A == torn = {} =>
                    /\ spk' # spk => \/ InPlay /\ spk' = spk \cup {0, 1}
                                     \/ InShutup /\ spk' = spk \ {0, 1}
                    /\ InPlay /\ ~InPlay' => {0, 1} \subseteq spk'
                    /\ InShutup /\ ~InShutup' => spk' \cap {0, 1} = {}
  <1>1. IInv /\ [Next]_vars => [A]_vars
    <2> SUFFICES ASSUME IInv, [Next]_vars, torn = {} PROVE A
      OBVIOUS
    <2>1. TypeOK /\ FrameInv /\ PortInv /\ PortInv'
      BY PortStep DEF IInv
    <2>2. /\ InPlay <=> ip \in 28 .. 32
          /\ InPlay' <=> ip' \in 28 .. 32
          /\ InShutup <=> ip \in 34 .. 36
          /\ InShutup' <=> ip' \in 34 .. 36
      BY Listing DEF InPlay, InShutup, Shutup
    <2>3. ip' = ip \/ (ip' = ip + 1 /\ ip \in 1 .. 43) BY <2>1, Advances
    <2>4. spk' # spk => \/ InPlay /\ spk' = spk \cup {0, 1}
                        \/ InShutup /\ spk' = spk \ {0, 1}
      <3> SUFFICES ASSUME spk' # spk
                   PROVE  \/ ip = 31 /\ spk' = spk \cup {0, 1}
                          \/ ip = 36 /\ spk' = spk \ {0, 1}
        BY <2>2
      <3>1. Out BY DeviceSteps
      <3>2. Write(frame.port, frame.val) BY <3>1 DEF Out
      <3>3. frame.port = SPEAKER /\ spk' = frame.val BY <3>2 DEF Write
      <3>4. ip \in Writes /\ frame.port = Arg
            /\ frame.val = IF Main[ip][1] = "out" THEN Main[ip][3] ELSE al
        BY <2>1, <3>1, Written
      <3>5. ip \in {31, 36}
        <4>1. SPEAKER \notin {PIC1_COMMAND, PIC1_DATA, PIC2_COMMAND, PIC2_DATA}
          BY DEF SPEAKER, PIC1_COMMAND, PIC1_DATA, PIC2_COMMAND, PIC2_DATA
        <4>2. ip \notin 4 .. 13 /\ ip \notin {19, 40} BY <3>3, <3>4, <4>1, Ports, Arguments
        <4> QED BY <3>4, <4>2 DEF Writes
      <3>6. spk' = al BY <3>3, <3>4, <3>5, Ports
      <3> QED BY <2>1, <3>5, <3>6 DEF PortInv
    <2>5. InPlay /\ ~InPlay' => {0, 1} \subseteq spk'
      <3>1. InPlay /\ ~InPlay' => ip' = 33 BY <2>2, <2>3
      <3> QED BY <2>1, <3>1 DEF PortInv
    <2>6. InShutup /\ ~InShutup' => spk' \cap {0, 1} = {}
      <3>1. InShutup /\ ~InShutup' => ip = 36 /\ ip' = 37 BY <2>2, <2>3
      <3>2. ip = 36 /\ ip' = 37 => torn' = {}
        <4> SUFFICES ASSUME ip = 36, ip' = 37 PROVE torn' = {} OBVIOUS
        <4>1. Out BY <2>1, Advances DEF Writes
        <4> QED BY <4>1 DEF Out
      <3> QED BY <2>1, <3>1, <3>2 DEF PortInv
    <2> QED BY <2>4, <2>5, <2>6
  <1> QED BY <1>1, Invariant, PTL DEF Spec, SpeakerOnlyWhilePlaying
=============================================================================
