----------------------------- MODULE Threads ------------------------------
(***************************************************************************)
(* The threads of kernel/src/proc/impl/thread.c, which irq0_handler starts *)
(* one per timer tick, inside the interrupt, and the keyboard's interrupt  *)
(* beside it.  The kernel itself makes no thread and leaves for user space *)
(* with interrupts off (Kernel models it as it is), so the callers of      *)
(* thread.h and Keyboard.h, and what a thread does, are an environment:    *)
(* a boot thread with interrupts on or off, and threads that return or     *)
(* never do, with interrupts off or on.                                    *)
(*                                                                         *)
(* The kernel is compiled with a red zone: a function that calls no other  *)
(* keeps its arguments below the stack pointer, where the CPU pushes SS,   *)
(* RSP, RFLAGS, CS and RIP when it takes an interrupt.                     *)
(***************************************************************************)
EXTENDS Pic, Keyboard, Integers, Sequences, FiniteSets

CONSTANTS
  MAX_THREADS,  \* length of threads (3 in the code)
  Addr,         \* entry points of threads
  Endless,      \* the entry points whose function never returns
  Keys          \* scan codes that the keyboard may send

ASSUME MaxThreadsAssumption == MAX_THREADS \in Nat /\ MAX_THREADS >= 1
ASSUME EndlessAssumption == Endless \subseteq Addr /\ Addr \subseteq Nat /\ 0 \notin Addr
ASSUME KeysAssumption == Keys \subseteq ScanCode

Slot == 0 .. MAX_THREADS - 1

\* An activation of a handler: for which line, where it is, the entry point of
\* the thread it has called, and the IF it will restore.
Activation ==
  [line : {0, 1}, step : {"schedule", "thread", "scancode", "char", "eoi", "iret"},
   addr : Addr \cup {0}, saved : BOOLEAN]

VARIABLES
  threads,   \* entry points by slot, 0: none
  ctid,      \* the slot to start next
  nthreads,  \* the slot mkthread fills next
  call,      \* the boot thread's call of mkthread or unlist_thread
  iflag,     \* IF, the interrupt flag
  pic,       \* the master interrupt controller
  irq,       \* activations of interrupt handlers, the innermost one last
  kbd,       \* the keyboard driver
  created,   \* history: the arguments of mkthread by the slot that the call got,
             \* up to the first slot that two calls got
  started,   \* history: the entry points called, in order
  dropped,   \* history: slots that unlist_thread was to clear before their start
  torn,      \* history: an interrupt replaced the argument of unlist_thread
  raced      \* history: two calls of mkthread got the same slot

vars == <<threads, ctid, nthreads, call, iflag, pic, irq, kbd, created, started,
          dropped, torn, raced>>

history  == <<created, started, dropped, torn, raced>>
slots    == <<threads, ctid, nthreads>>
machine  == <<iflag, pic, irq>>

current == irq[Len(irq)]
Goto(s) == irq' = [irq EXCEPT ![Len(irq)].step = s]

\* The boot thread has the CPU; a thread has it; a handler is at step s.
InBoot       == irq = <<>>
InThread     == irq # <<>> /\ current.step = "thread"
InHandler(s) == irq # <<>> /\ current.step = s

NoCall == [fn |-> "none", arg |-> 0, slot |-> 0, hit |-> FALSE]

Init ==
  /\ threads = [s \in Slot |-> 0]
  /\ ctid = 0
  /\ nthreads = 0
  /\ call = NoCall
  /\ iflag = FALSE
  /\ pic = [icw |-> 0, base |-> ByteOf(32), imr |-> (0 .. 7) \ {0, 1}, irr |-> {},
            isr |-> {}]
  /\ irq = <<>>
  /\ kbd = DriverInit
  /\ created = <<>>
  /\ started = <<>>
  /\ dropped = {}
  /\ torn = FALSE
  /\ raced = FALSE

-----------------------------------------------------------------------------
(* threads[nthreads++] = exec_addr takes three memory accesses, and an     *)
(* interrupt, whose thread may call mkthread too, may come between any two *)
(* of them.  The callers are assumed to respect the length of the array,   *)
(* which the code does not test.                                           *)

\* Mutant: without UNGLITCH_ARG mkthread calls no other function, and the
\* selector in SS takes the place of exec_addr.
Glitched(a) == IF call.hit THEN 16 ELSE a

\* UNGLITCH_ARG(exec_addr) is a call, so that the frame is allocated.
Unglitched(a) == a

MkthreadRead(a) ==
  /\ InBoot /\ call.fn = "none"
  /\ nthreads < MAX_THREADS
  /\ call' = [fn |-> "count", arg |-> a, slot |-> nthreads, hit |-> FALSE]
  /\ UNCHANGED <<slots, machine, kbd, history>>

\* A call counts: its slot is its own, unless two calls have got the same.
Reserve(a) == created' = IF raced' THEN created ELSE Append(created, a)

\* Mutant: the counter does not advance.
Same(n) == n

\* nthreads++, ctid++.
Post(n) == n + 1

MkthreadCount ==
  /\ InBoot /\ call.fn = "count"
  /\ nthreads' = Post(call.slot)
  /\ call' = [call EXCEPT !.fn = "store"]
  /\ UNCHANGED raced
  /\ Reserve(call.arg)
  /\ UNCHANGED <<threads, ctid, machine, kbd, started, dropped, torn>>

\* Fills a slot; what was unlisted there before is another thread.
Fill(slot, a) ==
  /\ threads' = [threads EXCEPT ![slot] = a]
  /\ dropped' = dropped \ {slot}

MkthreadStore ==
  /\ InBoot /\ call.fn = "store"
  /\ Fill(call.slot, Unglitched(call.arg))
  /\ call' = NoCall
  /\ UNCHANGED <<ctid, nthreads, machine, kbd, created, started, torn, raced>>

\* A thread calls it.  No line can interrupt a thread (OneThreadAtATime), so
\* this is one step; the boot thread's call may have read nthreads before it and
\* write it after it.
mkthread(a) ==
  /\ InThread
  /\ nthreads < MAX_THREADS
  /\ nthreads' = Post(nthreads)
  /\ Fill(nthreads, a)
  /\ raced' = (raced \/ call.fn = "count")
  /\ Reserve(a)
  /\ UNCHANGED <<ctid, call, machine, kbd, started, torn>>

-----------------------------------------------------------------------------
(* unlist_thread calls no other function: tid lies in the red zone, and    *)
(* the upper half of the SS that an interrupt pushes over it is zero.      *)

RedZone(tid) == IF call.hit THEN 0 ELSE tid

\* The argument is in memory; the callers are assumed to pass no negative one,
\* as the code tests tid against its upper end only ...
UnlistCall(tid) ==
  /\ InBoot /\ call.fn = "none"
  /\ call' = [fn |-> "clear", arg |-> 0, slot |-> tid, hit |-> FALSE]
  /\ UNCHANGED <<slots, machine, kbd, history>>

\* Clears slot, when the thread in asked was meant.
Clear(slot, asked) ==
  /\ threads' = IF slot > MAX_THREADS - 1 THEN threads ELSE [threads EXCEPT ![slot] = 0]
  /\ dropped' = dropped \cup {s \in Slot : s = asked /\ s >= ctid /\ threads[s] # 0}

\* ... and is tested and used.
UnlistClear ==
  /\ InBoot /\ call.fn = "clear"
  /\ Clear(RedZone(call.slot), call.slot)
  /\ torn' = (torn \/ RedZone(call.slot) # call.slot)
  /\ call' = NoCall
  /\ UNCHANGED <<ctid, nthreads, machine, kbd, created, started, raced>>

\* A thread calls it.  No line can interrupt a thread (OneThreadAtATime), so
\* this is one step; one that finds the slot empty would change nothing.
unlist_thread(tid) ==
  /\ InThread
  /\ tid \in Slot /\ threads[tid] # 0
  /\ Clear(tid, tid)
  /\ UNCHANGED <<ctid, nthreads, call, machine, kbd, created, started, torn, raced>>

\* The boot thread disables interrupts, for a while.  A thread may enable them,
\* and so does fetch_last_ps2_keystroke (CLI; STI) whoever calls it.
Cli == /\ InBoot /\ iflag
       /\ iflag' = FALSE
       /\ UNCHANGED <<slots, call, pic, irq, kbd, history>>

Sti == /\ InBoot \/ InThread
       /\ ~iflag
       /\ iflag' = TRUE
       /\ UNCHANGED <<slots, call, pic, irq, kbd, history>>

-----------------------------------------------------------------------------
(* The timer, the keyboard and their handlers.                             *)

TimerPeriod ==
  /\ 0 \notin pic.irr
  /\ pic' = Raise(pic, 0)
  /\ UNCHANGED <<slots, call, iflag, irq, kbd, history>>

KeyByte(c) ==
  /\ CanReceive(kbd)
  /\ kbd' = Receive(kbd, c)
  /\ pic' = Raise(pic, 1)
  /\ UNCHANGED <<slots, call, iflag, irq, history>>

\* Mutant: the gate of IRQ 1 is a trap gate.
TrapGateOf1(l) == iflag /\ l = 1

\* Both gates are interrupt gates: IF is clear on the way in.
GateKeepsIF(l) == FALSE

\* The step a handler starts at.
Entry(l) == IF l = 0 THEN "schedule" ELSE "scancode"

\* The CPU takes the line of the highest priority.
Interrupt(l) ==
  /\ iflag /\ l \in Ready(pic)
  /\ \A k \in Ready(pic) : l <= k
  /\ pic' = Acknowledge(pic, l)
  /\ irq' = Append(irq, [line |-> l, step |-> Entry(l), addr |-> 0, saved |-> iflag])
  /\ iflag' = GateKeepsIF(l)
  /\ call' = [call EXCEPT !.hit = call.fn # "none"]
  /\ UNCHANGED <<slots, kbd, history>>

\* Mutant: the last slot is taken for one more.
SlotsLeftOneMore == ctid < MAX_THREADS

SlotsLeft == ctid < MAX_THREADS - 1

\* Mutant: an empty slot is not skipped.
OccupiedAlways(s) == TRUE

Occupied(s) == threads[s] # 0

\* Mutant: the end of interrupt is sent before the thread is called.
PicAtStartEOI == Command(pic, ByteOf(32))

\* The interrupt stays in service while the thread runs.
PicAtStart == pic

\* thread_pit_schedule calls the thread of slot ctid ...
Start ==
  /\ InHandler("schedule")
  /\ SlotsLeft
  /\ Occupied(ctid)
  /\ ctid' = Post(ctid)
  /\ pic' = PicAtStart
  /\ irq' = [irq EXCEPT ![Len(irq)].step = "thread", ![Len(irq)].addr = threads[ctid]]
  /\ started' = Append(started, threads[ctid])
  /\ UNCHANGED <<threads, nthreads, call, iflag, kbd, created, dropped, torn, raced>>

\* ... or returns early.
NoStart ==
  /\ InHandler("schedule")
  /\ ~SlotsLeft \/ ~Occupied(ctid)
  /\ Goto("eoi")
  /\ UNCHANGED <<slots, call, iflag, pic, kbd, history>>

\* The thread's function returns to the scheduler.
Return ==
  /\ InThread
  /\ current.addr \notin Endless
  /\ Goto("eoi")
  /\ UNCHANGED <<slots, call, iflag, pic, kbd, history>>

\* irq1_handler.
KeyScancode ==
  /\ InHandler("scancode")
  /\ kbd' = StoreScancode(kbd)
  /\ Goto("char")
  /\ UNCHANGED <<slots, call, iflag, pic, history>>

KeyChar ==
  /\ InHandler("char")
  /\ kbd' = StoreChar(kbd)
  /\ Goto("eoi")
  /\ UNCHANGED <<slots, call, iflag, pic, history>>

\* Mutants: no end of interrupt; none from irq1_handler.
PicAtEndNone == pic
PicAtEndOf0 == IF current.line = 0 THEN Command(pic, ByteOf(32)) ELSE pic

PicAtEnd == Command(pic, ByteOf(32))

\* PIC_sendEOI, of a line of the master; after the thread has returned.
PIC_sendEOI ==
  /\ InHandler("eoi")
  /\ pic' = PicAtEnd
  /\ Goto("iret")
  /\ UNCHANGED <<slots, call, iflag, kbd, history>>

Iret ==
  /\ InHandler("iret")
  /\ iflag' = current.saved
  /\ irq' = SubSeq(irq, 1, Len(irq) - 1)
  /\ UNCHANGED <<slots, call, pic, kbd, history>>

\* A thread that never returns.
Spin == InThread /\ current.addr \in Endless /\ UNCHANGED vars

Handler == Start \/ NoStart \/ Return \/ KeyScancode \/ KeyChar \/ PIC_sendEOI \/ Iret

Next ==
  \/ \E a \in Addr : MkthreadRead(a) \/ mkthread(a)
  \/ MkthreadCount \/ MkthreadStore
  \/ \E tid \in 0 .. MAX_THREADS : UnlistCall(tid) \/ unlist_thread(tid)
  \/ UnlistClear
  \/ Cli \/ Sti
  \/ TimerPeriod
  \/ \E c \in Keys : KeyByte(c)
  \/ \E l \in {0, 1} : Interrupt(l)
  \/ Handler \/ Spin

Spec == Init /\ [][Next]_vars

\* The timer runs, handlers and threads that can return make progress, the
\* boot thread does not keep interrupts off for ever, and an interrupt that
\* is possible again and again is taken (interrupts may be on only briefly).
Fairness ==
  /\ WF_vars(TimerPeriod)
  /\ WF_vars(Handler)
  /\ WF_vars(InBoot /\ Sti)
  /\ SF_vars(Interrupt(0))
  /\ SF_vars(Interrupt(1))

FairSpec == Spec /\ Fairness

-----------------------------------------------------------------------------
(* Properties.                                                             *)

\* Type invariant; the scheduler's index stays inside the array.
TypeOK ==
  /\ threads \in [Slot -> Addr \cup {0}]
  /\ ctid \in Slot
  /\ nthreads \in 0 .. MAX_THREADS
  /\ call \in [fn : {"none", "count", "store", "clear"}, arg : Addr \cup {0},
               slot : 0 .. MAX_THREADS, hit : BOOLEAN]
  /\ iflag \in BOOLEAN
  /\ pic \in Chip
  /\ irq \in Seq(Activation)
  /\ kbd \in Driver
  /\ created \in Seq(Addr) /\ started \in Seq(Addr)
  /\ dropped \subseteq Slot
  /\ torn \in BOOLEAN /\ raced \in BOOLEAN

\* One handler, and so one thread, at a time: although a thread may enable
\* interrupts, neither the timer nor the keyboard interrupts it, as the end of
\* interrupt is sent only after it has returned.  Handlers nest at most as deep
\* as threads have been started: one that has let interrupts in had a thread.
OneThreadAtATime ==
  /\ \A k \in 1 .. Len(irq) - 1 : irq[k].step = "iret"
  /\ Len(irq) <= ctid + 1

\* Threads start at most once each and in the order in which mkthread counted
\* them, even if the timer interrupts mkthread between its accesses to nthreads
\* and to threads, or on its argument, and its thread calls mkthread too.  The one
\* exception is raced: from a slot on that two calls got, as a thread called
\* mkthread between the read and the write of nthreads, nothing is promised.
StartedInOrder ==
  /\ Len(started) = ctid
  /\ ~raced => ctid <= Len(created)
  /\ \A k \in 1 .. ctid : k <= Len(created) => started[k] = created[k]

\* A thread unlisted before its start never starts, also if it is unlisted by
\* another thread in the middle of an interrupt, unless an interrupt has hit
\* the argument of unlist_thread.
DroppedNeverStarts == torn \/ \A s \in dropped : s >= ctid

\* Every thread up to the first slot that two calls got (raced) has its slot and
\* keeps it: the slot is empty only until the store, if the thread was unlisted,
\* or if it is the first one and an interrupt has hit the argument of
\* unlist_thread.
CreatedKeepTheirSlots ==
  \A s \in 0 .. Len(created) - 1 :
    \/ threads[s] = created[s + 1]
    \/ /\ threads[s] = 0
       /\ \/ call.fn = "store" /\ call.slot = s
          \/ s \in dropped \/ s < ctid \/ (s = 0 /\ torn)

\* Code that may call fetch_last_ps2_keystroke, in the boot thread or in a
\* thread, never finds the scan code of one key with the character of another.
KeystrokeWhole == InBoot \/ InThread => Whole(kbd)

\* A thread that never returns holds the CPU.
Hung == \E k \in 1 .. Len(irq) : irq[k].step = "thread" /\ irq[k].addr \in Endless

\* The thread whose turn it is starts, unless it is unlisted or a thread that
\* never returns holds the CPU: no tick and no end of interrupt is lost.
HeadStarts ==
  \A s \in 0 .. MAX_THREADS - 2 :
    (threads[s] # 0 /\ ctid = s) ~> (ctid > s \/ threads[s] = 0 \/ Hung)

\* A handler takes less time than a period, so that again and again the boot
\* thread has interrupts on and no tick is waiting.
TimerLeavesTime == []<>(InBoot /\ iflag /\ 0 \notin pic.irr)

\* If it does, a byte from the keyboard is read: it waits behind ticks and
\* threads, and no order of the two lines loses it or its end of interrupt.
KeysGetThrough == TimerLeavesTime => (~CanReceive(kbd) ~> CanReceive(kbd))
=============================================================================
