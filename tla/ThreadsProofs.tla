--------------------------- MODULE ThreadsProofs ---------------------------
(***************************************************************************)
(* Proofs about Threads, for any length of the thread table, any entry     *)
(* points and any keys.                                                    *)
(***************************************************************************)
EXTENDS Threads, SequenceTheorems, TLAPS

-----------------------------------------------------------------------------
(* The inductive invariant, in three parts.                                *)

\* A handler is interrupted in its last step only, and only if it had a thread,
\* which has enabled interrupts: before that its line is in service, and holds
\* off the other one if it is line 0, or interrupts are off.
HandlerInv ==
  /\ \A k \in 1 .. Len(irq) : irq[k].saved
  /\ \A k \in 1 .. Len(irq) - 1 : irq[k].step = "iret" /\ irq[k].addr # 0 /\ irq[k].line = 0
  /\ irq = <<>> => pic.isr = {}
  /\ irq # <<>> =>
       /\ current.step = "iret" => pic.isr = {}
       /\ current.step # "iret" => pic.isr = {current.line}
       /\ current.step = "thread" => current.addr # 0
       /\ current.addr # 0 => current.line = 0 /\ Len(irq) <= ctid
       /\ current.addr = 0 => iflag = FALSE /\ Len(irq) <= ctid + 1
       /\ current.step = "schedule" => current.line = 0

\* A line 1 that is raised, or whose handler has not read yet, means a byte in
\* the output buffer.
KeyInv ==
  /\ 1 \in pic.irr => ~CanReceive(kbd)
  /\ InHandler("scancode") => ~CanReceive(kbd) /\ 1 \notin pic.irr
  /\ ~InHandler("char") => Whole(kbd)

\* Until two calls of mkthread get the same slot, nthreads is the number of calls
\* that have counted, the last of which may not have stored yet; from then on all
\* that is stored lies behind what created records.
TableInv ==
  /\ call.fn \in {"count", "store"} => call.arg \in Addr /\ call.slot < MAX_THREADS
  /\ nthreads >= Len(created)
  /\ call.fn = "count" => call.slot >= Len(created)
  /\ call.fn = "count" /\ ~raced => call.slot = nthreads
  /\ call.fn = "store" =>
       IF call.slot < Len(created)
       THEN created[call.slot + 1] = call.arg /\ threads[call.slot] = 0
       ELSE raced
  /\ ~raced => nthreads = Len(created)
  /\ ~raced => \A s \in Slot : s >= Len(created) => threads[s] = 0
  /\ torn \/ \A s \in dropped : threads[s] = 0

-----------------------------------------------------------------------------
(* The interrupt controller and the stack of activations.                  *)

\* The non-specific end of interrupt is 0x20.
LEMMA EOIByte == ByteOf(32) = {5}
PROOF
  <1> DEFINE P(b) == (32 \div 2^b) % 2 = 1
  <1>1. 2^0 = 1 /\ 2^1 = 2 /\ 2^2 = 4 /\ 2^3 = 8 OBVIOUS
  <1>2. 2^4 = 16 /\ 2^5 = 32 /\ 2^6 = 64 /\ 2^7 = 128 OBVIOUS
  <1>3. ~P(0) /\ ~P(1) /\ ~P(2) /\ ~P(3) /\ ~P(4) BY <1>1, <1>2
  <1>4. P(5) /\ ~P(6) /\ ~P(7) BY <1>1, <1>2
  <1>5. ByteOf(32) = {b \in 0 .. 7 : P(b)} BY DEF ByteOf
  <1> HIDE DEF P
  <1>6. \A b \in 0 .. 7 : P(b) <=> b = 5 BY <1>3, <1>4
  <1> QED BY <1>5, <1>6

\* It retires the only line in service.
LEMMA EOIRetires ==
  ASSUME NEW c \in Chip, NEW l \in {0, 1}, c.isr = {l}
  PROVE  /\ Command(c, ByteOf(32)) \in Chip
         /\ Command(c, ByteOf(32)).isr = {}
         /\ Command(c, ByteOf(32)).irr = c.irr
PROOF
  <1>1. First({l}) = l BY DEF First
  <1>2. Command(c, ByteOf(32)) = [c EXCEPT !.isr = {}]
    BY EOIByte, <1>1 DEF Command, Chip
  <1> QED BY <1>2 DEF Chip, Byte

\* The other two operations of the chip that Threads uses.
LEMMA RaiseAcknowledge ==
  ASSUME NEW c \in Chip, NEW l \in {0, 1}
  PROVE  /\ Raise(c, l) \in Chip /\ Raise(c, l).isr = c.isr
         /\ Raise(c, l).irr = c.irr \cup {l}
         /\ Acknowledge(c, l) \in Chip /\ Acknowledge(c, l).isr = c.isr \cup {l}
         /\ Acknowledge(c, l).irr = c.irr \ {l}
PROOF
  <1>1. l \in 0 .. 7 OBVIOUS
  <1>2. c.irr \in Byte /\ c.isr \in Byte BY DEF Chip
  <1>3. c.irr \cup {l} \in Byte /\ c.irr \ {l} \in Byte /\ c.isr \cup {l} \in Byte
    BY <1>1, <1>2 DEF Byte
  <1> QED BY <1>3 DEF Raise, Acknowledge, Chip

\* What the three updates of the stack do to its elements.
LEMMA Top ==
  ASSUME irq \in Seq(Activation), irq # <<>>
  PROVE  Len(irq) \in 1 .. Len(irq) /\ Len(irq) \in Nat /\ current \in Activation
PROOF
  <1>1. Len(irq) \in Nat \ {0} BY EmptySeq
  <1>2. Len(irq) \in 1 .. Len(irq) BY <1>1
  <1> QED BY <1>1, <1>2, ElementOfSeq DEF current

LEMMA Replaced ==
  ASSUME irq \in Seq(Activation), irq # <<>>, NEW a \in Activation,
         irq' = [irq EXCEPT ![Len(irq)] = a]
  PROVE  /\ irq' \in Seq(Activation) /\ Len(irq') = Len(irq) /\ irq' # <<>>
         /\ current' = a
         /\ \A k \in 1 .. Len(irq) - 1 : irq'[k] = irq[k]
PROOF
  <1>1. Len(irq) \in 1 .. Len(irq) /\ Len(irq) \in Nat BY Top
  <1>2. irq' \in Seq(Activation) /\ Len(irq') = Len(irq) BY <1>1, ExceptSeq
  <1>3. irq' # <<>> BY <1>1, <1>2, EmptySeq
  <1>4. \A k \in 1 .. Len(irq) : irq'[k] = IF k = Len(irq) THEN a ELSE irq[k]
    BY <1>1, ExceptSeq
  <1>5. current' = a BY <1>1, <1>2, <1>4 DEF current
  <1>6. \A k \in 1 .. Len(irq) - 1 : k \in 1 .. Len(irq) /\ k # Len(irq) BY <1>1
  <1> QED BY <1>2, <1>3, <1>4, <1>5, <1>6

LEMMA Pushed ==
  ASSUME irq \in Seq(Activation), NEW a \in Activation, irq' = Append(irq, a)
  PROVE  /\ irq' \in Seq(Activation) /\ Len(irq') = Len(irq) + 1 /\ irq' # <<>>
         /\ current' = a
         /\ \A k \in 1 .. Len(irq) : irq'[k] = irq[k]
PROOF
  <1>1. /\ irq' \in Seq(Activation) /\ Len(irq') = Len(irq) + 1
        /\ irq'[Len(irq) + 1] = a
        /\ \A k \in 1 .. Len(irq) : irq'[k] = irq[k]
        /\ irq' # <<>>
    BY AppendProperties
  <1> QED BY <1>1 DEF current

LEMMA Popped ==
  ASSUME irq \in Seq(Activation), irq # <<>>,
         irq' = SubSeq(irq, 1, Len(irq) - 1)
  PROVE  /\ irq' \in Seq(Activation) /\ Len(irq') = Len(irq) - 1
         /\ irq' # <<>> => Len(irq) - 1 \in 1 .. Len(irq) - 1
                           /\ current' = irq[Len(irq) - 1]
         /\ \A k \in 1 .. Len(irq) - 1 : irq'[k] = irq[k]
PROOF
  <1> DEFINE n == Len(irq) - 1
  <1>1. n \in Nat /\ n + 1 = Len(irq) BY Top
  <1>2. \A k \in 1 .. n : irq[k] \in Activation
    BY <1>1, ElementOfSeq
  <1>3. /\ irq' \in Seq(Activation)
        /\ Len(irq') = IF 1 <= n THEN n - 1 + 1 ELSE 0
        /\ \A k \in 1 .. n - 1 + 1 : irq'[k] = irq[1 + k - 1]
    BY <1>1, <1>2, SubSeqProperties
  <1>4. Len(irq') = n BY <1>1, <1>3
  <1>5. \A k \in 1 .. n : irq'[k] = irq[k] BY <1>1, <1>3
  <1>6. irq' # <<>> => n \in 1 .. n /\ current' = irq[n]
    BY <1>1, <1>3, <1>4, <1>5, EmptySeq DEF current
  <1> QED BY <1>3, <1>4, <1>5, <1>6

-----------------------------------------------------------------------------
(* The handlers.                                                           *)

\* The invariants of this part, which read nothing of the thread table but its
\* index.
MachineInv ==
  /\ irq \in Seq(Activation) /\ pic \in Chip /\ kbd \in Driver
  /\ iflag \in BOOLEAN /\ ctid \in Nat
  /\ HandlerInv /\ KeyInv

\* A step of a handler that stays on top of the stack, changes neither its
\* line nor its saved flag, and starts no thread.
LEMMA GotoStep ==
  ASSUME MachineInv, irq # <<>>, NEW s, Goto(s), ctid' = ctid, iflag' = iflag,
         s \in {"char", "eoi", "iret"},
         pic' \in Chip, kbd' \in Driver,
         s # "iret" => pic'.isr = pic.isr /\ current.step # "iret",
         s = "iret" => pic'.isr = {},
         pic'.irr = pic.irr,
         kbd'.out = kbd.out \/ 1 \notin pic.irr,
         s = "char" \/ Whole(kbd')
  PROVE  MachineInv'
PROOF
  <1>1. current \in Activation BY Top DEF MachineInv
  <1> DEFINE a == [current EXCEPT !.step = s]
  <1>2. a \in Activation BY <1>1 DEF Activation
  <1>3. irq' = [irq EXCEPT ![Len(irq)] = a] BY DEF Goto, current
  <1>4. a.step = s /\ a.line = current.line /\ a.addr = current.addr
        /\ a.saved = current.saved
    BY <1>1 DEF Activation
  <1> HIDE DEF a
  <1>5. /\ irq' \in Seq(Activation) /\ Len(irq') = Len(irq) /\ irq' # <<>>
        /\ current' = a
        /\ \A k \in 1 .. Len(irq) - 1 : irq'[k] = irq[k]
    BY <1>2, <1>3, Replaced DEF MachineInv
  <1>6. Len(irq) \in 1 .. Len(irq) /\ Len(irq) \in Nat BY Top DEF MachineInv
  <1>7. HandlerInv'
    <2>1. \A k \in 1 .. Len(irq') : irq'[k].saved
      <3> SUFFICES ASSUME NEW k \in 1 .. Len(irq') PROVE irq'[k].saved
        OBVIOUS
      <3>1. CASE k = Len(irq)
        <4>1. irq'[k] = a BY <1>5, <3>1 DEF current
        <4>2. current.saved BY <1>6 DEF MachineInv, HandlerInv, current
        <4> QED BY <4>1, <4>2, <1>4
      <3>2. CASE k # Len(irq)
        <4>1. k \in 1 .. Len(irq) - 1 /\ k \in 1 .. Len(irq) BY <1>5, <1>6, <3>2
        <4> QED BY <1>5, <4>1 DEF MachineInv, HandlerInv
      <3> QED BY <3>1, <3>2
    <2>2. \A k \in 1 .. Len(irq') - 1 :
            irq'[k].step = "iret" /\ irq'[k].addr # 0 /\ irq'[k].line = 0
      BY <1>5 DEF MachineInv, HandlerInv
    <2>3. /\ current'.step = "iret" => pic'.isr = {}
          /\ current'.step # "iret" => pic'.isr = {current'.line}
          /\ current'.step = "thread" => current'.addr # 0
          /\ current'.step = "schedule" => current'.line = 0
      BY <1>4, <1>5 DEF MachineInv, HandlerInv
    <2>4. /\ current'.addr # 0 => current'.line = 0 /\ Len(irq') <= ctid'
          /\ current'.addr = 0 => iflag' = FALSE /\ Len(irq') <= ctid' + 1
      BY <1>4, <1>5 DEF MachineInv, HandlerInv
    <2> QED BY <1>5, <2>1, <2>2, <2>3, <2>4 DEF HandlerInv
  <1>8. KeyInv'
    BY <1>4, <1>5 DEF MachineInv, KeyInv, InHandler, CanReceive
  <1> QED BY <1>5, <1>7, <1>8 DEF MachineInv

\* A step that leaves the stack alone.
LEMMA SameStack ==
  ASSUME MachineInv, irq' = irq, ctid' = ctid, pic' \in Chip, kbd' \in Driver,
         iflag' \in BOOLEAN, pic'.isr = pic.isr,
         iflag' = iflag \/ iflag' = FALSE \/ InBoot \/ InThread,
         \/ kbd' = kbd /\ (1 \in pic'.irr => 1 \in pic.irr)
         \/ CanReceive(kbd) /\ ~CanReceive(kbd') /\ (Whole(kbd) => Whole(kbd'))
  PROVE  MachineInv'
PROOF
  <1>1. current' = current BY DEF current
  <1>2. HandlerInv'
    <2>1. /\ \A k \in 1 .. Len(irq) : irq'[k].saved
          /\ \A k \in 1 .. Len(irq) - 1 :
               irq'[k].step = "iret" /\ irq'[k].addr # 0 /\ irq'[k].line = 0
          /\ irq' = <<>> => pic'.isr = {}
      BY DEF MachineInv, HandlerInv
    <2>2. ASSUME irq # <<>>
          PROVE  /\ current.step = "iret" => pic'.isr = {}
                 /\ current.step # "iret" => pic'.isr = {current.line}
                 /\ current.step = "thread" => current.addr # 0
                 /\ current.addr # 0 => current.line = 0 /\ Len(irq') <= ctid'
                 /\ current.step = "schedule" => current.line = 0
      BY <2>2 DEF MachineInv, HandlerInv
    <2>3. ASSUME irq # <<>>, current.addr = 0
          PROVE  iflag' = FALSE /\ Len(irq') <= ctid' + 1
      BY <2>3 DEF MachineInv, HandlerInv, InBoot, InThread
    <2> QED BY <1>1, <2>1, <2>2, <2>3 DEF HandlerInv
  <1>3. KeyInv' BY <1>1 DEF MachineInv, KeyInv, InHandler
  <1> QED BY <1>2, <1>3 DEF MachineInv

\* Every step of the system keeps the handlers' invariant.
LEMMA MachineStep ==
  ASSUME TypeOK, MachineInv, [Next]_vars
  PROVE  MachineInv'
PROOF
  <1>0. /\ irq \in Seq(Activation) /\ pic \in Chip /\ kbd \in Driver
        /\ iflag \in BOOLEAN /\ ctid \in Nat /\ HandlerInv /\ KeyInv
    BY DEF MachineInv
  <1>1. CASE irq' = irq /\ ctid' = ctid /\ pic' = pic /\ kbd' = kbd /\ iflag' = iflag
    BY <1>0, <1>1, SameStack
  <1>2. CASE Cli
    BY <1>0, <1>2, SameStack DEF Cli, slots
  <1>3. CASE Sti
    BY <1>0, <1>3, SameStack DEF Sti, slots
  <1>4. CASE TimerPeriod
    <2>1. pic' \in Chip /\ pic'.isr = pic.isr /\ pic'.irr = pic.irr \cup {0}
      BY <1>0, <1>4, RaiseAcknowledge DEF TimerPeriod
    <2> QED BY <1>0, <1>4, <2>1, SameStack DEF TimerPeriod, slots
  <1>5. ASSUME NEW c \in Keys, KeyByte(c) PROVE MachineInv'
    <2>1. pic' \in Chip /\ pic'.isr = pic.isr
      BY <1>0, <1>5, RaiseAcknowledge DEF KeyByte
    <2>2. c \in ScanCode /\ c # NoByte BY KeysAssumption DEF ScanCode, NoByte
    <2>3. /\ kbd' \in Driver /\ kbd'.out = c
          /\ kbd'.ch = kbd.ch /\ kbd'.scancode = kbd.scancode
      BY <1>0, <1>5, <2>2 DEF KeyByte, Receive, Driver
    <2>4. CanReceive(kbd) /\ ~CanReceive(kbd') /\ (Whole(kbd) => Whole(kbd'))
      BY <1>5, <2>2, <2>3 DEF KeyByte, CanReceive, Whole
    <2>5. irq' = irq /\ ctid' = ctid /\ iflag' = iflag BY <1>5 DEF KeyByte, slots
    <2> QED BY <1>0, <2>1, <2>3, <2>4, <2>5, SameStack
  <1>6. ASSUME NEW l \in {0, 1}, Interrupt(l) PROVE MachineInv'
    <2>1. iflag = TRUE /\ l \in pic.irr /\ \A s \in pic.isr : l < s
      BY <1>6 DEF Interrupt, Ready
    <2>2. irq # <<>> => current.step = "iret" /\ current.addr # 0 /\ current.line = 0
      <3> SUFFICES ASSUME irq # <<>>
                   PROVE  current.step = "iret" /\ current.addr # 0 /\ current.line = 0
        OBVIOUS
      <3>1. current \in Activation BY <1>0, Top
      <3>2. current.addr # 0 BY <1>0, <2>1 DEF HandlerInv
      <3>3. current.line = 0 BY <1>0, <3>2 DEF HandlerInv
      <3>4. ASSUME current.step # "iret" PROVE FALSE
        <4>1. 0 \in pic.isr BY <1>0, <3>3, <3>4 DEF HandlerInv
        <4>2. l < 0 BY <2>1, <4>1
        <4> QED BY <4>2
      <3> QED BY <3>2, <3>3, <3>4
    <2>3. pic.isr = {} BY <1>0, <2>2 DEF HandlerInv
    <2>4. pic' \in Chip /\ pic'.isr = {l} /\ pic'.irr = pic.irr \ {l}
      BY <1>0, <1>6, <2>3, RaiseAcknowledge DEF Interrupt
    <2> DEFINE a == [line |-> l, step |-> Entry(l), addr |-> 0, saved |-> iflag]
    <2>5. a \in Activation BY <2>1 DEF Activation, Entry
    <2>6. irq' = Append(irq, a) BY <1>6 DEF Interrupt
    <2>7. /\ a.line = l /\ a.step = Entry(l) /\ a.addr = 0 /\ a.saved = TRUE
      BY <2>1
    <2> HIDE DEF a
    <2>8. /\ irq' \in Seq(Activation) /\ Len(irq') = Len(irq) + 1 /\ irq' # <<>>
          /\ current' = a
          /\ \A k \in 1 .. Len(irq) : irq'[k] = irq[k]
      BY <1>0, <2>5, <2>6, Pushed
    <2>9. Len(irq) \in Nat BY <1>0
    <2>10. irq'[Len(irq) + 1] = a BY <2>8 DEF current
    <2>11. ctid' = ctid /\ iflag' = FALSE /\ kbd' = kbd
      BY <1>6 DEF Interrupt, GateKeepsIF, slots
    <2>12. Len(irq) <= ctid
      <3>1. CASE irq = <<>> BY <1>0, <3>1
      <3>2. CASE irq # <<>> BY <1>0, <2>2, <3>2 DEF HandlerInv
      <3> QED BY <3>1, <3>2
    <2>13. HandlerInv'
      <3>1. \A k \in 1 .. Len(irq') : irq'[k].saved
        <4> SUFFICES ASSUME NEW k \in 1 .. Len(irq') PROVE irq'[k].saved
          OBVIOUS
        <4>1. CASE k \in 1 .. Len(irq) BY <1>0, <2>8, <4>1 DEF HandlerInv
        <4>2. CASE k = Len(irq) + 1 BY <2>7, <2>10, <4>2
        <4> QED BY <2>8, <2>9, <4>1, <4>2
      <3>2. \A k \in 1 .. Len(irq') - 1 :
            irq'[k].step = "iret" /\ irq'[k].addr # 0 /\ irq'[k].line = 0
        <4> SUFFICES ASSUME NEW k \in 1 .. Len(irq)
                     PROVE  irq[k].step = "iret" /\ irq[k].addr # 0 /\ irq[k].line = 0
          BY <2>8, <2>9
        <4>1. CASE k \in 1 .. Len(irq) - 1 BY <1>0, <4>1 DEF HandlerInv
        <4>2. CASE k = Len(irq)
          <5>1. irq # <<>> BY <2>9, <4>2
          <5> QED BY <2>2, <4>2, <5>1 DEF current
        <4> QED BY <2>9, <4>1, <4>2
      <3>3. current'.step # "iret" /\ current'.step # "thread"
            /\ (current'.step = "schedule" => current'.line = 0)
        BY <2>7, <2>8 DEF Entry
      <3>4. current'.addr = 0 /\ iflag' = FALSE /\ Len(irq') <= ctid' + 1
            /\ pic'.isr = {current'.line}
        BY <1>0, <2>4, <2>7, <2>8, <2>9, <2>11, <2>12
      <3> QED BY <2>8, <3>1, <3>2, <3>3, <3>4 DEF HandlerInv
    <2>14. KeyInv'
      <3>1. CASE l = 0
        <4>1. current'.step = "schedule" BY <2>7, <2>8, <3>1 DEF Entry
        <4> QED BY <1>0, <2>2, <2>4, <2>11, <3>1, <4>1 DEF KeyInv, InHandler
      <3>2. CASE l = 1
        <4>1. current'.step = "scancode" BY <2>7, <2>8, <3>2 DEF Entry
        <4> QED BY <1>0, <2>1, <2>2, <2>4, <2>11, <3>2, <4>1 DEF KeyInv, InHandler
      <3> QED BY <3>1, <3>2
    <2> QED BY <1>0, <2>4, <2>8, <2>11, <2>13, <2>14 DEF MachineInv
  <1>7. CASE Start
    <2>1. irq # <<>> /\ current.step = "schedule" /\ current \in Activation
      BY <1>0, <1>7, Top DEF Start, InHandler
    <2>2. threads[ctid] \in Addr /\ threads[ctid] # 0
      BY <1>7 DEF TypeOK, Start, SlotsLeft, Occupied
    <2> DEFINE a == [current EXCEPT !.step = "thread", !.addr = threads[ctid]]
    <2>3. a \in Activation BY <2>1, <2>2 DEF Activation
    <2>4. irq' = [irq EXCEPT ![Len(irq)] = a]
      BY <1>7, <2>1 DEF Start, current, Activation
    <2>5. /\ a.step = "thread" /\ a.addr # 0 /\ a.line = current.line
          /\ a.saved = current.saved
      BY <2>1, <2>2 DEF Activation
    <2> HIDE DEF a
    <2>6. /\ irq' \in Seq(Activation) /\ Len(irq') = Len(irq) /\ irq' # <<>>
          /\ current' = a
          /\ \A k \in 1 .. Len(irq) - 1 : irq'[k] = irq[k]
      BY <1>0, <2>1, <2>3, <2>4, Replaced
    <2>7. Len(irq) \in 1 .. Len(irq) /\ Len(irq) \in Nat BY <1>0, <2>1, Top
    <2>8. ctid' = ctid + 1 /\ pic' = pic /\ kbd' = kbd /\ iflag' = iflag
      BY <1>7 DEF Start, Post, PicAtStart
    <2>9. current.line = 0 /\ pic.isr = {0} /\ Len(irq) <= ctid + 1
      BY <1>0, <2>1, <2>7 DEF HandlerInv
    <2>10. HandlerInv'
      <3>1. \A k \in 1 .. Len(irq') : irq'[k].saved
        <4> SUFFICES ASSUME NEW k \in 1 .. Len(irq') PROVE irq'[k].saved
          OBVIOUS
        <4>1. CASE k = Len(irq)
          <5>1. irq'[k] = a BY <2>6, <4>1 DEF current
          <5>2. current.saved BY <1>0, <2>7 DEF HandlerInv, current
          <5> QED BY <2>5, <5>1, <5>2
        <4>2. CASE k # Len(irq)
          <5>1. k \in 1 .. Len(irq) - 1 /\ k \in 1 .. Len(irq) BY <2>6, <2>7, <4>2
          <5> QED BY <1>0, <2>6, <5>1 DEF HandlerInv
        <4> QED BY <4>1, <4>2
      <3>2. \A k \in 1 .. Len(irq') - 1 :
              irq'[k].step = "iret" /\ irq'[k].addr # 0 /\ irq'[k].line = 0
        BY <1>0, <2>6 DEF HandlerInv
      <3>3. /\ current'.step = "thread" /\ current'.addr # 0 /\ current'.line = 0
            /\ pic'.isr = {current'.line} /\ Len(irq') <= ctid'
        BY <1>0, <2>5, <2>6, <2>7, <2>8, <2>9
      <3> QED BY <2>6, <3>1, <3>2, <3>3 DEF HandlerInv
    <2>11. KeyInv'
      BY <1>0, <2>1, <2>5, <2>6, <2>8 DEF KeyInv, InHandler
    <2> QED BY <1>0, <2>6, <2>8, <2>10, <2>11 DEF MachineInv
  <1>8. CASE NoStart \/ Return
    <2>1. irq # <<>> /\ current.step # "iret" /\ current.step # "char"
      BY <1>8 DEF NoStart, Return, InHandler, InThread
    <2>2. /\ Goto("eoi") /\ ctid' = ctid /\ iflag' = iflag /\ pic' = pic /\ kbd' = kbd
      BY <1>8 DEF NoStart, Return, slots
    <2>3. Whole(kbd') BY <1>0, <2>1, <2>2 DEF KeyInv, InHandler
    <2> QED BY <1>0, <2>1, <2>2, <2>3, GotoStep
  <1>9. CASE KeyScancode
    <2>1. irq # <<>> /\ current.step = "scancode"
      BY <1>9 DEF KeyScancode, InHandler
    <2>2. /\ Goto("char") /\ ctid' = ctid /\ iflag' = iflag /\ pic' = pic
          /\ kbd' = StoreScancode(kbd)
      BY <1>9 DEF KeyScancode, slots
    <2>3. ~CanReceive(kbd) /\ 1 \notin pic.irr BY <1>0, <1>9 DEF KeyInv, KeyScancode
    <2>4. kbd' \in Driver
      BY <1>0, <2>2, <2>3 DEF StoreScancode, Driver, CanReceive
    <2> QED BY <1>0, <2>1, <2>2, <2>3, <2>4, GotoStep
  <1>10. CASE KeyChar
    <2>1. irq # <<>> /\ current.step = "char"
      BY <1>10 DEF KeyChar, InHandler
    <2>2. /\ Goto("eoi") /\ ctid' = ctid /\ iflag' = iflag /\ pic' = pic
          /\ kbd' = StoreChar(kbd)
      BY <1>10 DEF KeyChar, slots
    <2>3. SC_ASCII(kbd.scancode) \in 0 .. Beyond
      <3>1. kbd.scancode \in 0 .. 255 BY <1>0 DEF Driver, ScanCode
      <3> QED BY <3>1 DEF SC_ASCII, Beyond, SC_LENGTH
    <2>4. /\ kbd' \in Driver /\ kbd'.out = kbd.out /\ kbd'.scancode = kbd.scancode
          /\ kbd'.ch = SC_ASCII(kbd.scancode)
      BY <1>0, <2>2, <2>3 DEF StoreChar, Driver
    <2>5. Whole(kbd') BY <2>4 DEF Whole
    <2> QED BY <1>0, <2>1, <2>2, <2>4, <2>5, GotoStep
  <1>11. CASE PIC_sendEOI
    <2>1. irq # <<>> /\ current.step = "eoi" /\ current \in Activation
      BY <1>0, <1>11, Top DEF PIC_sendEOI, InHandler
    <2>2. /\ Goto("iret") /\ ctid' = ctid /\ iflag' = iflag /\ kbd' = kbd
          /\ pic' = Command(pic, ByteOf(32))
      BY <1>11 DEF PIC_sendEOI, PicAtEnd, slots
    <2>3. pic.isr = {current.line} /\ current.line \in {0, 1}
      BY <1>0, <2>1 DEF HandlerInv, Activation
    <2>4. pic' \in Chip /\ pic'.isr = {} /\ pic'.irr = pic.irr
      BY <1>0, <2>2, <2>3, EOIRetires
    <2>5. Whole(kbd') BY <1>0, <2>1, <2>2 DEF KeyInv, InHandler
    <2> QED BY <1>0, <2>1, <2>2, <2>4, <2>5, GotoStep
  <1>12. CASE Iret
    <2>1. irq # <<>> /\ current.step = "iret"
      BY <1>12 DEF Iret, InHandler
    <2>2. /\ iflag' = current.saved /\ irq' = SubSeq(irq, 1, Len(irq) - 1)
          /\ ctid' = ctid /\ pic' = pic /\ kbd' = kbd
      BY <1>12 DEF Iret, slots
    <2>3. Len(irq) \in 1 .. Len(irq) /\ Len(irq) \in Nat BY <1>0, <2>1, Top
    <2>4. iflag' = TRUE /\ pic'.isr = {} /\ Len(irq) <= ctid + 1
      <3>1. current.saved = TRUE BY <1>0, <2>1, <2>3, Top DEF HandlerInv, current, Activation
      <3>2. Len(irq) <= ctid + 1 BY <1>0, <2>1, <2>3 DEF HandlerInv
      <3> QED BY <1>0, <2>1, <2>2, <3>1, <3>2 DEF HandlerInv
    <2>5. /\ irq' \in Seq(Activation) /\ Len(irq') = Len(irq) - 1
          /\ irq' # <<>> => Len(irq) - 1 \in 1 .. Len(irq) - 1
                            /\ current' = irq[Len(irq) - 1]
          /\ \A k \in 1 .. Len(irq) - 1 : irq'[k] = irq[k]
      BY <1>0, <2>1, <2>2, Popped
    <2>6. irq' # <<>> => current'.step = "iret" /\ current'.addr # 0 /\ current'.line = 0
      BY <1>0, <2>5 DEF HandlerInv
    <2>7. HandlerInv'
      <3>1. \A k \in 1 .. Len(irq') : irq'[k].saved
        BY <1>0, <2>3, <2>5 DEF HandlerInv
      <3>2. \A k \in 1 .. Len(irq') - 1 :
              irq'[k].step = "iret" /\ irq'[k].addr # 0 /\ irq'[k].line = 0
        BY <1>0, <2>3, <2>5 DEF HandlerInv
      <3>3. Len(irq') <= ctid' BY <1>0, <2>2, <2>3, <2>4, <2>5
      <3> QED BY <2>4, <2>6, <3>1, <3>2, <3>3 DEF HandlerInv
    <2>8. KeyInv'
      BY <1>0, <2>1, <2>2, <2>6 DEF KeyInv, InHandler
    <2> QED BY <1>0, <2>2, <2>4, <2>5, <2>7, <2>8 DEF MachineInv
  <1>13. ASSUME NEW a \in Addr, MkthreadRead(a) PROVE MachineInv'
    BY <1>1, <1>13 DEF MkthreadRead, slots, machine
  <1>17. ASSUME NEW a \in Addr, mkthread(a) PROVE MachineInv'
    BY <1>1, <1>17 DEF mkthread, machine
  <1>14. CASE MkthreadCount \/ MkthreadStore \/ UnlistClear
    BY <1>1, <1>14 DEF MkthreadCount, MkthreadStore, UnlistClear, machine
  <1>15. ASSUME NEW tid \in 0 .. MAX_THREADS, UnlistCall(tid) \/ unlist_thread(tid)
         PROVE  MachineInv'
    BY <1>1, <1>15 DEF UnlistCall, unlist_thread, slots, machine
  <1>16. CASE Spin \/ UNCHANGED vars
    BY <1>1, <1>16 DEF Spin, vars
  <1> QED BY <1>2, <1>3, <1>4, <1>5, <1>6, <1>7, <1>8, <1>9, <1>10, <1>11, <1>12,
             <1>13, <1>14, <1>15, <1>16, <1>17 DEF Next, Handler

-----------------------------------------------------------------------------
(* The thread table.                                                       *)

CallType == [fn : {"none", "count", "store", "clear"}, arg : Addr \cup {0},
             slot : 0 .. MAX_THREADS, hit : BOOLEAN]

TableOK ==
  /\ threads \in [Slot -> Addr \cup {0}]
  /\ ctid \in Slot /\ nthreads \in 0 .. MAX_THREADS /\ call \in CallType
  /\ created \in Seq(Addr) /\ started \in Seq(Addr)
  /\ dropped \subseteq Slot /\ torn \in BOOLEAN /\ raced \in BOOLEAN
  /\ TableInv /\ StartedInOrder /\ DroppedNeverStarts /\ CreatedKeepTheirSlots

\* A step that does not touch the table, and at most begins a call.
LEMMA SameTable ==
  ASSUME TableOK, UNCHANGED slots, UNCHANGED history, call' \in CallType,
         \/ /\ call'.fn = call.fn /\ call'.slot = call.slot /\ call'.arg = call.arg
         \/ /\ call.fn = "none" /\ call'.fn = "clear"
         \/ /\ call.fn = "none" /\ call'.fn = "count"
            /\ call'.arg \in Addr /\ call'.slot = nthreads /\ nthreads < MAX_THREADS
  PROVE  TableOK'
PROOF
  <1>1. TableInv' BY DEF TableOK, TableInv, slots, history
  <1>2. StartedInOrder' /\ DroppedNeverStarts' /\ CreatedKeepTheirSlots'
    BY DEF TableOK, StartedInOrder, DroppedNeverStarts, CreatedKeepTheirSlots,
           slots, history
  <1> QED BY <1>1, <1>2 DEF TableOK, slots, history

\* One more thread is counted, and its slot is filled, or is going to be.
LEMMA ReserveTable ==
  ASSUME TableOK, ~raced, NEW a \in Addr, nthreads < MAX_THREADS,
         nthreads' = nthreads + 1, created' = Append(created, a), raced' = FALSE,
         UNCHANGED <<ctid, started, torn>>, call' \in CallType,
         threads' \in [Slot -> Addr \cup {0}],
         dropped' = dropped \/ dropped' = dropped \ {nthreads},
         \A s \in Slot : s # nthreads => threads'[s] = threads[s],
         \/ /\ threads'[nthreads] = a /\ call' = call /\ call.fn # "count"
            /\ nthreads \notin dropped'
         \/ /\ threads'[nthreads] = 0 /\ call'.fn = "store"
            /\ call'.slot = nthreads /\ call'.arg = a /\ call.fn = "count"
  PROVE  TableOK'
PROOF
  <1> DEFINE n == Len(created)
  <1>1. n \in Nat /\ nthreads = n /\ n \in Slot /\ n + 1 \in 0 .. MAX_THREADS
    BY MaxThreadsAssumption DEF TableOK, TableInv, Slot
  <1>2. /\ created' \in Seq(Addr) /\ Len(created') = n + 1 /\ created'[n + 1] = a
        /\ \A k \in 1 .. n : created'[k] = created[k]
    BY AppendProperties DEF TableOK
  <1>3. \A s \in Slot : s >= n => threads[s] = 0 BY <1>1 DEF TableOK, TableInv
  <1>4. call.slot \in 0 .. MAX_THREADS /\ call'.slot \in 0 .. MAX_THREADS
    BY DEF TableOK, CallType
  <1>5. \A s \in 0 .. n - 1 : s \in Slot /\ s # n /\ s + 1 \in 1 .. n
    BY <1>1, MaxThreadsAssumption DEF Slot
  <1>6. TableInv'
    <2>1. \A s \in Slot : s >= n + 1 => threads'[s] = 0 BY <1>1, <1>3 DEF Slot
    <2>2. torn' \/ \A s \in dropped' : threads'[s] = 0
      BY <1>1, <1>3 DEF TableOK, TableInv
    <2>3. /\ call'.fn \in {"count", "store"} => call'.arg \in Addr /\ call'.slot < MAX_THREADS
          /\ call'.fn # "count"
      BY <1>1 DEF TableOK, TableInv
    <2>4. ASSUME call'.fn = "store"
          PROVE  IF call'.slot < n + 1
                 THEN created'[call'.slot + 1] = call'.arg /\ threads'[call'.slot] = 0
                 ELSE raced'
      <3>1. CASE call' = call
        <4>1. call.slot < n /\ created[call.slot + 1] = call.arg /\ threads[call.slot] = 0
          BY <2>4, <3>1 DEF TableOK, TableInv
        <4>2. call.slot \in 0 .. n - 1 BY <1>1, <1>4, <4>1
        <4>3. created'[call.slot + 1] = call.arg /\ threads'[call.slot] = 0
          BY <1>1, <1>2, <1>5, <4>1, <4>2
        <4> QED BY <1>1, <3>1, <4>2, <4>3
      <3>2. CASE call'.slot = nthreads /\ call'.arg = a /\ threads'[nthreads] = 0
        BY <1>1, <1>2, <3>2
      <3> QED BY <2>4, <3>1, <3>2
    <2>5. nthreads' = n + 1 /\ n + 1 >= n + 1 /\ ~raced' BY <1>1
    <2> HIDE DEF n
    <2> QED BY <1>2, <2>1, <2>2, <2>3, <2>4, <2>5 DEF TableInv
  <1>7. StartedInOrder'
    <2>1. ctid <= n /\ Len(started) = ctid /\ ctid \in Nat
      BY DEF TableOK, StartedInOrder, Slot
    <2>2. \A k \in 1 .. ctid : k \in 1 .. n /\ started[k] = created[k]
      BY <1>1, <2>1 DEF TableOK, StartedInOrder
    <2> QED BY <1>1, <1>2, <2>1, <2>2 DEF StartedInOrder
  <1>8. DroppedNeverStarts' BY DEF TableOK, DroppedNeverStarts
  <1>9. CreatedKeepTheirSlots'
    <2> SUFFICES ASSUME NEW s \in 0 .. n
                 PROVE  \/ threads'[s] = created'[s + 1]
                        \/ /\ threads'[s] = 0
                           /\ \/ call'.fn = "store" /\ call'.slot = s
                              \/ s \in dropped' \/ s < ctid \/ (s = 0 /\ torn)
      BY <1>1, <1>2 DEF CreatedKeepTheirSlots
    <2>1. CASE s = n BY <1>1, <1>2, <2>1
    <2>2. CASE s # n
      <3>1. s \in 0 .. n - 1 BY <1>1, <2>2
      <3>2. threads'[s] = threads[s] /\ created'[s + 1] = created[s + 1]
            /\ (s \in dropped => s \in dropped')
        BY <1>1, <1>2, <1>5, <3>1
      <3>3. \/ threads[s] = created[s + 1]
            \/ /\ threads[s] = 0
               /\ \/ call.fn = "store" /\ call.slot = s
                  \/ s \in dropped \/ s < ctid \/ (s = 0 /\ torn)
        BY <3>1 DEF TableOK, CreatedKeepTheirSlots
      <3> QED BY <3>2, <3>3
    <2> QED BY <2>1, <2>2
  <1>10. dropped' \subseteq Slot /\ nthreads' \in 0 .. MAX_THREADS BY <1>1 DEF TableOK
  <1> QED BY <1>2, <1>6, <1>7, <1>8, <1>9, <1>10 DEF TableOK

\* A slot is filled that nothing recorded in created has, or the one that its
\* call has reserved.
LEMMA FillTable ==
  ASSUME TableOK, NEW slot \in Slot, NEW a \in Addr, Fill(slot, a),
         UNCHANGED <<ctid, created, started, torn>>, call' \in CallType,
         raced' \in BOOLEAN, nthreads' \in 0 .. MAX_THREADS,
         \/ call' = call /\ raced' /\ slot >= Len(created) /\ nthreads' >= nthreads
         \/ /\ call.fn = "store" /\ call.slot = slot /\ call.arg = a /\ call'.fn = "none"
            /\ raced' = raced /\ nthreads' = nthreads
  PROVE  TableOK'
PROOF
  <1> DEFINE n == Len(created)
  <1>1. n \in Nat /\ nthreads \in Nat /\ nthreads >= n /\ nthreads' \in Nat /\ slot \in Nat
    BY DEF TableOK, TableInv, Slot
  <1>2. /\ threads' \in [Slot -> Addr \cup {0}] /\ threads'[slot] = a
        /\ \A s \in Slot : s # slot => threads'[s] = threads[s]
        /\ dropped' = dropped \ {slot}
    BY DEF TableOK, Fill
  <1>4. CASE call' = call /\ raced' /\ slot >= n /\ nthreads' >= nthreads
    <2>1. call.fn = "store" /\ call.slot < n => threads'[call.slot] = threads[call.slot]
      <3> SUFFICES ASSUME call.slot < n PROVE threads'[call.slot] = threads[call.slot]
        OBVIOUS
      <3>1. call.slot \in Nat BY DEF TableOK, CallType
      <3>2. call.slot \in Slot /\ call.slot # slot
        BY <1>1, <1>4, <3>1, MaxThreadsAssumption DEF TableOK, Slot
      <3> QED BY <1>2, <3>2
    <2>2. TableInv' BY <1>1, <1>2, <1>4, <2>1 DEF TableOK, TableInv
    <2>3. StartedInOrder' /\ DroppedNeverStarts'
      BY <1>2, <1>4 DEF TableOK, StartedInOrder, DroppedNeverStarts
    <2>4. CreatedKeepTheirSlots'
      <3> SUFFICES ASSUME NEW s \in 0 .. n - 1
                   PROVE  \/ threads'[s] = created[s + 1]
                          \/ /\ threads'[s] = 0
                             /\ \/ call.fn = "store" /\ call.slot = s
                                \/ s \in dropped' \/ s < ctid \/ (s = 0 /\ torn)
        BY <1>4 DEF CreatedKeepTheirSlots
      <3>1. s \in Slot /\ s # slot BY <1>1, <1>4, MaxThreadsAssumption DEF TableOK, Slot
      <3> QED BY <1>2, <3>1 DEF TableOK, CreatedKeepTheirSlots
    <2> QED BY <1>2, <2>2, <2>3, <2>4 DEF TableOK
  <1>5. CASE /\ call.fn = "store" /\ call.slot = slot /\ call.arg = a /\ call'.fn = "none"
             /\ raced' = raced /\ nthreads' = nthreads
    <2>1. IF slot < n THEN created[slot + 1] = a ELSE raced
      BY <1>1, <1>5 DEF TableOK, TableInv
    <2>2. TableInv' BY <1>1, <1>2, <1>5, <2>1 DEF TableOK, TableInv
    <2>3. StartedInOrder' /\ DroppedNeverStarts'
      BY <1>2, <1>5 DEF TableOK, StartedInOrder, DroppedNeverStarts
    <2>4. CreatedKeepTheirSlots'
      <3> SUFFICES ASSUME NEW s \in 0 .. n - 1
                   PROVE  \/ threads'[s] = created[s + 1]
                          \/ /\ threads'[s] = 0
                             /\ s \in dropped' \/ s < ctid \/ (s = 0 /\ torn)
        BY DEF CreatedKeepTheirSlots
      <3>1. s \in Slot BY <1>1, MaxThreadsAssumption DEF TableOK, Slot
      <3>2. CASE s = slot BY <1>1, <1>2, <2>1, <3>2
      <3>3. CASE s # slot
        BY <1>2, <1>5, <3>1, <3>3 DEF TableOK, CreatedKeepTheirSlots
      <3> QED BY <3>2, <3>3
    <2> QED BY <1>2, <1>5, <2>2, <2>3, <2>4 DEF TableOK
  <1> QED BY <1>4, <1>5

\* unlist_thread, on the slot that was meant or on slot 0.
LEMMA ClearTable ==
  ASSUME TableOK, NEW slot \in 0 .. MAX_THREADS, NEW asked \in 0 .. MAX_THREADS,
         Clear(slot, asked), slot = asked \/ slot = 0,
         slot = asked => torn' = torn, slot # asked => torn' = TRUE,
         UNCHANGED <<ctid, nthreads, created, started, raced>>,
         call' \in CallType,
         \/ call'.fn = call.fn /\ call'.slot = call.slot /\ call'.arg = call.arg
         \/ call.fn = "clear" /\ call'.fn = "none"
  PROVE  TableOK'
PROOF
  <1>1. /\ threads' \in [Slot -> Addr \cup {0}]
        /\ \A s \in Slot : threads'[s] = IF s = slot THEN 0 ELSE threads[s]
    BY MaxThreadsAssumption DEF TableOK, Clear, Slot
  <1>2. /\ dropped' = dropped \cup {s \in Slot : s = asked /\ s >= ctid /\ threads[s] # 0}
        /\ dropped' \subseteq Slot /\ torn' \in BOOLEAN
    BY DEF TableOK, Clear
  <1>3. TableInv'
    <2>1. ~raced => \A s \in Slot : s >= Len(created) => threads'[s] = 0
      BY <1>1 DEF TableOK, TableInv
    <2>2. call'.fn = "store" => call'.slot \in Slot
      BY MaxThreadsAssumption DEF TableOK, TableInv, CallType, Slot
    <2>3. torn' \/ \A s \in dropped' : threads'[s] = 0
      BY <1>1, <1>2 DEF TableOK, TableInv
    <2> QED BY <1>1, <2>1, <2>2, <2>3 DEF TableOK, TableInv
  <1>4. StartedInOrder' BY DEF TableOK, StartedInOrder
  <1>5. DroppedNeverStarts' BY <1>2 DEF TableOK, DroppedNeverStarts
  <1>6. CreatedKeepTheirSlots'
    <2> SUFFICES ASSUME NEW s \in 0 .. Len(created) - 1
                 PROVE  \/ threads'[s] = created[s + 1]
                        \/ /\ threads'[s] = 0
                           /\ \/ call.fn = "store" /\ call.slot = s
                              \/ s \in dropped' \/ s < ctid \/ (s = 0 /\ torn')
      BY DEF CreatedKeepTheirSlots
    <2>1. s \in Slot
      BY MaxThreadsAssumption DEF TableOK, TableInv, Slot
    <2>2. \/ threads[s] = created[s + 1]
          \/ /\ threads[s] = 0
             /\ \/ call.fn = "store" /\ call.slot = s
                \/ s \in dropped \/ s < ctid \/ (s = 0 /\ torn)
      BY DEF TableOK, CreatedKeepTheirSlots
    <2>3. CASE s # slot BY <1>1, <1>2, <2>1, <2>2, <2>3
    <2>4. CASE s = slot /\ threads[s] = 0 BY <1>1, <1>2, <2>1, <2>2, <2>4,
          EndlessAssumption DEF TableOK
    <2>5. CASE s = slot /\ s # asked BY <1>1, <2>1, <2>5
    <2>6. CASE s = slot /\ s = asked /\ threads[s] # 0
      <3>1. s \in dropped' \/ s < ctid BY <1>2, <2>1, <2>6 DEF TableOK, Slot
      <3> QED BY <1>1, <2>1, <2>6, <3>1
    <2> QED BY <2>3, <2>4, <2>5, <2>6
  <1> QED BY <1>1, <1>2, <1>3, <1>4, <1>5, <1>6 DEF TableOK

\* The scheduler starts the first thread that has not been started.
LEMMA StartTable ==
  ASSUME TableOK, Start
  PROVE  TableOK'
PROOF
  <1>1. /\ ctid \in Nat /\ ctid < MAX_THREADS - 1 /\ threads[ctid] # 0
        /\ ctid' = ctid + 1 /\ ctid + 1 \in Slot
    BY MaxThreadsAssumption DEF TableOK, Start, SlotsLeft, Occupied, Post, Slot
  <1>2. threads[ctid] \in Addr BY <1>1 DEF TableOK
  <1>3. Len(created) \in Nat /\ (raced \/ ctid < Len(created))
    BY <1>1 DEF TableOK, TableInv
  <1>4. ctid < Len(created) => threads[ctid] = created[ctid + 1]
    BY <1>1, <1>3 DEF TableOK, CreatedKeepTheirSlots
  <1>5. /\ started' \in Seq(Addr) /\ Len(started') = ctid + 1
        /\ started'[ctid + 1] = threads[ctid]
        /\ \A k \in 1 .. ctid : started'[k] = started[k]
    <2>1. started' = Append(started, threads[ctid]) BY DEF Start
    <2>2. started \in Seq(Addr) /\ Len(started) = ctid BY DEF TableOK, StartedInOrder
    <2> QED BY <1>2, <2>1, <2>2, AppendProperties
  <1>6. UNCHANGED <<threads, nthreads, call, created, dropped, torn, raced>> BY DEF Start
  <1>7. TableInv' BY <1>6 DEF TableOK, TableInv
  <1>8. StartedInOrder'
    <2> SUFFICES ASSUME NEW k \in 1 .. ctid + 1, k <= Len(created)
                 PROVE  started'[k] = created[k]
      BY <1>1, <1>3, <1>5, <1>6 DEF StartedInOrder
    <2>1. CASE k = ctid + 1 BY <1>1, <1>3, <1>4, <1>5, <2>1
    <2>2. CASE k # ctid + 1
      <3>1. k \in 1 .. ctid BY <1>1, <2>2
      <3> QED BY <1>5, <3>1 DEF TableOK, StartedInOrder
    <2> QED BY <2>1, <2>2
  <1>9. DroppedNeverStarts'
    <2>1. CASE torn BY <1>6, <2>1 DEF DroppedNeverStarts
    <2>2. ASSUME ~torn, NEW s \in dropped PROVE s >= ctid + 1
      <3>1. s >= ctid /\ s # ctid /\ s \in Slot
        BY <1>1, <2>2 DEF TableOK, TableInv, DroppedNeverStarts
      <3> QED BY <1>1, <3>1 DEF Slot
    <2> QED BY <1>1, <1>6, <2>1, <2>2 DEF DroppedNeverStarts
  <1>10. CreatedKeepTheirSlots'
    BY <1>1, <1>6 DEF TableOK, CreatedKeepTheirSlots
  <1> QED BY <1>1, <1>5, <1>6, <1>7, <1>8, <1>9, <1>10 DEF TableOK

\* Every step of the system keeps the table's invariant.
LEMMA TableStep ==
  ASSUME TableOK, [Next]_vars
  PROVE  TableOK'
PROOF
  <1>0. call \in CallType /\ nthreads \in 0 .. MAX_THREADS BY DEF TableOK
  <1>1. CASE UNCHANGED slots /\ UNCHANGED history /\ call' = call
    BY <1>0, <1>1, SameTable
  <1>2. ASSUME NEW a \in Addr, MkthreadRead(a) PROVE TableOK'
    <2>1. call' = [fn |-> "count", arg |-> a, slot |-> nthreads, hit |-> FALSE]
      BY <1>2 DEF MkthreadRead
    <2>2. call' \in CallType BY <1>0, <2>1 DEF CallType
    <2> QED BY <1>2, <2>1, <2>2, SameTable DEF MkthreadRead
  <1>3. CASE MkthreadCount /\ ~raced
    <2>1. /\ call.fn = "count" /\ call.slot = nthreads /\ nthreads < MAX_THREADS
          /\ nthreads = Len(created) /\ call.arg \in Addr
      BY <1>3 DEF MkthreadCount, TableOK, TableInv
    <2>2. /\ nthreads' = nthreads + 1 /\ call' = [call EXCEPT !.fn = "store"]
          /\ raced' = FALSE /\ created' = Append(created, call.arg)
          /\ UNCHANGED <<threads, ctid, started, dropped, torn>>
      BY <1>3, <2>1 DEF MkthreadCount, Post, Reserve, TableOK
    <2>3. /\ call' \in CallType /\ call'.fn = "store"
          /\ call'.slot = nthreads /\ call'.arg = call.arg
      BY <1>0, <2>1, <2>2 DEF CallType
    <2>4. threads[nthreads] = 0 /\ threads \in [Slot -> Addr \cup {0}]
      BY <1>0, <1>3, <2>1, MaxThreadsAssumption DEF TableOK, TableInv, Slot
    <2> QED BY <1>3, <2>1, <2>2, <2>3, <2>4, ReserveTable
  <1>4. CASE MkthreadCount /\ raced
    <2>1. /\ call.fn = "count" /\ call.slot < MAX_THREADS /\ call.slot >= Len(created)
          /\ call.arg \in Addr
      BY <1>4 DEF MkthreadCount, TableOK, TableInv
    <2>2. /\ nthreads' = call.slot + 1 /\ call' = [call EXCEPT !.fn = "store"]
          /\ UNCHANGED <<threads, ctid, created, started, dropped, torn, raced>>
      BY <1>4 DEF MkthreadCount, Post, Reserve
    <2>3. /\ call' \in CallType /\ call'.fn = "store"
          /\ call'.slot = call.slot /\ call'.arg = call.arg /\ call.slot \in Nat
      BY <1>0, <2>2 DEF CallType
    <2>4. nthreads' \in 0 .. MAX_THREADS /\ nthreads' >= Len(created) /\ Len(created) \in Nat
      BY <2>1, <2>2, <2>3, MaxThreadsAssumption DEF TableOK
    <2>5. TableInv' BY <1>4, <2>1, <2>2, <2>3, <2>4 DEF TableOK, TableInv
    <2>6. StartedInOrder' /\ DroppedNeverStarts' /\ CreatedKeepTheirSlots'
      BY <2>1, <2>2 DEF TableOK, StartedInOrder, DroppedNeverStarts, CreatedKeepTheirSlots
    <2> QED BY <2>2, <2>3, <2>4, <2>5, <2>6 DEF TableOK
  <1>13. CASE MkthreadStore
    <2>1. /\ call.fn = "store" /\ call.arg \in Addr /\ call.slot \in Slot
          /\ Fill(call.slot, call.arg) /\ call' = NoCall
          /\ UNCHANGED <<ctid, nthreads, created, started, torn, raced>>
      <3>1. call.slot \in 0 .. MAX_THREADS BY <1>0 DEF CallType
      <3>2. call.fn = "store" /\ call.arg \in Addr /\ call.slot < MAX_THREADS
        BY <1>13 DEF MkthreadStore, TableOK, TableInv
      <3>3. call.slot \in Slot BY <3>1, <3>2, MaxThreadsAssumption DEF Slot
      <3> QED BY <1>13, <3>2, <3>3 DEF MkthreadStore, Unglitched
    <2>2. call' \in CallType /\ call'.fn = "none"
      BY <2>1, MaxThreadsAssumption DEF NoCall, CallType
    <2> HIDE DEF CallType
    <2> QED BY <1>0, <2>1, <2>2, FillTable DEF TableOK
  <1>14. ASSUME NEW a \in Addr, mkthread(a), raced \/ call.fn = "count" PROVE TableOK'
    <2>1. /\ nthreads < MAX_THREADS /\ nthreads' = nthreads + 1 /\ Fill(nthreads, a)
          /\ raced' = TRUE /\ UNCHANGED <<ctid, call, created, started, torn>>
      BY <1>14 DEF mkthread, Post, Reserve
    <2>2. nthreads \in Slot /\ nthreads' \in 0 .. MAX_THREADS /\ nthreads' >= nthreads
      BY <1>0, <2>1, MaxThreadsAssumption DEF Slot
    <2>3. nthreads >= Len(created) BY DEF TableOK, TableInv
    <2> QED BY <1>0, <2>1, <2>2, <2>3, FillTable
  <1>15. ASSUME NEW a \in Addr, mkthread(a), ~raced, call.fn # "count" PROVE TableOK'
    <2>1. /\ nthreads < MAX_THREADS /\ nthreads' = nthreads + 1 /\ Fill(nthreads, a)
          /\ raced' = FALSE /\ created' = Append(created, a)
          /\ UNCHANGED <<ctid, call, started, torn>>
      BY <1>15 DEF mkthread, Post, Reserve, TableOK
    <2>2. nthreads \in Slot BY <1>0, <2>1, MaxThreadsAssumption DEF Slot
    <2>3. /\ threads' \in [Slot -> Addr \cup {0}] /\ threads'[nthreads] = a
          /\ \A s \in Slot : s # nthreads => threads'[s] = threads[s]
          /\ dropped' = dropped \ {nthreads}
      BY <2>1, <2>2 DEF Fill, TableOK
    <2> QED BY <1>0, <1>15, <2>1, <2>3, ReserveTable
  <1>5. ASSUME NEW tid \in 0 .. MAX_THREADS, UnlistCall(tid) PROVE TableOK'
    <2>1. call' = [fn |-> "clear", arg |-> 0, slot |-> tid, hit |-> FALSE]
      BY <1>5 DEF UnlistCall
    <2>2. call' \in CallType BY <2>1 DEF CallType
    <2> QED BY <1>5, <2>1, <2>2, SameTable DEF UnlistCall
  <1>6. CASE UnlistClear
    <2>1. call.fn = "clear" /\ call' = NoCall BY <1>6 DEF UnlistClear
    <2>2. call' \in CallType /\ call'.fn = "none"
      BY <2>1, MaxThreadsAssumption DEF NoCall, CallType
    <2>3. /\ call.slot \in 0 .. MAX_THREADS /\ RedZone(call.slot) \in 0 .. MAX_THREADS
          /\ RedZone(call.slot) = call.slot \/ RedZone(call.slot) = 0
      BY <1>0, MaxThreadsAssumption DEF CallType, RedZone
    <2>4. torn' = (torn \/ RedZone(call.slot) # call.slot) /\ torn \in BOOLEAN
      BY <1>6 DEF UnlistClear, TableOK
    <2> QED BY <1>6, <2>1, <2>2, <2>3, <2>4, ClearTable DEF UnlistClear
  <1>7. ASSUME NEW tid \in 0 .. MAX_THREADS, unlist_thread(tid) PROVE TableOK'
    <2>1. /\ Clear(tid, tid) /\ call' = call /\ torn' = torn
          /\ UNCHANGED <<ctid, nthreads, created, started, raced>>
      BY <1>7 DEF unlist_thread
    <2> QED BY <1>0, <2>1, ClearTable
  <1>8. ASSUME NEW l \in {0, 1}, Interrupt(l) PROVE TableOK'
    <2>1. call' = [call EXCEPT !.hit = call.fn # "none"] BY <1>8 DEF Interrupt
    <2>2. /\ call' \in CallType /\ call'.fn = call.fn
          /\ call'.slot = call.slot /\ call'.arg = call.arg
      BY <1>0, <2>1 DEF CallType
    <2> QED BY <1>8, <2>2, SameTable DEF Interrupt
  <1>9. CASE Start BY <1>9, StartTable
  <1>10. CASE Cli \/ Sti \/ TimerPeriod \/ Spin \/ UNCHANGED vars
    BY <1>1, <1>10 DEF Cli, Sti, TimerPeriod, Spin, vars, slots, history
  <1>11. ASSUME NEW c \in Keys, KeyByte(c) PROVE TableOK'
    BY <1>1, <1>11 DEF KeyByte
  <1>12. CASE NoStart \/ Return \/ KeyScancode \/ KeyChar \/ PIC_sendEOI \/ Iret
    BY <1>1, <1>12 DEF NoStart, Return, KeyScancode, KeyChar, PIC_sendEOI, Iret
  <1> QED BY <1>2, <1>3, <1>4, <1>5, <1>6, <1>7, <1>8, <1>9, <1>10, <1>11, <1>12,
             <1>13, <1>14, <1>15
          DEF Next, Handler

-----------------------------------------------------------------------------
(* The theorems.                                                           *)

\* The two invariants are the types and the properties.
LEMMA Parts ==
  MachineInv /\ TableOK => TypeOK /\ OneThreadAtATime
PROOF
  <1> SUFFICES ASSUME MachineInv, TableOK PROVE TypeOK /\ OneThreadAtATime
    OBVIOUS
  <1>1. TypeOK BY DEF MachineInv, TableOK, TypeOK, CallType
  <1>2. Len(irq) <= ctid + 1
    <2>1. CASE irq = <<>>
      <3>1. Len(irq) = 0 /\ ctid \in Nat BY <2>1 DEF MachineInv
      <3> QED BY <3>1
    <2>2. CASE irq # <<>>
      <3>1. Len(irq) \in Nat /\ ctid \in Nat BY <2>2, Top DEF MachineInv
      <3>2. Len(irq) <= ctid \/ Len(irq) <= ctid + 1
        BY <2>2 DEF MachineInv, HandlerInv
      <3> QED BY <3>1, <3>2
    <2> QED BY <2>1, <2>2
  <1>3. OneThreadAtATime BY <1>2 DEF MachineInv, HandlerInv, OneThreadAtATime
  <1> QED BY <1>1, <1>3

LEMMA InitEstablishes == Init => MachineInv /\ TableOK
PROOF
  <1> SUFFICES ASSUME Init PROVE MachineInv /\ TableOK OBVIOUS
  <1>1. irq = <<>> /\ Len(irq) = 0 /\ irq \in Seq(Activation) BY EmptySeq DEF Init
  <1>2. pic \in Chip /\ pic.isr = {} /\ pic.irr = {}
    BY DEF Init, Chip, Byte, ByteOf
  <1>3. /\ kbd \in Driver /\ CanReceive(kbd) /\ Whole(kbd)
    BY DEF Init, DriverInit, Driver, CanReceive, Whole, SC_ASCII, SC_LENGTH,
           Beyond, NoByte, ScanCode
  <1>4. HandlerInv BY <1>1, <1>2 DEF HandlerInv
  <1>5. KeyInv BY <1>1, <1>2, <1>3 DEF KeyInv, InHandler
  <1>6. MachineInv BY <1>1, <1>2, <1>3, <1>4, <1>5 DEF MachineInv, Init
  <1>7. /\ created = <<>> /\ started = <<>> /\ Len(created) = 0 /\ Len(started) = 0
        /\ created \in Seq(Addr) /\ started \in Seq(Addr)
    BY EmptySeq DEF Init
  <1>8. call \in CallType /\ call.fn = "none"
    BY MaxThreadsAssumption DEF Init, NoCall, CallType
  <1>9. ctid \in Slot /\ ctid = 0 /\ nthreads \in 0 .. MAX_THREADS /\ nthreads = 0
    BY MaxThreadsAssumption DEF Init, Slot
  <1>10. TableInv BY <1>7, <1>8, <1>9 DEF Init, TableInv
  <1>11. StartedInOrder /\ DroppedNeverStarts /\ CreatedKeepTheirSlots
    BY <1>7, <1>9 DEF Init, StartedInOrder, DroppedNeverStarts, CreatedKeepTheirSlots
  <1>12. TableOK BY <1>7, <1>8, <1>9, <1>10, <1>11 DEF Init, TableOK
  <1> QED BY <1>6, <1>12

LEMMA Invariance == Spec => [](MachineInv /\ TableOK)
PROOF
  <1>1. MachineInv /\ TableOK /\ [Next]_vars => (MachineInv /\ TableOK)'
    BY MachineStep, TableStep, Parts
  <1> QED BY <1>1, InitEstablishes, PTL DEF Spec

\* Types; the scheduler's index stays inside the table.
THEOREM TypeCorrect == Spec => []TypeOK
PROOF BY Invariance, Parts, PTL

\* No handler and no thread is interrupted before its end of interrupt, which
\* bounds the nesting by the threads started.
THEOREM HandlersInTurn == Spec => []OneThreadAtATime
PROOF BY Invariance, Parts, PTL

\* Threads start in the order in which mkthread counted them, at most once each,
\* up to the first slot that two calls of mkthread got: the boot thread's and one
\* of a thread that interrupted it.
THEOREM ThreadsInOrder == Spec => []StartedInOrder
PROOF
  <1>1. TableOK => StartedInOrder BY DEF TableOK
  <1> QED BY <1>1, Invariance, PTL

\* What is unlisted in time never starts.
THEOREM UnlistedStayOut == Spec => []DroppedNeverStarts
PROOF
  <1>1. TableOK => DroppedNeverStarts BY DEF TableOK
  <1> QED BY <1>1, Invariance, PTL

\* Each thread before that slot is where it was put until it is unlisted.
THEOREM SlotsKept == Spec => []CreatedKeepTheirSlots
PROOF
  <1>1. TableOK => CreatedKeepTheirSlots BY DEF TableOK
  <1> QED BY <1>1, Invariance, PTL

\* Whoever has the CPU outside the handlers reads one key's code and character.
THEOREM KeystrokesWhole == Spec => []KeystrokeWhole
PROOF
  <1>1. MachineInv => KeystrokeWhole
    BY DEF MachineInv, KeyInv, KeystrokeWhole, InBoot, InThread, InHandler
  <1> QED BY <1>1, Invariance, PTL
=============================================================================
