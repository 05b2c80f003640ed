-------------------------------- MODULE Pic --------------------------------
(***************************************************************************)
(* The 8259A interrupt controller, as far as init_pic, PIC_sendEOI and the *)
(* masking in kernel.c and Keyboard.c use it.  It is a device: this is     *)
(* what the code relies on, and none of it is source.                      *)
(*                                                                         *)
(* A byte is the set of its one bits, so | & ^ are set operations.         *)
(***************************************************************************)
EXTENDS Naturals

Byte == SUBSET (0 .. 7)

\* The byte with the value n.
ByteOf(n) == {b \in 0 .. 7 : (n \div 2^b) % 2 = 1}

\* The value of the byte B.
Value(B) ==
  LET w(b) == IF b \in B THEN 2^b ELSE 0
  IN  w(0) + w(1) + w(2) + w(3) + w(4) + w(5) + w(6) + w(7)

Xor(a, b) == (a \ b) \cup (b \ a)

\* icw: the initialisation word the chip waits for, 0 when it is operational.
\* base: the vector of line 0.  imr, irr, isr: masked, requested, in service.
Chip == [icw : {0, 2, 3, 4}, base : Byte, imr : Byte, irr : Byte, isr : Byte]

\* The lines that may interrupt now: requested, not masked, and of a higher
\* priority (a lower number) than everything in service.
Ready(c) == {l \in c.irr \ c.imr : \A s \in c.isr : l < s}

First(S) == CHOOSE l \in S : \A k \in S : l <= k

\* The vector the chip presents for line l.
Vector(c, l) == c.base \cup ByteOf(l)

\* A rising edge on line l; a second one before the first is acknowledged
\* leaves no trace.
Raise(c, l) == [c EXCEPT !.irr = @ \cup {l}]

\* The CPU acknowledges line l.
Acknowledge(c, l) == [c EXCEPT !.irr = @ \ {l}, !.isr = @ \cup {l}]

\* Bit 4 of a command starts the initialisation; 0x20 is the non-specific
\* end of interrupt: it retires the line of the highest priority in service.
Command(c, v) ==
  CASE 4 \in v  -> [icw |-> 2, base |-> c.base, imr |-> {}, irr |-> {}, isr |-> {}]
    [] v = {5}  -> [c EXCEPT !.isr = IF @ = {} THEN {} ELSE @ \ {First(@)}]
    [] OTHER    -> c

\* Data are initialisation words 2, 3 and 4 in turn, then masks.
Data(c, v) ==
  CASE c.icw = 2 -> [c EXCEPT !.base = v \ {0, 1, 2}, !.icw = 3]
    [] c.icw = 3 -> [c EXCEPT !.icw = 4]
    [] c.icw = 4 -> [c EXCEPT !.icw = 0]
    [] c.icw = 0 -> [c EXCEPT !.imr = v]
=============================================================================
