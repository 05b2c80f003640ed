------------------------------ MODULE Keyboard ------------------------------
(***************************************************************************)
(* The driver of kernel/src/drivers/ps2/impl/Keyboard.c and the keyboard   *)
(* controller behind it, as operators on a record that the specifications  *)
(* which use the driver keep in a variable.  irq1_handler is split where   *)
(* it writes ps2_keystroke_buffer, which others may read.                  *)
(***************************************************************************)
EXTENDS Naturals

ScanCode == 0 .. 255

\* The controller's output buffer (port 0x60) is empty.
NoByte == 256

\* SC_ASCII has 59 bytes, of which the last one ends the string.  What the
\* handler reads behind it is up to the linker.
SC_LENGTH == 59
Beyond    == SC_LENGTH

\* The entry of SC_ASCII that the handler stores for a scan code.
SC_ASCII(c) == IF c < SC_LENGTH THEN c ELSE Beyond

\* out: the output buffer.  The rest is ps2_keystroke_buffer; ch is the entry
\* of SC_ASCII that it was taken from.
Driver == [out : ScanCode \cup {NoByte}, scancode : ScanCode,
           ch : 0 .. Beyond, pressed : {0, 1}]

DriverInit == [out |-> NoByte, scancode |-> 0, ch |-> 0, pressed |-> 0]

\* The keyboard sends a byte when the last one was read.
CanReceive(k)   == k.out = NoByte
Receive(k, c)   == [k EXCEPT !.out = c]

\* irq1_handler: the scan code first, which empties the output buffer ...
StoreScancode(k) == [k EXCEPT !.scancode = k.out, !.out = NoByte]

\* ... and then its character.  The bit of a key going down is never cleared.
StoreChar(k) ==
  [k EXCEPT !.ch = SC_ASCII(k.scancode),
            !.pressed = IF k.scancode < 128 THEN 1 ELSE @]

\* What fetch_last_ps2_keystroke returns is the buffer in one load of 8 bytes:
\* is its character that of its scan code?
Whole(k) == k.ch = SC_ASCII(k.scancode)
=============================================================================
