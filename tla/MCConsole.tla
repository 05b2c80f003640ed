----------------------------- MODULE MCConsole -----------------------------
(* Constants of Console for TLC.                                           *)
EXTENDS Console

\* A mode on which the list of devices wraps, and the smallest screens for
\* which ReportWhole and NeverOverdraws promise something.
MCScreens == {[w |-> 640, h |-> 480], [w |-> 800, h |-> 371],
              [w |-> 920, h |-> 551]}

\* A short and a long line.
MCFunctions == {[bus |-> 0, slot |-> 9, id |-> 7, type |-> 2],
                [bus |-> 254, slot |-> 31, id |-> 65535, type |-> 35]}

\* Bytes at the edges of char.
MCStacks == {<<0, 127, -128, -1, 16>>}

\* ui_start, and a program with a call that does not exist and a reboot.
MCUserCalls == {<<1, 2>>, <<3, 1, 0>>}
=============================================================================
