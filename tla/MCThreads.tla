----------------------------- MODULE MCThreads -----------------------------
(* Model values and bounds for checking Threads with TLC. *)
EXTENDS Threads

\* A function that returns and one that does not.
MCAddr    == {101, 103}
MCEndless == {103}

\* F1 going up, which is beyond SC_ASCII.
MCKeys == {187}
=============================================================================
