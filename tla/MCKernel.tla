------------------------------ MODULE MCKernel ------------------------------
(* Model values and bounds for checking Kernel with TLC. *)
EXTENDS Kernel

\* The longest sleep first; one of a single tick.
MCSleeps == <<3, 2, 1>>

\* The speaker may sound already, or other bits of its port may be set.
MCSpeaker == {{}, {0, 1}, {1, 4}}

MCQuiet == {{}}

\* The DMA controller behind port 0 may return anything.
MCPort0 == {{}, {0, 1, 7}}

\* An exception with a gate and one without (int3).
MCFaults == {3, 14}
=============================================================================
