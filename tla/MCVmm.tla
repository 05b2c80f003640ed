------------------------------- MODULE MCVmm -------------------------------
(* Model values and bounds for checking Vmm with TLC. *)
EXTENDS Vmm

\* A descriptor of the memory map.
Desc(u, a, n) == [usable |-> u, physAddr |-> a, nPages |-> n]

\* Two usable segments around a reserved one, the larger one first or last,
\* inside or outside of the range init_vmm maps, of every size from none to
\* the rest of memory.
MCMemMaps ==
  { <<Desc(TRUE, 1, s), Desc(FALSE, 3, 2), Desc(TRUE, a, n)>> :
      s \in 0 .. 2, a \in 5 .. 9, n \in 0 .. 7 }
  \cup { <<Desc(FALSE, 0, 1), Desc(TRUE, a, 16 - a)>> : a \in 1 .. 12 }

MCJunk == {NP, 0, 5}

\* Memory that was clear, and a count left behind in it.
MCJunkSegments == {[physAddr |-> 0, nPages |-> 0], [physAddr |-> 20, nPages |-> 3]}
=============================================================================
