---------------------------- MODULE AddressSpace ----------------------------
(***************************************************************************)
(* What the virtual memory manager promises to the rest of the kernel: an  *)
(* address space in which pages become mapped one at a time, each to the   *)
(* page with the same number, and stay mapped.  The promise ends when the  *)
(* memory for tables is exhausted: then nothing is said any more.          *)
(***************************************************************************)
CONSTANTS
  Page,      \* the pages of the address space
  Unmapped   \* the translation of a page that is not mapped

VARIABLES
  xlate,     \* the translation of every page
  exhausted  \* has the promise ended?

Init == /\ xlate = [l \in Page |-> Unmapped]
        /\ exhausted = FALSE

Map(l) == /\ ~exhausted
          /\ xlate[l] = Unmapped
          /\ xlate' = [xlate EXCEPT ![l] = l]
          /\ UNCHANGED exhausted

Exhaust == /\ ~exhausted
           /\ exhausted' = TRUE
           /\ xlate' = [l \in Page |-> Unmapped]

Next == (\E l \in Page : Map(l)) \/ Exhaust

Spec == Init /\ [][Next]_<<xlate, exhausted>>
=============================================================================
