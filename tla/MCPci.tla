------------------------------- MODULE MCPci -------------------------------
(* Model values and bounds for checking Pci with TLC. *)
EXTENDS Pci

\* Functions at the corners of every field, two neighbours, and the bus that
\* comes last.
Corners == {<<0, 0, 0>>, <<0, 0, 1>>, <<0, 31, 7>>, <<1, 0, 0>>, <<1, 16, 4>>}

MCPresent == SUBSET Corners
=============================================================================
