------------------------------- MODULE MCAcpi -------------------------------
(* Model values and bounds for checking Acpi with TLC. *)
EXTENDS Acpi, SequencesExt

\* Tables of up to two bytes, which overflow a byte of four values.
MCTables == [facp : BOOLEAN, bytes : BoundedSeq({1, 3}, 2)]

\* RSDTs of two entries at most, zero entries included: some of proper length,
\* and some that are shorter than their header or longer than their entries.
MCRsdts ==
  LET T == {t \in MCTables : Len(t.bytes) \in {1, 2}} \cup {NULL}
      R(n, ts) == [bytes |-> [k \in 1 .. n |-> 1], tables |-> ts]
  IN  {R(HeaderSize + 4 * Len(ts), ts) : ts \in BoundedSeq(T, 2)}
      \cup {R(n, <<t>>) : n \in {0, 3, 11, 16}, t \in T}

\* RSDTs of proper length and without zero entries, with one byte that is wrong.
MCBadRsdts ==
  {[r EXCEPT !.bytes[1] = 2] : r \in {s \in MCRsdts : WellFormed(s) /\ ZeroEntries(s) = {}}}
=============================================================================
