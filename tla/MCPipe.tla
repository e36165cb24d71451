------------------------------- MODULE MCPipe -------------------------------
(* Two writers and two readers on a ring of two bytes; counters wrap at 4. *)
EXTENDS Pipe

CONSTANTS w1, w2, r1, r2, a, b

TwoWriters == {w1, w2}
TwoReaders == {r1, r2}
TwoBytes   == {a, b}

=============================================================================
