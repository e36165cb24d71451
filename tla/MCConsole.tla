----------------------------- MODULE MCConsole -----------------------------
(* Two readers on a ring of three bytes; the indices wrap at 6.            *)
EXTENDS Console

CONSTANTS t1, t2, a

TwoReaders == {t1, t2}
ThreeKeys  == {a, NL, EOT}

=============================================================================
