------------------------------- MODULE MCProc -------------------------------
(* Instances of Proc: three task slots, the idle task included.    *)
EXTENDS Proc

CONSTANTS tty, disk

BothChannels == {tty, disk}
AllPids      == Tasks \cup {AnyChild}
EveryCall    == OptionalCalls

=============================================================================
