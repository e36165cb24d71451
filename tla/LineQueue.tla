----------------------------- MODULE LineQueue -----------------------------
(***************************************************************************)
(* What a terminal promises: input becomes readable a line at a time, can  *)
(* be edited until then and never after, and every byte is read once.      *)
(***************************************************************************)
EXTENDS Naturals, Sequences, SequencesExt

CONSTANTS Key, NL, EOT, Capacity, Reader

VARIABLES
    ready,     \* what readers may take
    line,      \* what is being edited
    got        \* what each reader's current call has been given

Init == ready = <<>> /\ line = <<>> /\ got = [t \in Reader |-> <<>>]

Begin(t) == got' = [got EXCEPT ![t] = <<>>] /\ UNCHANGED <<ready, line>>

\* A call is given one line at most.
Deliver(t) ==
    /\ ready # <<>> /\ Head(ready) # EOT
    /\ got[t] # <<>> => Last(got[t]) # NL
    /\ got' = [got EXCEPT ![t] = Append(@, Head(ready))]
    /\ ready' = Tail(ready) /\ UNCHANGED line

\* An end of file is used up by a call that gets nothing else.
EndOfFile(t) ==
    /\ ready # <<>> /\ Head(ready) = EOT /\ got[t] = <<>>
    /\ ready' = Tail(ready) /\ UNCHANGED <<line, got>>

\* A line is complete at its end or when no more input fits.
Type(c) ==
    /\ Len(ready) + Len(line) < Capacity
    /\ IF c \in {NL, EOT} \/ Len(ready) + Len(line) + 1 = Capacity
         THEN ready' = ready \o Append(line, c) /\ line' = <<>>
         ELSE line' = Append(line, c) /\ UNCHANGED ready
    /\ UNCHANGED got

Erase == line # <<>> /\ line' = Front(line) /\ UNCHANGED <<ready, got>>

Kill == line' = <<>> /\ UNCHANGED <<ready, got>>

Next ==
    \/ \E t \in Reader : Begin(t) \/ Deliver(t) \/ EndOfFile(t)
    \/ \E c \in Key : Type(c)
    \/ Erase \/ Kill

Spec == Init /\ [][Next]_<<ready, line, got>>

=============================================================================
