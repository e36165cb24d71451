-------------------------------- MODULE Fifo --------------------------------
(***************************************************************************)
(* What a pipe promises: one bounded first-in first-out byte stream.       *)
(***************************************************************************)
EXTENDS Naturals, Sequences

CONSTANTS Byte, Capacity

VARIABLES sent, rcvd      \* every byte accepted, every byte delivered so far

Init == sent = <<>> /\ rcvd = <<>>

\* A byte is accepted only while fewer than Capacity are in transit.
Put == /\ Len(sent) - Len(rcvd) < Capacity
       /\ \E b \in Byte : sent' = Append(sent, b)
       /\ UNCHANGED rcvd

\* The oldest byte in transit is delivered.
Get == /\ Len(rcvd) < Len(sent)
       /\ rcvd' = Append(rcvd, sent[Len(rcvd) + 1])
       /\ UNCHANGED sent

Next == Put \/ Get

Spec == Init /\ [][Next]_<<sent, rcvd>>

=============================================================================
