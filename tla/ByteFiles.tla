----------------------------- MODULE ByteFiles -----------------------------
(***************************************************************************)
(* What regular files promise: every file is a sequence of bytes, every    *)
(* open of it has a position of its own.                                   *)
(***************************************************************************)
EXTENDS Integers, Sequences

CONSTANTS Files, Opens, FileOf, Byte, Zero, MaxPiece, InitialContent

VARIABLES content, pos, reply     \* reply: what the latest read returned, if nothing was changed since

Init == /\ content = InitialContent
        /\ pos = [o \in Opens |-> 0]
        /\ reply = <<>>

Here(o) == content[FileOf[o]]

\* Opening may empty the file; the position starts at its start or at its end.
Open(o) ==
    /\ reply' = <<>>
    /\ \E c \in {Here(o), <<>>} :
          /\ \E p \in {0, Len(c)} : pos' = [pos EXCEPT ![o] = p]
          /\ content' = [content EXCEPT ![FileOf[o]] = c]

\* c with s written at p; what lies between the end of c and p becomes zero.
Patched(c, p, s) ==
    [k \in 1..(IF Len(c) > p + Len(s) THEN Len(c) ELSE p + Len(s)) |->
        IF k \in p+1..p+Len(s) THEN s[k - p] ELSE IF k <= Len(c) THEN c[k] ELSE Zero]

\* A write comes in pieces; each lands as a whole.
Write(o) ==
    /\ reply' \in {reply, <<>>}
    /\ \E n \in 0..MaxPiece :
          /\ pos' = [pos EXCEPT ![o] = @ + n]
          /\ \E s \in [1..n -> Byte] :
                content' = [content EXCEPT ![FileOf[o]] = Patched(@, pos[o], s)]

Read(o) ==
    /\ \E k \in pos[o]..Len(Here(o)) :
          /\ pos' = [pos EXCEPT ![o] = k]
          /\ reply' = SubSeq(Here(o), pos[o] + 1, k)
    /\ UNCHANGED content

Next == \E o \in Opens : Open(o) \/ Write(o) \/ Read(o)

Spec == Init /\ [][Next]_<<content, pos, reply>>

=============================================================================
