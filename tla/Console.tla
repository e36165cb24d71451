------------------------------ MODULE Console ------------------------------
(***************************************************************************)
(* The console's input (arch/riscv/kernel/console.c): tasks that read it   *)
(* and write to it, and the keyboard interrupt that edits the line and     *)
(* hands it over.                                                          *)
(*                                                                         *)
(* A call runs with cons.lock held and interrupts off, so consoleintr()    *)
(* runs as a whole, and only while no task holds the lock.  A carriage     *)
(* return becomes a newline or is ignored; a key that is not stored and    *)
(* edits nothing (0, control-P, '\r' on the k210) is no step.              *)
(***************************************************************************)
EXTENDS Integers, Sequences

CONSTANTS
    Reader,
    Key, NL, EOT,       \* the bytes that can be stored; newline, control-D
    Zero,               \* what the ring holds at first
    INPUT_BUF,
    UintRange,          \* number of values of r, w and e (2^32)
    MaxCall,            \* bound: bytes one call asks for
    Nobody

ASSUME KeyAssumption  == NL \in Key /\ EOT \in Key /\ NL # EOT /\ Zero \in Key
ASSUME TaskAssumption == Nobody \notin Reader /\ MaxCall \in Nat
ASSUME SizeAssumption ==   \* the indices wrap around at a multiple of the ring
    /\ INPUT_BUF \in Nat \ {0} /\ UintRange \in Nat
    /\ \E k \in 2..UintRange : UintRange = k * INPUT_BUF

VARIABLES
    buf, r, w, e,       \* cons
    lock,               \* owner of cons.lock
    state,              \* "READY" or "SLEEPING"
    pc,                 \* where each task is
    n,                  \* how many bytes its call may still take
    got                 \* what its latest consoleread() has copied

cons == <<buf, r, w, e>>
vars == <<cons, lock, state, pc, n, got>>

Slots == 0..INPUT_BUF-1
Uint  == 0..UintRange-1

TypeOK ==
    /\ buf \in [Slots -> Key]
    /\ r \in Uint /\ w \in Uint /\ e \in Uint
    /\ lock  \in Reader \cup {Nobody}
    /\ state \in [Reader -> {"READY", "SLEEPING"}]
    /\ pc    \in [Reader -> {"user", "read", "sleep", "write"}]
    /\ n     \in [Reader -> 0..MaxCall]
    /\ got   \in [Reader -> Seq(Key)]
    /\ \A t \in Reader : Len(got[t]) <= MaxCall

\* console_init()
Init ==
    /\ buf = [i \in Slots |-> Zero]
    /\ r = 0 /\ w = 0 /\ e = 0
    /\ lock  = Nobody
    /\ state = [t \in Reader |-> "READY"]
    /\ pc    = [t \in Reader |-> "user"]
    /\ n     = [t \in Reader |-> 0]
    /\ got   = [t \in Reader |-> <<>>]

-----------------------------------------------------------------------------

Plus(i, k) == (i + k) % UintRange              \* uint arithmetic

At(i) == buf[i % INPUT_BUF]

Empty == r = w

\* acquire(&cons.lock) on the way from one place to another.
Enter(t, from, to) ==
    /\ lock = Nobody /\ lock' = t
    /\ state[t] = "READY" /\ pc[t] = from /\ pc' = [pc EXCEPT ![t] = to]

\* release(&cons.lock); return.
Leave(t) ==
    /\ pc' = [pc EXCEPT ![t] = "user"]
    /\ lock' = Nobody

\* consoleread(user_dst, dst, n)
ReadCall(t) ==
    /\ Enter(t, "user", "read")
    /\ \E k \in 0..MaxCall : n' = [n EXCEPT ![t] = k]
    /\ got' = [got EXCEPT ![t] = <<>>]
    /\ UNCHANGED <<cons, state>>

\* sleep(&cons.r, &cons.lock)
ReadSleep(t) ==
    /\ pc[t] = "read" /\ n[t] > 0 /\ Empty
    /\ pc' = [pc EXCEPT ![t] = "sleep"]
    /\ state' = [state EXCEPT ![t] = "SLEEPING"]
    /\ lock' = Nobody
    /\ UNCHANGED <<cons, n, got>>

ReadResume(t) ==
    /\ Enter(t, "sleep", "read")
    /\ UNCHANGED <<cons, state, n, got>>

\* One byte to the caller; a newline ends the call.
ReadByte(t) ==
    /\ pc[t] = "read" /\ n[t] > 0 /\ ~Empty /\ At(r) # EOT
    /\ r' = Plus(r, 1)
    /\ got' = [got EXCEPT ![t] = Append(@, At(r))]
    /\ n' = [n EXCEPT ![t] = @ - 1]
    /\ IF At(r) = NL THEN Leave(t) ELSE UNCHANGED <<lock, pc>>
    /\ UNCHANGED <<buf, w, e, state>>

Keeps_Never(t) == FALSE                        \* mutant: control-D always used up

\* A call that has something already leaves control-D to the next one.
Keeps(t) == got[t] # <<>>

ReadEof(t) ==
    /\ pc[t] = "read" /\ n[t] > 0 /\ ~Empty /\ At(r) = EOT
    /\ r' = IF Keeps(t) THEN r ELSE Plus(r, 1)
    /\ Leave(t)
    /\ UNCHANGED <<buf, w, e, state, n, got>>

ReadReturn(t) ==
    /\ pc[t] = "read" /\ n[t] = 0
    /\ Leave(t)
    /\ UNCHANGED <<cons, state, n, got>>

\* consolewrite(): the lock is held while the bytes are put out.
WriteCall(t) ==
    /\ Enter(t, "user", "write")
    /\ UNCHANGED <<cons, state, n, got>>

WriteReturn(t) ==
    /\ pc[t] = "write" /\ Leave(t)
    /\ UNCHANGED <<cons, state, n, got>>

-----------------------------------------------------------------------------
Woken_First ==                                 \* mutant: wakeup() stops at one task
    LET sleepers == {t \in Reader : pc[t] = "sleep"}
    IN  IF sleepers = {} THEN state
        ELSE [state EXCEPT ![CHOOSE t \in sleepers : TRUE] = "READY"]

\* wakeup(&cons.r)
Woken == [t \in Reader |-> IF pc[t] = "sleep" THEN "READY" ELSE state[t]]

Complete_AtEnd(c) == c \in {NL, EOT}           \* mutant: a full ring is no end

\* A key completes the line if it ends it or fills the ring.
Complete(c) == c \in {NL, EOT} \/ Plus(e, 1) = Plus(r, INPUT_BUF)

\* consoleintr(c): a key that is stored, if there is room.
Type(c) ==
    /\ lock = Nobody
    /\ Plus(e, -r) < INPUT_BUF
    /\ buf' = [buf EXCEPT ![e % INPUT_BUF] = c]
    /\ e' = Plus(e, 1)
    /\ IF Complete(c) THEN w' = Plus(e, 1) /\ state' = Woken
                      ELSE UNCHANGED <<w, state>>
    /\ UNCHANGED <<r, lock, pc, n, got>>

Erasable == e # w

\* consoleintr(C('H'))
Erase ==
    /\ lock = Nobody /\ Erasable
    /\ e' = Plus(e, -1)
    /\ UNCHANGED <<buf, r, w, lock, state, pc, n, got>>

\* consoleintr(C('U')): back to the nearest newline after w, or to w.
Kill ==
    /\ lock = Nobody /\ Erasable
    /\ \E k \in 0..Plus(e, -w) :
          /\ k = Plus(e, -w) \/ At(Plus(e, -k-1)) = NL
          /\ \A j \in 0..k-1 : At(Plus(e, -j-1)) # NL
          /\ e' = Plus(e, -k)
    /\ UNCHANGED <<buf, r, w, lock, state, pc, n, got>>

\* A child's exit() makes its sleeping parent ready, whatever it waits for.
ChildExits(t) ==
    /\ state[t] = "SLEEPING"
    /\ state' = [state EXCEPT ![t] = "READY"]
    /\ UNCHANGED <<cons, lock, pc, n, got>>

ReaderStep(t) ==
    \/ ReadCall(t) \/ ReadSleep(t) \/ ReadResume(t) \/ ReadByte(t)
    \/ ReadEof(t) \/ ReadReturn(t) \/ WriteCall(t) \/ WriteReturn(t)

Interrupt == (\E c \in Key : Type(c)) \/ Erase \/ Kill

Next == (\E t \in Reader : ReaderStep(t) \/ ChildExits(t)) \/ Interrupt

Spec == Init /\ [][Next]_vars

-----------------------------------------------------------------------------
\* No wakeup is lost: whenever the lock is free, a reader is asleep only if
\* nothing has been handed over, however many readers share the keyboard and
\* whoever of them took what woke the others.
NoLostWakeup ==
    lock = Nobody => \A t \in Reader : state[t] = "SLEEPING" => Empty

\* The keyboard does not lock up: a full ring, in which no key can be stored
\* any more, always holds something a reader can take, so that room appears.
FullIsReadable == Plus(e, -r) = INPUT_BUF => ~Empty

\* Across the wraparound of the indices the console is a line queue: [r, w) is
\* what can be read, [w, e) the line being edited.  Editing never touches what
\* was handed over, a call gets one line at most, and control-D is kept for the
\* call that has nothing else to return.
Section(from, to) == [k \in 1..Plus(to, -from) |-> At(Plus(from, k - 1))]

Terminal == INSTANCE LineQueue WITH
    Capacity <- INPUT_BUF, ready <- Section(r, w), line <- Section(w, e)

IsLineQueue == Terminal!Spec

=============================================================================
