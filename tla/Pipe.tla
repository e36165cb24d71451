-------------------------------- MODULE Pipe --------------------------------
(***************************************************************************)
(* One pipe (arch/riscv/kernel/pipe.c) and the tasks that write, read and  *)
(* close it.                                                               *)
(*                                                                         *)
(* A call runs with pi->lock held; sleep() gives the lock up and takes it  *)
(* again.  A task that wants the lock while another holds it takes no step *)
(* (acquire() spins).  Which ready task goes on is left open: schedule()   *)
(* may pick any of them.                                                   *)
(***************************************************************************)
EXTENDS Integers, Sequences

CONSTANTS
    Writers, Readers,   \* tasks that hold the write end, the read end
    Byte, Zero,
    PIPESIZE,           \* size of the ring
    UintRange,          \* number of values of nread and nwrite (2^32)
    MaxCall,            \* bound: bytes in one call
    MaxSent,            \* bound: bytes that all calls together offer
    Nobody

ASSUME TasksAssumption == Writers \cap Readers = {} /\ Nobody \notin Writers \cup Readers
ASSUME SizeAssumption  ==   \* the counters wrap around at a multiple of the ring
    /\ PIPESIZE \in Nat \ {0} /\ UintRange \in Nat
    /\ \E k \in 2..UintRange : UintRange = k * PIPESIZE
ASSUME BoundAssumption == Zero \in Byte /\ MaxCall \in Nat /\ MaxSent \in Nat

Tasks == Writers \cup Readers

VARIABLES
    data, nread, nwrite, readopen, writeopen,    \* struct pipe
    lock,      \* owner of pi->lock
    state,     \* "READY" or "SLEEPING"
    pc,        \* where each task is
    rest,      \* what a write call has still to copy
    want,      \* how many bytes a read call has still to copy
    sent, rcvd \* history: the bytes taken from writers, given to readers

pipe  == <<data, nread, nwrite, readopen, writeopen>>
vars  == <<pipe, lock, state, pc, rest, want, sent, rcvd>>

Places == {"user", "write", "wsleep", "rtest", "rsleep", "read"}
Slots  == 0..PIPESIZE-1
Uint   == 0..UintRange-1

TypeOK ==
    /\ data \in [Slots -> Byte]
    /\ nread \in Uint /\ nwrite \in Uint
    /\ readopen \in BOOLEAN /\ writeopen \in BOOLEAN
    /\ lock  \in Tasks \cup {Nobody}
    /\ state \in [Tasks -> {"READY", "SLEEPING"}]
    /\ pc    \in [Tasks -> Places]
    /\ rest  \in [Tasks -> Seq(Byte)]
    /\ want  \in [Tasks -> Nat]
    /\ sent  \in Seq(Byte) /\ rcvd \in Seq(Byte)

\* pipealloc(): kmalloc() clears the memory it returns.
Init ==
    /\ data = [i \in Slots |-> Zero]
    /\ nread = 0 /\ nwrite = 0
    /\ readopen = TRUE /\ writeopen = TRUE
    /\ lock  = Nobody
    /\ state = [t \in Tasks |-> "READY"]
    /\ pc    = [t \in Tasks |-> "user"]
    /\ rest  = [t \in Tasks |-> <<>>]
    /\ want  = [t \in Tasks |-> 0]
    /\ sent  = <<>> /\ rcvd = <<>>

-----------------------------------------------------------------------------
Full_NoWrap == nwrite = nread + PIPESIZE      \* mutant: compared in a wider type

Full  == nwrite = (nread + PIPESIZE) % UintRange
Empty == nread = nwrite

Bumped_NoWrap(n) == n + 1                     \* mutant: a counter that is no uint

Bumped(n) == (n + 1) % UintRange              \* nwrite++, nread++

Woken_First(place) ==                         \* mutant: wakeup() stops at one task
    LET sleepers == {t \in Tasks : pc[t] = place}
    IN  IF sleepers = {} THEN state
        ELSE [state EXCEPT ![CHOOSE t \in sleepers : TRUE] = "READY"]

\* wakeup(&pi->nread) and wakeup(&pi->nwrite): tasks asleep at that place.
Woken(place) == [t \in Tasks |-> IF pc[t] = place THEN "READY" ELSE state[t]]

\* acquire(&pi->lock) on the way from one place to another.
Enter(t, from, to) ==
    /\ lock = Nobody /\ lock' = t
    /\ state[t] = "READY" /\ pc[t] = from /\ pc' = [pc EXCEPT ![t] = to]

\* sleep(chan, &pi->lock), where st are the states the code left before.
SleepAt(t, place, st) ==
    /\ pc' = [pc EXCEPT ![t] = place]
    /\ state' = [st EXCEPT ![t] = "SLEEPING"]
    /\ lock' = Nobody

\* release(&pi->lock); return.
Leave(t) ==
    /\ pc' = [pc EXCEPT ![t] = "user"]
    /\ lock' = Nobody

\* pipewrite(f, str, n): a write to a closed end returns -2 and does nothing.
WriteCall(t) ==
    /\ writeopen /\ Enter(t, "user", "write")
    /\ \E n \in 0..MaxCall : \E str \in [1..n -> Byte] :
          /\ Len(sent) + n <= MaxSent
          /\ rest' = [rest EXCEPT ![t] = str]
    /\ UNCHANGED <<pipe, state, want, sent, rcvd>>

WriteByte(t) ==
    /\ pc[t] = "write" /\ rest[t] # <<>> /\ ~Full
    /\ data'   = [data EXCEPT ![nwrite % PIPESIZE] = Head(rest[t])]
    /\ nwrite' = Bumped(nwrite)
    /\ sent'   = Append(sent, Head(rest[t]))
    /\ rest'   = [rest EXCEPT ![t] = Tail(@)]
    /\ UNCHANGED <<nread, readopen, writeopen, lock, state, pc, want, rcvd>>

\* The ring is full: give up if nobody can read any more, else sleep.
WriteFull(t) ==
    /\ pc[t] = "write" /\ rest[t] # <<>> /\ Full
    /\ IF readopen
         THEN SleepAt(t, "wsleep", Woken("rsleep")) /\ UNCHANGED rest
         ELSE Leave(t) /\ rest' = [rest EXCEPT ![t] = <<>>] /\ UNCHANGED state
    /\ UNCHANGED <<pipe, want, sent, rcvd>>

WriteResume(t) ==
    /\ Enter(t, "wsleep", "write")
    /\ UNCHANGED <<pipe, state, rest, want, sent, rcvd>>

WriteReturn(t) ==
    /\ pc[t] = "write" /\ rest[t] = <<>>
    /\ state' = Woken("rsleep")
    /\ Leave(t)
    /\ UNCHANGED <<pipe, rest, want, sent, rcvd>>

-----------------------------------------------------------------------------
\* piperead(f, str, n)
ReadCall(t) ==
    /\ readopen /\ Enter(t, "user", "rtest")
    /\ \E n \in 0..MaxCall : want' = [want EXCEPT ![t] = n]
    /\ UNCHANGED <<pipe, state, rest, sent, rcvd>>

\* while(pi->nread == pi->nwrite && pi->writeopen) sleep(...)
ReadTest(t) ==
    /\ pc[t] = "rtest"
    /\ IF Empty /\ writeopen
         THEN SleepAt(t, "rsleep", state)
         ELSE pc' = [pc EXCEPT ![t] = "read"] /\ UNCHANGED <<lock, state>>
    /\ UNCHANGED <<pipe, rest, want, sent, rcvd>>

ReadResume(t) ==
    /\ Enter(t, "rsleep", "rtest")
    /\ UNCHANGED <<pipe, state, rest, want, sent, rcvd>>

ReadByte(t) ==
    /\ pc[t] = "read" /\ want[t] > 0 /\ ~Empty
    /\ rcvd'  = Append(rcvd, data[nread % PIPESIZE])
    /\ nread' = Bumped(nread)
    /\ want'  = [want EXCEPT ![t] = @ - 1]
    /\ UNCHANGED <<data, nwrite, readopen, writeopen, lock, state, pc, rest, sent>>

ReadReturn(t) ==
    /\ pc[t] = "read" /\ (want[t] = 0 \/ Empty)
    /\ state' = Woken("wsleep")
    /\ want' = [want EXCEPT ![t] = 0]
    /\ Leave(t)
    /\ UNCHANGED <<pipe, rest, sent, rcvd>>

-----------------------------------------------------------------------------
\* pipeclose(): frelease() calls it for the last reference to an end, so no
\* task is inside a call on that end.
CloseWrite ==
    /\ lock = Nobody /\ writeopen
    /\ \A t \in Writers : pc[t] = "user"
    /\ writeopen' = FALSE
    /\ state' = Woken("rsleep")
    /\ UNCHANGED <<data, nread, nwrite, readopen, lock, pc, rest, want, sent, rcvd>>

CloseRead ==
    /\ lock = Nobody /\ readopen
    /\ \A t \in Readers : pc[t] = "user"
    /\ readopen' = FALSE
    /\ state' = Woken("wsleep")
    /\ UNCHANGED <<data, nread, nwrite, writeopen, lock, pc, rest, want, sent, rcvd>>

\* A child's exit() makes its sleeping parent ready, whatever it waits for.
ChildExits(t) ==
    /\ state[t] = "SLEEPING"
    /\ state' = [state EXCEPT ![t] = "READY"]
    /\ UNCHANGED <<pipe, lock, pc, rest, want, sent, rcvd>>

WriterStep(t) == WriteCall(t) \/ WriteByte(t) \/ WriteFull(t) \/ WriteResume(t) \/ WriteReturn(t)
ReaderStep(t) == ReadCall(t) \/ ReadTest(t) \/ ReadResume(t) \/ ReadByte(t) \/ ReadReturn(t)

Next ==
    \/ \E t \in Writers : WriterStep(t)
    \/ \E t \in Readers : ReaderStep(t)
    \/ CloseWrite \/ CloseRead
    \/ \E t \in Tasks : ChildExits(t)

Spec == Init /\ [][Next]_vars

-----------------------------------------------------------------------------
\* No wakeup is lost: whenever the lock is free, a writer asleep faces a full
\* ring that a reader can still drain, and a reader asleep faces an empty ring
\* that a writer can still fill.
NoLostWakeup ==
    lock = Nobody => \A t \in Tasks : state[t] = "SLEEPING" =>
        /\ pc[t] = "wsleep" => Full /\ readopen
        /\ pc[t] = "rsleep" => Empty /\ writeopen

\* Across the wraparound of both counters the pipe is a bounded FIFO: what the
\* readers get is, byte for byte and in order, what the writers put in.
Stream == INSTANCE Fifo WITH Capacity <- PIPESIZE
IsFifo == Stream!Spec

=============================================================================
