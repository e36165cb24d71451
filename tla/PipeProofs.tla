----------------------------- MODULE PipeProofs -----------------------------
(***************************************************************************)
(* Proofs about Pipe for any writers and readers, any bytes, any size of   *)
(* the ring and any range of the counters.                                 *)
(*                                                                         *)
(* NoLostWakeup speaks of the moments at which the lock is free.  In       *)
(* between, a writer may have filled a ring on which readers still sleep,  *)
(* and a reader may have drained one on which writers sleep; Reasons says  *)
(* who may break which half, and every way that task gives the lock up     *)
(* repairs it.                                                             *)
(*                                                                         *)
(* InRing ties the counters and the ring to the history of the pipe; from  *)
(* it the pipe implements Fifo.                                            *)
(***************************************************************************)
EXTENDS Pipe, SequenceTheorems, TLAPS

\* Quotient and remainder.
LEMMA DivMod == ASSUME NEW n \in Nat \ {0}, NEW x \in Int
    PROVE  x \div n \in Int /\ x % n \in 0..n-1 /\ x = n * (x \div n) + (x % n)
OBVIOUS

\* A representation by quotient and remainder is the only one.
LEMMA ModUnique == ASSUME NEW n \in Nat \ {0}, NEW q \in Int, NEW s \in 0..n-1
    PROVE  (n * q + s) % n = s
OBVIOUS

\* A value in range is its own remainder.
LEMMA ModSmall == ASSUME NEW n \in Nat \ {0}, NEW x \in 0..n-1 PROVE x % n = x
OBVIOUS

\* A counter whose range is a multiple of the ring finds the same slot before and
\* after it wraps around.
LEMMA ModMod ==
    ASSUME NEW b \in Nat \ {0}, NEW k \in Nat \ {0}, NEW n \in Nat, n = k * b, NEW x \in Int
    PROVE  (x % n) % b = x % b
<1>1. n \in Nat \ {0}
  OBVIOUS
<1>2. x % n \in 0..n-1 /\ x \div n \in Int /\ x = n * (x \div n) + (x % n)
  BY <1>1, DivMod
<1>3. /\ (x % n) \div b \in Int
      /\ (x % n) % b \in 0..b-1
      /\ x % n = b * ((x % n) \div b) + ((x % n) % b)
  BY <1>2, DivMod
<1> DEFINE q == x \div n
           p == (x % n) \div b
           s == (x % n) % b
<1>4. x = (k * b) * q + (b * p + s) /\ q \in Int /\ p \in Int /\ s \in 0..b-1
  BY <1>2, <1>3
<1> HIDE DEF q, p, s
<1>5. x = b * (k * q + p) + s /\ k * q + p \in Int
  BY <1>4
<1>6. x % b = s
  BY <1>4, <1>5, ModUnique
<1>. QED BY <1>6 DEF s

\* A sum can be reduced early or late.
LEMMA ModAdd == ASSUME NEW n \in Nat \ {0}, NEW x \in Int, NEW y \in Int
    PROVE  ((x % n) + y) % n = (x + y) % n
<1>1. x % n \in 0..n-1 /\ x \div n \in Int /\ x = n * (x \div n) + (x % n)
  BY DivMod
<1> DEFINE q == x \div n
           s == x % n
<1>2. x = n * q + s /\ q \in Int /\ s \in Int
  BY <1>1
<1> HIDE DEF q, s
<1>3. /\ s + y \in Int
      /\ (s + y) % n \in 0..n-1
      /\ (s + y) \div n \in Int
      /\ s + y = n * ((s + y) \div n) + ((s + y) % n)
  <2>1. s + y \in Int
    BY <1>2
  <2>. QED BY <2>1, DivMod
<1> DEFINE p == (s + y) \div n
           u == (s + y) % n
<1>4. s + y = n * p + u /\ p \in Int /\ u \in 0..n-1
  BY <1>3
<1> HIDE DEF p, u
<1>5. x + y = n * (q + p) + u /\ q + p \in Int
  BY <1>2, <1>4
<1>6. (x + y) % n = u
  BY <1>4, <1>5, ModUnique
<1>. QED BY <1>6 DEF u, s

\* Two numbers less than n apart have different remainders.
LEMMA ModEqual ==
    ASSUME NEW n \in Nat \ {0}, NEW x \in Int, NEW y \in Int, x % n = y % n, x - y < n, y - x < n
    PROVE  x = y
<1>1. /\ x \div n \in Int
      /\ x = n * (x \div n) + (x % n)
      /\ y \div n \in Int
      /\ y = n * (y \div n) + (y % n)
      /\ x % n \in Int
  BY DivMod
<1> DEFINE q == x \div n
           p == y \div n
<1>2. x - y = n * (q - p) /\ q \in Int /\ p \in Int
  BY <1>1
<1> HIDE DEF q, p
<1>3. q - p < 1
  BY <1>2
<1>4. p - q < 1
  BY <1>2
<1>. QED BY <1>2, <1>3, <1>4

\* A task is at the places of its own end of the pipe; it is inside a call, and
\* not asleep in it, exactly while it owns the lock.
Placed ==
    /\ \A t \in Writers : pc[t] \in {"user", "write", "wsleep"}
    /\ \A t \in Readers : pc[t] \in {"user", "rtest", "rsleep", "read"}
    /\ \A t \in Tasks : lock = t <=> pc[t] \in {"write", "rtest", "read"}
    /\ \A t \in Tasks : state[t] = "SLEEPING" => pc[t] \in {"wsleep", "rsleep"}

\* No call is under way on an end that is closed.
Closed ==
    /\ ~writeopen => \A t \in Writers : pc[t] = "user"
    /\ ~readopen  => \A t \in Readers : pc[t] = "user"

WriterAsleep == \E t \in Tasks : state[t] = "SLEEPING" /\ pc[t] = "wsleep"
ReaderAsleep == \E t \in Tasks : state[t] = "SLEEPING" /\ pc[t] = "rsleep"
Writing == \E t \in Tasks : pc[t] = "write"
Reading == \E t \in Tasks : pc[t] = "read"

\* Whoever sleeps has a reason, but for the task that copies and will wake it.
Reasons ==
    /\ WriterAsleep => readopen  /\ (Full  \/ Reading)
    /\ ReaderAsleep => writeopen /\ (Empty \/ Writing)

PipeInv == TypeOK /\ Placed /\ Closed /\ Reasons

-----------------------------------------------------------------------------
\* What the assumptions say of tasks.
LEMMA TaskFacts == Nobody \notin Tasks /\ Writers \cap Readers = {}
BY TasksAssumption DEF Tasks

\* Counters stay in their range,
LEMMA BumpedUint == ASSUME NEW k \in Uint PROVE Bumped(k) \in Uint
<1>1. UintRange \in Nat \ {0}
  BY SizeAssumption
<1>2. (k + 1) % UintRange \in 0..UintRange-1
  BY <1>1 DEF Uint
<1>. QED BY <1>2 DEF Bumped, Uint

\* and lead to a slot of the ring.
LEMMA SlotExists == ASSUME NEW k \in Uint PROVE k % PIPESIZE \in Slots
BY SizeAssumption DEF Uint, Slots

\* wakeup() leaves states.
LEMMA WokenType ==
    ASSUME TypeOK, NEW place PROVE Woken(place) \in [Tasks -> {"READY", "SLEEPING"}]
BY DEF TypeOK, Woken

\* The invariant holds at first.
LEMMA InitInv == Init => PipeInv
<1>. SUFFICES ASSUME Init PROVE PipeInv
  OBVIOUS
<1>1. 0 \in Uint
  BY SizeAssumption DEF Uint
<1>2. TypeOK
  BY <1>1, BoundAssumption DEF Init, TypeOK, Places
<1>3. Placed /\ Closed /\ Reasons
  BY TaskFacts DEF Init, Placed, Closed, Reasons, WriterAsleep, ReaderAsleep, Tasks
<1>. QED BY <1>2, <1>3 DEF PipeInv

-----------------------------------------------------------------------------
\* Types.
LEMMA TypeStep == TypeOK /\ [Next]_vars => TypeOK'
<1>. SUFFICES ASSUME TypeOK, [Next]_vars PROVE TypeOK'
  OBVIOUS
<1>. USE DEF TypeOK, Places, pipe
<1>t. Writers \subseteq Tasks /\ Readers \subseteq Tasks
  BY DEF Tasks
<1>1. ASSUME NEW t \in Writers, WriteCall(t) PROVE TypeOK'
  <2>1. PICK k \in 0..MaxCall : \E str \in [1..k -> Byte] : rest' = [rest EXCEPT ![t] = str]
    BY <1>1 DEF WriteCall
  <2>2. PICK str \in [1..k -> Byte] : rest' = [rest EXCEPT ![t] = str]
    BY <2>1
  <2>3. str \in Seq(Byte)
    BY BoundAssumption, SeqDef
  <2>4. rest' \in [Tasks -> Seq(Byte)]
    BY <2>2, <2>3
  <2>. QED BY <1>1, <1>t, <2>4 DEF WriteCall, Enter
<1>2. ASSUME NEW t \in Writers, WriteByte(t) PROVE TypeOK'
  <2>1. rest[t] \in Seq(Byte) /\ rest[t] # <<>>
    BY <1>2, <1>t DEF WriteByte
  <2>2. Head(rest[t]) \in Byte /\ Tail(rest[t]) \in Seq(Byte)
    BY <2>1
  <2>3. nwrite' \in Uint
    BY <1>2, BumpedUint DEF WriteByte
  <2>4. data' \in [Slots -> Byte] /\ sent' \in Seq(Byte)
    <3>1. /\ data' = [data EXCEPT ![nwrite % PIPESIZE] = Head(rest[t])]
          /\ sent' = Append(sent, Head(rest[t]))
      BY <1>2 DEF WriteByte
    <3>2. \A b \in Byte : Append(sent, b) \in Seq(Byte)
      OBVIOUS
    <3>3. \A b \in Byte : [data EXCEPT ![nwrite % PIPESIZE] = b] \in [Slots -> Byte]
      OBVIOUS
    <3>. QED BY ONLY <2>2, <3>1, <3>2, <3>3
  <2>5. rest' \in [Tasks -> Seq(Byte)]
    <3>1. rest' = [rest EXCEPT ![t] = Tail(rest[t])]
      BY <1>2 DEF WriteByte
    <3>. QED BY <2>2, <3>1
  <2>. QED BY <1>2, <2>3, <2>4, <2>5 DEF WriteByte
<1>3. ASSUME NEW t \in Writers, WriteFull(t) PROVE TypeOK'
  <2>1. UNCHANGED <<pipe, want, sent, rcvd>>
    BY <1>3 DEF WriteFull
  <2>2. CASE readopen
    <3>1. SleepAt(t, "wsleep", Woken("rsleep")) /\ UNCHANGED rest
      BY <1>3, <2>2 DEF WriteFull
    <3>2. state' \in [Tasks -> {"READY", "SLEEPING"}]
      BY <3>1, WokenType DEF SleepAt
    <3>. QED BY <2>1, <3>1, <3>2 DEF SleepAt
  <2>3. CASE ~readopen
    <3>1. Leave(t) /\ rest' = [rest EXCEPT ![t] = <<>>] /\ UNCHANGED state
      BY <1>3, <2>3 DEF WriteFull
    <3>2. <<>> \in Seq(Byte)
      BY EmptySeq
    <3>3. rest' \in [Tasks -> Seq(Byte)]
      BY <3>1, <3>2
    <3>. QED BY <2>1, <3>1, <3>3 DEF Leave
  <2>. QED BY <2>2, <2>3
<1>4. ASSUME NEW t \in Writers, WriteResume(t) PROVE TypeOK'
  BY <1>4, <1>t DEF WriteResume, Enter
<1>5. ASSUME NEW t \in Writers, WriteReturn(t) PROVE TypeOK'
  BY <1>5, <1>t, WokenType DEF WriteReturn, Leave
<1>6. ASSUME NEW t \in Readers, ReadCall(t) PROVE TypeOK'
  BY <1>6, <1>t, BoundAssumption DEF ReadCall, Enter
<1>7. ASSUME NEW t \in Readers, ReadTest(t) PROVE TypeOK'
  BY <1>7, <1>t DEF ReadTest, SleepAt
<1>8. ASSUME NEW t \in Readers, ReadResume(t) PROVE TypeOK'
  BY <1>8, <1>t DEF ReadResume, Enter
<1>9. ASSUME NEW t \in Readers, ReadByte(t) PROVE TypeOK'
  <2>1. data[nread % PIPESIZE] \in Byte
    BY SlotExists
  <2>2. nread' \in Uint
    BY <1>9, BumpedUint DEF ReadByte
  <2>3. rcvd' \in Seq(Byte) /\ want' \in [Tasks -> Nat]
    BY <1>9, <1>t, <2>1 DEF ReadByte
  <2>. QED BY <1>9, <2>2, <2>3 DEF ReadByte
<1>10. ASSUME NEW t \in Readers, ReadReturn(t) PROVE TypeOK'
  BY <1>10, <1>t, WokenType DEF ReadReturn, Leave
<1>11. CASE CloseWrite \/ CloseRead
  BY <1>11, WokenType DEF CloseWrite, CloseRead
<1>12. ASSUME NEW t \in Tasks, ChildExits(t) PROVE TypeOK'
  BY <1>12 DEF ChildExits
<1>13. CASE UNCHANGED vars
  BY <1>13 DEF vars
<1>. QED BY <1>1, <1>2, <1>3, <1>4, <1>5, <1>6, <1>7, <1>8, <1>9, <1>10, <1>11, <1>12, <1>13
        DEF Next, WriterStep, ReaderStep

-----------------------------------------------------------------------------
\* Places and the lock go together; closing waits for the calls on its end.
LEMMA PlaceStep == PipeInv /\ [Next]_vars => Placed' /\ Closed'
<1>. SUFFICES ASSUME TypeOK, Placed, Closed, [Next]_vars PROVE Placed' /\ Closed'
  BY DEF PipeInv
<1>. USE TaskFacts DEF TypeOK, Placed, Closed, Tasks, pipe
<1>1. ASSUME NEW t \in Writers, WriteCall(t) PROVE Placed' /\ Closed'
  BY <1>1 DEF WriteCall, Enter
<1>2. ASSUME NEW t \in Writers, WriteByte(t) PROVE Placed' /\ Closed'
  BY <1>2 DEF WriteByte
<1>3. ASSUME NEW t \in Writers, WriteFull(t) PROVE Placed' /\ Closed'
  <2>1. pc[t] = "write" /\ UNCHANGED <<readopen, writeopen>>
    BY <1>3 DEF WriteFull
  <2>2. CASE readopen
    <3>1. SleepAt(t, "wsleep", Woken("rsleep"))
      BY <1>3, <2>2 DEF WriteFull
    <3>2. \A x \in Tasks : state'[x] = "SLEEPING" => x = t \/ state[x] = "SLEEPING"
      BY <3>1 DEF SleepAt, Woken
    <3>. QED BY <2>1, <2>2, <3>1, <3>2 DEF SleepAt
  <2>3. CASE ~readopen
    <3>1. Leave(t) /\ UNCHANGED state
      BY <1>3, <2>3 DEF WriteFull
    <3>. QED BY <2>1, <3>1 DEF Leave
  <2>. QED BY <2>2, <2>3
<1>4. ASSUME NEW t \in Writers, WriteResume(t) PROVE Placed' /\ Closed'
  BY <1>4 DEF WriteResume, Enter
<1>5. ASSUME NEW t \in Writers, WriteReturn(t) PROVE Placed' /\ Closed'
  BY <1>5 DEF WriteReturn, Leave, Woken
<1>6. ASSUME NEW t \in Readers, ReadCall(t) PROVE Placed' /\ Closed'
  BY <1>6 DEF ReadCall, Enter
<1>7. ASSUME NEW t \in Readers, ReadTest(t) PROVE Placed' /\ Closed'
  <2>1. pc[t] = "rtest" /\ UNCHANGED <<readopen, writeopen>>
    BY <1>7 DEF ReadTest
  <2>2. CASE Empty /\ writeopen
    <3>1. SleepAt(t, "rsleep", state)
      BY <1>7, <2>2 DEF ReadTest
    <3>. QED BY <2>1, <2>2, <3>1 DEF SleepAt
  <2>3. CASE ~(Empty /\ writeopen)
    <3>1. pc' = [pc EXCEPT ![t] = "read"] /\ UNCHANGED <<lock, state>>
      BY <1>7, <2>3 DEF ReadTest
    <3>. QED BY <2>1, <3>1
  <2>. QED BY <2>2, <2>3
<1>8. ASSUME NEW t \in Readers, ReadResume(t) PROVE Placed' /\ Closed'
  BY <1>8 DEF ReadResume, Enter
<1>9. ASSUME NEW t \in Readers, ReadByte(t) PROVE Placed' /\ Closed'
  BY <1>9 DEF ReadByte
<1>10. ASSUME NEW t \in Readers, ReadReturn(t) PROVE Placed' /\ Closed'
  BY <1>10 DEF ReadReturn, Leave, Woken
<1>11. CASE CloseWrite
  BY <1>11 DEF CloseWrite, Woken
<1>12. CASE CloseRead
  BY <1>12 DEF CloseRead, Woken
<1>13. ASSUME NEW t \in Tasks, ChildExits(t) PROVE Placed' /\ Closed'
  BY <1>13 DEF ChildExits
<1>14. CASE UNCHANGED vars
  BY <1>14 DEF vars
<1>. QED BY <1>1, <1>2, <1>3, <1>4, <1>5, <1>6, <1>7, <1>8, <1>9, <1>10, <1>11, <1>12, <1>13, <1>14
        DEF Next, WriterStep, ReaderStep

\* Every step keeps the reasons of those who sleep, or wakes them.
LEMMA ReasonStep == PipeInv /\ [Next]_vars => Reasons'
<1>. SUFFICES ASSUME TypeOK, Placed, Closed, Reasons, [Next]_vars PROVE Reasons'
  BY DEF PipeInv
<1>. USE TaskFacts DEF TypeOK, Placed, Reasons, WriterAsleep, ReaderAsleep, Writing, Reading, Tasks, pipe
<1>1. ASSUME NEW t \in Writers, WriteCall(t) PROVE Reasons'
  BY <1>1 DEF WriteCall, Enter, Full, Empty
\* The ring was not full and no reader copies: no writer is asleep.
<1>2. ASSUME NEW t \in Writers, WriteByte(t) PROVE Reasons'
  BY <1>2 DEF WriteByte
\* The readers are woken before the writer sleeps; on a pipe that nobody reads
\* none is asleep.
<1>3. ASSUME NEW t \in Writers, WriteFull(t) PROVE Reasons'
  <2>1. pc[t] = "write" /\ Full /\ UNCHANGED pipe
    BY <1>3 DEF WriteFull
  <2>2. Full'
    BY <2>1 DEF Full
  <2>3. CASE readopen
    <3>1. SleepAt(t, "wsleep", Woken("rsleep"))
      BY <1>3, <2>3 DEF WriteFull
    <3>2. ~ReaderAsleep'
      BY <3>1 DEF SleepAt, Woken
    <3>. QED BY <2>1, <2>2, <2>3, <3>2
  <2>4. CASE ~readopen
    <3>1. Leave(t) /\ UNCHANGED state
      BY <1>3, <2>4 DEF WriteFull
    <3>2. ~ReaderAsleep' /\ ~WriterAsleep'
      BY <2>1, <2>4, <3>1 DEF Leave, Closed
    <3>. QED BY <3>2
  <2>. QED BY <2>3, <2>4
<1>4. ASSUME NEW t \in Writers, WriteResume(t) PROVE Reasons'
  BY <1>4 DEF WriteResume, Enter, Full, Empty
<1>5. ASSUME NEW t \in Writers, WriteReturn(t) PROVE Reasons'
  BY <1>5 DEF WriteReturn, Leave, Woken, Full
<1>6. ASSUME NEW t \in Readers, ReadCall(t) PROVE Reasons'
  BY <1>6 DEF ReadCall, Enter, Full, Empty
<1>7. ASSUME NEW t \in Readers, ReadTest(t) PROVE Reasons'
  <2>1. pc[t] = "rtest" /\ UNCHANGED pipe
    BY <1>7 DEF ReadTest
  <2>2. (Full <=> Full') /\ (Empty <=> Empty')
    BY <2>1 DEF Full, Empty
  <2>3. CASE Empty /\ writeopen
    <3>1. SleepAt(t, "rsleep", state)
      BY <1>7, <2>3 DEF ReadTest
    <3>. QED BY <2>1, <2>2, <2>3, <3>1 DEF SleepAt
  <2>4. CASE ~(Empty /\ writeopen)
    BY <1>7, <2>1, <2>2, <2>4 DEF ReadTest
  <2>. QED BY <2>3, <2>4
<1>8. ASSUME NEW t \in Readers, ReadResume(t) PROVE Reasons'
  BY <1>8 DEF ReadResume, Enter, Full, Empty
\* The ring was not empty and no writer copies: no reader is asleep.
<1>9. ASSUME NEW t \in Readers, ReadByte(t) PROVE Reasons'
  BY <1>9 DEF ReadByte
<1>10. ASSUME NEW t \in Readers, ReadReturn(t) PROVE Reasons'
  BY <1>10 DEF ReadReturn, Leave, Woken, Empty
<1>11. CASE CloseWrite
  BY <1>11 DEF CloseWrite, Woken, Full
<1>12. CASE CloseRead
  BY <1>12 DEF CloseRead, Woken, Empty
<1>13. ASSUME NEW t \in Tasks, ChildExits(t) PROVE Reasons'
  BY <1>13 DEF ChildExits, Full, Empty
<1>14. CASE UNCHANGED vars
  BY <1>14 DEF vars, Full, Empty
<1>. QED BY <1>1, <1>2, <1>3, <1>4, <1>5, <1>6, <1>7, <1>8, <1>9, <1>10, <1>11, <1>12, <1>13, <1>14
        DEF Next, WriterStep, ReaderStep

\* and always.
LEMMA Invariance == Spec => []PipeInv
<1>1. PipeInv /\ [Next]_vars => PipeInv'
  BY TypeStep, PlaceStep, ReasonStep DEF PipeInv
<1>. QED BY InitInv, <1>1, PTL DEF Spec

-----------------------------------------------------------------------------
\* pipewrite(), piperead() and pipeclose() keep every variable in its range.
THEOREM TypeCorrect == Spec => []TypeOK
BY Invariance, PTL DEF PipeInv

\* Whenever pi->lock is free, a sleeping writer faces a full ring that can still
\* be drained, a sleeping reader an empty one that can still be filled.
THEOREM WakeupsKept == Spec => []NoLostWakeup
<1>1. PipeInv => NoLostWakeup
  BY TaskFacts DEF PipeInv, Placed, Reasons, WriterAsleep, ReaderAsleep, Writing, Reading, NoLostWakeup
<1>. QED BY Invariance, <1>1, PTL

-----------------------------------------------------------------------------
(* The pipe is a bounded FIFO.                                             *)

\* The counters count what has been sent and received, modulo their range; what
\* is in transit is in the ring, each byte in the slot of its number.
InRing ==
    /\ Len(rcvd) <= Len(sent) /\ Len(sent) <= Len(rcvd) + PIPESIZE
    /\ nwrite = Len(sent) % UintRange
    /\ nread  = Len(rcvd) % UintRange
    /\ \A k \in Len(rcvd)+1..Len(sent) : data[(k - 1) % PIPESIZE] = sent[k]

\* The ring is smaller than the range of the counters.
LEMMA Sizes == PIPESIZE \in Nat \ {0} /\ UintRange \in Nat \ {0} /\ PIPESIZE < UintRange
BY SizeAssumption

\* One step of a counter, or of one that is ahead by the size of the ring.
LEMMA CounterPlus ==
    ASSUME NEW k \in Nat, NEW d \in Nat PROVE ((k % UintRange) + d) % UintRange = (k + d) % UintRange
<1>1. UintRange \in Nat \ {0} /\ k \in Int /\ d \in Int
  BY Sizes
<1>. QED BY ONLY <1>1, ModAdd

\* The counter of the k-th byte leads to the slot k % PIPESIZE.
LEMMA SlotOf == ASSUME NEW k \in Nat PROVE (k % UintRange) % PIPESIZE = k % PIPESIZE
<1>1. PICK m \in Nat \ {0} : UintRange = m * PIPESIZE
  BY SizeAssumption
<1>2. UintRange \in Nat /\ PIPESIZE \in Nat \ {0} /\ k \in Int
  BY Sizes
<1>. QED BY ONLY <1>1, <1>2, ModMod

\* The ring is full exactly when PIPESIZE bytes are in transit, empty exactly
\* when none is.
LEMMA Counters ==
    ASSUME TypeOK, InRing
    PROVE  /\ Full  <=> Len(sent) = Len(rcvd) + PIPESIZE
           /\ Empty <=> Len(sent) = Len(rcvd)
<1>1. Len(sent) \in Nat /\ Len(rcvd) \in Nat
  BY DEF TypeOK
<1>2. ((Len(rcvd) % UintRange) + PIPESIZE) % UintRange = (Len(rcvd) + PIPESIZE) % UintRange
  BY <1>1, Sizes, CounterPlus
<1>3. Full <=> Len(sent) % UintRange = (Len(rcvd) + PIPESIZE) % UintRange
  BY <1>2 DEF Full, InRing
<1>4. ASSUME Full PROVE Len(sent) = Len(rcvd) + PIPESIZE
  <2> DEFINE i == Len(sent)
             j == Len(rcvd) + PIPESIZE
  <2>1. i \in Int /\ j \in Int /\ i - j < UintRange /\ j - i < UintRange
    BY <1>1, Sizes DEF InRing
  <2>2. i % UintRange = j % UintRange
    BY <1>3, <1>4
  <2> HIDE DEF i, j
  <2>3. i = j
    BY ONLY <2>1, <2>2, Sizes, ModEqual
  <2>. QED BY <2>3 DEF i, j
<1>5. ASSUME Empty PROVE Len(sent) = Len(rcvd)
  <2>1. Len(sent) - Len(rcvd) < UintRange /\ Len(rcvd) - Len(sent) < UintRange
    BY <1>1, Sizes DEF InRing
  <2>. QED BY <1>1, <1>5, <2>1, Sizes, ModEqual DEF InRing, Empty
<1>. QED BY <1>3, <1>4, <1>5 DEF InRing, Empty

\* The pipe starts empty.
LEMMA InitRing == Init => InRing
BY Sizes, ModSmall DEF Init, InRing

\* A write puts its byte where no byte in transit is.
LEMMA PutStep ==
    ASSUME TypeOK, InRing, NEW t \in Writers, WriteByte(t)
    PROVE  InRing' /\ Stream!Put
<1>1. Len(sent) \in Nat /\ Len(rcvd) \in Nat
  BY DEF TypeOK
<1>2. Len(sent) < Len(rcvd) + PIPESIZE
  BY <1>1, Sizes, Counters DEF WriteByte, InRing
<1> DEFINE b == Head(rest[t])
<1>3. b \in Byte
  BY DEF WriteByte, TypeOK, Tasks
<1>4. sent' = Append(sent, b) /\ rcvd' = rcvd /\ nread' = nread /\ sent \in Seq(Byte)
  BY DEF WriteByte, TypeOK
<1> HIDE DEF b
<1>5. Len(sent') = Len(sent) + 1 /\ sent'[Len(sent) + 1] = b
  BY <1>3, <1>4
<1>6. \A k \in 1..Len(sent) : sent'[k] = sent[k]
  BY <1>3, <1>4
<1>7. nwrite' = Len(sent') % UintRange
  <2>1. ((Len(sent) % UintRange) + 1) % UintRange = (Len(sent) + 1) % UintRange
    BY <1>1, Sizes, CounterPlus
  <2>. QED BY <2>1, <1>5 DEF WriteByte, Bumped, InRing
<1>8. nwrite % PIPESIZE = Len(sent) % PIPESIZE /\ Len(sent) % PIPESIZE \in Slots
  <2>1. nwrite % PIPESIZE = Len(sent) % PIPESIZE
    BY <1>1, SlotOf DEF InRing
  <2>2. Len(sent) % PIPESIZE \in 0..PIPESIZE-1
    BY <1>1, Sizes, DivMod
  <2>. QED BY <2>1, <2>2 DEF Slots
<1>9. data' = [data EXCEPT ![Len(sent) % PIPESIZE] = b]
  BY <1>8 DEF WriteByte, b
<1>10. ASSUME NEW k \in Len(rcvd)+1..Len(sent') PROVE data'[(k - 1) % PIPESIZE] = sent'[k]
  <2>1. CASE k = Len(sent) + 1
    BY <2>1, <1>1, <1>5, <1>8, <1>9 DEF TypeOK
  <2>2. CASE k # Len(sent) + 1
    <3>1. k \in Len(rcvd)+1..Len(sent)
      BY <1>1, <1>5, <2>2
    <3>2. (k - 1) % PIPESIZE # Len(sent) % PIPESIZE
      <4>1. /\ k - 1 \in Int /\ Len(sent) \in Int /\ k - 1 # Len(sent)
            /\ (k - 1) - Len(sent) < PIPESIZE /\ Len(sent) - (k - 1) < PIPESIZE
        BY <1>1, <1>2, <3>1, Sizes
      <4>. QED BY ONLY <4>1, Sizes, ModEqual
    <3>3. data[(k - 1) % PIPESIZE] = sent[k]
      BY <3>1 DEF InRing
    <3>4. (k - 1) % PIPESIZE \in Slots
      BY <1>1, <3>1, Sizes DEF Slots
    <3>5. sent'[k] = sent[k]
      BY <1>1, <1>6, <3>1
    <3>. QED BY <1>9, <3>2, <3>3, <3>4, <3>5 DEF TypeOK
  <2>. QED BY <2>1, <2>2
<1>11. InRing'
  <2>1. nread' = Len(rcvd') % UintRange
    BY <1>4 DEF InRing
  <2>2. Len(rcvd') <= Len(sent') /\ Len(sent') <= Len(rcvd') + PIPESIZE
    BY <1>1, <1>2, <1>4, <1>5, Sizes DEF InRing
  <2>3. \A k \in Len(rcvd')+1..Len(sent') : data'[(k - 1) % PIPESIZE] = sent'[k]
    BY <1>4, <1>10
  <2>. QED BY <1>7, <2>1, <2>2, <2>3 DEF InRing
<1>12. Stream!Put
  BY <1>1, <1>2, <1>3, <1>4, Sizes DEF Stream!Put
<1>. QED BY <1>11, <1>12

\* A read takes the oldest byte in transit.
LEMMA GetStep ==
    ASSUME TypeOK, InRing, NEW t \in Readers, ReadByte(t)
    PROVE  InRing' /\ Stream!Get
<1>1. Len(sent) \in Nat /\ Len(rcvd) \in Nat
  BY DEF TypeOK
<1>2. Len(rcvd) < Len(sent)
  BY <1>1, Counters DEF ReadByte, InRing
<1>3. nread % PIPESIZE = Len(rcvd) % PIPESIZE
  BY <1>1, SlotOf DEF InRing
<1>4. data[nread % PIPESIZE] = sent[Len(rcvd) + 1]
  <2>1. Len(rcvd) + 1 \in Len(rcvd)+1..Len(sent)
    BY <1>1, <1>2
  <2>2. data[(Len(rcvd) + 1 - 1) % PIPESIZE] = sent[Len(rcvd) + 1]
    BY <2>1 DEF InRing
  <2>. QED BY <1>1, <1>3, <2>2
<1>5. rcvd' = Append(rcvd, sent[Len(rcvd) + 1]) /\ sent' = sent
  BY <1>4 DEF ReadByte
<1>6. Len(rcvd') = Len(rcvd) + 1
  BY <1>1, <1>2, <1>5 DEF TypeOK
<1>7. nread' = Len(rcvd') % UintRange
  <2>1. ((Len(rcvd) % UintRange) + 1) % UintRange = (Len(rcvd) + 1) % UintRange
    BY <1>1, Sizes, CounterPlus
  <2>. QED BY <2>1, <1>6 DEF ReadByte, Bumped, InRing
<1>8. InRing'
  <2>1. nwrite' = Len(sent') % UintRange /\ data' = data
    BY <1>5 DEF InRing, ReadByte
  <2>2. Len(rcvd') <= Len(sent') /\ Len(sent') <= Len(rcvd') + PIPESIZE
    BY <1>1, <1>2, <1>5, <1>6, Sizes DEF InRing
  <2>3. \A k \in Len(rcvd')+1..Len(sent') : data'[(k - 1) % PIPESIZE] = sent'[k]
    BY <1>1, <1>5, <1>6, <2>1 DEF InRing
  <2>. QED BY <1>7, <2>1, <2>2, <2>3 DEF InRing
<1>9. Stream!Get
  BY <1>2, <1>5 DEF Stream!Get
<1>. QED BY <1>8, <1>9

\* Every other step leaves the ring and its history alone.
LEMMA OtherStep ==
    ASSUME [Next]_vars, \A t \in Writers : ~WriteByte(t), \A t \in Readers : ~ReadByte(t)
    PROVE  UNCHANGED <<data, nread, nwrite, sent, rcvd>>
BY DEF Next, WriterStep, ReaderStep, WriteCall, WriteFull, WriteResume, WriteReturn, ReadCall,
       ReadTest, ReadResume, ReadReturn, CloseWrite, CloseRead, ChildExits, vars, pipe

\* Every step is one of the FIFO, or none.
LEMMA RingStep ==
    ASSUME TypeOK, InRing, [Next]_vars
    PROVE  InRing' /\ [Stream!Next]_<<sent, rcvd>>
<1>1. CASE \E t \in Writers : WriteByte(t)
  BY <1>1, PutStep DEF Stream!Next
<1>2. CASE \E t \in Readers : ReadByte(t)
  BY <1>2, GetStep DEF Stream!Next
<1>3. CASE (\A t \in Writers : ~WriteByte(t)) /\ (\A t \in Readers : ~ReadByte(t))
  BY <1>3, OtherStep DEF InRing
<1>. QED BY <1>1, <1>2, <1>3

\* Through the wraparound of both counters the readers of a pipe get, byte for
\* byte and in order, what its writers put in: Pipe implements Fifo.
THEOREM PipeIsFifo == Spec => IsFifo
<1>1. Init => Stream!Init
  BY DEF Init, Stream!Init
<1>2. Spec => []InRing
  <2>1. TypeOK /\ InRing /\ [Next]_vars => InRing'
    BY RingStep
  <2>. QED BY <2>1, InitRing, TypeCorrect, PTL DEF Spec
<1>3. TypeOK /\ InRing /\ [Next]_vars => [Stream!Next]_<<sent, rcvd>>
  BY RingStep
<1>. QED BY <1>1, <1>2, <1>3, TypeCorrect, PTL DEF Spec, IsFifo, Stream!Spec

=============================================================================
