--------------------------- MODULE ConsoleProofs ---------------------------
(***************************************************************************)
(* Proofs about Console for any set of readers and any size of the ring.   *)
(*                                                                         *)
(* ConsoleInv says of a sleeper, at every moment, that it waits where      *)
(* wakeup() finds it and that nothing is handed over.  The lock plays no   *)
(* part in that: a call that moves r found the ring not empty, so nobody   *)
(* was asleep.                                                             *)
(*                                                                         *)
(* Window says how the three indices stand to each other through their     *)
(* wraparound, OpenLine and OneLine what lines are; from these the console *)
(* implements LineQueue, key by key and byte by byte.                      *)
(***************************************************************************)
EXTENDS Console, SequenceTheorems, TLAPS

\* Quotient and remainder.
LEMMA DivMod == ASSUME NEW d \in Nat \ {0}, NEW x \in Int
    PROVE  x \div d \in Int /\ x % d \in 0..d-1 /\ x = d * (x \div d) + (x % d)
OBVIOUS

\* A representation by quotient and remainder is the only one.
LEMMA ModUnique == ASSUME NEW d \in Nat \ {0}, NEW q \in Int, NEW s \in 0..d-1
    PROVE  (d * q + s) % d = s
OBVIOUS

\* A value in range is its own remainder.
LEMMA ModSmall == ASSUME NEW d \in Nat \ {0}, NEW x \in 0..d-1 PROVE x % d = x
OBVIOUS

\* A counter that has gone below zero once.
LEMMA ModBelow == ASSUME NEW d \in Nat \ {0}, NEW x \in -d..-1 PROVE x % d = x + d
OBVIOUS

\* A counter that has reached its range once.
LEMMA ModAbove == ASSUME NEW d \in Nat \ {0}, NEW x \in d..2*d-1 PROVE x % d = x - d
OBVIOUS

\* A counter whose range is a multiple of the ring finds the same slot before and
\* after it wraps around.
LEMMA ModMod ==
    ASSUME NEW b \in Nat \ {0}, NEW k \in Nat \ {0}, NEW d \in Nat, d = k * b, NEW x \in Int
    PROVE  (x % d) % b = x % b
<1>1. d \in Nat \ {0}
  OBVIOUS
<1>2. x % d \in 0..d-1 /\ x \div d \in Int /\ x = d * (x \div d) + (x % d)
  BY <1>1, DivMod
<1>3. /\ (x % d) \div b \in Int
      /\ (x % d) % b \in 0..b-1
      /\ x % d = b * ((x % d) \div b) + ((x % d) % b)
  BY <1>2, DivMod
<1> DEFINE q == x \div d
           p == (x % d) \div b
           s == (x % d) % b
<1>4. x = (k * b) * q + (b * p + s) /\ q \in Int /\ p \in Int /\ s \in 0..b-1
  BY <1>2, <1>3
<1> HIDE DEF q, p, s
<1>5. x = b * (k * q + p) + s /\ k * q + p \in Int
  BY <1>4
<1>6. x % b = s
  BY <1>4, <1>5, ModUnique
<1>. QED BY <1>6 DEF s

\* A sum can be reduced early or late.
LEMMA ModAdd == ASSUME NEW d \in Nat \ {0}, NEW x \in Int, NEW y \in Int
    PROVE  ((x % d) + y) % d = (x + y) % d
<1>1. x % d \in 0..d-1 /\ x \div d \in Int /\ x = d * (x \div d) + (x % d)
  BY DivMod
<1> DEFINE q == x \div d
           s == x % d
<1>2. x = d * q + s /\ q \in Int /\ s \in Int
  BY <1>1
<1> HIDE DEF q, s
<1>3. /\ s + y \in Int
      /\ (s + y) % d \in 0..d-1
      /\ (s + y) \div d \in Int
      /\ s + y = d * ((s + y) \div d) + ((s + y) % d)
  <2>1. s + y \in Int
    BY <1>2
  <2>. QED BY <2>1, DivMod
<1> DEFINE p == (s + y) \div d
           u == (s + y) % d
<1>4. s + y = d * p + u /\ p \in Int /\ u \in 0..d-1
  BY <1>3
<1> HIDE DEF p, u
<1>5. x + y = d * (q + p) + u /\ q + p \in Int
  BY <1>2, <1>4
<1>6. (x + y) % d = u
  BY <1>4, <1>5, ModUnique
<1>. QED BY <1>6 DEF u, s

\* Two numbers less than d apart have different remainders.
LEMMA ModEqual ==
    ASSUME NEW d \in Nat \ {0}, NEW x \in Int, NEW y \in Int, x % d = y % d, x - y < d, y - x < d
    PROVE  x = y
<1>1. /\ x \div d \in Int
      /\ x = d * (x \div d) + (x % d)
      /\ y \div d \in Int
      /\ y = d * (y \div d) + (y % d)
      /\ x % d \in Int
  BY DivMod
<1> DEFINE q == x \div d
           p == y \div d
<1>2. x - y = d * (q - p) /\ q \in Int /\ p \in Int
  BY <1>1
<1> HIDE DEF q, p
<1>3. q - p < 1
  BY <1>2
<1>4. p - q < 1
  BY <1>2
<1>. QED BY <1>2, <1>3, <1>4

\* Whoever sleeps does so in consoleread(), and nothing is handed over.
Sleepers == \A t \in Reader : state[t] = "SLEEPING" => pc[t] = "sleep" /\ Empty

\* What a call has copied and what it may still take stay within the request.
Copied == \A t \in Reader : Len(got[t]) + n[t] <= MaxCall

ConsoleInv == TypeOK /\ Sleepers /\ Copied

-----------------------------------------------------------------------------
\* Index arithmetic stays within the range of a uint.
LEMMA PlusUint == ASSUME NEW i \in Int, NEW k \in Int PROVE Plus(i, k) \in Uint
<1>1. UintRange \in Nat \ {0}
  BY SizeAssumption
<1>2. \A m \in Int : m % UintRange \in 0..UintRange-1
  BY <1>1
<1>. QED BY <1>2 DEF Plus, Uint

\* Every index finds a slot of the ring.
LEMMA SlotExists == ASSUME NEW i \in Uint PROVE i % INPUT_BUF \in Slots
BY SizeAssumption DEF Uint, Slots

\* The invariant holds at first.
LEMMA InitInv == Init => ConsoleInv
<1>. SUFFICES ASSUME Init PROVE ConsoleInv
  OBVIOUS
<1>1. 0 \in Uint
  BY SizeAssumption DEF Uint
<1>2. TypeOK
  BY <1>1, KeyAssumption, TaskAssumption DEF Init, TypeOK
<1>3. Sleepers /\ Copied
  BY TaskAssumption DEF Init, Sleepers, Copied
<1>. QED BY <1>2, <1>3 DEF ConsoleInv

-----------------------------------------------------------------------------
\* Every step keeps types and the bound on a call.
LEMMA TypeStep == ConsoleInv /\ [Next]_vars => TypeOK' /\ Copied'
<1>. SUFFICES ASSUME TypeOK, Copied, [Next]_vars PROVE TypeOK' /\ Copied'
  BY DEF ConsoleInv
<1>. USE DEF TypeOK, Copied
<1>1. ASSUME NEW t \in Reader, ReadCall(t) PROVE TypeOK' /\ Copied'
  BY <1>1, TaskAssumption DEF ReadCall, Enter, cons
<1>2. ASSUME NEW t \in Reader, ReadSleep(t) PROVE TypeOK' /\ Copied'
  BY <1>2 DEF ReadSleep, cons
<1>3. ASSUME NEW t \in Reader, ReadResume(t) PROVE TypeOK' /\ Copied'
  BY <1>3 DEF ReadResume, Enter, cons
<1>4. ASSUME NEW t \in Reader, ReadByte(t) PROVE TypeOK' /\ Copied'
  <2>1. At(r) \in Key
    BY SlotExists DEF At
  <2>2. r' \in Uint
    BY <1>4, PlusUint DEF ReadByte, Uint
  <2>3. got' \in [Reader -> Seq(Key)] /\ n' \in [Reader -> 0..MaxCall]
    BY <1>4, <2>1, TaskAssumption DEF ReadByte
  <2>4. \A x \in Reader : Len(got'[x]) + n'[x] = Len(got[x]) + n[x]
    <3>. TAKE x \in Reader
    <3>1. CASE x = t
      <4>1. got'[x] = Append(got[x], At(r)) /\ n'[x] = n[x] - 1
        BY <1>4, <3>1 DEF ReadByte
      <4>2. Len(got'[x]) = Len(got[x]) + 1
        BY <4>1, <2>1
      <4>. QED BY <4>1, <4>2, TaskAssumption
    <3>2. CASE x # t
      BY <1>4, <3>2 DEF ReadByte
    <3>. QED BY <3>1, <3>2
  <2>5. Copied'
    BY <2>4
  <2>6. \A x \in Reader : Len(got'[x]) <= MaxCall
    BY <2>3, <2>5, TaskAssumption
  <2>7. lock' \in Reader \cup {Nobody} /\ pc' \in [Reader -> {"user", "read", "sleep", "write"}]
    BY <1>4 DEF ReadByte, Leave
  <2>. QED BY <1>4, <2>2, <2>3, <2>5, <2>6, <2>7 DEF ReadByte
<1>5. ASSUME NEW t \in Reader, ReadEof(t) PROVE TypeOK' /\ Copied'
  <2>1. r' \in Uint
    <3>1. Plus(r, 1) \in Uint
      BY PlusUint DEF Uint
    <3>. QED BY <1>5, <3>1 DEF ReadEof
  <2>2. /\ pc' = [pc EXCEPT ![t] = "user"] /\ lock' = Nobody
        /\ UNCHANGED <<buf, w, e, state, n, got>>
    BY <1>5 DEF ReadEof, Leave
  <2>. QED BY <2>1, <2>2
<1>6. ASSUME NEW t \in Reader, ReadReturn(t) PROVE TypeOK' /\ Copied'
  BY <1>6 DEF ReadReturn, Leave, cons
<1>7. ASSUME NEW t \in Reader, WriteCall(t) \/ WriteReturn(t) PROVE TypeOK' /\ Copied'
  BY <1>7 DEF WriteCall, WriteReturn, Enter, Leave, cons
<1>8. ASSUME NEW t \in Reader, ChildExits(t) PROVE TypeOK' /\ Copied'
  BY <1>8 DEF ChildExits, cons
<1>9. ASSUME NEW c \in Key, Type(c) PROVE TypeOK' /\ Copied'
  <2>1. Plus(e, 1) \in Uint
    BY PlusUint DEF Uint
  <2>2. e' \in Uint /\ w' \in Uint
    BY <1>9, <2>1 DEF Type
  <2>3. buf' \in [Slots -> Key]
    BY <1>9 DEF Type
  <2>4. state' \in [Reader -> {"READY", "SLEEPING"}]
    BY <1>9 DEF Type, Woken
  <2>. QED BY <1>9, <2>2, <2>3, <2>4 DEF Type
<1>10. ASSUME Erase \/ Kill PROVE TypeOK' /\ Copied'
  <2>1. e' \in Uint
    <3>1. CASE Erase
      BY <3>1, PlusUint DEF Erase, Uint
    <3>2. CASE Kill
      BY <3>2, PlusUint DEF Kill, Uint
    <3>. QED BY <1>10, <3>1, <3>2
  <2>. QED BY <1>10, <2>1 DEF Erase, Kill
<1>11. CASE UNCHANGED vars
  BY <1>11 DEF vars, cons
<1>. QED BY <1>1, <1>2, <1>3, <1>4, <1>5, <1>6, <1>7, <1>8, <1>9, <1>10, <1>11
        DEF Next, ReaderStep, Interrupt

\* Every step keeps what is said of sleepers.
LEMMA SleepStep == ConsoleInv /\ [Next]_vars => Sleepers'
<1>. SUFFICES ASSUME TypeOK, Sleepers, [Next]_vars PROVE Sleepers'
  BY DEF ConsoleInv
<1>. USE DEF TypeOK, Sleepers, Empty
<1>1. ASSUME NEW t \in Reader, ReadCall(t) \/ ReadResume(t) PROVE Sleepers'
  BY <1>1 DEF ReadCall, ReadResume, Enter, cons
<1>2. ASSUME NEW t \in Reader, ReadSleep(t) PROVE Sleepers'
  BY <1>2 DEF ReadSleep, cons
\* The ring was not empty, so nobody is asleep.
<1>3. ASSUME NEW t \in Reader, ReadByte(t) \/ ReadEof(t) PROVE Sleepers'
  BY <1>3 DEF ReadByte, ReadEof
\* A call that returns was not asleep.
<1>4. ASSUME NEW t \in Reader, ReadReturn(t) \/ WriteReturn(t) PROVE Sleepers'
  BY <1>4 DEF ReadReturn, WriteReturn, Leave, cons
<1>5. ASSUME NEW t \in Reader, WriteCall(t) PROVE Sleepers'
  BY <1>5 DEF WriteCall, Enter, cons
<1>6. ASSUME NEW t \in Reader, ChildExits(t) PROVE Sleepers'
  BY <1>6 DEF ChildExits, cons
\* A hand-over wakes every sleeper.
<1>7. ASSUME NEW c \in Key, Type(c) PROVE Sleepers'
  BY <1>7 DEF Type, Woken
<1>8. ASSUME Erase \/ Kill PROVE Sleepers'
  BY <1>8 DEF Erase, Kill
<1>9. CASE UNCHANGED vars
  BY <1>9 DEF vars, cons
<1>. QED BY <1>1, <1>2, <1>3, <1>4, <1>5, <1>6, <1>7, <1>8, <1>9
        DEF Next, ReaderStep, Interrupt

\* and always.
LEMMA Invariance == Spec => []ConsoleInv
<1>1. ConsoleInv /\ [Next]_vars => ConsoleInv'
  BY TypeStep, SleepStep DEF ConsoleInv
<1>. QED BY InitInv, <1>1, PTL DEF Spec

-----------------------------------------------------------------------------
\* consoleread() and consoleintr() keep every variable in its range.
THEOREM TypeCorrect == Spec => []TypeOK
BY Invariance, PTL DEF ConsoleInv

\* No reader of the console sleeps while bytes are handed over.
THEOREM WakeupsKept == Spec => []NoLostWakeup
<1>1. ConsoleInv => NoLostWakeup
  BY DEF ConsoleInv, Sleepers, NoLostWakeup
<1>. QED BY Invariance, <1>1, PTL

-----------------------------------------------------------------------------
(* Index arithmetic: what Plus() gives, and where it leads in the ring.    *)

\* The ring is smaller than the range of the indices.
LEMMA Sizes == INPUT_BUF \in Nat \ {0} /\ UintRange \in Nat \ {0} /\ INPUT_BUF < UintRange
BY SizeAssumption

\* An index moved by less than the range of a uint wraps around once at most.
LEMMA PlusValue ==
    ASSUME NEW i \in Uint, NEW k \in Int, -UintRange < k, k < UintRange
    PROVE  Plus(i, k) = IF i + k < 0 THEN i + k + UintRange
                        ELSE IF i + k < UintRange THEN i + k ELSE i + k - UintRange
<1>1. UintRange \in Nat \ {0} /\ i \in Int /\ i >= 0 /\ i < UintRange
  BY Sizes DEF Uint
<1>2. CASE i + k < 0
  <2>1. i + k \in -UintRange..-1
    BY <1>1, <1>2
  <2>2. (i + k) % UintRange = i + k + UintRange
    BY ONLY <1>1, <2>1, ModBelow
  <2>. QED BY <1>2, <2>2 DEF Plus
<1>3. CASE i + k >= 0 /\ i + k < UintRange
  <2>1. i + k \in 0..UintRange-1
    BY <1>1, <1>3
  <2>2. (i + k) % UintRange = i + k
    BY ONLY <1>1, <2>1, ModSmall
  <2>. QED BY <1>1, <1>3, <2>2 DEF Plus
<1>4. CASE i + k >= UintRange
  <2> DEFINE x == i + k
  <2>1. x \in UintRange..2*UintRange-1
    BY <1>1, <1>4
  <2> HIDE DEF x
  <2>2. x % UintRange = x - UintRange
    BY ONLY <1>1, <2>1, ModAbove
  <2>. QED BY <1>1, <1>4, <2>2 DEF Plus, x
<1>. QED BY <1>1, <1>2, <1>3, <1>4

\* The distance from one index to another.
LEMMA Distance ==
    ASSUME NEW i \in Uint, NEW j \in Uint
    PROVE  Plus(j, -i) = IF i <= j THEN j - i ELSE j - i + UintRange
<1>1. i \in Int /\ j \in Int /\ 0 <= i /\ i < UintRange /\ 0 <= j /\ j < UintRange /\ UintRange \in Nat
  BY Sizes DEF Uint
<1> DEFINE k == -i
<1>2. k \in Int /\ -UintRange < k /\ k < UintRange /\ j + k = j - i
  BY <1>1
<1> HIDE DEF k
<1>3. Plus(j, k) = IF j + k < 0 THEN j + k + UintRange
                   ELSE IF j + k < UintRange THEN j + k ELSE j + k - UintRange
  BY <1>2, PlusValue
<1>. QED BY <1>1, <1>2, <1>3 DEF k

\* The slot of an index does not depend on where the index wraps around.
LEMMA SlotPlus ==
    ASSUME NEW i \in Uint, NEW k \in Int
    PROVE  Plus(i, k) % INPUT_BUF = (i + k) % INPUT_BUF /\ Plus(i, k) % INPUT_BUF \in Slots
<1>1. PICK m \in Nat \ {0} : UintRange = m * INPUT_BUF
  BY SizeAssumption
<1>2. UintRange \in Nat /\ INPUT_BUF \in Nat \ {0} /\ i + k \in Int
  BY Sizes DEF Uint
<1>3. ((i + k) % UintRange) % INPUT_BUF = (i + k) % INPUT_BUF
  BY ONLY <1>1, <1>2, ModMod
<1>4. (i + k) % INPUT_BUF \in 0..INPUT_BUF-1
  BY ONLY <1>2, DivMod
<1>. QED BY <1>3, <1>4 DEF Plus, Slots

\* Indices that are less than the ring apart have slots of their own.
LEMMA SlotsDiffer ==
    ASSUME NEW i \in Uint, NEW j \in Int, NEW k \in Int, j # k, j - k < INPUT_BUF, k - j < INPUT_BUF
    PROVE  Plus(i, j) % INPUT_BUF # Plus(i, k) % INPUT_BUF
<1> DEFINE x == i + j
           y == i + k
<1>1. /\ x \in Int /\ y \in Int /\ x # y /\ x - y < INPUT_BUF /\ y - x < INPUT_BUF
      /\ INPUT_BUF \in Nat \ {0}
  BY Sizes DEF Uint
<1>2. Plus(i, j) % INPUT_BUF = x % INPUT_BUF /\ Plus(i, k) % INPUT_BUF = y % INPUT_BUF
  BY SlotPlus
<1> HIDE DEF x, y
<1>3. x % INPUT_BUF # y % INPUT_BUF
  BY ONLY <1>1, ModEqual
<1>. QED BY <1>2, <1>3

\* Moving on from an index that was reached by moving.
LEMMA PlusPlus ==
    ASSUME NEW i \in Uint, NEW j \in Int, NEW k \in Int
    PROVE  Plus(Plus(i, j), k) = Plus(i, j + k)
<1> DEFINE x == i + j
<1>1. x \in Int /\ UintRange \in Nat \ {0} /\ i + (j + k) = x + k
  BY Sizes DEF Uint
<1> HIDE DEF x
<1>2. ((x % UintRange) + k) % UintRange = (x + k) % UintRange
  BY ONLY <1>1, ModAdd
<1>. QED BY <1>1, <1>2 DEF Plus, x

\* No move.
LEMMA PlusZero == ASSUME NEW i \in Uint PROVE Plus(i, 0) = i
BY Sizes, PlusValue DEF Uint

\* The distance to an index leads to it.
LEMMA PlusDistance ==
    ASSUME NEW i \in Uint, NEW j \in Uint PROVE Plus(i, Plus(j, -i)) = j /\ Plus(j, -i) \in Uint
<1>1. i \in Int /\ j \in Int /\ 0 <= i /\ i < UintRange /\ 0 <= j /\ j < UintRange /\ UintRange \in Nat
  BY Sizes DEF Uint
<1>2. Plus(j, -i) = IF i <= j THEN j - i ELSE j - i + UintRange
  BY Distance
<1>3. Plus(j, -i) \in Int /\ 0 <= Plus(j, -i) /\ Plus(j, -i) < UintRange
  BY <1>1, <1>2
<1>. QED BY <1>1, <1>2, <1>3, PlusValue DEF Uint

-----------------------------------------------------------------------------
(* Where the three indices stand to each other.                            *)

\* The two sections make up what the ring holds, which fits; a ring that is full
\* has been handed over.
Window ==
    /\ Plus(w, -r) + Plus(e, -w) = Plus(e, -r)
    /\ Plus(e, -r) <= INPUT_BUF
    /\ Plus(e, -r) = INPUT_BUF => e = w

\* The indices start together.
LEMMA InitWindow == Init => Window
BY Sizes, Distance DEF Init, Window, Uint

\* Every step keeps where they stand.
LEMMA WindowStep == TypeOK /\ Window /\ [Next]_vars => Window'
<1>. SUFFICES ASSUME TypeOK, Window, [Next]_vars PROVE Window'
  OBVIOUS
<1>0. r \in Uint /\ w \in Uint /\ e \in Uint
  BY DEF TypeOK
<1> DEFINE D(i, j) == IF i <= j THEN j - i ELSE j - i + UintRange
<1>a. Plus(w, -r) = D(r, w) /\ Plus(e, -w) = D(w, e) /\ Plus(e, -r) = D(r, e)
  BY <1>0, Distance
<1>b. ASSUME r' \in Uint, w' \in Uint, e' \in Uint
      PROVE  Window' <=> /\ D(r', w') + D(w', e') = D(r', e')
                         /\ D(r', e') <= INPUT_BUF
                         /\ D(r', e') = INPUT_BUF => e' = w'
  <2>1. Plus(w', -r') = D(r', w') /\ Plus(e', -w') = D(w', e') /\ Plus(e', -r') = D(r', e')
    BY <1>b, Distance
  <2>2. Window' <=> /\ Plus(w', -r') + Plus(e', -w') = Plus(e', -r')
                    /\ Plus(e', -r') <= INPUT_BUF
                    /\ Plus(e', -r') = INPUT_BUF => e' = w'
    BY DEF Window, Plus
  <2>. QED BY <2>1, <2>2
<1>c. \A i \in Uint : Plus(i, 1) = IF i + 1 = UintRange THEN 0 ELSE i + 1
  BY Sizes, PlusValue DEF Uint
<1>d. /\ UintRange \in Nat /\ INPUT_BUF \in Nat \ {0} /\ INPUT_BUF < UintRange
      /\ \A i : i \in Uint <=> i \in Int /\ 0 <= i /\ i < UintRange
  BY Sizes DEF Uint
<1>e. /\ D(r, w) + D(w, e) = D(r, e) /\ D(r, e) <= INPUT_BUF
      /\ D(r, e) = INPUT_BUF => e = w
  BY <1>a DEF Window
\* A byte is taken, or an end of file.
<1>1. ASSUME r' = Plus(r, 1), r # w, w' = w, e' = e PROVE Window'
  <2>1. r' = IF r + 1 = UintRange THEN 0 ELSE r + 1
    BY <1>0, <1>1, <1>c
  <2>2. r' \in Uint /\ w' \in Uint /\ e' \in Uint
    BY <2>1, <1>0, <1>1, <1>d
  <2>3. /\ D(r', w') + D(w', e') = D(r', e') /\ D(r', e') <= INPUT_BUF
        /\ D(r', e') = INPUT_BUF => e' = w'
    BY <2>1, <1>0, <1>1, <1>d, <1>e
  <2>. QED BY <2>2, <2>3, <1>b
<1>2. ASSUME NEW c \in Key, Type(c) PROVE Window'
  <2>1. e' = IF e + 1 = UintRange THEN 0 ELSE e + 1
    BY <1>0, <1>2, <1>c DEF Type
  <2>2. r' = r /\ (w' = e' \/ w' = w) /\ D(r, e) < INPUT_BUF
    BY <1>2, <1>a DEF Type
  <2>3. r' \in Uint /\ w' \in Uint /\ e' \in Uint
    BY <2>1, <2>2, <1>0, <1>d
  <2>4. w' = w => D(r, e') # INPUT_BUF \/ e' = w'
    <3>1. SUFFICES ASSUME w' = w, w' # e', D(r, e') = INPUT_BUF PROVE FALSE
      OBVIOUS
    <3>2. ~Complete(c)
      BY <1>2, <3>1 DEF Type
    <3>3. e' # Plus(r, INPUT_BUF)
      BY <1>2, <3>2 DEF Type, Complete
    <3>4. Plus(r, Plus(e', -r)) = e'
      BY <2>2, <2>3, PlusDistance
    <3>5. Plus(e', -r) = D(r, e')
      BY <2>2, <2>3, Distance
    <3>. QED BY <3>1, <3>3, <3>4, <3>5
  <2>5. /\ D(r', w') + D(w', e') = D(r', e') /\ D(r', e') <= INPUT_BUF
        /\ D(r', e') = INPUT_BUF => e' = w'
    BY <2>1, <2>2, <2>4, <1>0, <1>d, <1>e
  <2>. QED BY <2>3, <2>5, <1>b
\* The line loses its last keys.
<1>3. ASSUME NEW k \in 0..Plus(e, -w), e' = Plus(e, -k), r' = r, w' = w PROVE Window'
  <2>0. k \in Int /\ 0 <= k /\ k <= D(w, e) /\ D(w, e) < UintRange
    BY <1>a, <1>0, <1>d
  <2>1. e' = IF e - k < 0 THEN e - k + UintRange ELSE e - k
    <3>1. -k \in Int /\ -UintRange < -k /\ -k < UintRange /\ e + (-k) = e - k /\ e - k < UintRange
      BY <2>0, <1>0, <1>d
    <3>. QED BY <3>1, <1>0, <1>3, PlusValue
  <2>2. r' \in Uint /\ w' \in Uint /\ e' \in Uint
    BY <2>0, <2>1, <1>0, <1>3, <1>d
  <2>3. /\ D(r', w') + D(w', e') = D(r', e') /\ D(r', e') <= INPUT_BUF
        /\ D(r', e') = INPUT_BUF => e' = w'
    BY <2>0, <2>1, <1>0, <1>3, <1>d, <1>e
  <2>. QED BY <2>2, <2>3, <1>b
<1>4. ASSUME Erase PROVE Window'
  <2>1. D(w, e) >= 1
    BY <1>4, <1>0, <1>d DEF Erase, Erasable
  <2>2. 1 \in 0..Plus(e, -w)
    BY <2>1, <1>0, <1>a, <1>d
  <2>. QED BY <2>2, <1>3, <1>4 DEF Erase
<1>5. ASSUME Kill PROVE Window'
  BY <1>3, <1>5 DEF Kill
<1>6. ASSUME UNCHANGED <<r, w, e>> PROVE Window'
  BY <1>6 DEF Window, Plus
<1>7. ASSUME NEW t \in Reader, ReaderStep(t) PROVE Window'
  BY <1>1, <1>6, <1>7 DEF ReaderStep, ReadCall, ReadSleep, ReadResume, ReadByte, ReadEof,
       ReadReturn, WriteCall, WriteReturn, cons, Empty
<1>8. ASSUME NEW t \in Reader, ChildExits(t) PROVE Window'
  BY <1>6, <1>8 DEF ChildExits, cons
<1>. QED BY <1>2, <1>4, <1>5, <1>6, <1>7, <1>8 DEF Next, Interrupt, vars, cons

\* A ring that takes no more keys has something to read, so the keyboard cannot
\* lock up: the key that fills the ring hands it over whatever it is.
THEOREM FullIsReadableTheorem == Spec => []FullIsReadable
<1>1. TypeOK /\ Window => FullIsReadable
  <2>. SUFFICES ASSUME TypeOK, Window, Plus(e, -r) = INPUT_BUF, r = w PROVE FALSE
    BY DEF FullIsReadable, Empty
  <2>1. e = r /\ r \in Uint
    BY DEF Window, TypeOK
  <2>2. Plus(e, -r) = 0
    BY <2>1, Distance, Sizes DEF Uint
  <2>. QED BY <2>2, Sizes
<1>2. Spec => []Window
  BY InitWindow, WindowStep, TypeCorrect, PTL DEF Spec
<1>. QED BY <1>1, <1>2, TypeCorrect, PTL

-----------------------------------------------------------------------------
\* An index is a number.
LEMMA UintNat == ASSUME NEW i \in Uint PROVE i \in Nat /\ i \in Int /\ i < UintRange
BY Sizes DEF Uint

\* The next index and the one before.
LEMMA PlusOne ==
    ASSUME NEW i \in Uint
    PROVE  /\ Plus(i, 1) \in Uint  /\ Plus(i, 1)  = IF i + 1 = UintRange THEN 0 ELSE i + 1
           /\ Plus(i, -1) \in Uint /\ Plus(i, -1) = IF i = 0 THEN UintRange - 1 ELSE i - 1
<1>1. i \in Int /\ 0 <= i /\ i < UintRange /\ UintRange \in Nat /\ 1 < UintRange
  BY Sizes DEF Uint
<1>2. Plus(i, 1) = IF i + 1 = UintRange THEN 0 ELSE i + 1
  BY <1>1, PlusValue
<1> DEFINE k == -1
<1>3. k \in Int /\ -UintRange < k /\ k < UintRange /\ i + k = i - 1
  BY <1>1
<1> HIDE DEF k
<1>4. Plus(i, k) = IF i + k < 0 THEN i + k + UintRange
                   ELSE IF i + k < UintRange THEN i + k ELSE i + k - UintRange
  BY <1>3, PlusValue
<1>5. Plus(i, k) = IF i = 0 THEN UintRange - 1 ELSE i - 1
  BY <1>1, <1>3, <1>4
<1>. QED BY <1>1, <1>2, <1>5 DEF k, Uint

\* A section that loses its first or its last byte,
LEMMA Shorter ==
    ASSUME NEW i \in Uint, NEW j \in Uint, i # j
    PROVE  /\ Plus(j, -i) > 0
           /\ Plus(j, -Plus(i, 1)) = Plus(j, -i) - 1
           /\ Plus(Plus(j, -1), -i) = Plus(j, -i) - 1
<1> DEFINE h == Plus(i, 1)
           k == Plus(j, -1)
<1>1. /\ h \in Uint /\ h = IF i + 1 = UintRange THEN 0 ELSE i + 1
      /\ k \in Uint /\ k = IF j = 0 THEN UintRange - 1 ELSE j - 1
  BY PlusOne
<1> HIDE DEF h, k
<1>2. /\ Plus(j, -i) = IF i <= j THEN j - i ELSE j - i + UintRange
      /\ Plus(j, -h) = IF h <= j THEN j - h ELSE j - h + UintRange
      /\ Plus(k, -i) = IF i <= k THEN k - i ELSE k - i + UintRange
  BY <1>1, Distance
<1>3. i \in Int /\ 0 <= i /\ i < UintRange /\ j \in Int /\ 0 <= j /\ j < UintRange /\ UintRange \in Nat
  BY Sizes DEF Uint
<1>. QED BY <1>1, <1>2, <1>3 DEF h, k

\* and one that gets a byte more.
LEMMA Longer ==
    ASSUME NEW i \in Uint, NEW j \in Uint, Plus(j, -i) < INPUT_BUF
    PROVE  Plus(Plus(j, 1), -i) = Plus(j, -i) + 1
<1> DEFINE k == Plus(j, 1)
<1>1. k \in Uint /\ k = IF j + 1 = UintRange THEN 0 ELSE j + 1
  BY PlusOne
<1> HIDE DEF k
<1>2. /\ Plus(j, -i) = IF i <= j THEN j - i ELSE j - i + UintRange
      /\ Plus(k, -i) = IF i <= k THEN k - i ELSE k - i + UintRange
  BY <1>1, Distance
<1>3. i \in Int /\ 0 <= i /\ i < UintRange /\ j \in Int /\ 0 <= j /\ j < UintRange
  BY Sizes DEF Uint
<1>. QED BY <1>1, <1>2, <1>3, Sizes DEF k

-----------------------------------------------------------------------------
(* Sections of a ring b, from one index to another, as sequences.          *)

Sect(b, i, j) == [k \in 1..Plus(j, -i) |-> b[Plus(i, k - 1) % INPUT_BUF]]

\* The sections of the console are those of its ring, before and after a step.
LEMMA SectionIsSect ==
    ASSUME NEW i, NEW j PROVE Section(i, j) = Sect(buf, i, j) /\ Section(i, j)' = Sect(buf', i', j')
BY DEF Section, Sect, At, Plus

\* A section is a sequence as long as its indices are apart.
LEMMA SectSeq ==
    ASSUME NEW b \in [Slots -> Key], NEW i \in Uint, NEW j \in Uint
    PROVE  /\ Sect(b, i, j) \in Seq(Key)
           /\ Len(Sect(b, i, j)) = Plus(j, -i)
           /\ Plus(j, -i) \in Nat /\ Plus(j, -i) \in Uint
           /\ \A k \in 1..Plus(j, -i) : Sect(b, i, j)[k] = b[Plus(i, k - 1) % INPUT_BUF]
<1>1. Plus(j, -i) \in Nat /\ Plus(j, -i) \in Uint
  BY PlusDistance, UintNat
<1>2. \A k \in 1..Plus(j, -i) : b[Plus(i, k - 1) % INPUT_BUF] \in Key
  BY <1>1, SlotPlus
<1> DEFINE m == Plus(j, -i)
           s == [k \in 1..m |-> b[Plus(i, k - 1) % INPUT_BUF]]
<1>3. m \in Nat /\ s \in [1..m -> Key]
  BY <1>1, <1>2
<1> HIDE DEF m, s
<1>4. s \in Seq(Key) /\ Len(s) = m
  BY <1>3, SeqDef
<1>5. Sect(b, i, j) = s
  BY DEF Sect, s, m
<1>. QED BY <1>1, <1>4, <1>5 DEF Sect, m

\* Equal indices leave nothing between them.
LEMMA SectEmpty ==
    ASSUME NEW b \in [Slots -> Key], NEW i \in Uint, NEW j \in Uint
    PROVE  i = j <=> Sect(b, i, j) = <<>>
<1>1. Sect(b, i, j) \in Seq(Key) /\ Len(Sect(b, i, j)) = Plus(j, -i)
  BY SectSeq
<1>2. i = j <=> Plus(j, -i) = 0
  BY Distance, Sizes DEF Uint
<1>. QED BY <1>1, <1>2

\* The next index leaves out the first byte.
LEMMA SectTail ==
    ASSUME NEW b \in [Slots -> Key], NEW i \in Uint, NEW j \in Uint, i # j
    PROVE  /\ Head(Sect(b, i, j)) = b[i % INPUT_BUF]
           /\ Tail(Sect(b, i, j)) = Sect(b, Plus(i, 1), j)
<1> DEFINE s == Sect(b, i, j)
           u == Sect(b, Plus(i, 1), j)
           m == Plus(j, -i)
<1>0. Plus(i, 1) \in Uint
  BY PlusOne
<1>1. s \in Seq(Key) /\ Len(s) = m /\ m \in Nat /\ \A k \in 1..m : s[k] = b[Plus(i, k - 1) % INPUT_BUF]
  BY SectSeq
<1>2. m > 0 /\ Plus(j, -Plus(i, 1)) = m - 1
  BY Shorter
<1>3. u \in Seq(Key) /\ Len(u) = m - 1 /\ \A k \in 1..m-1 : u[k] = b[Plus(Plus(i, 1), k - 1) % INPUT_BUF]
  BY <1>0, <1>2, SectSeq
<1>4. \A k \in 1..m-1 : Plus(Plus(i, 1), k - 1) = Plus(i, (k + 1) - 1)
  <2>. TAKE k \in 1..m-1
  <2>1. Plus(Plus(i, 1), k - 1) = Plus(i, 1 + (k - 1))
    BY <1>1, PlusPlus
  <2>2. 1 + (k - 1) = (k + 1) - 1
    BY <1>1
  <2>. QED BY <2>1, <2>2
<1> HIDE DEF s, u, m
<1>5. s[1] = b[i % INPUT_BUF]
  <2>1. s[1] = b[Plus(i, 1 - 1) % INPUT_BUF]
    BY <1>1, <1>2
  <2>. QED BY <2>1, PlusZero
<1>6. \A k \in 1..m-1 : u[k] = s[k + 1]
  <2>. TAKE k \in 1..m-1
  <2>1. k + 1 \in 1..m
    BY <1>1
  <2>2. s[k + 1] = b[Plus(i, (k + 1) - 1) % INPUT_BUF]
    BY <2>1, <1>1
  <2>. QED BY <2>2, <1>3, <1>4
<1>7. Tail(s) \in Seq(Key) /\ Len(Tail(s)) = m - 1 /\ \A k \in 1..m-1 : Tail(s)[k] = s[k + 1]
  BY <1>1, <1>2
<1>8. Tail(s) = u
  BY <1>3, <1>6, <1>7, SeqEqual
<1>9. Head(s) = s[1]
  BY <1>1, <1>2
<1>. QED BY <1>5, <1>8, <1>9 DEF s, u

\* The index before leaves out the last byte.
LEMMA SectFront ==
    ASSUME NEW b \in [Slots -> Key], NEW i \in Uint, NEW j \in Uint, i # j
    PROVE  SubSeq(Sect(b, i, j), 1, Len(Sect(b, i, j)) - 1) = Sect(b, i, Plus(j, -1))
<1> DEFINE s == Sect(b, i, j)
           u == Sect(b, i, Plus(j, -1))
           m == Plus(j, -i)
<1>0. Plus(j, -1) \in Uint
  BY PlusOne
<1>1. s \in Seq(Key) /\ Len(s) = m /\ m \in Nat /\ \A k \in 1..m : s[k] = b[Plus(i, k - 1) % INPUT_BUF]
  BY SectSeq
<1>2. m > 0 /\ Plus(Plus(j, -1), -i) = m - 1
  BY Shorter
<1>3. u \in Seq(Key) /\ Len(u) = m - 1 /\ \A k \in 1..m-1 : u[k] = b[Plus(i, k - 1) % INPUT_BUF]
  BY <1>0, <1>2, SectSeq
<1> HIDE DEF s, u, m
<1>4. /\ SubSeq(s, 1, m - 1) \in Seq(Key) /\ Len(SubSeq(s, 1, m - 1)) = m - 1
      /\ \A k \in 1..m-1 : SubSeq(s, 1, m - 1)[k] = s[k]
  BY <1>1, <1>2
<1>5. \A k \in 1..m-1 : SubSeq(s, 1, m - 1)[k] = u[k]
  <2>. TAKE k \in 1..m-1
  <2>1. k \in 1..m
    BY <1>1
  <2>. QED BY <2>1, <1>1, <1>3, <1>4
<1>6. SubSeq(s, 1, m - 1) = u
  BY <1>3, <1>4, <1>5, SeqEqual
<1>. QED BY <1>1, <1>6 DEF s, u

\* A byte put where the section ends makes it longer by that byte.
LEMMA SectAppend ==
    ASSUME NEW b \in [Slots -> Key], NEW c \in Key, NEW i \in Uint, NEW j \in Uint,
           Plus(j, -i) < INPUT_BUF
    PROVE  Sect([b EXCEPT ![j % INPUT_BUF] = c], i, Plus(j, 1)) = Append(Sect(b, i, j), c)
<1> DEFINE d == [b EXCEPT ![j % INPUT_BUF] = c]
           s == Sect(b, i, j)
           u == Sect(d, i, Plus(j, 1))
           m == Plus(j, -i)
<1>0. Plus(j, 1) \in Uint /\ d \in [Slots -> Key]
  BY PlusOne
<1>1. s \in Seq(Key) /\ Len(s) = m /\ m \in Nat /\ \A k \in 1..m : s[k] = b[Plus(i, k - 1) % INPUT_BUF]
  BY SectSeq
<1>2. Plus(Plus(j, 1), -i) = m + 1
  BY Longer
<1> HIDE DEF d
<1>3. u \in Seq(Key) /\ Len(u) = m + 1 /\ \A k \in 1..m+1 : u[k] = d[Plus(i, k - 1) % INPUT_BUF]
  BY <1>0, <1>2, SectSeq
<1>4. Plus(i, m) = j
  BY PlusDistance
<1>5. \A k \in 1..m : d[Plus(i, k - 1) % INPUT_BUF] = b[Plus(i, k - 1) % INPUT_BUF]
  <2>. TAKE k \in 1..m
  <2>1. /\ k - 1 \in Int /\ m \in Int /\ k - 1 # m /\ k - 1 - m < INPUT_BUF /\ m - (k - 1) < INPUT_BUF
    BY <1>1, Sizes
  <2>2. Plus(i, k - 1) % INPUT_BUF # j % INPUT_BUF
    BY <1>4, <2>1, SlotsDiffer
  <2>. QED BY <2>1, <2>2, SlotPlus DEF d
<1>6. d[Plus(i, (m + 1) - 1) % INPUT_BUF] = c
  <2>1. j % INPUT_BUF \in Slots
    BY SlotExists
  <2>2. (m + 1) - 1 = m
    BY <1>1
  <2>. QED BY <1>4, <2>1, <2>2 DEF d
<1> HIDE DEF s, u, m
<1>7. \A k \in 1..m+1 : u[k] = IF k = m + 1 THEN c ELSE s[k]
  <2>. TAKE k \in 1..m+1
  <2>1. CASE k = m + 1
    BY <2>1, <1>3, <1>6
  <2>2. CASE k # m + 1
    <3>1. k \in 1..m
      BY <2>2, <1>1
    <3>. QED BY <2>2, <3>1, <1>1, <1>3, <1>5
  <2>. QED BY <2>1, <2>2
<1>8. /\ Append(s, c) \in Seq(Key) /\ Len(Append(s, c)) = m + 1
      /\ \A k \in 1..m+1 : Append(s, c)[k] = IF k = m + 1 THEN c ELSE s[k]
  BY <1>1
<1>9. Append(s, c) = u
  BY <1>1, <1>3, <1>7, <1>8, SeqEqual
<1>. QED BY <1>9 DEF s, u, d

\* A byte put at the end of the ring's contents changes nothing before.
LEMMA SectKeep ==
    ASSUME NEW b \in [Slots -> Key], NEW c \in Key, NEW i \in Uint, NEW h \in Uint, NEW j \in Uint,
           Plus(h, -i) <= Plus(j, -i), Plus(j, -i) < INPUT_BUF
    PROVE  Sect([b EXCEPT ![j % INPUT_BUF] = c], i, h) = Sect(b, i, h)
<1> DEFINE m == Plus(h, -i)
           n0 == Plus(j, -i)
<1>1. m \in Int /\ n0 \in Int /\ m <= n0 /\ n0 < INPUT_BUF /\ Plus(i, n0) = j /\ n0 >= 0
  BY PlusDistance DEF Uint
<1>2. ASSUME NEW k \in 1..m
      PROVE  [b EXCEPT ![j % INPUT_BUF] = c][Plus(i, k - 1) % INPUT_BUF] = b[Plus(i, k - 1) % INPUT_BUF]
  <2>1. k - 1 \in Int /\ k - 1 # n0 /\ k - 1 - n0 < INPUT_BUF /\ n0 - (k - 1) < INPUT_BUF
    BY <1>1, Sizes
  <2>2. Plus(i, k - 1) % INPUT_BUF # Plus(i, n0) % INPUT_BUF
    BY <1>1, <2>1, SlotsDiffer
  <2>3. Plus(i, k - 1) % INPUT_BUF \in Slots
    BY <2>1, SlotPlus
  <2>. QED BY <1>1, <2>2, <2>3
<1>. QED BY <1>2 DEF Sect

\* Adjacent sections make up the whole.
LEMMA SectConcat ==
    ASSUME NEW b \in [Slots -> Key], NEW i \in Uint, NEW h \in Uint, NEW j \in Uint,
           Plus(h, -i) + Plus(j, -h) = Plus(j, -i)
    PROVE  Sect(b, i, j) = Sect(b, i, h) \o Sect(b, h, j)
<1> DEFINE s == Sect(b, i, h)
           v == Sect(b, h, j)
           u == Sect(b, i, j)
           m == Plus(h, -i)
           q == Plus(j, -h)
<1>1. s \in Seq(Key) /\ Len(s) = m /\ m \in Nat /\ \A k \in 1..m : s[k] = b[Plus(i, k - 1) % INPUT_BUF]
  BY SectSeq
<1>2. v \in Seq(Key) /\ Len(v) = q /\ q \in Nat /\ \A k \in 1..q : v[k] = b[Plus(h, k - 1) % INPUT_BUF]
  BY SectSeq
<1>3. u \in Seq(Key) /\ Len(u) = m + q /\ \A k \in 1..m+q : u[k] = b[Plus(i, k - 1) % INPUT_BUF]
  BY SectSeq
<1>4. \A k \in 1..q : Plus(h, k - 1) = Plus(i, (m + k) - 1)
  <2>. TAKE k \in 1..q
  <2>1. Plus(Plus(i, m), k - 1) = Plus(i, m + (k - 1))
    BY <1>1, <1>2, PlusPlus
  <2>2. Plus(i, m) = h /\ m + (k - 1) = (m + k) - 1
    BY <1>1, <1>2, PlusDistance
  <2>. QED BY <2>1, <2>2
<1> HIDE DEF s, v, u, m, q
<1>5. \A k \in 1..q : v[k] = u[m + k]
  <2>. TAKE k \in 1..q
  <2>1. m + k \in 1..m+q
    BY <1>1, <1>2
  <2>. QED BY <2>1, <1>2, <1>3, <1>4
<1>6. \A k \in 1..m+q : u[k] = IF k <= m THEN s[k] ELSE v[k - m]
  <2>. TAKE k \in 1..m+q
  <2>1. CASE k <= m
    BY <2>1, <1>1, <1>2, <1>3
  <2>2. CASE k > m
    <3>1. k - m \in 1..q /\ m + (k - m) = k
      BY <2>2, <1>1, <1>2
    <3>. QED BY <2>2, <3>1, <1>1, <1>2, <1>5
  <2>. QED BY <2>1, <2>2, <1>1, <1>2
<1>7. /\ s \o v \in Seq(Key) /\ Len(s \o v) = m + q
      /\ \A k \in 1..m+q : (s \o v)[k] = IF k <= m THEN s[k] ELSE v[k - m]
  BY <1>1, <1>2
<1>8. s \o v = u
  <2>1. s \o v \in Seq(Key) /\ u \in Seq(Key) /\ Len(s \o v) = Len(u)
    BY <1>3, <1>7
  <2>2. \A k \in 1..m+q : (s \o v)[k] = u[k]
    BY <1>6, <1>7, Zenon
  <2>3. \A k \in 1..Len(s \o v) : (s \o v)[k] = u[k]
    BY <1>7, <2>2, Zenon
  <2>. QED BY <2>1, <2>3, SeqEqual, Zenon
<1>. QED BY <1>8 DEF s, v, u

-----------------------------------------------------------------------------
(* The console is a line queue.                                            *)

Ready == Section(r, w)
Line  == Section(w, e)

\* The line being edited holds no newline, so control-U erases all of it.
OpenLine == \A k \in 1..Len(Line) : Line[k] # NL

\* A call that goes on has not been given the end of a line.
OneLine ==
    \A t \in Reader : pc[t] \in {"read", "sleep"} /\ got[t] # <<>> => got[t][Len(got[t])] # NL

\* What the two sections of the console are,
LEMMA Sections ==
    ASSUME TypeOK
    PROVE  /\ Ready = Sect(buf, r, w) /\ Line = Sect(buf, w, e)
           /\ Ready \in Seq(Key) /\ Len(Ready) = Plus(w, -r) /\ Len(Ready) \in Nat
           /\ Line \in Seq(Key) /\ Len(Line) = Plus(e, -w) /\ Len(Line) \in Nat
           /\ \A k \in 1..Len(Line) : Line[k] = At(Plus(w, k - 1))
<1>1. buf \in [Slots -> Key] /\ r \in Uint /\ w \in Uint /\ e \in Uint
  BY DEF TypeOK
<1>2. Ready = Sect(buf, r, w) /\ Line = Sect(buf, w, e)
  BY SectionIsSect DEF Ready, Line
<1>. QED BY <1>1, <1>2, SectSeq DEF At

\* and are after a step.
LEMMA SectionsPrimed == Ready' = Sect(buf', r', w') /\ Line' = Sect(buf', w', e')
BY SectionIsSect DEF Ready, Line

\* A step that leaves the ring and its indices alone.
LEMMA KeepsSections ==
    ASSUME UNCHANGED cons PROVE Ready' = Ready /\ Line' = Line
<1>1. UNCHANGED <<buf, r, w, e>>
  BY DEF cons
<1>. QED BY <1>1, SectionsPrimed, SectionIsSect DEF Ready, Line

\* The console starts as an empty queue.
LEMMA InitQueue == Init => OpenLine /\ OneLine /\ Terminal!Init
<1>. SUFFICES ASSUME Init PROVE OpenLine /\ OneLine /\ Terminal!Init
  OBVIOUS
<1>1. TypeOK
  BY InitInv DEF ConsoleInv
<1>2. Line = <<>> /\ Ready = <<>>
  BY <1>1, Sections, SectEmpty DEF Init, TypeOK
<1>3. OpenLine
  BY <1>2 DEF OpenLine
<1>. QED BY <1>2, <1>3 DEF Init, OneLine, Terminal!Init, Ready, Line

\* The steps of the queue that a call takes: what it is given is one line.
LEMMA ReadStep ==
    ASSUME TypeOK, OneLine, NEW t \in Reader, ReadByte(t)
    PROVE  Terminal!Deliver(t) /\ Line' = Line /\ OneLine'
<1>1. /\ buf \in [Slots -> Key] /\ r \in Uint /\ w \in Uint /\ e \in Uint /\ r # w
      /\ got[t] \in Seq(Key)
  BY DEF TypeOK, ReadByte, Empty
<1>2. /\ r' = Plus(r, 1) /\ buf' = buf /\ w' = w /\ e' = e
      /\ got' = [got EXCEPT ![t] = Append(@, At(r))] /\ At(r) # EOT
  BY DEF ReadByte
<1>3. Head(Ready) = At(r) /\ Tail(Ready) = Ready' /\ Ready # <<>>
  BY <1>1, <1>2, Sections, SectionsPrimed, SectTail, SectEmpty DEF At
<1>4. Line' = Line
  BY <1>2, SectionsPrimed, Sections
<1>5. got[t] # <<>> => got[t][Len(got[t])] # NL
  BY DEF OneLine, ReadByte
<1>6. Terminal!Deliver(t)
  BY <1>2, <1>3, <1>4, <1>5 DEF Terminal!Deliver, Terminal!Last, Ready, Line
<1>7. OneLine'
  <2>. SUFFICES ASSUME NEW x \in Reader, pc'[x] \in {"read", "sleep"}, got'[x] # <<>>
                PROVE  got'[x][Len(got'[x])] # NL
    BY DEF OneLine
  <2>1. CASE x = t
    <3>1. At(r) # NL
      BY <2>1 DEF ReadByte, Leave, TypeOK
    <3>2. At(r) \in Key
      BY SlotExists, <1>1 DEF At
    <3>3. got'[x] = Append(got[t], At(r))
      BY <1>2, <2>1 DEF TypeOK
    <3>. QED BY <1>1, <3>1, <3>2, <3>3
  <2>2. CASE x # t
    BY <2>2 DEF ReadByte, Leave, OneLine, TypeOK
  <2>. QED BY <2>1, <2>2
<1>. QED BY <1>4, <1>6, <1>7

\* Control-D is used up by a call that has nothing, and kept by one that has.
LEMMA EofStep ==
    ASSUME TypeOK, OneLine, NEW t \in Reader, ReadEof(t)
    PROVE  /\ Line' = Line /\ OneLine'
           /\ Terminal!EndOfFile(t) \/ UNCHANGED <<Ready, Line, got>>
<1>1. /\ buf \in [Slots -> Key] /\ r \in Uint /\ w \in Uint /\ e \in Uint /\ r # w
  BY DEF TypeOK, ReadEof, Empty
<1>2. buf' = buf /\ w' = w /\ e' = e /\ got' = got /\ At(r) = EOT
  BY DEF ReadEof
<1>3. Line' = Line
  BY <1>2, SectionsPrimed, Sections
<1>4. CASE Keeps(t)
  <2>1. r' = r
    BY <1>4 DEF ReadEof
  <2>2. Ready' = Ready
    BY <1>2, <2>1, SectionsPrimed, Sections
  <2>. QED BY <1>2, <1>3, <2>2 DEF OneLine, ReadEof, Leave, TypeOK
<1>5. CASE ~Keeps(t)
  <2>1. r' = Plus(r, 1) /\ got[t] = <<>>
    BY <1>5 DEF ReadEof, Keeps
  <2>2. Head(Ready) = At(r) /\ Tail(Ready) = Ready' /\ Ready # <<>>
    BY <1>1, <1>2, <2>1, Sections, SectionsPrimed, SectTail, SectEmpty DEF At
  <2>3. Terminal!EndOfFile(t)
    BY <1>2, <1>3, <2>1, <2>2 DEF Terminal!EndOfFile, Ready, Line
  <2>. QED BY <1>2, <1>3, <2>3 DEF OneLine, ReadEof, Leave, TypeOK
<1>. QED BY <1>4, <1>5

\* The steps of the queue that the keyboard takes.
LEMMA KeyStep ==
    ASSUME TypeOK, Window, OpenLine, NEW c \in Key, Type(c)
    PROVE  Terminal!Type(c) /\ OpenLine'
<1>1. /\ buf \in [Slots -> Key] /\ r \in Uint /\ w \in Uint /\ e \in Uint
      /\ Plus(e, -r) < INPUT_BUF /\ Plus(w, -r) + Plus(e, -w) = Plus(e, -r)
  BY DEF TypeOK, Window, Type
<1>2. e' = Plus(e, 1) /\ r' = r /\ got' = got /\ buf' = [buf EXCEPT ![e % INPUT_BUF] = c]
  BY DEF Type
<1>3. /\ Plus(w, -r) \in Nat /\ Plus(e, -w) \in Nat /\ Plus(e, -r) \in Nat
      /\ Plus(e, -w) < INPUT_BUF /\ Plus(w, -r) <= Plus(e, -r)
  <2>1. Plus(w, -r) \in Nat /\ Plus(e, -w) \in Nat /\ Plus(e, -r) \in Nat
    BY <1>1, SectSeq
  <2>. QED BY <1>1, <2>1, Sizes
<1>4. Len(Ready) + Len(Line) = Plus(e, -r) /\ Len(Ready) + Len(Line) < INPUT_BUF
  BY <1>1, Sections
<1>5. Complete(c) <=> c \in {NL, EOT} \/ Len(Ready) + Len(Line) + 1 = INPUT_BUF
  <2>1. Plus(r, Plus(e, -r)) = e
    BY <1>1, PlusDistance
  <2>2. Plus(e, 1) = Plus(r, Plus(e, -r) + 1)
    <3>1. Plus(Plus(r, Plus(e, -r)), 1) = Plus(r, Plus(e, -r) + 1)
      BY <1>1, <1>3, PlusPlus
    <3>. QED BY <2>1, <3>1
  <2>3. Plus(e, 1) = Plus(r, INPUT_BUF) <=> Plus(e, -r) + 1 = INPUT_BUF
    <3> DEFINE k == Plus(e, -r) + 1
    <3>1. k \in Int /\ 0 < k /\ k <= INPUT_BUF
      BY <1>1, <1>3, Sizes
    <3>2. /\ r \in Int /\ 0 <= r /\ r < UintRange /\ INPUT_BUF \in Nat \ {0}
          /\ UintRange \in Nat /\ INPUT_BUF < UintRange
      BY <1>1, Sizes DEF Uint
    <3> HIDE DEF k
    <3>3. Plus(r, k) = IF r + k < UintRange THEN r + k ELSE r + k - UintRange
      BY <1>1, <3>1, <3>2, PlusValue
    <3>4. Plus(r, INPUT_BUF) = IF r + INPUT_BUF < UintRange THEN r + INPUT_BUF ELSE r + INPUT_BUF - UintRange
      BY <1>1, <3>2, PlusValue
    <3>5. Plus(r, k) = Plus(r, INPUT_BUF) <=> k = INPUT_BUF
      BY <3>1, <3>2, <3>3, <3>4
    <3>. QED BY <2>2, <3>5 DEF k
  <2>. QED BY <1>4, <2>3 DEF Complete
<1>6. CASE Complete(c)
  <2>1. w' = Plus(e, 1)
    BY <1>6 DEF Type
  <2>2. Line' = <<>>
    <3>1. Plus(e, 1) \in Uint /\ buf' \in [Slots -> Key]
      BY <1>1, <1>2, PlusOne
    <3>. QED BY <1>2, <2>1, <3>1, SectionsPrimed, SectEmpty
  <2>3. Ready' = Append(Sect(buf, r, e), c)
    BY <1>1, <1>2, <2>1, SectionsPrimed, SectAppend
  <2>4. Sect(buf, r, e) = Ready \o Line
    <3>1. Sect(buf, r, e) = Sect(buf, r, w) \o Sect(buf, w, e)
      BY ONLY <1>1, SectConcat
    <3>. QED BY <3>1, Sections
  <2>5. Append(Ready \o Line, c) = Ready \o Append(Line, c)
    <3>1. Ready \in Seq(Key) /\ Line \in Seq(Key) /\ <<c>> \in Seq(Key) /\ Ready \o Line \in Seq(Key)
      BY Sections, ConcatProperties
    <3>2. Append(Ready \o Line, c) = (Ready \o Line) \o <<c>> /\ Append(Line, c) = Line \o <<c>>
      BY <3>1, AppendIsConcat
    <3>3. (Ready \o Line) \o <<c>> = Ready \o (Line \o <<c>>)
      BY <3>1, ConcatAssociative
    <3>. QED BY <3>2, <3>3
  <2>6. Terminal!Type(c)
    BY <1>2, <1>4, <1>5, <1>6, <2>2, <2>3, <2>4, <2>5 DEF Terminal!Type, Ready, Line
  <2>. QED BY <2>2, <2>6 DEF OpenLine
<1>7. CASE ~Complete(c)
  <2>1. w' = w /\ c # NL
    BY <1>7 DEF Type, Complete
  <2>2. Line' = Append(Line, c)
    <3>1. Sect([buf EXCEPT ![e % INPUT_BUF] = c], w, Plus(e, 1)) = Append(Sect(buf, w, e), c)
      BY <1>1, <1>3, SectAppend
    <3>. QED BY <1>2, <2>1, <3>1, SectionsPrimed, Sections
  <2>3. Ready' = Ready
    BY <1>1, <1>2, <1>3, <2>1, SectionsPrimed, Sections, SectKeep
  <2>4. Terminal!Type(c)
    BY <1>2, <1>4, <1>5, <1>7, <2>2, <2>3 DEF Terminal!Type, Ready, Line
  <2>5. OpenLine'
    <3>1. Line \in Seq(Key) /\ \A k \in 1..Len(Line) : Line[k] # NL
      BY Sections DEF OpenLine
    <3>2. \A k \in 1..Len(Append(Line, c)) : Append(Line, c)[k] # NL
      BY <3>1, <2>1
    <3>. QED BY <2>2, <3>2 DEF OpenLine
  <2>. QED BY <2>4, <2>5
<1>. QED BY <1>6, <1>7

\* Control-H takes the last key of the line.
LEMMA EraseStep ==
    ASSUME TypeOK, OpenLine, Erase
    PROVE  Terminal!Erase /\ OpenLine'
<1>1. /\ buf \in [Slots -> Key] /\ r \in Uint /\ w \in Uint /\ e \in Uint /\ w # e
      /\ e' = Plus(e, -1) /\ UNCHANGED <<buf, r, w, got>>
  BY DEF TypeOK, Erase, Erasable
<1>2. Line # <<>> /\ Ready' = Ready
  BY <1>1, Sections, SectionsPrimed, SectEmpty
<1>3. Line' = SubSeq(Line, 1, Len(Line) - 1)
  BY <1>1, Sections, SectionsPrimed, SectFront
<1>4. Terminal!Erase
  BY <1>1, <1>2, <1>3 DEF Terminal!Erase, Terminal!Front, Ready, Line
<1>5. \A k \in 1..Len(SubSeq(Line, 1, Len(Line) - 1)) : SubSeq(Line, 1, Len(Line) - 1)[k] # NL
  BY <1>2, Sections DEF OpenLine
<1>. QED BY <1>3, <1>4, <1>5 DEF OpenLine

\* Control-U takes all of it.
LEMMA KillStep ==
    ASSUME TypeOK, OpenLine, Kill
    PROVE  Terminal!Kill /\ OpenLine'
<1>1. /\ buf \in [Slots -> Key] /\ r \in Uint /\ w \in Uint /\ e \in Uint
      /\ UNCHANGED <<buf, r, w, got>>
  BY DEF TypeOK, Kill
<1>2. PICK k \in 0..Plus(e, -w) : /\ k = Plus(e, -w) \/ At(Plus(e, -k-1)) = NL
                                  /\ e' = Plus(e, -k)
  BY DEF Kill
<1> DEFINE m == Plus(e, -w)
<1>3. m \in Nat /\ Plus(w, m) = e /\ k \in 0..m /\ k \in Int
  BY <1>1, <1>2, SectSeq, PlusDistance
<1>4. ASSUME NEW j \in Int PROVE Plus(e, j) = Plus(w, m + j)
  <2>1. Plus(Plus(w, m), j) = Plus(w, m + j)
    BY <1>1, <1>3, <1>4, PlusPlus
  <2>. QED BY <2>1, <1>3
<1> HIDE DEF m
<1>5. k = m
  <2>. SUFFICES ASSUME k # m PROVE FALSE
    OBVIOUS
  <2>1. m - k \in 1..Len(Line) /\ m + (-k-1) = (m - k) - 1 /\ -k-1 \in Int
    BY <1>3, Sections DEF m
  <2>2. Line[m - k] = At(Plus(w, (m - k) - 1))
    BY <2>1, Sections
  <2>3. Plus(e, -k-1) = Plus(w, (m - k) - 1)
    BY <2>1, <1>4
  <2>4. At(Plus(e, -k-1)) = NL
    BY <1>2 DEF m
  <2>. QED BY <2>1, <2>2, <2>3, <2>4 DEF OpenLine
<1>6. e' = w
  <2>1. -k \in Int /\ m + (-k) = 0
    BY <1>3, <1>5
  <2>2. Plus(e, -k) = Plus(w, 0)
    BY <2>1, <1>4
  <2>. QED BY <1>1, <1>2, <2>2, PlusZero
<1>7. Line' = <<>> /\ Ready' = Ready
  BY <1>1, <1>6, Sections, SectionsPrimed, SectEmpty
<1>. QED BY <1>1, <1>7 DEF Terminal!Kill, OpenLine, Ready, Line

\* Every step is one of the queue, or none.
LEMMA QueueStep ==
    ASSUME TypeOK, Window, OpenLine, OneLine, [Next]_vars
    PROVE  OpenLine' /\ OneLine' /\ [Terminal!Next]_<<Ready, Line, got>>
<1>1. ASSUME NEW t \in Reader, ReadByte(t)
      PROVE  OpenLine' /\ OneLine' /\ Terminal!Next
  BY <1>1, ReadStep DEF OpenLine, Terminal!Next
<1>2. ASSUME NEW t \in Reader, ReadEof(t)
      PROVE  OpenLine' /\ OneLine' /\ [Terminal!Next]_<<Ready, Line, got>>
  BY <1>2, EofStep DEF OpenLine, Terminal!Next
<1>3. ASSUME NEW c \in Key, Type(c)
      PROVE  OpenLine' /\ OneLine' /\ Terminal!Next
  BY <1>3, KeyStep DEF OneLine, Type, Terminal!Next
<1>4. CASE Erase
  BY <1>4, EraseStep DEF OneLine, Erase, Terminal!Next
<1>5. CASE Kill
  BY <1>5, KillStep DEF OneLine, Kill, Terminal!Next
\* A call begins with nothing; what earlier calls got is forgotten.
<1>6. ASSUME NEW t \in Reader, ReadCall(t)
      PROVE  OpenLine' /\ OneLine' /\ Terminal!Next
  <2>1. Ready' = Ready /\ Line' = Line /\ got' = [got EXCEPT ![t] = <<>>]
    BY <1>6, KeepsSections DEF ReadCall
  <2>2. Terminal!Begin(t)
    BY <2>1 DEF Terminal!Begin, Ready, Line
  <2>3. OneLine'
    BY <1>6, <2>1 DEF OneLine, ReadCall, Enter, TypeOK
  <2>. QED BY <2>1, <2>2, <2>3 DEF OpenLine, Terminal!Next
<1>7. ASSUME UNCHANGED <<cons, got>>,
             \A t \in Reader : pc'[t] \in {"read", "sleep"} => pc[t] \in {"read", "sleep"}
      PROVE  OpenLine' /\ OneLine' /\ UNCHANGED <<Ready, Line, got>>
  BY <1>7, KeepsSections DEF OpenLine, OneLine
<1>8. ASSUME NEW t \in Reader, \/ ReadSleep(t) \/ ReadResume(t) \/ ReadReturn(t)
                               \/ WriteCall(t) \/ WriteReturn(t) \/ ChildExits(t)
      PROVE  /\ UNCHANGED <<cons, got>>
             /\ \A x \in Reader : pc'[x] \in {"read", "sleep"} => pc[x] \in {"read", "sleep"}
  BY <1>8 DEF ReadSleep, ReadResume, ReadReturn, WriteCall, WriteReturn, ChildExits, Enter, Leave,
       TypeOK
<1>9. CASE UNCHANGED vars
  BY <1>7, <1>9 DEF vars
<1>. QED BY <1>1, <1>2, <1>3, <1>4, <1>5, <1>6, <1>7, <1>8, <1>9
        DEF Next, ReaderStep, Interrupt

\* Through the wraparound of its indices, however readers and keys interleave, the
\* console hands over lines in order, each byte once: Console implements LineQueue.
THEOREM ConsoleIsLineQueue == Spec => IsLineQueue
<1>1. Spec => [](TypeOK /\ Window)
  BY InitWindow, WindowStep, TypeCorrect, PTL DEF Spec
<1>2. Spec => [](OpenLine /\ OneLine)
  <2>1. TypeOK /\ Window /\ OpenLine /\ OneLine /\ [Next]_vars => OpenLine' /\ OneLine'
    BY QueueStep
  <2>. QED BY <1>1, <2>1, InitQueue, PTL DEF Spec
<1>3. TypeOK /\ Window /\ OpenLine /\ OneLine /\ [Next]_vars
        => [Terminal!Next]_<<Section(r, w), Section(w, e), got>>
  BY QueueStep DEF Ready, Line
<1>. QED BY <1>1, <1>2, <1>3, InitQueue, PTL DEF Spec, IsLineQueue, Terminal!Spec

=============================================================================
