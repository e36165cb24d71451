---------------------------- MODULE VirtioProofs ----------------------------
(***************************************************************************)
(* Proofs about Virtio for any number of tasks and of descriptors.         *)
(*                                                                         *)
(* What makes the interrupt safe is that a transfer is in one place at a   *)
(* time: in an unread slot of the avail ring, in work, or in a slot of the *)
(* used ring that the driver has not seen.  The invariant VInv says so     *)
(* with the history variable served, which tells the last place from the   *)
(* other two, and says that whoever owns such a transfer still waits.      *)
(***************************************************************************)
EXTENDS Virtio, FiniteSetTheorems, TLAPS

\* A value in range is its own remainder.
LEMMA ModSmall == ASSUME NEW n \in Nat \ {0}, NEW x \in 0..n-1 PROVE x % n = x
OBVIOUS

\* A counter that has gone below zero once.
LEMMA ModBelow == ASSUME NEW n \in Nat \ {0}, NEW x \in -n..-1 PROVE x % n = x + n
OBVIOUS

\* A counter that has reached its range once.
LEMMA ModAbove == ASSUME NEW n \in Nat \ {0}, NEW x \in n..2*n-1 PROVE x % n = x - n
OBVIOUS

\* Exactly who is in the waiting loop of virtio_disk_rw() has a transfer.
Placed ==
    \A t \in Tasks :
        /\ pc[t] = "wait" <=> head[t] # NoDesc
        /\ busy[t] => pc[t] = "wait"

\* A transfer has three descriptors, and its task is written at its head.
ChainShape ==
    \A t \in InFlight : /\ Chain(head[t]) \subseteq Desc /\ next[head[t]] # head[t]
                        /\ info[head[t]] = t

\* d is the head of a transfer whose task still waits for the interrupt.
Awaited(d) == d \in Desc /\ info[d] \in Tasks /\ busy[info[d]] /\ head[info[d]] = d

\* Slots of the avail ring that the device has not read.
Pending == {i \in Desc : (i - seen) % NUM < (availIdx - seen) % NUM}

\* Where a transfer is, until the interrupt has seen it.
OnePlace ==
    /\ \A i \in Pending : /\ Awaited(avail[i]) /\ ~served[info[avail[i]]]
                          /\ avail[i] \notin taken
    /\ \A i, j \in Pending : avail[i] = avail[j] => i = j
    /\ \A d \in taken : Awaited(d) /\ ~served[info[d]]
    /\ \A i \in Reported : Awaited(used[i]) /\ served[info[used[i]]]

VInv == /\ TypeOK /\ DescriptorsOwned /\ DoneIsServed /\ NoLostWakeup
        /\ Placed /\ ChainShape /\ OnePlace

-----------------------------------------------------------------------------
(* Indices of the rings.                                                   *)

LEMMA NumFacts == NUM \in Nat \ {0} /\ Desc = 0..NUM-1
BY NumAssumption DEF Desc

LEMMA BumpIs ==
    ASSUME NEW i \in Desc
    PROVE  Bump(i) \in Desc /\ Bump(i) = IF i = NUM - 1 THEN 0 ELSE i + 1
<1>1. CASE i = NUM - 1
  <2>1. (i + 1) % NUM = i + 1 - NUM
    <3>1. i + 1 \in NUM..2*NUM-1
      BY <1>1, NumFacts
    <3>. QED BY <3>1, NumFacts, ModAbove
  <2>. QED BY <1>1, <2>1, NumFacts DEF Bump
<1>2. CASE i # NUM - 1
  <2>1. (i + 1) % NUM = i + 1
    <3>1. i + 1 \in 0..NUM-1
      BY <1>2, NumFacts
    <3>. QED BY <3>1, NumFacts, ModSmall
  <2>. QED BY <1>2, <2>1, NumFacts DEF Bump
<1>. QED BY <1>1, <1>2

\* The way from one index up to another, around the ring.
Way(j, i) == IF j <= i THEN i - j ELSE i - j + NUM

LEMMA WayIs ==
    ASSUME NEW i \in Desc, NEW j \in Desc PROVE (i - j) % NUM = Way(j, i)
<1>. DEFINE x == i - j
<1>1. CASE j <= i
  <2>1. x \in 0..NUM-1
    BY <1>1, NumFacts
  <2>2. x % NUM = x
    BY <2>1, NumFacts, ModSmall
  <2>. QED BY <1>1, <2>2 DEF Way
<1>2. CASE ~(j <= i)
  <2>1. x \in -NUM..-1
    BY <1>2, NumFacts
  <2>2. x % NUM = x + NUM
    BY <2>1, NumFacts, ModBelow
  <2>. QED BY <1>2, <2>2 DEF Way
<1>. QED BY <1>1, <1>2

\* The slots from lo up to hi, and what they become when an end moves on.
Span(lo, hi) == {i \in Desc : Way(lo, i) < Way(lo, hi)}

LEMMA SpanIs ==
    ASSUME TypeOK
    PROVE  Reported = Span(used_idx, usedIdx) /\ Pending = Span(seen, availIdx)
BY WayIs DEF TypeOK, Reported, Pending, Span

LEMMA SpanIsPrime ==
    ASSUME TypeOK'
    PROVE  Reported' = Span(used_idx', usedIdx') /\ Pending' = Span(seen', availIdx')
BY WayIs DEF TypeOK, Reported, Pending, Span

LEMMA SpanEmpty == ASSUME NEW i \in Desc PROVE Span(i, i) = {}
BY NumFacts DEF Span, Way

LEMMA SpanGrows ==
    ASSUME NEW lo \in Desc, NEW hi \in Desc
    PROVE  Span(lo, Bump(hi)) \subseteq Span(lo, hi) \cup {hi} /\ hi \notin Span(lo, hi)
<1>1. ASSUME NEW i \in Desc, i # hi, Way(lo, i) < Way(lo, Bump(hi))
      PROVE  Way(lo, i) < Way(lo, hi)
  <2>1. Bump(hi) = IF hi = NUM - 1 THEN 0 ELSE hi + 1
    BY BumpIs
  <2>. QED BY <1>1, <2>1, NumFacts DEF Way
<1>2. ~(Way(lo, hi) < Way(lo, hi))
  BY NumFacts DEF Way
<1>. QED BY <1>1, <1>2 DEF Span

LEMMA SpanShrinks ==
    ASSUME NEW lo \in Desc, NEW hi \in Desc, lo # hi
    PROVE  Span(Bump(lo), hi) \subseteq Span(lo, hi) \ {lo} /\ lo \in Span(lo, hi)
<1>1. ASSUME NEW i \in Desc, Way(Bump(lo), i) < Way(Bump(lo), hi)
      PROVE  i # lo /\ Way(lo, i) < Way(lo, hi)
  <2>1. Bump(lo) = IF lo = NUM - 1 THEN 0 ELSE lo + 1
    BY BumpIs
  <2>. QED BY <1>1, <2>1, NumFacts DEF Way
<1>2. Way(lo, lo) < Way(lo, hi)
  BY NumFacts DEF Way
<1>. QED BY <1>1, <1>2 DEF Span

-----------------------------------------------------------------------------
LEMMA InitInv == Init => VInv
<1>. SUFFICES ASSUME Init PROVE VInv
  OBVIOUS
<1>. USE SentinelAssumption, NumFacts
<1>1. TypeOK
  BY DEF Init, TypeOK, Places
<1>2. InFlight = {}
  BY DEF Init, InFlight
<1>3. DescriptorsOwned /\ ChainShape
  BY <1>2 DEF Init, DescriptorsOwned, ChainShape
<1>4. DoneIsServed /\ NoLostWakeup /\ Placed
  BY DEF Init, DoneIsServed, NoLostWakeup, Placed
<1>5. OnePlace
  <2>1. Reported = {} /\ Pending = {}
    BY <1>1, SpanIs, SpanEmpty DEF Init, TypeOK
  <2>. QED BY <2>1 DEF Init, OnePlace
<1>. QED BY <1>1, <1>3, <1>4, <1>5 DEF VInv

\* Steps that leave the descriptors, or what is in the rings, alone.
LEMMA ChainFrame ==
    ASSUME DescriptorsOwned, ChainShape, UNCHANGED <<free, next, info, head>>
    PROVE  (DescriptorsOwned /\ ChainShape)'
BY DEF DescriptorsOwned, ChainShape, InFlight, Chain

LEMMA PlaceFrame ==
    ASSUME OnePlace, UNCHANGED <<info, rings, device, busy, served, head>>
    PROVE  OnePlace'
BY DEF OnePlace, Awaited, Reported, Pending, rings, device

\* The hart runs some task, whoever schedule() picks.
LEMMA ScheduleType ==
    ASSUME NEW st, Schedule(st) PROVE current' \in Tasks \cup {Idle}
BY DEF Schedule

LEMMA SomeHead ==
    ASSUME VInv, NEW t \in Tasks, pc[t] = "wait"
    PROVE  /\ head[t] \in Desc /\ t \in InFlight
           /\ Chain(head[t]) \subseteq Desc /\ info[head[t]] = t
           /\ head[t] \in Chain(head[t])
BY DEF VInv, TypeOK, Placed, ChainShape, InFlight, Chain

\* Two transfers under way have different heads, and no head is free.
LEMMA HeadsDiffer ==
    ASSUME VInv, NEW t \in InFlight, NEW u \in InFlight, head[t] = head[u] PROVE t = u
BY DEF VInv, DescriptorsOwned, Chain

LEMMA HeadNotFree ==
    ASSUME VInv, NEW t \in InFlight PROVE head[t] \notin free
BY DEF VInv, DescriptorsOwned, ChainShape, Chain, InFlight, TypeOK

-----------------------------------------------------------------------------
LEMMA HartStep ==
    ASSUME VInv, \/ Preempt
                 \/ \E t \in Tasks : SystemCall(t) \/ Return(t) \/ ChildExits(t)
    PROVE  VInv'
<1>. USE DEF VInv, Preempt, SystemCall, Return, ChildExits, Runs
<1>1. TypeOK'
  <2>1. CASE Preempt
    BY <2>1, ScheduleType DEF TypeOK, rings, device
  <2>2. CASE \E t \in Tasks : SystemCall(t) \/ Return(t) \/ ChildExits(t)
    BY <2>2 DEF TypeOK, Places, rings, device
  <2>. QED BY <2>1, <2>2
<1>2. (DescriptorsOwned /\ ChainShape)' /\ OnePlace'
  BY ChainFrame, PlaceFrame
<1>3. DoneIsServed'
  BY DEF TypeOK, DoneIsServed
<1>4. NoLostWakeup'
  BY DEF TypeOK, NoLostWakeup
<1>5. Placed'
  BY DEF TypeOK, Placed
<1>. QED BY <1>1, <1>2, <1>3, <1>4, <1>5

\* The new chain is made of free descriptors: it meets no other, and its head is
\* in no ring yet.
LEMMA SubmitStep ==
    ASSUME VInv, NEW t \in Tasks, Submit(t) PROVE VInv'
<1>. USE SentinelAssumption DEF VInv
<1>1. PICK a \in Desc, b \in Desc, c \in Desc :
          /\ Allocated(a, b, c)
          /\ free'  = free \ {a, b, c}
          /\ next'  = [next  EXCEPT ![a] = b, ![b] = c, ![c] = NoDesc]
          /\ info'  = [info  EXCEPT ![a] = t]
          /\ avail' = [avail EXCEPT ![availIdx] = a]
          /\ head'  = [head  EXCEPT ![t] = a]
  BY DEF Submit
<1>2. {a, b, c} \subseteq free /\ a # b /\ a # c /\ b # c
  BY <1>1 DEF Allocated, Lowest
<1>3. /\ availIdx' = Bump(availIdx)
      /\ busy'   = [busy   EXCEPT ![t] = TRUE]
      /\ served' = [served EXCEPT ![t] = FALSE]
      /\ pc' = [pc EXCEPT ![t] = "wait"]
      /\ state' = [state EXCEPT ![t] = "SLEEPING"]
      /\ Schedule(state')
      /\ UNCHANGED <<used, usedIdx, used_idx, seen, taken>>
      /\ pc[t] \in {"kernel", "alloc"}
  BY DEF Submit, SleepAt, WantsTransfer, Runs, device
<1>4. head[t] = NoDesc /\ ~busy[t] /\ a # NoDesc
  BY <1>3, NumFacts DEF Placed
<1>5. TypeOK'
  <2>1. current' \in Tasks \cup {Idle}
    BY <1>3, ScheduleType
  <2>2. availIdx' \in Desc
    BY <1>3, BumpIs DEF TypeOK
  <2>. QED BY <1>1, <1>3, <2>1, <2>2 DEF TypeOK, Places
<1>6. InFlight' = InFlight \cup {t} /\ t \notin InFlight
  BY <1>1, <1>4 DEF TypeOK, InFlight
<1>7. ASSUME NEW u \in InFlight
      PROVE  /\ head'[u] = head[u] /\ Chain(head[u])' = Chain(head[u])
             /\ Chain(head[u]) \cap {a, b, c} = {}
  <2>1. Chain(head[u]) \subseteq Desc \ free
    BY DEF ChainShape, DescriptorsOwned
  <2>2. \A d \in Desc \ free : next'[d] = next[d]
    BY <1>1, <1>2 DEF TypeOK
  <2>3. next'[head[u]] = next[head[u]] /\ next'[next[head[u]]] = next[next[head[u]]]
    BY <2>1, <2>2 DEF Chain
  <2>4. head'[u] = head[u]
    BY <1>1, <1>6 DEF TypeOK, InFlight
  <2>. QED BY <1>2, <2>1, <2>3, <2>4 DEF Chain
<1>8. head'[t] = a /\ Chain(head[t])' = {a, b, c}
  BY <1>1, <1>2 DEF TypeOK, Chain
<1>9. DescriptorsOwned'
  <2>1. ASSUME NEW d \in Desc
        PROVE  d \notin free' <=> \E u \in InFlight' : d \in Chain(head[u])'
    <3>1. d \notin free' <=> d \in {a, b, c} \/ \E u \in InFlight : d \in Chain(head[u])
      BY <1>1 DEF DescriptorsOwned
    <3>. QED BY <1>6, <1>7, <1>8, <3>1
  <2>2. ASSUME NEW u \in InFlight', NEW v \in InFlight', u # v
        PROVE  Chain(head[u])' \cap Chain(head[v])' = {}
    <3>1. CASE u \in InFlight /\ v \in InFlight
      BY <1>7, <2>2, <3>1 DEF DescriptorsOwned
    <3>2. CASE u = t \/ v = t
      BY <1>6, <1>7, <1>8, <2>2, <3>2
    <3>. QED BY <1>6, <3>1, <3>2
  <2>. QED BY <2>1, <2>2 DEF DescriptorsOwned
<1>10. ChainShape'
  <2>1. ASSUME NEW u \in InFlight PROVE info'[head'[u]] = u
    BY <1>1, <1>2, <1>7, HeadNotFree DEF ChainShape, TypeOK
  <2>2. info'[head'[t]] = t
    BY <1>1, <1>8 DEF TypeOK
  <2>3. next'[head'[t]] # head'[t]
    BY <1>1, <1>2, <1>8 DEF TypeOK
  <2>4. ASSUME NEW u \in InFlight PROVE next'[head'[u]] # head'[u]
    <3>1. head[u] # a /\ head[u] # b /\ head[u] # c /\ head[u] \in Desc
      BY <1>2, HeadNotFree DEF ChainShape, Chain
    <3>2. next'[head[u]] = next[head[u]]
      BY <1>1, <3>1 DEF TypeOK
    <3>. QED BY <1>7, <3>2 DEF ChainShape
  <2>5. ASSUME NEW u \in InFlight' PROVE Chain(head[u])' \subseteq Desc
    BY <1>6, <1>7, <1>8 DEF ChainShape
  <2>. QED BY <1>6, <2>1, <2>2, <2>3, <2>4, <2>5 DEF ChainShape
<1>11. ASSUME NEW d, Awaited(d)
       PROVE  Awaited(d)' /\ info'[d] = info[d] /\ info[d] # t /\ d # a
  <2>1. info[d] # t /\ info[d] \in InFlight
    BY <1>4, <1>11, NumFacts DEF Awaited, InFlight
  <2>2. d # a
    BY <1>2, <1>11, <2>1, HeadNotFree DEF Awaited
  <2>. QED BY <1>1, <1>3, <1>11, <2>1, <2>2 DEF Awaited, TypeOK
<1>12. Awaited(a)' /\ ~served'[info'[a]] /\ info'[a] = t
  BY <1>1, <1>3 DEF Awaited, TypeOK
<1>13. OnePlace'
  <2>1. Pending' \subseteq Pending \cup {availIdx} /\ availIdx \notin Pending
    BY <1>3, <1>5, SpanIs, SpanIsPrime, SpanGrows DEF TypeOK
  <2>2. Reported' = Reported
    BY <1>3 DEF Reported
  <2>3. avail'[availIdx] = a /\ \A i \in Pending : avail'[i] = avail[i]
    BY <1>1, <2>1 DEF TypeOK, Pending
  <2>4. a \notin taken /\ \A i \in Pending : avail[i] # a
    BY <1>11 DEF OnePlace
  <2>5. ASSUME NEW i \in Pending'
        PROVE  Awaited(avail[i])' /\ ~served'[info[avail[i]]'] /\ avail'[i] \notin taken'
    <3>1. CASE i \in Pending
      BY <1>3, <1>11, <2>3, <3>1 DEF OnePlace, TypeOK, Awaited
    <3>2. CASE i = availIdx
      BY <1>3, <1>12, <2>3, <2>4, <3>2 DEF Awaited
    <3>. QED BY <2>1, <3>1, <3>2
  <2>6. ASSUME NEW i \in Pending', NEW j \in Pending', avail'[i] = avail'[j] PROVE i = j
    BY <2>1, <2>3, <2>4, <2>6 DEF OnePlace
  <2>7. ASSUME NEW d \in taken' PROVE Awaited(d)' /\ ~served'[info'[d]]
    BY <1>3, <1>11, <2>7 DEF OnePlace, TypeOK, Awaited
  <2>8. ASSUME NEW i \in Reported' PROVE Awaited(used[i])' /\ served'[info'[used'[i]]]
    BY <1>3, <1>11, <2>2, <2>8 DEF OnePlace, TypeOK, Awaited
  <2>. QED BY <2>5, <2>6, <2>7, <2>8 DEF OnePlace
<1>14. DoneIsServed'
  BY <1>3 DEF TypeOK, DoneIsServed
<1>15. NoLostWakeup'
  <2>1. Cardinality(free) < 3 => Cardinality(free') < 3
    <3>1. IsFiniteSet(free)
      <4>1. IsFiniteSet(Desc)
        BY NumFacts, FS_Interval
      <4>. QED BY <4>1, FS_Subset DEF TypeOK
    <3>2. free' \subseteq free
      BY <1>1
    <3>3. /\ Cardinality(free') <= Cardinality(free)
          /\ Cardinality(free') \in Nat /\ Cardinality(free) \in Nat
      BY <3>1, <3>2, FS_Subset, FS_CardinalityType
    <3>. QED BY <3>3
  <2>. QED BY <1>3, <2>1 DEF TypeOK, NoLostWakeup
<1>16. Placed'
  BY <1>1, <1>3, <1>4 DEF TypeOK, Placed
<1>. QED BY <1>5, <1>9, <1>10, <1>13, <1>14, <1>15, <1>16

LEMMA TooFewStep ==
    ASSUME VInv, NEW t \in Tasks, TooFew(t) PROVE VInv'
<1>. USE DEF VInv, TooFew
<1>1. PICK st \in [Tasks -> {"READY", "SLEEPING"}] :
          /\ st = IF free = {} THEN state ELSE AllWoken
          /\ \A u \in Tasks : st[u] = "SLEEPING" => state[u] = "SLEEPING"
          /\ SleepAt(t, "alloc", st)
  BY DEF TypeOK, AllWoken
<1>2. /\ pc' = [pc EXCEPT ![t] = "alloc"] /\ state' = [st EXCEPT ![t] = "SLEEPING"]
      /\ Schedule(state') /\ pc[t] \in {"kernel", "alloc"}
  BY <1>1 DEF SleepAt, WantsTransfer, Runs
<1>3. TypeOK'
  BY <1>1, <1>2, ScheduleType DEF TypeOK, Places, rings, device
<1>4. (DescriptorsOwned /\ ChainShape)' /\ OnePlace'
  BY ChainFrame, PlaceFrame
<1>5. DoneIsServed'
  BY <1>2 DEF TypeOK, DoneIsServed
<1>6. NoLostWakeup'
  BY <1>1, <1>2 DEF TypeOK, NoLostWakeup
<1>7. Placed'
  BY <1>1, <1>2 DEF TypeOK, Placed
<1>. QED BY <1>3, <1>4, <1>5, <1>6, <1>7

LEMMA WaitOnStep ==
    ASSUME VInv, NEW t \in Tasks, WaitOn(t) PROVE VInv'
<1>. USE DEF VInv, WaitOn, Runs
<1>1. /\ pc' = [pc EXCEPT ![t] = "wait"] /\ state' = [state EXCEPT ![t] = "SLEEPING"]
      /\ Schedule(state')
  BY DEF SleepAt
<1>2. TypeOK'
  BY <1>1, ScheduleType DEF TypeOK, Places, rings, device
<1>3. (DescriptorsOwned /\ ChainShape)' /\ OnePlace'
  BY ChainFrame, PlaceFrame
<1>4. DoneIsServed'
  BY <1>1 DEF TypeOK, DoneIsServed
<1>5. NoLostWakeup'
  BY <1>1 DEF TypeOK, NoLostWakeup
<1>6. Placed'
  BY <1>1 DEF TypeOK, Placed
<1>. QED BY <1>2, <1>3, <1>4, <1>5, <1>6

\* The chain that is freed is that of a transfer no ring knows any more.
LEMMA FinishStep ==
    ASSUME VInv, NEW t \in Tasks, Finish(t) PROVE VInv'
<1>. USE SentinelAssumption DEF VInv
<1>1. PICK h \in Desc : /\ h = head[t] /\ t \in InFlight /\ info[h] = t
                        /\ Chain(h) \subseteq Desc /\ h \in Chain(h)
  BY SomeHead DEF Finish, Runs
<1>2. /\ info' = [info EXCEPT ![h] = NoBuf]
      /\ free' = free \cup Chain(h)
      /\ next' = [d \in Desc |-> IF d \in Chain(h) THEN NoDesc ELSE next[d]]
      /\ head' = [head EXCEPT ![t] = NoDesc]
      /\ state' = AllWoken
      /\ pc' = [pc EXCEPT ![t] = "kernel"]
      /\ UNCHANGED <<rings, device, busy, served, current>>
      /\ pc[t] = "wait" /\ ~busy[t]
  BY <1>1 DEF Finish, Runs, Freed, WaitOver
<1>3. TypeOK'
  BY <1>1, <1>2 DEF TypeOK, Places, AllWoken, rings, device
<1>4. InFlight' = InFlight \ {t}
  BY <1>2 DEF TypeOK, InFlight
<1>5. ASSUME NEW u \in InFlight \ {t}
      PROVE  /\ head'[u] = head[u] /\ Chain(head[u])' = Chain(head[u])
             /\ Chain(head[u]) \cap Chain(h) = {} /\ Chain(head[u]) \subseteq Desc
             /\ head[u] \in Chain(head[u])
  <2>1. Chain(head[u]) \subseteq Desc /\ Chain(head[u]) \cap Chain(h) = {}
    BY <1>1 DEF ChainShape, DescriptorsOwned
  <2>2. next'[head[u]] = next[head[u]] /\ next'[next[head[u]]] = next[next[head[u]]]
    <3>1. \A d \in Chain(head[u]) : next'[d] = next[d]
      BY <1>2, <2>1
    <3>. QED BY <3>1 DEF Chain
  <2>3. head'[u] = head[u]
    BY <1>2 DEF TypeOK, InFlight
  <2>. QED BY <2>1, <2>2, <2>3 DEF Chain
<1>6. DescriptorsOwned'
  <2>1. ASSUME NEW d \in Desc
        PROVE  d \notin free' <=> \E u \in InFlight' : d \in Chain(head[u])'
    <3>1. CASE d \in Chain(h)
      BY <1>2, <1>4, <1>5, <3>1
    <3>2. CASE d \notin Chain(h)
      <4>1. d \notin free <=> \E u \in InFlight \ {t} : d \in Chain(head[u])
        BY <1>1, <3>2 DEF DescriptorsOwned
      <4>. QED BY <1>2, <1>4, <1>5, <3>2, <4>1
    <3>. QED BY <3>1, <3>2
  <2>2. ASSUME NEW u \in InFlight', NEW v \in InFlight', u # v
        PROVE  Chain(head[u])' \cap Chain(head[v])' = {}
    BY <1>4, <1>5, <2>2 DEF DescriptorsOwned
  <2>. QED BY <2>1, <2>2 DEF DescriptorsOwned
<1>7. ChainShape'
  <2>1. ASSUME NEW u \in InFlight' PROVE info'[head'[u]] = u
    <3>1. head[u] # h
      BY <1>1, <1>4, <1>5
    <3>. QED BY <1>2, <1>4, <1>5, <3>1 DEF ChainShape, TypeOK
  <2>2. ASSUME NEW u \in InFlight' PROVE next'[head'[u]] # head'[u]
    BY <1>2, <1>4, <1>5 DEF ChainShape
  <2>. QED BY <1>4, <1>5, <2>1, <2>2 DEF ChainShape
<1>8. ASSUME NEW d, Awaited(d) PROVE Awaited(d)' /\ info'[d] = info[d]
  <2>1. info[d] # t /\ d # h
    BY <1>1, <1>2, <1>8 DEF Awaited
  <2>. QED BY <1>2, <1>8, <2>1 DEF Awaited, TypeOK
<1>9. OnePlace'
  <2>1. Reported' = Reported /\ Pending' = Pending
    BY <1>2 DEF Reported, Pending, rings, device
  <2>2. ASSUME NEW i \in Pending
        PROVE  Awaited(avail[i])' /\ ~served'[info'[avail'[i]]] /\ avail'[i] \notin taken'
    BY <1>2, <1>8 DEF OnePlace, Awaited, rings, device
  <2>3. ASSUME NEW d \in taken PROVE Awaited(d)' /\ ~served'[info'[d]]
    BY <1>2, <1>8 DEF OnePlace, Awaited
  <2>4. ASSUME NEW i \in Reported PROVE Awaited(used[i])' /\ served'[info'[used'[i]]]
    BY <1>2, <1>8 DEF OnePlace, Awaited, rings
  <2>. QED BY <1>2, <2>1, <2>2, <2>3, <2>4 DEF OnePlace, rings, device
<1>10. DoneIsServed'
  BY <1>2 DEF TypeOK, DoneIsServed
<1>11. NoLostWakeup'
  BY <1>2 DEF TypeOK, NoLostWakeup, AllWoken
<1>12. Placed'
  BY <1>2 DEF TypeOK, Placed, AllWoken
<1>. QED BY <1>3, <1>6, <1>7, <1>9, <1>10, <1>11, <1>12

LEMMA DeviceTakesStep == ASSUME VInv, DeviceTakes PROVE VInv'
<1>. USE DEF VInv
<1>1. /\ seen # availIdx
      /\ taken' = taken \cup {avail[seen]}
      /\ avail' = [avail EXCEPT ![seen] = NoDesc]
      /\ seen' = Bump(seen)
      /\ UNCHANGED <<free, next, info, availIdx, used, usedIdx, used_idx, busy, served,
                     head, pc, state, current>>
  BY DEF DeviceTakes
<1>2. seen \in Pending /\ Awaited(avail[seen]) /\ avail[seen] \in Desc
  BY <1>1, SpanIs, SpanShrinks DEF TypeOK, OnePlace, Awaited
<1>3. TypeOK'
  BY <1>1, <1>2, BumpIs DEF TypeOK
<1>4. (DescriptorsOwned /\ ChainShape)'
  BY <1>1, ChainFrame
<1>5. OnePlace'
  <2>1. Pending' \subseteq Pending \ {seen}
    BY <1>1, <1>3, SpanIs, SpanIsPrime, SpanShrinks DEF TypeOK
  <2>2. Reported' = Reported
    BY <1>1 DEF Reported
  <2>3. \A i \in Pending \ {seen} : avail'[i] = avail[i]
    BY <1>1 DEF TypeOK, Pending
  <2>4. \A d : Awaited(d)' <=> Awaited(d)
    BY <1>1 DEF Awaited
  <2>5. ASSUME NEW i \in Pending'
        PROVE  Awaited(avail'[i]) /\ ~served[info[avail'[i]]] /\ avail'[i] \notin taken'
    BY <1>1, <1>2, <2>1, <2>3 DEF OnePlace
  <2>6. ASSUME NEW i \in Pending', NEW j \in Pending', avail'[i] = avail'[j] PROVE i = j
    BY <2>1, <2>3, <2>6 DEF OnePlace
  <2>7. ASSUME NEW d \in taken' PROVE Awaited(d) /\ ~served[info[d]]
    BY <1>1, <1>2 DEF OnePlace
  <2>. QED BY <1>1, <2>2, <2>4, <2>5, <2>6, <2>7 DEF OnePlace, Awaited
<1>6. DoneIsServed' /\ NoLostWakeup' /\ Placed'
  BY <1>1 DEF DoneIsServed, NoLostWakeup, Placed
<1>. QED BY <1>3, <1>4, <1>5, <1>6

\* The transfer goes from the device's work to the used ring; no other is served.
LEMMA DeviceCompletesStep ==
    ASSUME VInv, NEW d \in Desc, DeviceCompletes(d) PROVE VInv'
<1>. USE DEF VInv
<1>1. /\ d \in taken /\ taken' = taken \ {d}
      /\ used' = [used EXCEPT ![usedIdx] = d] /\ usedIdx' = Bump(usedIdx)
      /\ served' = [t \in Tasks |-> served[t] \/ info[d] = t]
      /\ UNCHANGED <<free, next, info, avail, availIdx, used_idx, seen, busy,
                     head, pc, state, current>>
  BY DEF DeviceCompletes
<1>2. Awaited(d)
  BY <1>1 DEF OnePlace
<1>3. TypeOK'
  BY <1>1, BumpIs DEF TypeOK
<1>4. (DescriptorsOwned /\ ChainShape)'
  BY <1>1, ChainFrame
<1>5. OnePlace'
  <2>1. Pending' = Pending /\ avail' = avail
    BY <1>1 DEF Pending
  <2>2. Reported' \subseteq Reported \cup {usedIdx} /\ usedIdx \notin Reported
    BY <1>1, <1>3, SpanIs, SpanIsPrime, SpanGrows DEF TypeOK
  <2>3. used'[usedIdx] = d /\ \A i \in Reported : used'[i] = used[i]
    BY <1>1, <2>2 DEF TypeOK, Reported
  <2>4. \A e : Awaited(e)' <=> Awaited(e)
    BY <1>1 DEF Awaited
  <2>5. ASSUME NEW e, e # d, Awaited(e), ~served[info[e]] PROVE ~served'[info[e]]
    BY <1>1, <1>2, <2>5 DEF Awaited
  <2>6. ASSUME NEW i \in Pending
        PROVE  Awaited(avail[i]) /\ ~served'[info[avail[i]]] /\ avail[i] \notin taken'
    BY <1>1, <2>5 DEF OnePlace
  <2>7. ASSUME NEW e \in taken' PROVE Awaited(e) /\ ~served'[info[e]]
    BY <1>1, <2>5 DEF OnePlace
  <2>8. ASSUME NEW i \in Reported' PROVE Awaited(used'[i]) /\ served'[info[used'[i]]]
    <3>1. CASE i \in Reported
      <4>1. used'[i] = used[i] /\ Awaited(used[i]) /\ served[info[used[i]]]
        BY <2>3, <3>1 DEF OnePlace
      <4>. QED BY <1>1, <4>1 DEF Awaited
    <3>2. CASE i = usedIdx
      BY <1>1, <1>2, <2>3, <3>2 DEF Awaited
    <3>. QED BY <2>2, <3>1, <3>2
  <2>. QED BY <1>1, <2>1, <2>4, <2>6, <2>7, <2>8 DEF OnePlace, Awaited
<1>6. DoneIsServed'
  BY <1>1 DEF DoneIsServed
<1>7. NoLostWakeup' /\ Placed'
  BY <1>1 DEF NoLostWakeup, Placed
<1>. QED BY <1>3, <1>4, <1>5, <1>6, <1>7

\* Every id that the loop reads has a task behind it that has been served.
LEMMA InterruptStep == ASSUME VInv, Interrupt PROVE VInv'
<1>. USE DEF VInv
<1>. DEFINE done == {info[used[i]] : i \in Reported}
<1>1. /\ busy'  = [t \in Tasks |-> busy[t] /\ t \notin done]
      /\ state' = [t \in Tasks |-> IF t \in done /\ pc[t] = "wait"
                                   THEN "READY" ELSE state[t]]
      /\ used' = [i \in Desc |-> IF i \in Reported THEN NoDesc ELSE used[i]]
      /\ used_idx' = usedIdx
      /\ UNCHANGED <<free, next, info, avail, availIdx, usedIdx, device, served,
                     head, pc, current>>
  BY DEF Interrupt
<1>2. \A t \in done : t \in Tasks /\ served[t]
  BY DEF OnePlace, Awaited
<1>. HIDE DEF done
<1>3. TypeOK'
  BY <1>1 DEF TypeOK, device
<1>4. (DescriptorsOwned /\ ChainShape)'
  BY <1>1, ChainFrame
<1>5. OnePlace'
  <2>1. Reported' = {}
    BY <1>1, <1>3, SpanIsPrime, SpanEmpty DEF TypeOK
  <2>2. Pending' = Pending /\ avail' = avail /\ taken' = taken
    BY <1>1 DEF Pending, device
  <2>3. ASSUME NEW d, Awaited(d), ~served[info[d]] PROVE Awaited(d)' /\ ~served'[info'[d]]
    BY <1>1, <1>2, <2>3 DEF Awaited
  <2>4. ASSUME NEW i \in Pending
        PROVE  Awaited(avail[i])' /\ ~served'[info'[avail'[i]]]
    BY <2>2, <2>3 DEF OnePlace, Awaited
  <2>. QED BY <2>1, <2>2, <2>3, <2>4 DEF OnePlace
<1>6. DoneIsServed'
  BY <1>1, <1>2 DEF DoneIsServed
<1>7. NoLostWakeup'
  BY <1>1 DEF NoLostWakeup
<1>8. Placed'
  BY <1>1 DEF TypeOK, Placed
<1>. QED BY <1>3, <1>4, <1>5, <1>6, <1>7, <1>8

LEMMA StutterStep == ASSUME VInv, UNCHANGED vars PROVE VInv'
<1>. USE DEF VInv, vars
<1>1. TypeOK'
  BY DEF TypeOK, rings, device
<1>2. (DescriptorsOwned /\ ChainShape)' /\ OnePlace'
  BY ChainFrame, PlaceFrame
<1>3. DoneIsServed' /\ NoLostWakeup' /\ Placed'
  BY DEF DoneIsServed, NoLostWakeup, Placed
<1>. QED BY <1>1, <1>2, <1>3

LEMMA NextInv == VInv /\ [Next]_vars => VInv'
<1>. SUFFICES ASSUME VInv, [Next]_vars PROVE VInv'
  OBVIOUS
<1>1. ASSUME NEW t \in Tasks, Submit(t) \/ TooFew(t) \/ WaitOn(t) \/ Finish(t) PROVE VInv'
  BY <1>1, SubmitStep, TooFewStep, WaitOnStep, FinishStep
<1>2. ASSUME NEW d \in Desc, DeviceCompletes(d) PROVE VInv'
  BY <1>2, DeviceCompletesStep
<1>. QED BY <1>1, <1>2, HartStep, DeviceTakesStep, InterruptStep, StutterStep
         DEF Next, KernelStep

THEOREM VirtioInvariance == Spec => []VInv
<1>. QED BY InitInv, NextInv, PTL DEF Spec

\* Indices, rings and chains keep their ranges; the device never takes the
\* number of no descriptor for one.
THEOREM TypeCorrect == Spec => []TypeOK
<1>1. VInv => TypeOK
  BY DEF VInv
<1>. QED BY <1>1, VirtioInvariance, PTL

\* alloc3_desc() and free_chain() lose no descriptor and give none out twice,
\* for any number of tasks and descriptors.
THEOREM DescriptorsOwnedTheorem == Spec => []DescriptorsOwned
<1>1. VInv => DescriptorsOwned
  BY DEF VInv
<1>. QED BY <1>1, VirtioInvariance, PTL

\* virtio_disk_rw() never returns before the device has done what was asked.
THEOREM DoneIsServedTheorem == Spec => []DoneIsServed
<1>1. VInv => DoneIsServed
  BY DEF VInv
<1>. QED BY <1>1, VirtioInvariance, PTL

\* Nobody sleeps for descriptors while three are free, or for a transfer that
\* the interrupt has reported.
THEOREM NoLostWakeupTheorem == Spec => []NoLostWakeup
<1>1. VInv => NoLostWakeup
  BY DEF VInv
<1>. QED BY <1>1, VirtioInvariance, PTL

\* The interrupt finds a waiting task's buffer behind every id it reads, in
\* whatever order the device completes the transfers.
THEOREM CompletionsKnownTheorem == Spec => []CompletionsKnown
<1>1. VInv => CompletionsKnown
  BY DEF VInv, OnePlace, Awaited, CompletionsKnown
<1>. QED BY <1>1, VirtioInvariance, PTL

-----------------------------------------------------------------------------
(* No transfer gets lost: the indices never go round a ring so far that    *)
(* they meet.  The driver relies on that without a test, for the rings     *)
(* have as many slots as there are descriptors.                            *)

\* Whoever waits has its transfer in an unread slot, in work or reported.
NothingLost ==
    \A t \in Tasks : busy[t] =>
        \/ \E i \in Pending : avail[i] = head[t]
        \/ head[t] \in taken
        \/ \E i \in Reported : used[i] = head[t]

\* A transfer is reported once.
ReportedOnce == \A i, j \in Reported : used[i] = used[j] => i = j

LEMMA SpanFull ==
    ASSUME NEW hi \in Desc PROVE Desc \ {hi} \subseteq Span(Bump(hi), hi)
<1>1. ASSUME NEW i \in Desc \ {hi} PROVE Way(Bump(hi), i) < Way(Bump(hi), hi)
  <2>1. Bump(hi) = IF hi = NUM - 1 THEN 0 ELSE hi + 1
    BY BumpIs
  <2>. QED BY <2>1, NumFacts DEF Way
<1>. QED BY <1>1 DEF Span

LEMMA SpanGrowsBy ==
    ASSUME NEW lo \in Desc, NEW hi \in Desc, Bump(hi) # lo
    PROVE  Span(lo, hi) \cup {hi} \subseteq Span(lo, Bump(hi))
<1>1. ASSUME NEW i \in Desc, i = hi \/ Way(lo, i) < Way(lo, hi)
      PROVE  Way(lo, i) < Way(lo, Bump(hi))
  <2>1. Bump(hi) = IF hi = NUM - 1 THEN 0 ELSE hi + 1
    BY BumpIs
  <2>. QED BY <1>1, <2>1, NumFacts DEF Way
<1>. QED BY <1>1 DEF Span

LEMMA SpanShrinksBy ==
    ASSUME NEW lo \in Desc, NEW hi \in Desc, lo # hi
    PROVE  Span(lo, hi) \ {lo} \subseteq Span(Bump(lo), hi)
<1>1. ASSUME NEW i \in Desc, i # lo, Way(lo, i) < Way(lo, hi)
      PROVE  Way(Bump(lo), i) < Way(Bump(lo), hi)
  <2>1. Bump(lo) = IF lo = NUM - 1 THEN 0 ELSE lo + 1
    BY BumpIs
  <2>. QED BY <1>1, <2>1, NumFacts DEF Way
<1>. QED BY <1>1 DEF Span

\* A ring all of whose slots but one hold different descriptors leaves no two
\* descriptors out.
LEMMA RingHolds ==
    ASSUME NEW hi \in Desc, NEW d \in Desc, NEW e \in Desc, d # e,
           NEW ring \in [Desc -> Desc \cup {NoDesc}],
           \A i \in Desc \ {hi} : ring[i] \in Desc \ {d, e}
    PROVE  \E i, j \in Desc \ {hi} : i # j /\ ring[i] = ring[j]
<1>. DEFINE S == Desc \ {hi}
            T == (Desc \ {d}) \ {e}
            f == [i \in S |-> ring[i]]
<1>1. IsFiniteSet(Desc) /\ Cardinality(Desc) = NUM
  BY NumFacts, FS_Interval
<1>2. IsFiniteSet(S) /\ Cardinality(S) = NUM - 1
  BY <1>1, FS_RemoveElement
<1>3. IsFiniteSet(Desc \ {d}) /\ Cardinality(Desc \ {d}) = NUM - 1
  BY <1>1, FS_RemoveElement
<1>4. e \in Desc \ {d}
  OBVIOUS
<1>5. IsFiniteSet(T) /\ Cardinality(T) = NUM - 1 - 1
  BY <1>3, <1>4, FS_RemoveElement
<1>6. f \in [S -> T]
  OBVIOUS
<1>7. Cardinality(T) < Cardinality(S)
  BY <1>2, <1>5, NumFacts
<1>. HIDE DEF S, T, f
<1>8. \E i, j \in S : i # j /\ f[i] = f[j]
  BY <1>2, <1>5, <1>6, <1>7, FS_PigeonHole
<1>. QED BY <1>8 DEF S, f

\* The new chain and all that wait to be read fit in the avail ring.
LEMMA AvailNeverLaps ==
    ASSUME VInv, NEW t \in Tasks, Submit(t) PROVE Bump(availIdx) # seen
<1>. SUFFICES ASSUME Bump(availIdx) = seen PROVE FALSE
  OBVIOUS
<1>. USE DEF VInv
<1>1. PICK a \in Desc, b \in Desc : a \in free /\ b \in free /\ a # b
  BY DEF Submit, Allocated, Lowest
<1>2. Desc \ {availIdx} \subseteq Pending
  BY SpanIs, SpanFull DEF TypeOK
<1>3. ASSUME NEW i \in Pending PROVE avail[i] \in Desc \ {a, b}
  <2>1. Awaited(avail[i])
    BY DEF OnePlace
  <2>2. info[avail[i]] \in InFlight /\ head[info[avail[i]]] = avail[i] /\ avail[i] \in Desc
    BY <2>1, NumFacts, SentinelAssumption DEF Awaited, InFlight
  <2>. QED BY <1>1, <2>2, HeadNotFree
<1>4. PICK i \in Pending, j \in Pending : i # j /\ avail[i] = avail[j]
  <2>1. /\ availIdx \in Desc /\ avail \in [Desc -> Desc \cup {NoDesc}]
        /\ \A i \in Desc \ {availIdx} : avail[i] \in Desc \ {a, b}
    BY <1>1, <1>2, <1>3 DEF TypeOK
  <2>2. \E i, j \in Desc \ {availIdx} : i # j /\ avail[i] = avail[j]
    BY ONLY <1>1, <2>1, RingHolds, a \in Desc, b \in Desc
  <2>. QED BY <1>2, <2>2
<1>. QED BY <1>4 DEF OnePlace

\* The chain that is reported now and those not looked at fit in the used ring.
LEMMA UsedNeverLaps ==
    ASSUME VInv, ReportedOnce, NEW d \in Desc, DeviceCompletes(d)
    PROVE  Bump(usedIdx) # used_idx
<1>. SUFFICES ASSUME Bump(usedIdx) = used_idx PROVE FALSE
  OBVIOUS
<1>. USE DEF VInv
<1>1. d \in taken /\ Awaited(d) /\ ~served[info[d]]
  BY DEF DeviceCompletes, OnePlace
<1>2. PICK t \in InFlight : head[t] = d /\ info[d] = t
  BY <1>1, NumFacts, SentinelAssumption DEF Awaited, InFlight
<1>3. next[d] \in Desc /\ next[d] # d /\ next[d] \in Chain(d)
  BY <1>2 DEF ChainShape, Chain
<1>4. Desc \ {usedIdx} \subseteq Reported
  BY SpanIs, SpanFull DEF TypeOK
<1>5. ASSUME NEW i \in Reported PROVE used[i] \in Desc \ {d, next[d]}
  <2>1. Awaited(used[i]) /\ served[info[used[i]]]
    BY DEF OnePlace
  <2>2. PICK u \in InFlight : head[u] = used[i] /\ info[used[i]] = u
    BY <2>1, NumFacts, SentinelAssumption DEF Awaited, InFlight
  <2>3. u # t
    BY <1>1, <1>2, <2>1, <2>2
  <2>4. used[i] \in Chain(head[u]) /\ Chain(head[u]) \cap Chain(d) = {} /\ d \in Chain(d)
    BY <1>2, <2>2, <2>3 DEF DescriptorsOwned, Chain
  <2>. QED BY <1>3, <2>1, <2>4 DEF Awaited
<1>6. PICK i \in Reported, j \in Reported : i # j /\ used[i] = used[j]
  <2>1. /\ usedIdx \in Desc /\ used \in [Desc -> Desc \cup {NoDesc}]
        /\ \A i \in Desc \ {usedIdx} : used[i] \in Desc \ {d, next[d]}
    BY <1>1, <1>3, <1>4, <1>5 DEF TypeOK
  <2>2. \E i, j \in Desc \ {usedIdx} : i # j /\ used[i] = used[j]
    <3>1. PICK e \in Desc : e = next[d]
      BY <1>3
    <3>2. d # e
      BY <1>3, <3>1
    <3>3. \A i \in Desc \ {usedIdx} : used[i] \in Desc \ {d, e}
      BY <2>1, <3>1
    <3>4. usedIdx \in Desc /\ used \in [Desc -> Desc \cup {NoDesc}]
      BY <2>1
    <3>. QED BY ONLY <3>2, <3>3, <3>4, RingHolds, d \in Desc, e \in Desc
  <2>. QED BY <1>4, <2>2
<1>. QED BY <1>6 DEF ReportedOnce

LEMMA LostSubmit ==
    ASSUME VInv, VInv', NothingLost, ReportedOnce, NEW t \in Tasks, Submit(t)
    PROVE  NothingLost' /\ ReportedOnce'
<1>. USE DEF VInv
<1>1. PICK a \in Desc : /\ avail' = [avail EXCEPT ![availIdx] = a]
                        /\ head'  = [head  EXCEPT ![t] = a]
  BY DEF Submit
<1>2. /\ availIdx' = Bump(availIdx) /\ busy' = [busy EXCEPT ![t] = TRUE]
      /\ UNCHANGED <<used, usedIdx, used_idx, seen, taken>>
  BY DEF Submit, device
<1>3. /\ Pending \cup {availIdx} \subseteq Pending' /\ availIdx \notin Pending
      /\ Reported' = Reported
  BY <1>2, AvailNeverLaps, SpanIs, SpanIsPrime, SpanGrows, SpanGrowsBy DEF TypeOK
<1>4. avail'[availIdx] = a /\ \A i \in Pending : avail'[i] = avail[i]
  BY <1>1, <1>3 DEF TypeOK, Pending
<1>5. head'[t] = a /\ \A u \in Tasks \ {t} : head'[u] = head[u] /\ busy'[u] = busy[u]
  BY <1>1, <1>2 DEF TypeOK
<1>. QED BY <1>2, <1>3, <1>4, <1>5 DEF NothingLost, ReportedOnce

LEMMA LostTakes ==
    ASSUME VInv, VInv', NothingLost, ReportedOnce, DeviceTakes
    PROVE  NothingLost' /\ ReportedOnce'
<1>. USE DEF VInv
<1>1. /\ seen # availIdx /\ taken' = taken \cup {avail[seen]}
      /\ avail' = [avail EXCEPT ![seen] = NoDesc]
      /\ seen' = Bump(seen)
      /\ UNCHANGED <<availIdx, used, usedIdx, used_idx, busy, head>>
  BY DEF DeviceTakes
<1>2. Pending \ {seen} \subseteq Pending' /\ Reported' = Reported
  BY <1>1, SpanIs, SpanIsPrime, SpanShrinksBy DEF TypeOK
<1>3. \A i \in Pending \ {seen} : avail'[i] = avail[i]
  BY <1>1 DEF TypeOK, Pending
<1>. QED BY <1>1, <1>2, <1>3 DEF NothingLost, ReportedOnce

LEMMA LostCompletes ==
    ASSUME VInv, VInv', NothingLost, ReportedOnce, NEW d \in Desc, DeviceCompletes(d)
    PROVE  NothingLost' /\ ReportedOnce'
<1>. USE DEF VInv
<1>1. /\ d \in taken /\ taken' = taken \ {d}
      /\ used' = [used EXCEPT ![usedIdx] = d] /\ usedIdx' = Bump(usedIdx)
      /\ UNCHANGED <<avail, availIdx, used_idx, seen, busy, head>>
  BY DEF DeviceCompletes
<1>2. /\ Reported' = Reported \cup {usedIdx} /\ usedIdx \notin Reported
      /\ Pending' = Pending
  <2>1. Bump(usedIdx) # used_idx
    BY UsedNeverLaps
  <2>. QED BY <1>1, <2>1, SpanIs, SpanIsPrime, SpanGrows, SpanGrowsBy DEF TypeOK
<1>3. used'[usedIdx] = d /\ \A i \in Reported : used'[i] = used[i]
  BY <1>1, <1>2 DEF TypeOK, Reported
<1>4. \A i \in Reported : used[i] # d
  BY <1>1 DEF OnePlace
<1>5. ReportedOnce'
  BY <1>2, <1>3, <1>4 DEF ReportedOnce
<1>6. NothingLost'
  BY <1>1, <1>2, <1>3 DEF NothingLost
<1>. QED BY <1>5, <1>6

LEMMA LostInterrupt ==
    ASSUME VInv, VInv', NothingLost, ReportedOnce, Interrupt
    PROVE  NothingLost' /\ ReportedOnce'
<1>. USE DEF VInv
<1>1. /\ \A t \in Tasks : busy'[t] => busy[t] /\ \A i \in Reported : info[used[i]] # t
      /\ used_idx' = usedIdx
      /\ UNCHANGED <<avail, availIdx, usedIdx, seen, taken, head>>
  BY DEF Interrupt, device
<1>2. Reported' = {} /\ Pending' = Pending
  BY <1>1, SpanIs, SpanIsPrime, SpanEmpty DEF TypeOK
<1>3. ASSUME NEW t \in Tasks, busy'[t] PROVE ~ \E i \in Reported : used[i] = head[t]
  <2>1. info[head[t]] = t
    BY <1>1, <1>3, SomeHead DEF Placed
  <2>. QED BY <1>1, <1>3, <2>1
<1>. QED BY <1>1, <1>2, <1>3 DEF NothingLost, ReportedOnce

LEMMA LostFinish ==
    ASSUME VInv, NothingLost, ReportedOnce, NEW t \in Tasks, Finish(t)
    PROVE  NothingLost' /\ ReportedOnce'
<1>1. /\ UNCHANGED <<rings, device, busy>> /\ ~busy[t]
      /\ \A u \in Tasks \ {t} : head'[u] = head[u]
  BY DEF Finish, WaitOver, VInv, TypeOK
<1>2. Pending' = Pending /\ Reported' = Reported
  BY <1>1 DEF Pending, Reported, rings, device
<1>. QED BY <1>1, <1>2 DEF NothingLost, ReportedOnce, rings, device

\* The device always finds what the driver gave it, and the driver what the
\* device reports: no transfer is ever lost in the rings, for any number of
\* tasks and descriptors.
THEOREM NothingLostTheorem == Spec => []NothingLost
<1>1. Init => NothingLost /\ ReportedOnce
  <2>1. Init => TypeOK
    BY InitInv DEF VInv
  <2>2. Init => Reported = {}
    BY <2>1, SpanIs, SpanEmpty, NumFacts DEF Init
  <2>. QED BY <2>2 DEF Init, NothingLost, ReportedOnce
<1>2. VInv /\ VInv' /\ (NothingLost /\ ReportedOnce) /\ [Next]_vars
        => (NothingLost /\ ReportedOnce)'
  <2>. SUFFICES ASSUME VInv, VInv', NothingLost, ReportedOnce, [Next]_vars
                PROVE  (NothingLost /\ ReportedOnce)'
    OBVIOUS
  <2>1. ASSUME UNCHANGED <<rings, device, busy, head>>
        PROVE  (NothingLost /\ ReportedOnce)'
    BY <2>1 DEF NothingLost, ReportedOnce, Pending, Reported, rings, device
  <2>2. CASE \/ Preempt
             \/ \E t \in Tasks : \/ TooFew(t) \/ WaitOn(t) \/ Return(t)
                                 \/ SystemCall(t) \/ ChildExits(t)
             \/ UNCHANGED vars
    BY <2>1, <2>2 DEF Preempt, TooFew, WaitOn, Return, SystemCall, ChildExits, vars
  <2>3. ASSUME NEW t \in Tasks, Submit(t) PROVE (NothingLost /\ ReportedOnce)'
    BY <2>3, LostSubmit
  <2>4. ASSUME NEW t \in Tasks, Finish(t) PROVE (NothingLost /\ ReportedOnce)'
    BY <2>4, LostFinish
  <2>5. ASSUME NEW d \in Desc, DeviceCompletes(d) PROVE (NothingLost /\ ReportedOnce)'
    BY <2>5, LostCompletes
  <2>. QED BY <2>2, <2>3, <2>4, <2>5, LostTakes, LostInterrupt DEF Next, KernelStep
<1>. QED BY <1>1, <1>2, VirtioInvariance, PTL DEF Spec

=============================================================================
