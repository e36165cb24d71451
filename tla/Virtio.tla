------------------------------- MODULE Virtio -------------------------------
(***************************************************************************)
(* The virtio disk driver (arch/riscv/kernel/virtio_disk.c): descriptors,  *)
(* the two rings it shares with the device, and its interrupt.             *)
(*                                                                         *)
(* The hart matters here: an interrupt is taken in user mode only, and the *)
(* driver's lock is never held there.  A task keeps its buffer's sleep     *)
(* lock during a transfer, so a buffer is named by the task that uses it.  *)
(***************************************************************************)
EXTENDS Integers, FiniteSets

CONSTANTS
    Tasks,       \* tasks that use the disk
    NUM,         \* descriptors, and slots of each ring
    Idle,        \* the idle task and all tasks that do not use the disk
    NoDesc, NoBuf

ASSUME NumAssumption      == NUM \in Nat /\ NUM >= 3
ASSUME SentinelAssumption == Idle \notin Tasks /\ NoBuf \notin Tasks /\ NoDesc \notin Nat
ASSUME TasksAssumption    == IsFiniteSet(Tasks)

Desc == 0..NUM-1

VARIABLES
    free,        \* disk.free[]: the free descriptors
    next,        \* disk.desc[].next where VRING_DESC_F_NEXT is set, else NoDesc
    info,        \* disk.info[].b
    avail, availIdx,     \* the avail ring and its index, modulo NUM
    used, usedIdx,       \* the used ring and its index used->id, modulo NUM
    used_idx,    \* how far the driver has looked in the used ring
    seen, taken, \* device: how far it has looked in avail; chains in work
    busy,        \* b->disk
    served,      \* history: the device has carried out the task's last transfer
    head,        \* idx[0] in virtio_disk_rw()
    pc, state,   \* where a task is; "READY" or "SLEEPING"
    current      \* whom the hart runs

rings  == <<avail, availIdx, used, usedIdx, used_idx>>
device == <<seen, taken>>
vars   == <<free, next, info, rings, device, busy, served, head, pc, state, current>>

\* "kernel": in a system call, outside the driver; "alloc": asleep for
\* descriptors; "wait": in the loop that waits for b->disk.
Places == {"user", "kernel", "alloc", "wait"}

TypeOK ==
    /\ free \subseteq Desc
    /\ next \in [Desc -> Desc \cup {NoDesc}]
    /\ info \in [Desc -> Tasks \cup {NoBuf}]
    /\ avail \in [Desc -> Desc \cup {NoDesc}] /\ availIdx \in Desc
    /\ used  \in [Desc -> Desc \cup {NoDesc}] /\ usedIdx  \in Desc
    /\ used_idx \in Desc /\ seen \in Desc /\ taken \subseteq Desc
    /\ busy \in [Tasks -> BOOLEAN] /\ served \in [Tasks -> BOOLEAN]
    /\ head \in [Tasks -> Desc \cup {NoDesc}]
    /\ pc \in [Tasks -> Places] /\ state \in [Tasks -> {"READY", "SLEEPING"}]
    /\ current \in Tasks \cup {Idle}

Init ==
    /\ free = Desc
    /\ next = [d \in Desc |-> NoDesc] /\ info = [d \in Desc |-> NoBuf]
    /\ avail = [d \in Desc |-> NoDesc] /\ availIdx = 0
    /\ used  = [d \in Desc |-> NoDesc] /\ usedIdx = 0 /\ used_idx = 0
    /\ seen = 0 /\ taken = {}
    /\ busy = [t \in Tasks |-> FALSE] /\ served = [t \in Tasks |-> TRUE]
    /\ head = [t \in Tasks |-> NoDesc]
    /\ pc = [t \in Tasks |-> "user"] /\ state = [t \in Tasks |-> "READY"]
    /\ current = Idle

-----------------------------------------------------------------------------
(* The hart.                                                               *)

InUser == current \in Tasks => pc[current] = "user"
Runs(t, place) == current = t /\ pc[t] = place

\* schedule(): any ready task (which one depends on the slices), and the idle
\* task only when there is none.
Schedule(st) ==
    LET ready == {t \in Tasks : st[t] = "READY"}
    IN  current' \in IF ready = {} THEN {Idle} ELSE ready

\* t goes to sleep in place, where st are the states the code left before.
SleepAt(t, place, st) ==
    LET slept == [st EXCEPT ![t] = "SLEEPING"]
    IN  /\ pc' = [pc EXCEPT ![t] = place]
        /\ state' = slept
        /\ Schedule(slept)

\* A timer interrupt that ends a time slice.
Preempt ==
    /\ InUser
    /\ Schedule(state)
    /\ UNCHANGED <<free, next, info, rings, device, busy, served, head, pc, state>>

SystemCall(t) ==
    /\ Runs(t, "user")
    /\ pc' = [pc EXCEPT ![t] = "kernel"]
    /\ UNCHANGED <<free, next, info, rings, device, busy, served, head, state, current>>

Return(t) ==
    /\ Runs(t, "kernel")
    /\ pc' = [pc EXCEPT ![t] = "user"]
    /\ UNCHANGED <<free, next, info, rings, device, busy, served, head, state, current>>

\* A child of t runs and exits while the hart is elsewhere: t is made ready,
\* whatever it waits for.
ChildExits(t) ==
    /\ InUser /\ state[t] = "SLEEPING"
    /\ state' = [state EXCEPT ![t] = "READY"]
    /\ UNCHANGED <<free, next, info, rings, device, busy, served, head, pc, current>>

-----------------------------------------------------------------------------
(* virtio_disk_rw()                                                        *)

Bump(i) == (i + 1) % NUM

AllWoken_Nobody == state                 \* mutant: free_desc() wakes nobody

\* wakeup(&disk.free[0]): every task that waits for descriptors.
AllWoken == [t \in Tasks |-> IF pc[t] = "alloc" THEN "READY" ELSE state[t]]

\* alloc3_desc() takes the lowest free descriptors.
Lowest(d) == d \in free /\ \A e \in free : d <= e
Allocated(a, b, c) ==
    /\ Lowest(a)
    /\ b \in free \ {a}    /\ \A e \in free \ {a}    : b <= e
    /\ c \in free \ {a, b} /\ \A e \in free \ {a, b} : c <= e

WantsTransfer(t) == Runs(t, "kernel") \/ Runs(t, "alloc")

\* The transfer is put in the avail ring; the device cannot have finished it
\* before the test of the waiting loop, which the interrupt must make true.
Submit(t) ==
    /\ WantsTransfer(t)
    /\ \E a, b, c \in Desc :
          /\ Allocated(a, b, c)
          /\ free'  = free \ {a, b, c}
          /\ next'  = [next  EXCEPT ![a] = b, ![b] = c, ![c] = NoDesc]
          /\ info'  = [info  EXCEPT ![a] = t]
          /\ avail' = [avail EXCEPT ![availIdx] = a]
          /\ head'  = [head  EXCEPT ![t] = a]
    /\ availIdx' = Bump(availIdx)
    /\ busy'   = [busy   EXCEPT ![t] = TRUE]
    /\ served' = [served EXCEPT ![t] = FALSE]
    /\ SleepAt(t, "wait", state)
    /\ UNCHANGED <<used, usedIdx, used_idx, device>>

\* Fewer than three are free: alloc3_desc() gives back what it took, which
\* wakes the other waiters if it took any, and t sleeps.
TooFew(t) ==
    /\ WantsTransfer(t) /\ Cardinality(free) < 3
    /\ SleepAt(t, "alloc", IF free = {} THEN state ELSE AllWoken)
    /\ UNCHANGED <<free, next, info, rings, device, busy, served, head>>

WaitOn(t) ==      \* while (b->disk == 1) sleep(b, ...)
    /\ Runs(t, "wait") /\ busy[t]
    /\ SleepAt(t, "wait", state)
    /\ UNCHANGED <<free, next, info, rings, device, busy, served, head>>

Chain(d) == {d, next[d], next[next[d]]}  \* a transfer's three descriptors

Freed_Head(t) == {head[t]}               \* mutant: only the head is freed

Freed(t) == Chain(head[t])               \* free_chain() follows the links

WaitOver_Woken(t) == TRUE                \* mutant: an if instead of a while

WaitOver(t) == ~busy[t]

\* The transfer is over: free_chain() frees its descriptors and wakes waiters.
Finish(t) ==
    /\ Runs(t, "wait") /\ WaitOver(t)
    /\ info' = [info EXCEPT ![head[t]] = NoBuf]
    /\ free' = free \cup Freed(t)
    /\ next' = [d \in Desc |-> IF d \in Freed(t) THEN NoDesc ELSE next[d]]
    /\ head' = [head EXCEPT ![t] = NoDesc]
    /\ state' = AllWoken
    /\ pc' = [pc EXCEPT ![t] = "kernel"]
    /\ UNCHANGED <<rings, device, busy, served, current>>

-----------------------------------------------------------------------------
(* The device, and the interrupt it raises.  What a ring slot held is       *)
(* forgotten once it has been read.                                        *)

DeviceTakes ==
    /\ seen # availIdx
    /\ taken' = taken \cup {avail[seen]}
    /\ avail' = [avail EXCEPT ![seen] = NoDesc]
    /\ seen' = Bump(seen)
    /\ UNCHANGED <<free, next, info, availIdx, used, usedIdx, used_idx, busy, served,
                   head, pc, state, current>>

\* The device carries out the transfer of chain d; it may take them in any order.
DeviceCompletes(d) ==
    /\ d \in taken
    /\ taken' = taken \ {d}
    /\ used' = [used EXCEPT ![usedIdx] = d] /\ usedIdx' = Bump(usedIdx)
    /\ served' = [t \in Tasks |-> served[t] \/ info[d] = t]
    /\ UNCHANGED <<free, next, info, avail, availIdx, used_idx, seen, busy,
                   head, pc, state, current>>

Reported_First == {used_idx}             \* mutant: one completion per interrupt

\* The slots that the loop of virtio_disk_intr() visits: from used_idx up to
\* used->id, around the ring.
Reported == {i \in Desc : (i - used_idx) % NUM < (usedIdx - used_idx) % NUM}

Interrupt ==
    LET done == {info[used[i]] : i \in Reported}
    IN  /\ InUser /\ usedIdx # used_idx
        /\ busy'  = [t \in Tasks |-> busy[t] /\ t \notin done]
        /\ state' = [t \in Tasks |-> IF t \in done /\ pc[t] = "wait"
                                     THEN "READY" ELSE state[t]]
        /\ used' = [i \in Desc |-> IF i \in Reported THEN NoDesc ELSE used[i]]
        /\ used_idx' = usedIdx
        /\ UNCHANGED <<free, next, info, avail, availIdx, usedIdx, device, served,
                       head, pc, current>>

KernelStep(t) == Submit(t) \/ TooFew(t) \/ WaitOn(t) \/ Finish(t) \/ Return(t)

Next ==
    \/ Preempt \/ DeviceTakes \/ Interrupt
    \/ \E t \in Tasks : KernelStep(t) \/ SystemCall(t) \/ ChildExits(t)
    \/ \E d \in Desc : DeviceCompletes(d)

Spec == Init /\ [][Next]_vars

\* The hart goes on executing kernel code, the device serves what it is given,
\* and a pending interrupt is taken before the next instruction in user mode.
Fairness ==
    /\ WF_vars(\E t \in Tasks : KernelStep(t))
    /\ WF_vars(DeviceTakes)
    /\ \A d \in Desc : WF_vars(DeviceCompletes(d))
    /\ SF_vars(Interrupt)

FairSpec == Spec /\ Fairness

-----------------------------------------------------------------------------
InFlight == {t \in Tasks : head[t] # NoDesc}

\* Every descriptor is free or in the chain of exactly one transfer; none is
\* lost when an allocation fails half way, and none is given out twice.
DescriptorsOwned ==
    /\ \A d \in Desc : d \notin free <=> \E t \in InFlight : d \in Chain(head[t])
    /\ \A t, u \in InFlight : t # u => Chain(head[t]) \cap Chain(head[u]) = {}

\* A chain the device works on, or reports, is that of a task that still waits:
\* the interrupt finds a buffer behind every id.
CompletionsKnown ==
    /\ \A d \in taken : info[d] \in Tasks /\ busy[info[d]] /\ head[info[d]] = d
    /\ \A i \in Reported : info[used[i]] \in Tasks /\ busy[info[used[i]]]

\* A transfer that virtio_disk_rw() reports as done has been carried out.
DoneIsServed == \A t \in Tasks : pc[t] # "wait" \/ ~busy[t] => served[t]

\* Who sleeps for descriptors cannot have three; who sleeps for its transfer
\* has one under way.
NoLostWakeup ==
    \A t \in Tasks : state[t] = "SLEEPING" =>
        /\ pc[t] = "alloc" => Cardinality(free) < 3
        /\ pc[t] = "wait"  => busy[t]

\* "Wait for virtio_disk_intr() to say request has finished": it does so.
TransfersFinish == \A t \in Tasks : busy[t] ~> ~busy[t]

=============================================================================
