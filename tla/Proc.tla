-------------------------------- MODULE Proc --------------------------------
(***************************************************************************)
(* The process table, the scheduler and the process system calls           *)
(* (arch/riscv/kernel/sched.c, clone.c, spinlock.c).                       *)
(*                                                                         *)
(* One hart runs the kernel and a trap clears SIE, so kernel code is       *)
(* preempted nowhere, the end of exec() apart, which sets SIE and is not   *)
(* modelled: between two calls of schedule() it is one step.  An action is *)
(* such a stretch of code.  It starts either in user mode (pc = "user": a  *)
(* system call, or an interrupt taken there) or where the task once called *)
(* schedule() and has now been switched back to.                           *)
(***************************************************************************)
EXTENDS Integers

CONSTANTS
    NR_TASKS,      \* size of task[]
    MaxCounter,    \* rand() returns a time slice in 1..MaxCounter
    Channels,      \* wait channels that drivers and file code sleep on
    WaitPids,      \* pids that user programs pass to wait4 (AnyChild for -1)
    Workload,      \* which of OptionalCalls user programs make
    MaxNap,        \* bound: timer ticks a nanosleep may last
    AnyChild, NoOwner, NoChan

ASSUME NRTasksAssumption  == NR_TASKS \in Nat /\ NR_TASKS >= 2
ASSUME CounterAssumption  == MaxCounter \in Nat /\ MaxCounter >= 1
ASSUME NapAssumption      == MaxNap \in Nat
\* Calls that an instance may leave out to keep its state space small: naps,
\* brk() with no memory left, writing files that are then left open.
OptionalCalls == {"nap", "brk", "write"}

ASSUME WorkloadAssumption == Workload \subseteq OptionalCalls
ASSUME SentinelAssumption ==
    /\ NoOwner \notin Nat /\ AnyChild \notin Nat /\ NoChan \notin Channels
    /\ WaitPids \subseteq (0..NR_TASKS-1) \cup {AnyChild}

Tasks  == 0..NR_TASKS-1      \* indices of task[]; task 0 is the idle task
Forked == 1..NR_TASKS-1

VARIABLES
    state,     \* task[i]->state, or "NULL" when task[i] == 0
    counter,   \* task[i]->counter, the remaining time slice
    ppid,      \* task[i]->ppid
    chan,      \* task[i]->chan
    lk,        \* owner of the spinlock task[i]->lk
    pc,        \* where task i continues when it is switched to
    target,    \* the pid task i waits for, while pc[i] = "waitPid"
    dirty,     \* task i has a file whose final release writes to the disk
    current,   \* pid of the running task
    flag,      \* nanosleep's global: pid of the sleeping task, 0 for none
    left,      \* timer ticks until the deadline kept in sec/nsec
    kernel     \* "running", or how it stopped: "spin", "panic", "fault"

table == <<state, counter, ppid, chan, lk, pc, target, dirty>>
vars  == <<table, current, flag, left, kernel>>

States == {"NULL", "READY", "ZOMBIE", "SLEEPING"}
Places == {"user", "sleep", "waitAny", "waitPid", "nap", "exited"}
Stops  == {"running", "spin", "panic", "fault"}

TypeOK ==
    /\ state   \in [Tasks -> States]
    /\ counter \in [Tasks -> 0..MaxCounter]
    /\ ppid    \in [Tasks -> Tasks]
    /\ chan    \in [Tasks -> Channels \cup {NoChan}]
    /\ lk      \in [Tasks -> Tasks \cup {NoOwner}]
    /\ pc      \in [Tasks -> Places]
    /\ target  \in [Tasks -> Tasks]
    /\ dirty   \in [Tasks -> BOOLEAN]
    /\ current \in Tasks
    /\ flag    \in Tasks
    /\ left    \in 0..MaxNap
    /\ kernel  \in Stops

\* task_init made task 0 and user_init task 1; task 0 runs the idle loop.
Init ==
    /\ state   = [i \in Tasks |-> IF i <= 1 THEN "READY" ELSE "NULL"]
    /\ \E slice \in 1..MaxCounter :
          counter = [i \in Tasks |-> IF i = 0 THEN 1
                                     ELSE IF i = 1 THEN slice ELSE 0]
    /\ ppid    = [i \in Tasks |-> 0]
    /\ chan    = [i \in Tasks |-> NoChan]
    /\ lk      = [i \in Tasks |-> NoOwner]
    /\ pc      = [i \in Tasks |-> "user"]
    /\ target  = [i \in Tasks |-> 0]
    /\ dirty   = [i \in Tasks |-> FALSE]
    /\ current = 0
    /\ flag = 0 /\ left = 0
    /\ kernel = "running"

-----------------------------------------------------------------------------
(* Spinlocks and schedule().                                               *)

\* A trap handler runs: an interrupt or a system call found current in user
\* mode.  Only forked tasks make system calls.
InUser  == kernel = "running" /\ pc[current] = "user"
Syscall == InUser /\ current # 0

Unlocked(i) == lk[i] = NoOwner

\* acquire() of a task lock that is taken: by current itself it panics, by
\* another task it spins, and with interrupts off nobody can ever release it.
Stuck(i) ==
    /\ ~Unlocked(i)
    /\ kernel' = IF lk[i] = current THEN "panic" ELSE "spin"
    /\ UNCHANGED <<table, current, flag, left>>

Expired_NeverRenewed(st, cnt) == {}     \* mutant: slices are never renewed

\* Tasks whose used-up slice schedule() renews.
Expired(st, cnt) == {i \in Forked : st[i] = "READY" /\ cnt[i] = 0}

Runnable_AnyState(st, cnt) ==           \* mutant: the state is not looked at
    {i \in Forked : st[i] # "NULL" /\ cnt[i] > 0}

Runnable(st, cnt) == {i \in Forked : st[i] = "READY" /\ cnt[i] > 0}

\* n is the task schedule() picks: shortest remaining slice first, the
\* highest index among equals, the idle task when nobody is ready.
Picked(n, st, cnt) ==
    \/ Runnable(st, cnt) = {} /\ n = 0
    \/ /\ n \in Runnable(st, cnt)
       /\ \A i \in Runnable(st, cnt) :
             cnt[n] < cnt[i] \/ (cnt[n] = cnt[i] /\ n >= i)

\* schedule(), called with task states st and time slices cnt.
Schedule(st, cnt) ==
    \E renewed \in [Expired(st, cnt) -> 1..MaxCounter], n \in Tasks :
        LET slices == [i \in Tasks |-> IF i \in DOMAIN renewed
                                       THEN renewed[i] ELSE cnt[i]]
        IN  /\ Picked(n, st, slices)
            /\ state' = st /\ counter' = slices /\ current' = n

\* current changes its state to st and gives up the hart; it will go on at p.
Block(st, p) ==
    /\ pc' = [pc EXCEPT ![current] = p]
    /\ Schedule([state EXCEPT ![current] = st], counter)

-----------------------------------------------------------------------------
(* sleep() and wakeup(), as the drivers and the file code use them.        *)

SleepOn_Unlocked(c) ==                  \* mutant: own lock not taken
    /\ chan' = [chan EXCEPT ![current] = c]
    /\ Block("SLEEPING", "sleep")
    /\ UNCHANGED <<lk, ppid, target, dirty, flag, left, kernel>>

\* sleep(chan, lk) with a driver's spinlock: current keeps its own lock
\* across schedule().
SleepOn(c) ==
    \/ Stuck(current)
    \/ /\ Unlocked(current)
       /\ lk'   = [lk EXCEPT ![current] = current]
       /\ chan' = [chan EXCEPT ![current] = c]
       /\ Block("SLEEPING", "sleep")
       /\ UNCHANGED <<ppid, target, dirty, flag, left, kernel>>

Sleep(c) == Syscall /\ SleepOn(c)

\* Back from schedule() in sleep(): release() panics unless current holds
\* its lock; then the caller's loop either is done or sleeps again.
Resume ==
    /\ kernel = "running" /\ pc[current] = "sleep"
    /\ \/ /\ lk[current] # current
          /\ kernel' = "panic"
          /\ UNCHANGED <<table, current, flag, left>>
       \/ /\ lk[current] = current
          /\ lk'   = [lk EXCEPT ![current] = NoOwner]
          /\ chan' = [chan EXCEPT ![current] = NoChan]
          /\ pc'   = [pc EXCEPT ![current] = "user"]
          /\ UNCHANGED <<state, counter, ppid, target, dirty, current, flag, left, kernel>>

SleepAgain(c) ==
    /\ kernel = "running" /\ pc[current] = "sleep" /\ lk[current] = current
    /\ chan' = [chan EXCEPT ![current] = c]
    /\ Block("SLEEPING", "sleep")
    /\ UNCHANGED <<lk, ppid, target, dirty, flag, left, kernel>>

\* wakeup(chan), from an interrupt handler or from a system call of current.
Wakeup(c) ==
    /\ InUser
    /\ state' = [i \in Tasks |-> IF i \in Forked /\ state[i] = "SLEEPING" /\ chan[i] = c
                                 THEN "READY" ELSE state[i]]
    /\ UNCHANGED <<counter, ppid, chan, lk, pc, target, dirty, current, flag, left, kernel>>

-----------------------------------------------------------------------------
(* Timer, yield, nanosleep.                                                *)

Tick_Unchecked == [counter EXCEPT ![current] = @ - 1]   \* mutant: no guard

\* The running task's slice after a tick; the idle task has none.
Tick == IF current # 0 /\ counter[current] > 0
        THEN [counter EXCEPT ![current] = @ - 1] ELSE counter

\* do_timer(): time() wakes the registered sleeper whatever has become of it,
\* then a used-up slice (any slice, for the idle task) leads to schedule().
\* Storing through task[flag] == 0 faults, or hits the page mapped at 0.
Timer ==
    LET due   == flag # 0 /\ left = 0
        woken == IF due /\ state[flag] # "NULL"
                 THEN [state EXCEPT ![flag] = "READY"] ELSE state
    IN  /\ InUser
        /\ \/ /\ due /\ state[flag] = "NULL"
              /\ kernel' = "fault"
              /\ UNCHANGED <<table, current, flag, left>>
           \/ /\ flag' = IF due THEN 0 ELSE flag
              /\ left' = IF flag # 0 /\ left > 0 THEN left - 1 ELSE 0
              /\ IF current = 0 \/ Tick[current] = 0
                   THEN Schedule(woken, Tick)
                   ELSE state' = woken /\ counter' = Tick /\ current' = current
              /\ UNCHANGED <<ppid, chan, lk, pc, target, dirty, kernel>>

Yield ==
    /\ Syscall
    /\ Schedule(state, counter)
    /\ UNCHANGED <<ppid, chan, lk, pc, target, dirty, flag, left, kernel>>

Nanosleep(ticks) ==
    /\ Syscall /\ "nap" \in Workload
    /\ flag' = current /\ left' = ticks
    /\ Block("SLEEPING", "nap")
    /\ UNCHANGED <<ppid, chan, lk, target, dirty, kernel>>

\* Back from schedule() in nanosleep() or exit(): return to user mode.  exit()
\* gets here only if something makes the zombie ready again.
Return ==
    /\ kernel = "running" /\ pc[current] \in {"nap", "exited"}
    /\ pc' = [pc EXCEPT ![current] = "user"]
    /\ UNCHANGED <<state, counter, ppid, chan, lk, target, dirty, current, flag, left, kernel>>

-----------------------------------------------------------------------------
(* clone(), exit(), wait().                                                *)

\* clone(): the lowest free slot; the child's lock is zeroed memory.  Without
\* a free slot the call returns -1 and changes nothing.
Clone(child, slice) ==
    /\ Syscall
    /\ child \in Forked /\ state[child] = "NULL"
    /\ \A i \in Forked : state[i] = "NULL" => child <= i
    /\ state'   = [state   EXCEPT ![child] = "READY"]
    /\ counter' = [counter EXCEPT ![child] = slice]
    /\ ppid'    = [ppid    EXCEPT ![child] = current]
    /\ chan'    = [chan    EXCEPT ![child] = NoChan]
    /\ lk'      = [lk      EXCEPT ![child] = NoOwner]
    /\ pc'      = [pc      EXCEPT ![child] = "user"]
    /\ dirty'   = [dirty   EXCEPT ![child] = FALSE]
    /\ UNCHANGED <<target, current, flag, left, kernel>>

Orphans_Kept     == ppid                \* mutant: the children keep their ppid
ParentCalled_Not == state               \* mutant: the parent sleeps on

Orphans == [i \in Tasks |->              \* children of current go to task 0
    IF i \in Forked \ {current} /\ state[i] # "NULL" /\ ppid[i] = current
    THEN 0 ELSE ppid[i]]

ParentCalled ==                         \* current's parent, if asleep, is woken
    IF state[ppid[current]] = "SLEEPING"
    THEN [state EXCEPT ![ppid[current]] = "READY"] ELSE state

\* exit(): hand the children to task 0, wake the parent from whatever sleep it
\* is in, become a zombie.
Exit ==
    /\ Syscall
    /\ \/ Stuck(current)
       \/ /\ Unlocked(current)
          /\ ppid' = Orphans
          /\ Schedule([ParentCalled EXCEPT ![current] = "ZOMBIE"], counter)
          /\ pc' = [pc EXCEPT ![current] = "exited"]
          /\ UNCHANGED <<chan, lk, target, dirty, flag, left, kernel>>

\* wait() found the zombie i; its struct is given up (the fields are reset here
\* only to forget them).  taskFree() releases its files while current
\* holds its own lock; a release that must wait for the disk calls sleep(),
\* which acquires that lock again and panics.
Reap(i) ==
    \/ /\ dirty[i]
       /\ kernel' = "panic"
       /\ UNCHANGED <<table, current, flag, left>>
    \/ /\ ~dirty[i]
       /\ state'   = [state   EXCEPT ![i] = "NULL"]
       /\ counter' = [counter EXCEPT ![i] = 0]
       /\ ppid'    = [ppid    EXCEPT ![i] = 0]
       /\ lk'      = [lk      EXCEPT ![i] = NoOwner]
       /\ pc'      = [pc      EXCEPT ![i] = "user", ![current] = "user"]
       /\ target'  = [target  EXCEPT ![current] = 0]
       /\ UNCHANGED <<chan, dirty, current, flag, left, kernel>>

WaitGoesBack(p) ==      \* WUNTRACED: current->state = TASK_SLEEPING; schedule()
    /\ Block("SLEEPING", p)
    /\ UNCHANGED <<ppid, chan, lk, dirty, flag, left, kernel>>

WaitReturns(locks) ==   \* return to user mode with the task locks as given
    /\ pc' = [pc EXCEPT ![current] = "user"]
    /\ lk' = locks
    /\ target' = [target EXCEPT ![current] = 0]
    /\ UNCHANGED <<state, counter, ppid, chan, dirty, current, flag, left, kernel>>

ZombieChild(i) == ppid[i] = current /\ state[i] = "ZOMBIE"

\* wait(-1, options): locks every other task in turn, up to the first zombie
\* child.  With an option that is none of the three, the code goes on with
\* task[NR_TASKS], beyond the array.
WaitAny(options) ==
    LET others   == {i \in Forked \ {current} : state[i] # "NULL"}
        notable  == {i \in others : ~Unlocked(i) \/ ZombieChild(i)}
    IN  \/ Stuck(current)
        \/ /\ Unlocked(current)
           /\ \E i \in notable :
                /\ \A j \in notable : i <= j
                /\ Stuck(i) \/ (Unlocked(i) /\ Reap(i))
        \/ /\ Unlocked(current) /\ notable = {}
           /\ \/ options = "WNOHANG" /\ WaitReturns(lk)
              \/ /\ options = "WUNTRACED"
                 /\ WaitGoesBack("waitAny") /\ UNCHANGED target
              \/ /\ options = "other"
                 /\ kernel' = "fault"
                 /\ UNCHANGED <<table, current, flag, left>>

\* wait(p, options) with p # -1.  A slot without a task is dereferenced all the
\* same: that faults, or reads the page mapped at 0 and returns -1.  Two early
\* returns leave task[p]->lk locked.
WaitPid(p, options) ==
    \/ Stuck(current)
    \/ /\ Unlocked(current)
       /\ \/ /\ state[p] = "NULL"
             /\ \/ WaitReturns(lk)
                \/ kernel' = "fault" /\ UNCHANGED <<table, current, flag, left>>
          \/ /\ p = current
             /\ kernel' = "panic" /\ UNCHANGED <<table, current, flag, left>>
          \/ state[p] # "NULL" /\ p # current /\ Stuck(p)
          \/ /\ state[p] # "NULL" /\ p # current /\ Unlocked(p)
             /\ \/ /\ ppid[p] # current
                   /\ WaitReturns([lk EXCEPT ![p] = current])
                \/ ZombieChild(p) /\ Reap(p)
                \/ /\ ppid[p] = current /\ state[p] # "ZOMBIE"
                   /\ \/ options = "WNOHANG" /\ WaitReturns(lk)
                      \/ /\ options = "WUNTRACED"
                         /\ WaitGoesBack("waitPid")
                         /\ target' = [target EXCEPT ![current] = p]
                      \/ /\ options = "other"
                         /\ WaitReturns([lk EXCEPT ![p] = current])

\* wait4 from user mode; WCONTINUED returns -1 at once and changes nothing.
Wait(pid, options) ==
    /\ Syscall
    /\ \/ pid = AnyChild /\ WaitAny(options)
       \/ pid # AnyChild /\ WaitPid(pid, options)

\* wait() again after its schedule(): goto repeat1, goto repeat2.
WaitRepeats ==
    /\ kernel = "running"
    /\ \/ pc[current] = "waitAny" /\ WaitAny("WUNTRACED")
       \/ pc[current] = "waitPid" /\ WaitPid(target[current], "WUNTRACED")

-----------------------------------------------------------------------------
\* growtask() returns -1 with current->lk held when kmalloc() fails.
BrkFails ==
    /\ Syscall /\ "brk" \in Workload
    /\ \/ Stuck(current)
       \/ /\ Unlocked(current)
          /\ lk' = [lk EXCEPT ![current] = current]
          /\ UNCHANGED <<state, counter, ppid, chan, pc, target, dirty, current, flag, left, kernel>>

\* current opens a file of its own and writes it; exit() does not close it.
WriteFile ==
    /\ Syscall /\ "write" \in Workload
    /\ dirty' = [dirty EXCEPT ![current] = TRUE]
    /\ UNCHANGED <<state, counter, ppid, chan, lk, pc, target, current, flag, left, kernel>>

Next ==
    \/ Timer \/ Yield \/ Return \/ Exit \/ BrkFails \/ WriteFile
    \/ Resume \/ WaitRepeats
    \/ \E c \in Channels : Sleep(c) \/ SleepAgain(c) \/ Wakeup(c)
    \/ \E t \in 1..MaxNap : Nanosleep(t)
    \/ \E child \in Forked, slice \in 1..MaxCounter : Clone(child, slice)
    \/ \E pid \in WaitPids, options \in {"WNOHANG", "WUNTRACED", "other"} :
          Wait(pid, options)

Spec == Init /\ [][Next]_vars

-----------------------------------------------------------------------------
(* Safety.                                                                 *)

\* A task that is or has been is never left with a dead parent: exit() hands
\* every child to task 0 before the slot can be reaped and reused.
ParentsLive ==
    \A i \in Forked : state[i] # "NULL" =>
        ppid[i] # i /\ state[ppid[i]] \in {"READY", "SLEEPING"}

\* No exit is lost: while a parent is asleep in wait(), the child (any child,
\* or the one it named) is still its own and has not become a zombie.
NoLostExit ==
    \A p \in Forked : state[p] = "SLEEPING" =>
        /\ pc[p] = "waitAny" =>
              \A i \in Forked : ~(ppid[i] = p /\ state[i] = "ZOMBIE")
        /\ pc[p] = "waitPid" =>
              ppid[target[p]] = p /\ state[target[p]] \in {"READY", "SLEEPING"}

\* A task inside sleep() holds its own lock, whatever the waiters of other
\* tasks and the leaks of wait() do meanwhile, so release() there cannot panic;
\* and only such a task has a wait channel.
SleeperHoldsLock ==
    \A i \in Tasks : state[i] # "NULL" =>
        /\ pc[i] = "sleep" => lk[i] = i /\ chan[i] # NoChan
        /\ pc[i] # "sleep" => chan[i] = NoChan

\* The hart never runs a task that is asleep, dead or gone.
CurrentReady == state[current] = "READY" /\ state[0] = "READY"

\* schedule() falls back to the idle task only when no task is ready.
WorkConserving ==
    [][current' = 0 /\ current # 0 => \A i \in Forked : state'[i] # "READY"]_vars

=============================================================================
