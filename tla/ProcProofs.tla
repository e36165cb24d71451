----------------------------- MODULE ProcProofs -----------------------------
(***************************************************************************)
(* Proofs about Proc for every table size, time slice and set of channels. *)
(*                                                                         *)
(* ProcInv is inductive: the four state invariants need one another (a     *)
(* parent asleep in wait() is not the running task; the task that exits is *)
(* nobody's live parent afterwards) and IdleStays, which says that task 0  *)
(* never leaves user mode, so that orphans have a parent that is neither   *)
(* waiting nor dying.                                                      *)
(***************************************************************************)
EXTENDS Proc, TLAPS

IdleStays == ppid[0] = 0 /\ pc[0] = "user"

ProcInv == /\ TypeOK /\ CurrentReady /\ IdleStays
           /\ ParentsLive /\ NoLostExit /\ SleeperHoldsLock

USE NRTasksAssumption, CounterAssumption, NapAssumption

LEMMA InitInv == Init => ProcInv
<1>. SUFFICES ASSUME Init PROVE ProcInv
  OBVIOUS
<1>1. TypeOK
  <2>1. counter \in [Tasks -> 0..MaxCounter]
    BY DEF Init, Tasks
  <2>2. /\ state \in [Tasks -> States] /\ pc \in [Tasks -> Places]
        /\ dirty \in [Tasks -> BOOLEAN] /\ kernel \in Stops
    BY DEF Init, States, Places, Stops
  <2>3. /\ ppid \in [Tasks -> Tasks] /\ target \in [Tasks -> Tasks]
        /\ current \in Tasks /\ flag \in Tasks /\ left \in 0..MaxNap
    BY DEF Init, Tasks
  <2>4. /\ chan \in [Tasks -> Channels \cup {NoChan}]
        /\ lk \in [Tasks -> Tasks \cup {NoOwner}]
    BY DEF Init
  <2>. QED BY <2>1, <2>2, <2>3, <2>4 DEF TypeOK
<1>2. CurrentReady /\ IdleStays
  BY DEF Init, CurrentReady, IdleStays, Tasks
<1>3. ParentsLive /\ NoLostExit
  <2>1. \A i \in Forked : i \in Tasks /\ (state[i] # "NULL" => i = 1) /\ ppid[i] = 0
    BY DEF Init, Tasks, Forked
  <2>2. \A i \in Forked : state[i] # "SLEEPING"
    BY DEF Init, Tasks, Forked
  <2>. QED BY <2>1, <2>2, <1>2 DEF ParentsLive, NoLostExit, CurrentReady
<1>4. SleeperHoldsLock
  BY DEF Init, SleeperHoldsLock
<1>. QED BY <1>1, <1>2, <1>3, <1>4 DEF ProcInv

\* schedule() types its results, keeps the states it was given, and runs a
\* ready task, provided the idle task is ready.
LEMMA ScheduleLemma ==
    ASSUME NEW st \in [Tasks -> States], NEW cnt \in [Tasks -> 0..MaxCounter],
           st[0] = "READY", Schedule(st, cnt)
    PROVE  /\ state' = st /\ counter' \in [Tasks -> 0..MaxCounter]
           /\ current' \in Tasks /\ state'[current'] = "READY"
<1>1. PICK renewed \in [Expired(st, cnt) -> 1..MaxCounter], n \in Tasks :
        LET slices == [i \in Tasks |-> IF i \in DOMAIN renewed
                                       THEN renewed[i] ELSE cnt[i]]
        IN  /\ Picked(n, st, slices)
            /\ state' = st /\ counter' = slices /\ current' = n
  BY DEF Schedule
<1>2. counter' \in [Tasks -> 0..MaxCounter]
  BY <1>1
<1>3. st[n] = "READY"
  BY <1>1 DEF Picked, Runnable, Tasks, Forked
<1>. QED BY <1>1, <1>2, <1>3

LEMMA TaskIndices == /\ 0 \in Tasks /\ Forked = Tasks \ {0}
BY DEF Tasks, Forked

\* What most steps need of the invariant.
LEMMA Basics ==
    ASSUME ProcInv
    PROVE  /\ 0 \in Tasks /\ Forked = Tasks \ {0} /\ current \in Tasks
           /\ state[current] = "READY" /\ state[0] = "READY"
           /\ state \in [Tasks -> States] /\ counter \in [Tasks -> 0..MaxCounter]
           /\ ppid \in [Tasks -> Tasks]
BY TaskIndices DEF ProcInv, TypeOK, CurrentReady

\* A step that only stops the kernel, or changes nothing.
LEMMA HaltStep ==
    ProcInv /\ UNCHANGED <<table, current, flag, left>> /\ kernel' \in Stops => ProcInv'
BY DEF ProcInv, TypeOK, CurrentReady, IdleStays, ParentsLive, NoLostExit,
       SleeperHoldsLock, table

\* current goes to sleep at p, with locks, wait channels and targets that keep
\* the types and what each sleeper holds.
LEMMA BlockStep ==
    ASSUME ProcInv, current # 0, NEW p \in Places, Block("SLEEPING", p),
           UNCHANGED <<ppid, dirty, flag, left, kernel>>,
           NEW t \in Tasks, target' = [target EXCEPT ![current] = t],
           lk' \in [Tasks -> Tasks \cup {NoOwner}],
           chan' \in [Tasks -> Channels \cup {NoChan}],
           \A i \in Tasks \ {current} : lk'[i] = lk[i] /\ chan'[i] = chan[i],
           p = "sleep" => lk'[current] = current /\ chan'[current] # NoChan,
           p # "sleep" => chan'[current] = NoChan,
           p = "waitAny" => \A i \in Forked : ~(ppid[i] = current /\ state[i] = "ZOMBIE"),
           p = "waitPid" => ppid[t] = current /\ state[t] \in {"READY", "SLEEPING"}
    PROVE  ProcInv'
<1>. DEFINE st == [state EXCEPT ![current] = "SLEEPING"]
<1>1. /\ st \in [Tasks -> States] /\ st[0] = "READY"
      /\ \A i \in Tasks : st[i] = IF i = current THEN "SLEEPING" ELSE state[i]
  BY Basics DEF States
<1>. HIDE DEF st
<1>10. Schedule(st, counter)
  BY DEF Block, st
<1>2. /\ state' = st /\ counter' \in [Tasks -> 0..MaxCounter]
      /\ current' \in Tasks /\ state'[current'] = "READY"
  BY Basics, <1>1, <1>10, ScheduleLemma
<1>3. pc' = [pc EXCEPT ![current] = p] /\ pc' \in [Tasks -> Places]
  BY DEF Block, ProcInv, TypeOK
<1>4. TypeOK'
  BY Basics, <1>1, <1>2, <1>3 DEF ProcInv, TypeOK
<1>5. CurrentReady' /\ IdleStays'
  BY Basics, <1>1, <1>2, <1>3 DEF ProcInv, TypeOK, CurrentReady, IdleStays
<1>6. ParentsLive'
  BY Basics, <1>1, <1>2 DEF ProcInv, ParentsLive
<1>7. NoLostExit'
  BY Basics, <1>1, <1>2, <1>3 DEF ProcInv, TypeOK, NoLostExit
<1>8. SleeperHoldsLock'
  BY Basics, <1>1, <1>2, <1>3 DEF ProcInv, TypeOK, SleeperHoldsLock
<1>. QED BY <1>4, <1>5, <1>6, <1>7, <1>8 DEF ProcInv

\* The running task's own changes of locks, pc, target, files, which leave
\* states and parents alone.
LEMMA LocalStep ==
    ASSUME ProcInv, current # 0, UNCHANGED <<state, counter, ppid, current, flag, left, kernel>>,
           NEW p \in Places \ {"waitAny", "waitPid"}, pc' = [pc EXCEPT ![current] = p],
           target' \in [Tasks -> Tasks], dirty' \in [Tasks -> BOOLEAN],
           lk' \in [Tasks -> Tasks \cup {NoOwner}],
           chan' \in [Tasks -> Channels \cup {NoChan}],
           \A i \in Tasks \ {current} : target'[i] = target[i] /\ chan'[i] = chan[i],
           \A i \in Tasks \ {current} : pc[i] = "sleep" => lk'[i] = lk[i],
           p = "sleep" => lk'[current] = current /\ chan'[current] # NoChan,
           p # "sleep" => chan'[current] = NoChan
    PROVE  ProcInv'
<1>1. TypeOK'
  BY Basics DEF ProcInv, TypeOK
<1>2. CurrentReady' /\ IdleStays' /\ ParentsLive'
  BY Basics DEF ProcInv, TypeOK, CurrentReady, IdleStays, ParentsLive
<1>3. NoLostExit'
  BY Basics DEF ProcInv, TypeOK, NoLostExit
<1>4. SleeperHoldsLock'
  BY Basics DEF ProcInv, TypeOK, SleeperHoldsLock
<1>. QED BY <1>1, <1>2, <1>3, <1>4 DEF ProcInv

LEMMA StuckStep == ASSUME ProcInv, NEW i \in Tasks, Stuck(i) PROVE ProcInv'
BY HaltStep DEF Stuck, Stops

LEMMA FaultStep ==
    ASSUME ProcInv, kernel' \in {"panic", "fault"}, UNCHANGED <<table, current, flag, left>>
    PROVE  ProcInv'
BY HaltStep DEF Stops

LEMMA SleepInv == ASSUME ProcInv, NEW c \in Channels, Sleep(c) PROVE ProcInv'
<1>1. CASE Stuck(current)
  BY <1>1, Basics, StuckStep
<1>2. CASE /\ Unlocked(current)
           /\ lk'   = [lk EXCEPT ![current] = current]
           /\ chan' = [chan EXCEPT ![current] = c]
           /\ Block("SLEEPING", "sleep")
           /\ UNCHANGED <<ppid, target, dirty, flag, left, kernel>>
  <2>1. /\ lk' \in [Tasks -> Tasks \cup {NoOwner}]
        /\ chan' \in [Tasks -> Channels \cup {NoChan}]
        /\ \A i \in Tasks \ {current} : lk'[i] = lk[i] /\ chan'[i] = chan[i]
        /\ lk'[current] = current /\ chan'[current] # NoChan
    BY <1>2, Basics, SentinelAssumption DEF ProcInv, TypeOK
  <2>2. target[current] \in Tasks /\ target' = [target EXCEPT ![current] = target[current]]
    BY <1>2, Basics DEF ProcInv, TypeOK
  <2>3. current # 0 /\ "sleep" \in Places
    BY DEF Sleep, Syscall, Places
  <2>. QED BY <1>2, <2>1, <2>2, <2>3, BlockStep
<1>. QED BY <1>1, <1>2 DEF Sleep, SleepOn

LEMMA SleepAgainInv == ASSUME ProcInv, NEW c \in Channels, SleepAgain(c) PROVE ProcInv'
<1>1. /\ lk' \in [Tasks -> Tasks \cup {NoOwner}]
      /\ chan' \in [Tasks -> Channels \cup {NoChan}]
      /\ \A i \in Tasks \ {current} : lk'[i] = lk[i] /\ chan'[i] = chan[i]
      /\ lk'[current] = current /\ chan'[current] # NoChan
  BY Basics, SentinelAssumption DEF SleepAgain, ProcInv, TypeOK
<1>2. target[current] \in Tasks /\ target' = [target EXCEPT ![current] = target[current]]
  BY Basics DEF SleepAgain, ProcInv, TypeOK
<1>3. current # 0
  BY DEF SleepAgain, ProcInv, IdleStays
<1>. QED BY <1>1, <1>2, <1>3, BlockStep DEF SleepAgain, Places

LEMMA ResumeInv == ASSUME ProcInv, Resume PROVE ProcInv'
<1>1. CASE lk[current] # current
  BY <1>1, FaultStep DEF Resume
<1>2. CASE lk[current] = current
  <2>1. current # 0
    BY DEF Resume, ProcInv, IdleStays
  <2>2. /\ lk'   = [lk EXCEPT ![current] = NoOwner]
        /\ chan' = [chan EXCEPT ![current] = NoChan]
        /\ pc'   = [pc EXCEPT ![current] = "user"]
        /\ UNCHANGED <<state, counter, ppid, target, dirty, current, flag, left, kernel>>
    BY <1>2 DEF Resume
  <2>. QED BY <2>1, <2>2, Basics, LocalStep DEF ProcInv, TypeOK, Places
<1>. QED BY <1>1, <1>2

\* Some tasks become ready and another task may be switched to.
LEMMA WakeStep ==
    ASSUME ProcInv, state' \in [Tasks -> States],
           \A i \in Tasks : state'[i] = state[i] \/ (state[i] # "NULL" /\ state'[i] = "READY"),
           counter' \in [Tasks -> 0..MaxCounter],
           current' \in Tasks, state'[current'] = "READY",
           flag' \in Tasks, left' \in 0..MaxNap,
           UNCHANGED <<ppid, chan, lk, pc, target, dirty, kernel>>
    PROVE  ProcInv'
<1>1. TypeOK' /\ CurrentReady' /\ IdleStays'
  BY Basics DEF ProcInv, TypeOK, CurrentReady, IdleStays
<1>2. ParentsLive' /\ SleeperHoldsLock'
  BY Basics DEF ProcInv, ParentsLive, SleeperHoldsLock
<1>3. NoLostExit'
  BY Basics DEF ProcInv, TypeOK, NoLostExit
<1>. QED BY <1>1, <1>2, <1>3 DEF ProcInv

LEMMA WakeupInv == ASSUME ProcInv, NEW c \in Channels, Wakeup(c) PROVE ProcInv'
<1>1. /\ state' \in [Tasks -> States]
      /\ \A i \in Tasks : state'[i] = state[i] \/ (state[i] # "NULL" /\ state'[i] = "READY")
  BY Basics DEF Wakeup, States
<1>. QED BY <1>1, Basics, WakeStep DEF Wakeup, ProcInv, TypeOK

LEMMA YieldInv == ASSUME ProcInv, Yield PROVE ProcInv'
<1>1. /\ state' = state /\ counter' \in [Tasks -> 0..MaxCounter]
      /\ current' \in Tasks /\ state'[current'] = "READY"
  BY Basics, ScheduleLemma DEF Yield
<1>. QED BY <1>1, Basics, WakeStep DEF Yield, ProcInv, TypeOK

LEMMA TimerInv == ASSUME ProcInv, Timer PROVE ProcInv'
<1>. DEFINE due   == flag # 0 /\ left = 0
            woken == IF due /\ state[flag] # "NULL"
                     THEN [state EXCEPT ![flag] = "READY"] ELSE state
<1>1. CASE kernel' = "fault" /\ UNCHANGED <<table, current, flag, left>>
  BY <1>1, FaultStep
<1>2. CASE /\ flag' = IF due THEN 0 ELSE flag
           /\ left' = IF flag # 0 /\ left > 0 THEN left - 1 ELSE 0
           /\ IF current = 0 \/ Tick[current] = 0
                THEN Schedule(woken, Tick)
                ELSE state' = woken /\ counter' = Tick /\ current' = current
           /\ UNCHANGED <<ppid, chan, lk, pc, target, dirty, kernel>>
  <2>1. flag' \in Tasks /\ left' \in 0..MaxNap
    BY <1>2, Basics DEF ProcInv, TypeOK
  <2>2. /\ woken \in [Tasks -> States] /\ woken[0] = "READY"
        /\ \A i \in Tasks : woken[i] = state[i] \/ (state[i] # "NULL" /\ woken[i] = "READY")
        /\ woken[current] = "READY"
    BY Basics DEF ProcInv, TypeOK, States
  <2>3. Tick \in [Tasks -> 0..MaxCounter]
    <3>1. CASE current # 0 /\ counter[current] > 0
      <4>1. counter[current] - 1 \in 0..MaxCounter
        BY <3>1, Basics
      <4>. QED BY <3>1, <4>1, Basics DEF Tick
    <3>. QED BY <3>1, Basics DEF Tick
  <2>. HIDE DEF woken, due
  <2>4. /\ state' = woken /\ counter' \in [Tasks -> 0..MaxCounter]
        /\ current' \in Tasks /\ state'[current'] = "READY"
    <3>1. CASE current = 0 \/ Tick[current] = 0
      BY <1>2, <2>2, <2>3, <3>1, ScheduleLemma
    <3>2. CASE ~(current = 0 \/ Tick[current] = 0)
      BY <1>2, <2>2, <2>3, <3>2, Basics
    <3>. QED BY <3>1, <3>2
  <2>. QED BY <1>2, <2>1, <2>2, <2>4, WakeStep
<1>. QED BY <1>1, <1>2 DEF Timer

LEMMA NanosleepInv == ASSUME ProcInv, NEW t \in 1..MaxNap, Nanosleep(t) PROVE ProcInv'
<1>. DEFINE st == [state EXCEPT ![current] = "SLEEPING"]
<1>1. /\ current # 0 /\ st \in [Tasks -> States] /\ st[0] = "READY"
  BY Basics DEF Nanosleep, Syscall, States
<1>2. /\ state' = st /\ counter' \in [Tasks -> 0..MaxCounter]
      /\ current' \in Tasks /\ state'[current'] = "READY"
  <2>. HIDE DEF st
  <2>1. Schedule(st, counter)
    BY DEF Nanosleep, Block, st
  <2>. QED BY <1>1, <2>1, Basics, ScheduleLemma
<1>3. /\ pc' = [pc EXCEPT ![current] = "nap"] /\ pc[current] = "user"
      /\ flag' = current /\ left' = t
      /\ UNCHANGED <<ppid, chan, lk, target, dirty, kernel>>
  BY DEF Nanosleep, Block, Syscall, InUser
<1>4. TypeOK'
  BY <1>1, <1>2, <1>3, Basics DEF ProcInv, TypeOK, Places
<1>5. CurrentReady' /\ IdleStays' /\ ParentsLive'
  BY <1>1, <1>2, <1>3, Basics DEF ProcInv, TypeOK, CurrentReady, IdleStays, ParentsLive
<1>6. NoLostExit'
  BY <1>1, <1>2, <1>3, Basics DEF ProcInv, TypeOK, NoLostExit
<1>7. SleeperHoldsLock'
  BY <1>1, <1>2, <1>3, Basics DEF ProcInv, TypeOK, SleeperHoldsLock
<1>. QED BY <1>4, <1>5, <1>6, <1>7 DEF ProcInv

LEMMA ReturnInv == ASSUME ProcInv, Return PROVE ProcInv'
<1>1. current # 0 /\ pc[current] # "sleep"
  BY DEF Return, ProcInv, IdleStays
<1>2. chan[current] = NoChan /\ "user" \in Places \ {"waitAny", "waitPid"}
  BY <1>1, Basics DEF ProcInv, SleeperHoldsLock, Places
<1>. QED BY <1>1, <1>2, LocalStep DEF Return, ProcInv, TypeOK

LEMMA BrkFailsInv == ASSUME ProcInv, BrkFails PROVE ProcInv'
<1>1. CASE Stuck(current)
  BY <1>1, Basics, StuckStep
<1>2. CASE ~Stuck(current)
  <2>1. /\ lk' = [lk EXCEPT ![current] = current]
        /\ UNCHANGED <<state, counter, ppid, chan, pc, target, dirty, current, flag, left, kernel>>
        /\ current # 0 /\ pc[current] = "user"
    BY <1>2 DEF BrkFails, Syscall, InUser
  <2>2. chan[current] = NoChan /\ pc' = [pc EXCEPT ![current] = "user"]
    BY <2>1, Basics DEF ProcInv, TypeOK, SleeperHoldsLock
  <2>3. lk' \in [Tasks -> Tasks \cup {NoOwner}]
    BY <2>1, Basics DEF ProcInv, TypeOK
  <2>. QED BY <2>1, <2>2, <2>3, Basics, LocalStep DEF ProcInv, TypeOK, Places
<1>. QED BY <1>1, <1>2

LEMMA WriteFileInv == ASSUME ProcInv, WriteFile PROVE ProcInv'
<1>1. /\ dirty' = [dirty EXCEPT ![current] = TRUE]
      /\ UNCHANGED <<state, counter, ppid, chan, lk, pc, target, current, flag, left, kernel>>
      /\ current # 0 /\ pc[current] = "user"
  BY DEF WriteFile, Syscall, InUser
<1>2. chan[current] = NoChan /\ pc' = [pc EXCEPT ![current] = "user"]
  BY <1>1, Basics DEF ProcInv, TypeOK, SleeperHoldsLock
<1>. QED BY <1>1, <1>2, Basics, LocalStep DEF ProcInv, TypeOK, Places

LEMMA CloneInv ==
    ASSUME ProcInv, NEW child \in Forked, NEW slice \in 1..MaxCounter, Clone(child, slice)
    PROVE  ProcInv'
<1>1. /\ state[child] = "NULL" /\ child # current /\ child # 0 /\ child \in Tasks
      /\ state' = [state EXCEPT ![child] = "READY"]
      /\ counter' = [counter EXCEPT ![child] = slice]
      /\ ppid' = [ppid EXCEPT ![child] = current]
      /\ chan' = [chan EXCEPT ![child] = NoChan]
      /\ lk' = [lk EXCEPT ![child] = NoOwner]
      /\ pc' = [pc EXCEPT ![child] = "user"]
      /\ dirty' = [dirty EXCEPT ![child] = FALSE]
      /\ UNCHANGED <<target, current, flag, left, kernel>>
  BY Basics DEF Clone
<1>2. slice \in 0..MaxCounter
  OBVIOUS
<1>3. TypeOK'
  BY <1>1, <1>2, Basics DEF ProcInv, TypeOK, States, Places
<1>4. CurrentReady' /\ IdleStays'
  BY <1>1, Basics DEF ProcInv, TypeOK, CurrentReady, IdleStays
<1>5. ParentsLive'
  BY <1>1, Basics DEF ProcInv, ParentsLive
<1>6. NoLostExit'
  BY <1>1, Basics DEF ProcInv, TypeOK, NoLostExit
<1>7. SleeperHoldsLock'
  BY <1>1, Basics DEF ProcInv, TypeOK, SleeperHoldsLock
<1>. QED BY <1>3, <1>4, <1>5, <1>6, <1>7 DEF ProcInv

LEMMA ExitInv == ASSUME ProcInv, Exit PROVE ProcInv'
<1>1. CASE Stuck(current)
  BY <1>1, Basics, StuckStep
<1>2. CASE ~Stuck(current)
  <2>. DEFINE st == [ParentCalled EXCEPT ![current] = "ZOMBIE"]
  <2>1. /\ current # 0 /\ pc[current] = "user" /\ ppid' = Orphans
        /\ Schedule(st, counter)
        /\ pc' = [pc EXCEPT ![current] = "exited"]
        /\ UNCHANGED <<chan, lk, target, dirty, flag, left, kernel>>
    BY <1>2 DEF Exit, Syscall, InUser
  <2>2. ppid[current] # current
    BY <2>1, Basics DEF ProcInv, ParentsLive
  <2>3. /\ st \in [Tasks -> States] /\ st[0] = "READY" /\ st[current] = "ZOMBIE"
        /\ st[ppid[current]] = "READY" /\ state[ppid[current]] # "NULL"
        /\ \A i \in Tasks \ {current, ppid[current]} : st[i] = state[i]
    <3>1. state[ppid[current]] \in {"READY", "SLEEPING"}
      BY <2>1, Basics DEF ProcInv, ParentsLive
    <3>. QED BY <2>1, <2>2, <3>1, Basics DEF ParentCalled, States
  <2>. HIDE DEF st
  <2>4. /\ state' = st /\ counter' \in [Tasks -> 0..MaxCounter]
        /\ current' \in Tasks /\ state'[current'] = "READY"
    BY <2>1, <2>3, Basics, ScheduleLemma
  <2>5. /\ ppid' \in [Tasks -> Tasks] /\ ppid'[0] = 0
        /\ \A i \in Tasks : ppid'[i] = ppid[i] \/ (ppid[i] = current /\ ppid'[i] = 0)
        /\ \A i \in Forked \ {current} : state[i] # "NULL" => ppid'[i] # current
        /\ ppid'[current] = ppid[current]
    BY <2>1, Basics DEF Orphans, ProcInv, IdleStays
  <2>6. TypeOK'
    BY <2>1, <2>3, <2>4, <2>5, Basics DEF ProcInv, TypeOK, Places
  <2>7. CurrentReady' /\ IdleStays'
    BY <2>1, <2>3, <2>4, <2>5, Basics DEF ProcInv, TypeOK, CurrentReady, IdleStays
  <2>8. ParentsLive'
    BY <2>1, <2>2, <2>3, <2>4, <2>5, Basics DEF ProcInv, ParentsLive
  <2>9. NoLostExit'
    <3>. SUFFICES ASSUME NEW p \in Forked, state'[p] = "SLEEPING"
         PROVE  /\ pc'[p] = "waitAny" =>
                      \A i \in Forked : ~(ppid'[i] = p /\ state'[i] = "ZOMBIE")
                /\ pc'[p] = "waitPid" =>
                      ppid'[target'[p]] = p /\ state'[target'[p]] \in {"READY", "SLEEPING"}
      BY DEF NoLostExit
    <3>1. /\ p # current /\ p # ppid[current] /\ p # 0
          /\ state[p] = "SLEEPING" /\ pc'[p] = pc[p] /\ target'[p] = target[p]
          /\ target[p] \in Tasks
      BY <2>1, <2>3, <2>4, Basics DEF ProcInv, TypeOK
    <3>2. \A i \in Tasks : ppid'[i] = p <=> ppid[i] = p
      BY <2>5, <3>1
    <3>3. \A i \in Tasks : ppid[i] = p => i # current
      BY <3>1
    <3>4. \A i \in Tasks \ {current} : state'[i] = state[i] \/ state'[i] = "READY"
      BY <2>3, <2>4
    <3>. QED BY <3>1, <3>2, <3>3, <3>4, Basics DEF ProcInv, NoLostExit
  <2>10. SleeperHoldsLock'
    <3>1. \A i \in Tasks : state'[i] # "NULL" => state[i] # "NULL"
      BY <2>3, <2>4, Basics
    <3>2. chan[current] = NoChan
      BY <2>1, Basics DEF ProcInv, SleeperHoldsLock
    <3>3. \A i \in Tasks : pc'[i] = IF i = current THEN "exited" ELSE pc[i]
      BY <2>1 DEF ProcInv, TypeOK
    <3>. QED BY <2>1, <3>1, <3>2, <3>3 DEF ProcInv, SleeperHoldsLock
  <2>. QED BY <2>6, <2>7, <2>8, <2>9, <2>10 DEF ProcInv
<1>. QED BY <1>1, <1>2

LEMMA ReapInv ==
    ASSUME ProcInv, NEW i \in Forked, ZombieChild(i), current # 0, pc[current] # "sleep", Reap(i)
    PROVE  ProcInv'
<1>1. CASE kernel' = "panic" /\ UNCHANGED <<table, current, flag, left>>
  BY <1>1, FaultStep
<1>2. CASE /\ state'   = [state   EXCEPT ![i] = "NULL"]
           /\ counter' = [counter EXCEPT ![i] = 0]
           /\ ppid'    = [ppid    EXCEPT ![i] = 0]
           /\ lk'      = [lk      EXCEPT ![i] = NoOwner]
           /\ pc'      = [pc      EXCEPT ![i] = "user", ![current] = "user"]
           /\ target'  = [target  EXCEPT ![current] = 0]
           /\ UNCHANGED <<chan, dirty, current, flag, left, kernel>>
  <2>1. /\ state[i] = "ZOMBIE" /\ i # current /\ i # 0 /\ i \in Tasks
        /\ chan[current] = NoChan
    BY Basics DEF ZombieChild, ProcInv, SleeperHoldsLock
  <2>2. TypeOK'
    BY <1>2, <2>1, Basics DEF ProcInv, TypeOK, States, Places
  <2>3. CurrentReady' /\ IdleStays'
    BY <1>2, <2>1, Basics DEF ProcInv, TypeOK, CurrentReady, IdleStays
  <2>4. ParentsLive'
    BY <1>2, <2>1, Basics DEF ProcInv, ParentsLive
  <2>5. NoLostExit'
    BY <1>2, <2>1, Basics DEF ProcInv, TypeOK, NoLostExit
  <2>6. SleeperHoldsLock'
    BY <1>2, <2>1, Basics DEF ProcInv, TypeOK, SleeperHoldsLock
  <2>. QED BY <2>2, <2>3, <2>4, <2>5, <2>6 DEF ProcInv
<1>. QED BY <1>1, <1>2 DEF Reap

\* wait() comes back to user mode; a lock it leaves taken was free before, so
\* its task is not inside sleep().
LEMMA WaitReturnsInv ==
    ASSUME ProcInv, current # 0, pc[current] # "sleep",
           NEW p \in Tasks, state[p] # "NULL", Unlocked(p),
           WaitReturns(lk) \/ WaitReturns([lk EXCEPT ![p] = current])
    PROVE  ProcInv'
<1>1. /\ pc' = [pc EXCEPT ![current] = "user"]
      /\ target' = [target EXCEPT ![current] = 0]
      /\ lk' \in {lk, [lk EXCEPT ![p] = current]}
      /\ UNCHANGED <<state, counter, ppid, chan, dirty, current, flag, left, kernel>>
  BY DEF WaitReturns
<1>2. pc[p] # "sleep" /\ chan[current] = NoChan
  <2>1. p # NoOwner
    BY SentinelAssumption DEF Tasks
  <2>2. chan[current] = NoChan
    BY Basics DEF ProcInv, SleeperHoldsLock
  <2>. QED BY <2>1, <2>2 DEF ProcInv, SleeperHoldsLock, Unlocked
<1>3. lk' \in [Tasks -> Tasks \cup {NoOwner}]
  BY <1>1, Basics DEF ProcInv, TypeOK
<1>4. \A i \in Tasks \ {current} : pc[i] = "sleep" => lk'[i] = lk[i]
  BY <1>1, <1>2, Basics DEF ProcInv, TypeOK
<1>. QED BY <1>1, <1>2, <1>3, <1>4, Basics, LocalStep DEF ProcInv, TypeOK, Places

LEMMA WaitAnyInv ==
    ASSUME ProcInv, current # 0, pc[current] # "sleep",
           NEW options \in {"WNOHANG", "WUNTRACED", "other"}, WaitAny(options)
    PROVE  ProcInv'
<1>. DEFINE others  == {i \in Forked \ {current} : state[i] # "NULL"}
            notable == {i \in others : ~Unlocked(i) \/ ZombieChild(i)}
<1>1. CASE Stuck(current)
  BY <1>1, Basics, StuckStep
<1>2. CASE Unlocked(current) /\ \E i \in notable : Stuck(i) \/ (Unlocked(i) /\ Reap(i))
  <2>1. PICK i \in notable : Stuck(i) \/ (Unlocked(i) /\ Reap(i))
    BY <1>2
  <2>2. CASE Stuck(i)
    BY <2>2, Basics, StuckStep
  <2>3. CASE Unlocked(i) /\ Reap(i)
    <3>1. i \in Forked /\ ZombieChild(i)
      BY <2>3
    <3>. QED BY <2>3, <3>1, ReapInv
  <2>. QED BY <2>1, <2>2, <2>3
<1>3. CASE Unlocked(current) /\ notable = {}
  <2>1. CASE WaitReturns(lk)
    BY <1>3, <2>1, Basics, WaitReturnsInv
  <2>2. CASE WaitGoesBack("waitAny") /\ UNCHANGED target
    <3>1. \A i \in Forked : ~(ppid[i] = current /\ state[i] = "ZOMBIE")
      BY <1>3, Basics DEF ZombieChild
    <3>2. target[current] \in Tasks /\ target' = [target EXCEPT ![current] = target[current]]
      BY <2>2, Basics DEF ProcInv, TypeOK
    <3>3. /\ Block("SLEEPING", "waitAny")
          /\ UNCHANGED <<ppid, chan, lk, dirty, flag, left, kernel>>
      BY <2>2 DEF WaitGoesBack
    <3>4. chan'[current] = NoChan /\ "waitAny" \in Places
      BY <3>3, Basics DEF ProcInv, SleeperHoldsLock, Places
    <3>5. /\ lk' \in [Tasks -> Tasks \cup {NoOwner}]
          /\ chan' \in [Tasks -> Channels \cup {NoChan}]
      BY <3>3 DEF ProcInv, TypeOK
    <3>. QED BY <3>1, <3>2, <3>3, <3>4, <3>5, BlockStep
  <2>3. CASE kernel' = "fault" /\ UNCHANGED <<table, current, flag, left>>
    BY <2>3, FaultStep
  <2>. QED BY <1>1, <1>2, <1>3, <2>1, <2>2, <2>3 DEF WaitAny, Unlocked, Stuck
<1>. QED BY <1>1, <1>2, <1>3 DEF WaitAny

LEMMA WaitPidInv ==
    ASSUME ProcInv, current # 0, pc[current] # "sleep", NEW p \in Tasks,
           NEW options \in {"WNOHANG", "WUNTRACED", "other"}, WaitPid(p, options)
    PROVE  ProcInv'
<1>1. CASE Stuck(current)
  BY <1>1, Basics, StuckStep
<1>2. CASE kernel' \in {"panic", "fault"} /\ UNCHANGED <<table, current, flag, left>>
  BY <1>2, FaultStep
<1>3. CASE Stuck(p)
  BY <1>3, StuckStep
<1>4. CASE state[p] # "NULL" /\ ZombieChild(p) /\ Reap(p)
  <2>1. p # 0
    BY <1>4, Basics DEF ZombieChild
  <2>. QED BY <1>4, <2>1, Basics, ReapInv
<1>5. CASE WaitReturns(lk)
  <2>1. Unlocked(current) \/ Stuck(current)
    BY DEF WaitPid
  <2>. QED BY <1>1, <1>5, <2>1, Basics, WaitReturnsInv
<1>6. CASE state[p] # "NULL" /\ Unlocked(p) /\ WaitReturns([lk EXCEPT ![p] = current])
  BY <1>6, WaitReturnsInv
<1>7. CASE /\ state[p] # "NULL" /\ ppid[p] = current /\ state[p] # "ZOMBIE"
           /\ WaitGoesBack("waitPid") /\ target' = [target EXCEPT ![current] = p]
  <2>1. state[p] \in {"READY", "SLEEPING"}
    BY <1>7, Basics DEF States
  <2>2. /\ Block("SLEEPING", "waitPid")
        /\ UNCHANGED <<ppid, chan, lk, dirty, flag, left, kernel>>
    BY <1>7 DEF WaitGoesBack
  <2>3. chan'[current] = NoChan /\ "waitPid" \in Places
    BY <2>2, Basics DEF ProcInv, SleeperHoldsLock, Places
  <2>4. /\ lk' \in [Tasks -> Tasks \cup {NoOwner}]
        /\ chan' \in [Tasks -> Channels \cup {NoChan}]
    BY <2>2 DEF ProcInv, TypeOK
  <2>. QED BY <1>7, <2>1, <2>2, <2>3, <2>4, BlockStep
<1>. QED BY <1>1, <1>2, <1>3, <1>4, <1>5, <1>6, <1>7 DEF WaitPid

LEMMA WaitInv ==
    ASSUME ProcInv,
           \/ \E pid \in WaitPids, options \in {"WNOHANG", "WUNTRACED", "other"} :
                 Wait(pid, options)
           \/ WaitRepeats
    PROVE  ProcInv'
<1>1. ASSUME NEW pid \in WaitPids, NEW options \in {"WNOHANG", "WUNTRACED", "other"},
             Wait(pid, options)
      PROVE  ProcInv'
  <2>1. current # 0 /\ pc[current] # "sleep"
    BY <1>1 DEF Wait, Syscall, InUser
  <2>2. CASE pid = AnyChild /\ WaitAny(options)
    BY <2>1, <2>2, WaitAnyInv
  <2>3. CASE pid # AnyChild /\ WaitPid(pid, options)
    <3>1. pid \in Tasks
      BY <2>3, SentinelAssumption DEF Tasks
    <3>. QED BY <2>1, <2>3, <3>1, WaitPidInv
  <2>. QED BY <1>1, <2>2, <2>3 DEF Wait
<1>2. ASSUME WaitRepeats PROVE ProcInv'
  <2>1. current # 0 /\ pc[current] # "sleep"
    BY <1>2 DEF WaitRepeats, ProcInv, IdleStays
  <2>2. target[current] \in Tasks
    BY Basics DEF ProcInv, TypeOK
  <2>. QED BY <1>2, <2>1, <2>2, WaitAnyInv, WaitPidInv DEF WaitRepeats
<1>. QED BY <1>1, <1>2

LEMMA NextInv == ProcInv /\ [Next]_vars => ProcInv'
<1>. SUFFICES ASSUME ProcInv, [Next]_vars PROVE ProcInv'
  OBVIOUS
<1>1. CASE UNCHANGED vars
  BY <1>1, HaltStep DEF vars, ProcInv, TypeOK
<1>2. CASE Next
  BY <1>2, TimerInv, YieldInv, ReturnInv, ExitInv, BrkFailsInv, WriteFileInv, ResumeInv,
     SleepInv, SleepAgainInv, WakeupInv, NanosleepInv, CloneInv, WaitInv DEF Next
<1>. QED BY <1>1, <1>2

\* The process table keeps its invariant in every reachable state.
THEOREM ProcInvariance == Spec => []ProcInv
BY InitInv, NextInv, PTL DEF Spec

\* Every child has a parent that can still wait for it, whatever exits happen.
THEOREM ParentsLiveTheorem == Spec => []ParentsLive
BY ProcInvariance, PTL DEF ProcInv

\* No parent sleeps in wait() through the exit it waits for.
THEOREM NoLostExitTheorem == Spec => []NoLostExit
BY ProcInvariance, PTL DEF ProcInv

\* The release() at the end of sleep() never panics.
THEOREM SleeperHoldsLockTheorem == Spec => []SleeperHoldsLock
BY ProcInvariance, PTL DEF ProcInv

\* The running task is ready, and the idle task always is.
THEOREM CurrentReadyTheorem == Spec => []CurrentReady
BY ProcInvariance, PTL DEF ProcInv

\* Every variable keeps its type.
THEOREM TypeCorrect == Spec => []TypeOK
BY ProcInvariance, PTL DEF ProcInv

-----------------------------------------------------------------------------
\* schedule() renews every used-up slice of a ready task first, so that it runs
\* the idle task only if there is no ready task at all.
LEMMA ScheduleIdle ==
    ASSUME NEW st \in [Tasks -> States], NEW cnt \in [Tasks -> 0..MaxCounter],
           Schedule(st, cnt), current' = 0
    PROVE  \A i \in Forked : state'[i] # "READY"
<1>1. PICK renewed \in [Expired(st, cnt) -> 1..MaxCounter], n \in Tasks :
        LET slices == [i \in Tasks |-> IF i \in DOMAIN renewed
                                       THEN renewed[i] ELSE cnt[i]]
        IN  /\ Picked(n, st, slices)
            /\ state' = st /\ counter' = slices /\ current' = n
  BY DEF Schedule
<1>2. Runnable(st, counter') = {}
  BY <1>1, TaskIndices DEF Picked, Runnable
<1>3. ASSUME NEW i \in Forked, st[i] = "READY" PROVE counter'[i] > 0
  <2>1. CASE i \in Expired(st, cnt)
    BY <1>1, <2>1, TaskIndices
  <2>2. CASE i \notin Expired(st, cnt)
    <3>1. counter'[i] = cnt[i] /\ cnt[i] \in 0..MaxCounter /\ cnt[i] # 0
      BY <1>1, <1>3, <2>2, TaskIndices DEF Expired
    <3>. QED BY <3>1
  <2>. QED BY <2>1, <2>2
<1>. QED BY <1>1, <1>2, <1>3 DEF Runnable

Switches == \/ current' = current
            \/ \E st \in [Tasks -> States], cnt \in [Tasks -> 0..MaxCounter] : Schedule(st, cnt)

LEMMA NextSwitches == ASSUME ProcInv, Next PROVE Switches
<1>1. /\ counter \in [Tasks -> 0..MaxCounter] /\ state \in [Tasks -> States]
      /\ \A s \in States : [state EXCEPT ![current] = s] \in [Tasks -> States]
  BY Basics
<1>2. ASSUME NEW s \in States, NEW p \in Places, Block(s, p) PROVE Switches
  BY <1>1, <1>2 DEF Block, Switches
<1>3. CASE Timer
  <2>. DEFINE woken == IF (flag # 0 /\ left = 0) /\ state[flag] # "NULL"
                       THEN [state EXCEPT ![flag] = "READY"] ELSE state
  <2>1. woken \in [Tasks -> States]
    BY <1>1 DEF ProcInv, TypeOK, States
  <2>2. Tick \in [Tasks -> 0..MaxCounter]
    <3>1. CASE current # 0 /\ counter[current] > 0
      <4>1. counter[current] - 1 \in 0..MaxCounter
        BY <3>1, Basics
      <4>. QED BY <3>1, <4>1, Basics DEF Tick
    <3>. QED BY <3>1, Basics DEF Tick
  <2>3. current' = current \/ Schedule(woken, Tick)
    BY <1>3 DEF Timer
  <2>. QED BY <2>1, <2>2, <2>3 DEF Switches
<1>4. CASE Yield
  BY <1>1, <1>4 DEF Yield, Switches
<1>5. CASE Exit
  <2>1. [ParentCalled EXCEPT ![current] = "ZOMBIE"] \in [Tasks -> States]
    BY <1>1, Basics DEF ParentCalled, States
  <2>. QED BY <1>1, <1>5, <2>1 DEF Exit, Stuck, Switches
<1>6. ASSUME NEW c \in Channels, Sleep(c) \/ SleepAgain(c) \/ Wakeup(c) PROVE Switches
  <2>1. "SLEEPING" \in States /\ "sleep" \in Places
    BY DEF States, Places
  <2>. QED BY <1>2, <1>6, <2>1 DEF Sleep, SleepOn, SleepAgain, Wakeup, Stuck, Switches
<1>7. ASSUME NEW t \in 1..MaxNap, Nanosleep(t) PROVE Switches
  BY <1>2, <1>7 DEF Nanosleep, States, Places
<1>8. ASSUME NEW options \in {"WNOHANG", "WUNTRACED", "other"}, NEW p \in Tasks,
             WaitAny(options) \/ WaitPid(p, options)
      PROVE  Switches
  <2>1. /\ "SLEEPING" \in States /\ "waitAny" \in Places /\ "waitPid" \in Places
    BY DEF States, Places
  <2>2. CASE WaitAny(options)
    BY <1>2, <2>1, <2>2 DEF WaitAny, WaitReturns, WaitGoesBack, Reap, Stuck, Switches
  <2>3. CASE WaitPid(p, options)
    BY <1>2, <2>1, <2>3 DEF WaitPid, WaitReturns, WaitGoesBack, Reap, Stuck, Switches
  <2>. QED BY <1>8, <2>2, <2>3
<1>9. ASSUME NEW pid \in WaitPids, NEW options \in {"WNOHANG", "WUNTRACED", "other"},
             Wait(pid, options)
      PROVE  Switches
  BY <1>8, <1>9, Basics, SentinelAssumption DEF Wait, Tasks
<1>10. CASE WaitRepeats
  BY <1>8, <1>10, Basics DEF WaitRepeats, ProcInv, TypeOK
<1>11. CASE Return \/ BrkFails \/ WriteFile \/ Resume
  BY <1>11 DEF Return, BrkFails, WriteFile, Resume, Stuck, Switches
<1>12. ASSUME NEW child \in Forked, NEW slice \in 1..MaxCounter, Clone(child, slice)
       PROVE  Switches
  BY <1>12 DEF Clone, Switches
<1>. QED BY <1>3, <1>4, <1>5, <1>6, <1>7, <1>9, <1>10, <1>11, <1>12 DEF Next

\* No step leaves a ready task waiting while it switches to the idle task.
THEOREM WorkConservingTheorem == Spec => WorkConserving
<1>1. ASSUME ProcInv, [Next]_vars, current' = 0, current # 0
      PROVE  \A i \in Forked : state'[i] # "READY"
  <2>1. Next
    BY <1>1 DEF vars
  <2>. QED BY <1>1, <2>1, NextSwitches, ScheduleIdle DEF Switches
<1>. QED BY <1>1, ProcInvariance, PTL DEF Spec, WorkConserving

=============================================================================
