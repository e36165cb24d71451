------------------------------- MODULE Bcache -------------------------------
(***************************************************************************)
(* The buffer cache (arch/riscv/kernel/buffer.c) with the sleep locks of   *)
(* its buffers (sleeplock.c) and a disk that takes its time (disk.c).      *)
(*                                                                         *)
(* A task reads a block, looks at it or changes it and writes it back, and *)
(* releases it, as rwClus(), writeFAT() and allocClus() in fat32.c do: one *)
(* block at a time.  The list mutex is never held across a sleep, so what  *)
(* runs under it is one step.                                              *)
(***************************************************************************)
EXTENDS Integers, Sequences, FiniteSets, SequencesExt

CONSTANTS
    Tasks,
    Bufs,          \* buf[1] .. buf[BUFNR-1]
    Blocks,        \* block numbers (the kernel uses one device)
    Values, InitialValue,
    FirstOrder,    \* the list as binit() builds it, from head to tail
    Nobody, NoBuf, NoBlock

ASSUME FiniteAssumption == IsFiniteSet(Tasks)
ASSUME SentinelAssumption ==
    Nobody \notin Tasks /\ NoBuf \notin Bufs /\ NoBlock \notin Blocks
ASSUME ValueAssumption == InitialValue \in Values
ASSUME OrderAssumption ==
    /\ FirstOrder \in Seq(Bufs)
    /\ \A b \in Bufs : \E i \in 1..Len(FirstOrder) : FirstOrder[i] = b
    /\ \A i, j \in 1..Len(FirstOrder) : FirstOrder[i] = FirstOrder[j] => i = j

VARIABLES
    blocknr, count, uptodate, data,   \* fields of struct buffer_head
    owner,     \* owner of the sleep lock b_lock
    list,      \* the buffers from b_next of the head to its b_prev
    busy,      \* b->disk: "none", or the transfer under way
    disk,      \* content of the medium
    pc, bh,    \* where a task is in bread()/bwrite(), and its local bh
    state,     \* "READY" or "SLEEPING"
    got,       \* history: content a task saw at its last read
    panicked   \* getblk() found no free buffer

bufs == <<blocknr, count, uptodate, data, owner, list>>
vars == <<bufs, busy, disk, pc, bh, state, got, panicked>>

\* "lock": in acquiresleep; "fill", "flush": in disk_read, disk_write;
\* "hold": bread() or bwrite() has returned; "dirty": changed, not written.
Places    == {"user", "lock", "fill", "hold", "dirty", "flush"}
Transfers == {"none", "in", "out"}

TypeOK ==
    /\ blocknr  \in [Bufs -> Blocks \cup {NoBlock}]
    /\ count    \in [Bufs -> Nat]
    /\ uptodate \in [Bufs -> BOOLEAN]
    /\ data     \in [Bufs -> Values]
    /\ owner    \in [Bufs -> Tasks \cup {Nobody}]
    /\ busy     \in [Bufs -> Transfers]
    /\ disk     \in [Blocks -> Values]
    /\ pc       \in [Tasks -> Places]
    /\ bh       \in [Tasks -> Bufs \cup {NoBuf}]
    /\ state    \in [Tasks -> {"READY", "SLEEPING"}]
    /\ got      \in [Tasks -> Values]
    /\ panicked \in BOOLEAN

Init ==
    /\ blocknr  = [b \in Bufs |-> NoBlock]
    /\ count    = [b \in Bufs |-> 0]
    /\ uptodate = [b \in Bufs |-> FALSE]
    /\ data     = [b \in Bufs |-> InitialValue]
    /\ owner    = [b \in Bufs |-> Nobody]
    /\ list     = FirstOrder
    /\ busy     = [b \in Bufs |-> "none"]
    /\ disk     = [k \in Blocks |-> InitialValue]
    /\ pc       = [t \in Tasks |-> "user"]
    /\ bh       = [t \in Tasks |-> NoBuf]
    /\ state    = [t \in Tasks |-> "READY"]
    /\ got      = [t \in Tasks |-> InitialValue]
    /\ panicked = FALSE

-----------------------------------------------------------------------------
At(t, place) == ~panicked /\ state[t] = "READY" /\ pc[t] = place
GoTo(t, place) == pc' = [pc EXCEPT ![t] = place]

Lowered_Twice(b) == Append(list, b)           \* mutant: not unlinked first

Position(b) == CHOOSE i \in 1..Len(list) : list[i] = b
Without(b) == RemoveAt(list, Position(b))     \* list_del
Lifted(b)  == <<b>> \o Without(b)             \* liftBuffer
Lowered(b) == Append(Without(b), b)           \* downBuffer

Cached_Filled(k) ==                           \* mutant: skips buffers being read
    {b \in Bufs : blocknr[b] = k /\ uptodate[b]}
Unused_OffByOne == {b \in Bufs : count[b] <= 1}  \* mutant: one user is none

Cached(k) == {b \in Bufs : blocknr[b] = k}    \* getblk's first scan
Unused    == {b \in Bufs : count[b] = 0}      \* getblk's second scan

\* The block is in the cache: its first buffer on the list.
GetblkHit(t, b, k) ==
    /\ At(t, "user")
    /\ b \in Cached(k) /\ \A x \in Cached(k) : Position(b) <= Position(x)
    /\ count' = [count EXCEPT ![b] = @ + 1]
    /\ bh' = [bh EXCEPT ![t] = b] /\ GoTo(t, "lock")
    /\ UNCHANGED <<blocknr, uptodate, data, owner, list, busy, disk, state, got, panicked>>

Renamed_Uptodate(b) == uptodate               \* mutant: b_uptodate not reset
Renamed(b) == [uptodate EXCEPT ![b] = FALSE]

\* It is not: the unused buffer nearest to the tail gets a new identity.
GetblkMiss(t, b, k) ==
    /\ At(t, "user") /\ Cached(k) = {}
    /\ b \in Unused /\ \A x \in Unused : Position(x) <= Position(b)
    /\ blocknr'  = [blocknr  EXCEPT ![b] = k]
    /\ count'    = [count    EXCEPT ![b] = 1]
    /\ uptodate' = Renamed(b)
    /\ bh' = [bh EXCEPT ![t] = b] /\ GoTo(t, "lock")
    /\ UNCHANGED <<data, owner, list, busy, disk, state, got, panicked>>

GetblkPanics(t, k) ==
    /\ At(t, "user") /\ Cached(k) = {} /\ Unused = {}
    /\ panicked' = TRUE
    /\ UNCHANGED <<bufs, busy, disk, pc, bh, state, got>>

LockTaken_ByOthersRead(b) == owner[b] # Nobody /\ ~uptodate[b]   \* mutant

LockTaken(b) == owner[b] # Nobody

\* while (lk->lock) sleep(lk, ...) in acquiresleep
WaitForLock(t) ==
    /\ At(t, "lock") /\ LockTaken(bh[t])
    /\ state' = [state EXCEPT ![t] = "SLEEPING"]
    /\ UNCHANGED <<bufs, busy, disk, pc, bh, got, panicked>>

\* The lock is taken and bread() returns if the content is there, else reads.
TakeLock(t) ==
    LET b == bh[t]
    IN  /\ At(t, "lock") /\ ~LockTaken(b)
        /\ owner' = [owner EXCEPT ![b] = t]
        /\ \/ /\ uptodate[b]
              /\ list' = Lifted(b)
              /\ GoTo(t, "hold")
              /\ UNCHANGED <<busy, state>>
           \/ /\ ~uptodate[b]
              /\ busy' = [busy EXCEPT ![b] = "in"]
              /\ state' = [state EXCEPT ![t] = "SLEEPING"]
              /\ GoTo(t, "fill")
              /\ UNCHANGED list
        /\ UNCHANGED <<blocknr, count, uptodate, data, disk, bh, got, panicked>>

\* Woken while the transfer still runs: while (b->disk == 1) sleep(b, ...)
WaitForDisk(t) ==
    /\ At(t, "fill") \/ At(t, "flush")
    /\ busy[bh[t]] # "none"
    /\ state' = [state EXCEPT ![t] = "SLEEPING"]
    /\ UNCHANGED <<bufs, busy, disk, pc, bh, got, panicked>>

\* disk_read() returns to bread(), which returns to its caller.
Filled(t) ==
    /\ At(t, "fill") /\ busy[bh[t]] = "none"
    /\ uptodate' = [uptodate EXCEPT ![bh[t]] = TRUE]
    /\ list' = Lifted(bh[t])
    /\ GoTo(t, "hold")
    /\ UNCHANGED <<blocknr, count, data, owner, busy, disk, bh, state, got, panicked>>

\* The disk interrupt handler, for the transfer of buffer b.
DiskDone(b) ==
    /\ ~panicked /\ busy[b] # "none"
    /\ IF busy[b] = "in"
         THEN data' = [data EXCEPT ![b] = disk[blocknr[b]]] /\ UNCHANGED disk
         ELSE disk' = [disk EXCEPT ![blocknr[b]] = data[b]] /\ UNCHANGED data
    /\ busy' = [busy EXCEPT ![b] = "none"]
    /\ state' = [t \in Tasks |-> IF pc[t] \in {"fill", "flush"} /\ bh[t] = b
                                 THEN "READY" ELSE state[t]]
    /\ UNCHANGED <<blocknr, count, uptodate, owner, list, pc, bh, got, panicked>>

-----------------------------------------------------------------------------
(* The caller, between bread() and brelse().                               *)

Look(t) ==
    /\ At(t, "hold")
    /\ got' = [got EXCEPT ![t] = data[bh[t]]]
    /\ UNCHANGED <<bufs, busy, disk, pc, bh, state, panicked>>

Change(t, v) ==
    /\ At(t, "hold")
    /\ data' = [data EXCEPT ![bh[t]] = v]
    /\ GoTo(t, "dirty")
    /\ UNCHANGED <<blocknr, count, uptodate, owner, list, busy, disk, bh, state, got, panicked>>

Bwrite(t) ==
    /\ At(t, "dirty") /\ owner[bh[t]] = t
    /\ busy' = [busy EXCEPT ![bh[t]] = "out"]
    /\ state' = [state EXCEPT ![t] = "SLEEPING"]
    /\ GoTo(t, "flush")
    /\ UNCHANGED <<bufs, disk, bh, got, panicked>>

Written(t) ==
    /\ At(t, "flush") /\ busy[bh[t]] = "none"
    /\ GoTo(t, "hold")
    /\ UNCHANGED <<bufs, busy, disk, bh, state, got, panicked>>

LockWaiters_Nobody(b) == {}                   \* mutant: no wakeup(lk)

\* Tasks that wakeup(lk) in releasesleep() finds asleep on the lock.
LockWaiters(b) == {x \in Tasks : pc[x] = "lock" /\ bh[x] = b}

\* brelse(): one user less, the buffer to the tail if none is left, then
\* releasesleep() wakes every task that waits for the lock.
Brelse(t) ==
    LET b == bh[t]
    IN  /\ At(t, "hold")
        /\ count' = [count EXCEPT ![b] = @ - 1]
        /\ list'  = IF count[b] = 1 THEN Lowered(b) ELSE list
        /\ owner' = [owner EXCEPT ![b] = Nobody]
        /\ state' = [x \in Tasks |-> IF x \in LockWaiters(b) THEN "READY" ELSE state[x]]
        /\ bh' = [bh EXCEPT ![t] = NoBuf] /\ GoTo(t, "user")
        /\ UNCHANGED <<blocknr, uptodate, data, busy, disk, got, panicked>>

\* A child's exit() makes its sleeping parent ready, whatever it waits for.
ChildExits(t) ==
    /\ ~panicked /\ state[t] = "SLEEPING"
    /\ state' = [state EXCEPT ![t] = "READY"]
    /\ UNCHANGED <<bufs, busy, disk, pc, bh, got, panicked>>

TaskStep(t) ==
    \/ \E k \in Blocks : GetblkPanics(t, k)
    \/ \E b \in Bufs, k \in Blocks : GetblkHit(t, b, k) \/ GetblkMiss(t, b, k)
    \/ WaitForLock(t) \/ TakeLock(t) \/ WaitForDisk(t) \/ Filled(t)
    \/ Look(t) \/ Bwrite(t) \/ Written(t) \/ Brelse(t)
    \/ \E v \in Values : Change(t, v)

Next ==
    \/ \E t \in Tasks : TaskStep(t) \/ ChildExits(t)
    \/ \E b \in Bufs : DiskDone(b)

Spec == Init /\ [][Next]_vars

-----------------------------------------------------------------------------
\* No block has two buffers: the tasks that use it share one.
OneBufferPerBlock ==
    \A b, c \in Bufs : blocknr[b] = blocknr[c] /\ blocknr[b] # NoBlock => b = c

\* A task past acquiresleep() owns its buffer alone, and nobody owns a buffer
\* that no task is past acquiresleep() with.
Users(b) == {t \in Tasks : bh[t] = b}
ExclusiveUse ==
    \A b \in Bufs, t \in Tasks :
        owner[b] = t <=> bh[t] = b /\ pc[t] \in {"fill", "hold", "dirty", "flush"}

\* b_count counts exactly the tasks that hold or wait for the buffer, so that
\* one in use is never recycled for another block.
CountIsUsers ==
    \A b \in Bufs : /\ count[b] = Cardinality(Users(b))
                    /\ Users(b) # {} => blocknr[b] # NoBlock

\* liftBuffer() and downBuffer() lose no buffer and enter none twice, so the
\* scans of getblk() see each of them.
ListComplete ==
    /\ list \in Seq(Bufs)
    /\ Len(list) = Len(FirstOrder)
    /\ \A b \in Bufs : \E i \in 1..Len(list) : list[i] = b

\* Outside a change in progress the medium holds what the cache holds, so a
\* buffer can be recycled without writing it.
WrittenThrough ==
    \A b \in Bufs :
        /\ uptodate[b]
        /\ ~ \E t \in Users(b) : pc[t] \in {"dirty", "flush"}
        => data[b] = disk[blocknr[b]]

\* A task asleep is asleep for a reason that still holds: the lock is taken,
\* or the transfer is under way.
NoLostWakeup ==
    \A t \in Tasks : state[t] = "SLEEPING" =>
        /\ pc[t] = "lock" => owner[bh[t]] # Nobody
        /\ pc[t] \in {"fill", "flush"} => busy[bh[t]] # "none"

\* The cache is one atomic store: the current content of a block is that of its
\* up-to-date buffer, and otherwise that of the medium.
Current == [k \in Blocks |->
    IF \E b \in Bufs : blocknr[b] = k /\ uptodate[b]
    THEN data[CHOOSE b \in Bufs : blocknr[b] = k /\ uptodate[b]] ELSE disk[k]]

Store == INSTANCE BlockStore WITH store <- Current
IsBlockStore == Store!Spec

=============================================================================
