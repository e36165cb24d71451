---------------------------- MODULE BcacheProofs ----------------------------
(***************************************************************************)
(* Proofs about Bcache for any finite set of tasks and any sets of buffers *)
(* and blocks.                                                             *)
(*                                                                         *)
(* The invariant BInv adds to the checked properties what ties a task's    *)
(* place to its buffer: who is in a call has a buffer, a transfer belongs  *)
(* to the owner of the buffer, and what a place says of the content.  The  *)
(* list needs an invariant of its own: no buffer is on it twice.           *)
(***************************************************************************)
EXTENDS Bcache, FiniteSetTheorems, SequenceTheorems, TLAPS

\* A task has a buffer exactly during a call, and sleeps only where it waits.
Placed ==
    \A t \in Tasks : /\ bh[t] = NoBuf <=> pc[t] = "user"
                     /\ state[t] = "SLEEPING" => pc[t] \in {"lock", "fill", "flush"}

\* A transfer under way is that of the buffer's owner.
TransferOwned ==
    \A b \in Bufs : /\ busy[b] = "in"  => owner[b] \in Tasks /\ pc[owner[b]] = "fill"
                    /\ busy[b] = "out" => owner[b] \in Tasks /\ pc[owner[b]] = "flush"

\* What a task's place says of the content of its buffer.
Content ==
    \A t \in Tasks : bh[t] \in Bufs =>
        /\ pc[t] = "fill" => ~uptodate[bh[t]]
        /\ pc[t] \in {"hold", "dirty", "flush"} => uptodate[bh[t]]
        /\ pc[t] \in {"fill", "flush"} /\ busy[bh[t]] = "none" =>
              data[bh[t]] = disk[blocknr[bh[t]]]

\* A buffer that is up to date holds some block.
Named == \A b \in Bufs : uptodate[b] => blocknr[b] # NoBlock

BInv == /\ TypeOK /\ OneBufferPerBlock /\ ExclusiveUse /\ CountIsUsers
        /\ WrittenThrough /\ NoLostWakeup
        /\ Placed /\ TransferOwned /\ Content /\ Named

-----------------------------------------------------------------------------
LEMMA UsersFinite ==
    ASSUME NEW b PROVE IsFiniteSet(Users(b)) /\ Cardinality(Users(b)) \in Nat
<1>1. Users(b) \in SUBSET Tasks
  BY DEF Users
<1>. QED BY <1>1, FiniteAssumption, FS_Subset, FS_CardinalityType

LEMMA SameUsers ==
    ASSUME NEW c, \A x \in Tasks : bh'[x] = c <=> bh[x] = c
    PROVE  Users(c)' = Users(c)
BY DEF Users

LEMMA InitInv == Init => BInv
<1>. SUFFICES ASSUME Init PROVE BInv
  OBVIOUS
<1>. USE SentinelAssumption
<1>1. TypeOK
  BY ValueAssumption DEF Init, TypeOK, Places, Transfers
<1>2. OneBufferPerBlock /\ ExclusiveUse /\ WrittenThrough /\ NoLostWakeup
  BY DEF Init, OneBufferPerBlock, ExclusiveUse, WrittenThrough, NoLostWakeup
<1>3. CountIsUsers
  <2>1. \A b \in Bufs : Users(b) = {}
    BY DEF Init, Users
  <2>. QED BY <2>1, FS_EmptySet DEF Init, CountIsUsers
<1>4. Placed /\ TransferOwned /\ Content /\ Named
  BY DEF Init, Placed, TransferOwned, Content, Named
<1>. QED BY <1>1, <1>2, <1>3, <1>4 DEF BInv

\* Steps that change neither bh, count nor blocknr keep the counts.
LEMMA CountFrame ==
    ASSUME CountIsUsers, UNCHANGED <<bh, count, blocknr>> PROVE CountIsUsers'
BY DEF CountIsUsers, Users

-----------------------------------------------------------------------------
(* Every action preserves the invariant. *)

LEMMA GetblkHitStep ==
    ASSUME NEW t \in Tasks, NEW b \in Bufs, NEW k \in Blocks, BInv, GetblkHit(t, b, k) PROVE BInv'
<1>. USE SentinelAssumption DEF BInv, GetblkHit, At, GoTo, bufs, Cached
<1>1. t \notin Users(b) /\ Users(b)' = Users(b) \cup {t}
  BY DEF TypeOK, Placed, Users
<1>2. ASSUME NEW c \in Bufs \ {b} PROVE Users(c)' = Users(c)
  <2>1. \A x \in Tasks : bh'[x] = c <=> bh[x] = c
    BY DEF TypeOK, Placed
  <2>. QED BY <2>1, SameUsers
<1>3. TypeOK'
  BY DEF TypeOK, Places, Transfers
<1>4. ExclusiveUse'
  BY DEF ExclusiveUse
<1>5. CountIsUsers'
  <2>1. Cardinality(Users(b)') = Cardinality(Users(b)) + 1
    BY <1>1, UsersFinite, FS_AddElement
  <2>. QED BY <1>2, <2>1 DEF TypeOK, CountIsUsers
<1>6. WrittenThrough'
  BY DEF WrittenThrough, Users
<1>7. NoLostWakeup'
  BY DEF NoLostWakeup
<1>8. Placed'
  BY DEF TypeOK, Placed
<1>9. TransferOwned'
  BY DEF TransferOwned
<1>10. Content'
  BY DEF Content
<1>11. OneBufferPerBlock' /\ Named'
  BY DEF OneBufferPerBlock, Named
<1>. QED BY <1>3, <1>4, <1>5, <1>6, <1>7, <1>8, <1>9, <1>10, <1>11 DEF BInv

LEMMA GetblkMissStep ==
    ASSUME NEW t \in Tasks, NEW b \in Bufs, NEW k \in Blocks, BInv, GetblkMiss(t, b, k) PROVE BInv'
<1>. USE SentinelAssumption DEF BInv, GetblkMiss, At, GoTo, bufs, Cached, Unused, Renamed
<1>1. Users(b) = {}
  BY UsersFinite, FS_EmptySet DEF CountIsUsers
<1>2. Users(b)' = {t}
  BY <1>1 DEF TypeOK, Users
<1>3. ASSUME NEW c \in Bufs \ {b} PROVE Users(c)' = Users(c)
  <2>1. \A x \in Tasks : bh'[x] = c <=> bh[x] = c
    BY DEF TypeOK, Placed
  <2>. QED BY <2>1, SameUsers
<1>4. TypeOK'
  BY DEF TypeOK, Places, Transfers
<1>5. OneBufferPerBlock'
  BY DEF TypeOK, OneBufferPerBlock
<1>6. ExclusiveUse'
  BY DEF ExclusiveUse
<1>7. CountIsUsers'
  <2>1. Cardinality(Users(b)') = 1
    BY <1>2, FS_Singleton
  <2>. QED BY <1>3, <2>1 DEF TypeOK, CountIsUsers
<1>8. WrittenThrough'
  BY DEF TypeOK, WrittenThrough, Users
<1>9. NoLostWakeup'
  BY DEF NoLostWakeup
<1>10. Placed'
  BY DEF TypeOK, Placed
<1>11. TransferOwned'
  BY DEF TransferOwned
<1>12. Content'
  BY <1>1 DEF TypeOK, Placed, Content, Users
<1>13. Named'
  BY DEF Named
<1>. QED BY <1>4, <1>5, <1>6, <1>7, <1>8, <1>9, <1>10, <1>11, <1>12, <1>13 DEF BInv

LEMMA GetblkPanicsStep ==
    ASSUME NEW t \in Tasks, NEW k \in Blocks, BInv, GetblkPanics(t, k) PROVE BInv'
<1>. USE SentinelAssumption DEF BInv, GetblkPanics, At, GoTo, bufs
<1>1. TypeOK'
  BY DEF TypeOK, Places, Transfers
<1>2. OneBufferPerBlock' /\ ExclusiveUse' /\ CountIsUsers' /\ WrittenThrough' /\ NoLostWakeup' /\ Placed' /\ TransferOwned' /\ Content' /\ Named'
  BY DEF OneBufferPerBlock, ExclusiveUse, CountIsUsers, WrittenThrough, NoLostWakeup, Placed, TransferOwned, Content, Named, Users
<1>. QED BY <1>1, <1>2 DEF BInv

LEMMA WaitForLockStep ==
    ASSUME NEW t \in Tasks, BInv, WaitForLock(t) PROVE BInv'
<1>. USE SentinelAssumption DEF BInv, WaitForLock, At, GoTo, bufs, LockTaken
<1>1. TypeOK'
  BY DEF TypeOK, Places, Transfers
<1>2. NoLostWakeup'
  BY DEF NoLostWakeup
<1>3. Placed'
  BY DEF Placed
<1>4. OneBufferPerBlock' /\ ExclusiveUse' /\ CountIsUsers' /\ WrittenThrough' /\ TransferOwned' /\ Content' /\ Named'
  BY DEF OneBufferPerBlock, ExclusiveUse, CountIsUsers, WrittenThrough, TransferOwned, Content, Named, Users
<1>. QED BY <1>1, <1>2, <1>3, <1>4 DEF BInv

LEMMA TakeLockStep ==
    ASSUME NEW t \in Tasks, BInv, TakeLock(t) PROVE BInv'
<1>. USE SentinelAssumption DEF BInv, TakeLock, At, GoTo, bufs, LockTaken
<1>1. TypeOK'
  BY DEF TypeOK, Places, Transfers
<1>2. ExclusiveUse'
  BY DEF TypeOK, ExclusiveUse
<1>3. WrittenThrough'
  BY DEF TypeOK, WrittenThrough, Users
<1>4. NoLostWakeup'
  BY DEF TypeOK, NoLostWakeup, Placed
<1>5. Placed'
  BY DEF TypeOK, Placed
<1>6. TransferOwned'
  BY DEF TypeOK, TransferOwned
<1>7. Content'
  BY DEF TypeOK, Content
<1>8. OneBufferPerBlock' /\ CountIsUsers' /\ Named'
  BY DEF OneBufferPerBlock, CountIsUsers, Named, Users
<1>. QED BY <1>1, <1>2, <1>3, <1>4, <1>5, <1>6, <1>7, <1>8 DEF BInv

LEMMA WaitForDiskStep ==
    ASSUME NEW t \in Tasks, BInv, WaitForDisk(t) PROVE BInv'
<1>. USE SentinelAssumption DEF BInv, WaitForDisk, At, GoTo, bufs
<1>1. TypeOK'
  BY DEF TypeOK, Places, Transfers
<1>2. NoLostWakeup'
  BY DEF NoLostWakeup
<1>3. Placed'
  BY DEF Placed
<1>4. OneBufferPerBlock' /\ ExclusiveUse' /\ CountIsUsers' /\ WrittenThrough' /\ TransferOwned' /\ Content' /\ Named'
  BY DEF OneBufferPerBlock, ExclusiveUse, CountIsUsers, WrittenThrough, TransferOwned, Content, Named, Users
<1>. QED BY <1>1, <1>2, <1>3, <1>4 DEF BInv

LEMMA FilledStep ==
    ASSUME NEW t \in Tasks, BInv, Filled(t) PROVE BInv'
<1>. USE SentinelAssumption DEF BInv, Filled, At, GoTo, bufs
<1>1. /\ bh[t] \in Bufs /\ owner[bh[t]] = t /\ data[bh[t]] = disk[blocknr[bh[t]]]
      /\ \A x \in Tasks \ {t} : bh[x] = bh[t] => pc[x] \in {"user", "lock"}
  BY DEF TypeOK, Places, Placed, ExclusiveUse, Content
<1>2. TypeOK'
  BY DEF TypeOK, Places, Transfers
<1>3. ExclusiveUse'
  BY DEF ExclusiveUse
<1>4. WrittenThrough'
  BY DEF TypeOK, WrittenThrough, Placed, ExclusiveUse, Content, Users
<1>5. NoLostWakeup'
  BY DEF NoLostWakeup
<1>6. Placed'
  BY DEF Placed
<1>7. TransferOwned'
  BY DEF TypeOK, TransferOwned, ExclusiveUse
<1>8. Content'
  BY <1>1 DEF TypeOK, Content
<1>9. Named'
  BY <1>1 DEF TypeOK, Named, CountIsUsers, Users
<1>10. OneBufferPerBlock' /\ CountIsUsers'
  BY DEF OneBufferPerBlock, CountIsUsers, Users
<1>. QED BY <1>2, <1>3, <1>4, <1>5, <1>6, <1>7, <1>8, <1>9, <1>10 DEF BInv

LEMMA DiskDoneStep ==
    ASSUME NEW b \in Bufs, BInv, DiskDone(b) PROVE BInv'
<1>. USE SentinelAssumption DEF BInv, DiskDone, At, GoTo, bufs
<1>1. PICK t \in Tasks : /\ owner[b] = t /\ bh[t] = b
                         /\ busy[b] = "in"  => pc[t] = "fill"
                         /\ busy[b] = "out" => pc[t] = "flush"
                         /\ \A x \in Tasks \ {t} : bh[x] = b => pc[x] \in {"user", "lock"}
  BY DEF TypeOK, Places, Transfers, TransferOwned, ExclusiveUse
<1>2. blocknr[b] \in Blocks /\ \A c \in Bufs \ {b} : blocknr[c] # blocknr[b]
  BY <1>1 DEF TypeOK, CountIsUsers, Users, OneBufferPerBlock
<1>3. TypeOK'
  BY <1>2 DEF TypeOK, Places, Transfers
<1>4. WrittenThrough'
  BY <1>1, <1>2 DEF TypeOK, Transfers, WrittenThrough, Content, Users, Named
<1>5. NoLostWakeup'
  BY DEF NoLostWakeup
<1>6. Placed'
  BY DEF Placed
<1>7. TransferOwned'
  BY DEF TransferOwned
<1>8. Content'
  <2>1. CASE busy[b] = "in"
    BY <1>1, <1>2, <2>1 DEF TypeOK, Content, Placed, ExclusiveUse
  <2>2. CASE busy[b] = "out"
    <3>1. ASSUME NEW x \in Tasks, bh[x] \in Bufs, pc[x] \in {"fill", "flush"}, busy'[bh[x]] = "none"
          PROVE  data'[bh[x]] = disk'[blocknr[bh[x]]]
      <4>1. blocknr[bh[x]] \in Blocks
        BY <3>1 DEF TypeOK, CountIsUsers, Users
      <4>2. CASE bh[x] = b
        BY <1>2, <2>2, <4>2 DEF TypeOK
      <4>3. CASE bh[x] # b
        <5>1. busy[bh[x]] = "none" /\ blocknr[bh[x]] # blocknr[b]
          BY <1>2, <3>1, <4>3 DEF TypeOK
        <5>. QED BY <2>2, <3>1, <4>1, <5>1 DEF TypeOK, Content
      <4>. QED BY <4>2, <4>3
    <3>. QED BY <3>1, <2>2 DEF TypeOK, Content
  <2>. QED BY <2>1, <2>2 DEF TypeOK, Transfers
<1>9. OneBufferPerBlock' /\ ExclusiveUse' /\ CountIsUsers' /\ Named'
  BY DEF OneBufferPerBlock, ExclusiveUse, CountIsUsers, Named, Users
<1>. QED BY <1>3, <1>4, <1>5, <1>6, <1>7, <1>8, <1>9 DEF BInv

LEMMA LookStep ==
    ASSUME NEW t \in Tasks, BInv, Look(t) PROVE BInv'
<1>. USE SentinelAssumption DEF BInv, Look, At, GoTo, bufs
<1>1. bh[t] \in Bufs
  BY DEF TypeOK, Placed
<1>2. TypeOK'
  BY <1>1 DEF TypeOK, Places
<1>3. OneBufferPerBlock' /\ ExclusiveUse' /\ CountIsUsers' /\ WrittenThrough' /\ NoLostWakeup' /\ Placed' /\ TransferOwned' /\ Content' /\ Named'
  BY DEF OneBufferPerBlock, ExclusiveUse, CountIsUsers, WrittenThrough, NoLostWakeup, Placed, TransferOwned, Content, Named, Users
<1>. QED BY <1>2, <1>3 DEF BInv

LEMMA ChangeStep ==
    ASSUME NEW t \in Tasks, NEW v \in Values, BInv, Change(t, v) PROVE BInv'
<1>. USE SentinelAssumption DEF BInv, Change, At, GoTo, bufs
<1>1. TypeOK'
  BY DEF TypeOK, Places, Transfers
<1>2. ExclusiveUse'
  BY DEF ExclusiveUse
<1>3. WrittenThrough'
  BY DEF TypeOK, WrittenThrough, Users
<1>4. NoLostWakeup'
  BY DEF NoLostWakeup
<1>5. Placed'
  BY DEF Placed
<1>6. TransferOwned'
  BY DEF TransferOwned
<1>7. Content'
  BY DEF TypeOK, Content, ExclusiveUse
<1>8. OneBufferPerBlock' /\ CountIsUsers' /\ Named'
  BY DEF OneBufferPerBlock, CountIsUsers, Named, Users
<1>. QED BY <1>1, <1>2, <1>3, <1>4, <1>5, <1>6, <1>7, <1>8 DEF BInv

LEMMA BwriteStep ==
    ASSUME NEW t \in Tasks, BInv, Bwrite(t) PROVE BInv'
<1>. USE SentinelAssumption DEF BInv, Bwrite, At, GoTo, bufs
<1>1. TypeOK'
  BY DEF TypeOK, Places, Transfers
<1>2. ExclusiveUse'
  BY DEF ExclusiveUse
<1>3. WrittenThrough'
  BY DEF WrittenThrough, Users
<1>4. NoLostWakeup'
  BY DEF TypeOK, NoLostWakeup, Placed
<1>5. Placed'
  BY DEF TypeOK, Placed
<1>6. TransferOwned'
  BY DEF TypeOK, TransferOwned
<1>7. Content'
  BY DEF TypeOK, Content
<1>8. OneBufferPerBlock' /\ CountIsUsers' /\ Named'
  BY DEF OneBufferPerBlock, CountIsUsers, Named, Users
<1>. QED BY <1>1, <1>2, <1>3, <1>4, <1>5, <1>6, <1>7, <1>8 DEF BInv

LEMMA WrittenStep ==
    ASSUME NEW t \in Tasks, BInv, Written(t) PROVE BInv'
<1>. USE SentinelAssumption DEF BInv, Written, At, GoTo, bufs
<1>1. TypeOK'
  BY DEF TypeOK, Places, Transfers
<1>2. ExclusiveUse'
  BY DEF ExclusiveUse
<1>3. WrittenThrough'
  BY DEF TypeOK, WrittenThrough, Placed, ExclusiveUse, Content, Users
<1>4. NoLostWakeup'
  BY DEF NoLostWakeup
<1>5. Placed'
  BY DEF Placed
<1>6. TransferOwned'
  BY DEF TypeOK, TransferOwned, ExclusiveUse
<1>7. Content'
  BY DEF Content
<1>8. OneBufferPerBlock' /\ CountIsUsers' /\ Named'
  BY DEF OneBufferPerBlock, CountIsUsers, Named, Users
<1>. QED BY <1>1, <1>2, <1>3, <1>4, <1>5, <1>6, <1>7, <1>8 DEF BInv

LEMMA BrelseStep ==
    ASSUME NEW t \in Tasks, BInv, Brelse(t) PROVE BInv'
<1>. USE SentinelAssumption DEF BInv, Brelse, At, GoTo, bufs, LockWaiters
<1>1. PICK b \in Bufs : b = bh[t] /\ owner[b] = t
  BY DEF TypeOK, Placed, ExclusiveUse
<1>2. t \in Users(b) /\ Users(b)' = Users(b) \ {t}
  <2>1. \A x \in Tasks : bh'[x] = b <=> bh[x] = b /\ x # t
    BY <1>1 DEF TypeOK
  <2>. QED BY <1>1, <2>1 DEF Users
<1>3. ASSUME NEW c \in Bufs \ {b} PROVE Users(c)' = Users(c)
  <2>1. \A x \in Tasks : bh'[x] = c <=> bh[x] = c
    BY <1>1 DEF TypeOK
  <2>. QED BY <2>1, SameUsers
<1>4. count[b] \in Nat \ {0} /\ Cardinality(Users(b)') = count[b] - 1
  <2>1. Cardinality(Users(b)) = count[b]
    BY <1>1 DEF CountIsUsers
  <2>2. Users(b) # {}
    BY <1>2
  <2>3. Cardinality(Users(b)) # 0
    BY <2>2, UsersFinite, FS_EmptySet
  <2>4. Cardinality(Users(b) \ {t}) = Cardinality(Users(b)) - 1
    BY <1>2, UsersFinite, FS_RemoveElement
  <2>. QED BY <1>1, <1>2, <2>1, <2>3, <2>4 DEF TypeOK
<1>5. TypeOK'
  BY <1>1, <1>4 DEF TypeOK, Places
<1>6. ExclusiveUse'
  BY DEF TypeOK, ExclusiveUse
<1>7. CountIsUsers'
  <2>1. ASSUME NEW c \in Bufs PROVE count'[c] = Cardinality(Users(c)')
    <3>1. CASE c = b
      BY <1>1, <1>4, <3>1 DEF TypeOK
    <3>2. CASE c # b
      BY <1>1, <1>3, <3>2 DEF TypeOK, CountIsUsers
    <3>. QED BY <3>1, <3>2
  <2>2. ASSUME NEW c \in Bufs, Users(c)' # {} PROVE blocknr'[c] # NoBlock
    <3>1. Users(c) # {}
      BY <1>2, <1>3, <2>2
    <3>. QED BY <3>1 DEF CountIsUsers
  <2>. QED BY <2>1, <2>2 DEF CountIsUsers
<1>8. WrittenThrough'
  BY DEF WrittenThrough, Users
<1>9. NoLostWakeup'
  BY DEF NoLostWakeup
<1>10. Placed'
  BY DEF TypeOK, Placed
<1>11. TransferOwned'
  BY DEF TypeOK, TransferOwned, ExclusiveUse
<1>12. Content'
  BY DEF Content
<1>13. OneBufferPerBlock' /\ Named'
  BY DEF OneBufferPerBlock, Named
<1>. QED BY <1>5, <1>6, <1>7, <1>8, <1>9, <1>10, <1>11, <1>12, <1>13 DEF BInv

LEMMA ChildExitsStep ==
    ASSUME NEW t \in Tasks, BInv, ChildExits(t) PROVE BInv'
<1>. USE SentinelAssumption DEF BInv, ChildExits, At, GoTo, bufs
<1>1. TypeOK'
  BY DEF TypeOK, Places, Transfers
<1>2. NoLostWakeup'
  BY DEF NoLostWakeup
<1>3. Placed'
  BY DEF Placed
<1>4. OneBufferPerBlock' /\ ExclusiveUse' /\ CountIsUsers' /\ WrittenThrough' /\ TransferOwned' /\ Content' /\ Named'
  BY DEF OneBufferPerBlock, ExclusiveUse, CountIsUsers, WrittenThrough, TransferOwned, Content, Named, Users
<1>. QED BY <1>1, <1>2, <1>3, <1>4 DEF BInv

LEMMA StutterStep == ASSUME BInv, UNCHANGED vars PROVE BInv'
<1>. USE DEF BInv, vars, bufs
<1>1. TypeOK'
  BY DEF TypeOK
<1>2. OneBufferPerBlock' /\ ExclusiveUse' /\ CountIsUsers' /\ WrittenThrough'
  BY DEF OneBufferPerBlock, ExclusiveUse, CountIsUsers, WrittenThrough, Users
<1>3. NoLostWakeup' /\ Placed' /\ TransferOwned'
  BY DEF NoLostWakeup, Placed, TransferOwned
<1>4. Content' /\ Named'
  BY DEF Content, Named
<1>. QED BY <1>1, <1>2, <1>3, <1>4

LEMMA NextInv == BInv /\ [Next]_vars => BInv'
<1>. SUFFICES ASSUME BInv, [Next]_vars PROVE BInv'
  OBVIOUS
<1>1. ASSUME NEW t \in Tasks, TaskStep(t) PROVE BInv'
  BY <1>1, GetblkHitStep, GetblkMissStep, GetblkPanicsStep, WaitForLockStep,
     TakeLockStep, WaitForDiskStep, FilledStep, LookStep, ChangeStep, BwriteStep,
     WrittenStep, BrelseStep DEF TaskStep
<1>2. ASSUME NEW t \in Tasks, ChildExits(t) PROVE BInv'
  BY <1>2, ChildExitsStep
<1>3. ASSUME NEW b \in Bufs, DiskDone(b) PROVE BInv'
  BY <1>3, DiskDoneStep
<1>4. CASE UNCHANGED vars
  BY <1>4, StutterStep
<1>. QED BY <1>1, <1>2, <1>3, <1>4 DEF Next

THEOREM BcacheInvariance == Spec => []BInv
<1>. QED BY InitInv, NextInv, PTL DEF Spec

\* Every field keeps its type; b_count in particular is never decremented
\* below zero.
THEOREM TypeCorrect == Spec => []TypeOK
<1>1. BInv => TypeOK
  BY DEF BInv
<1>. QED BY <1>1, BcacheInvariance, PTL

\* However tasks interleave in getblk(), brelse() and the disk, no block ever
\* has two buffers.
THEOREM OneBufferPerBlockTheorem == Spec => []OneBufferPerBlock
<1>1. BInv => OneBufferPerBlock
  BY DEF BInv
<1>. QED BY <1>1, BcacheInvariance, PTL

\* Between bread() and brelse() a task has its buffer for itself, for any
\* number of tasks.
THEOREM ExclusiveUseTheorem == Spec => []ExclusiveUse
<1>1. BInv => ExclusiveUse
  BY DEF BInv
<1>. QED BY <1>1, BcacheInvariance, PTL

\* b_count is the number of tasks that use the buffer, so getblk() recycles no
\* buffer in use.
THEOREM CountIsUsersTheorem == Spec => []CountIsUsers
<1>1. BInv => CountIsUsers
  BY DEF BInv
<1>. QED BY <1>1, BcacheInvariance, PTL

\* Recycling a buffer loses nothing: unless its user is writing it, its content
\* is on the medium.
THEOREM WrittenThroughTheorem == Spec => []WrittenThrough
<1>1. BInv => WrittenThrough
  BY DEF BInv
<1>. QED BY <1>1, BcacheInvariance, PTL

\* No task sleeps on a lock that is free or for a transfer that is over.
THEOREM NoLostWakeupTheorem == Spec => []NoLostWakeup
<1>1. BInv => NoLostWakeup
  BY DEF BInv
<1>. QED BY <1>1, BcacheInvariance, PTL

-----------------------------------------------------------------------------
(* The list: taking a buffer out and putting it back at one of the ends.   *)

\* No buffer is on the list twice.
Distinct == \A i, j \in 1..Len(list) : list[i] = list[j] => i = j

\* list_del of a buffer: the ones behind it move up by one.
LEMMA WithoutAt ==
    ASSUME ListComplete, Distinct, NEW b \in Bufs
    PROVE  \E p \in 1..Len(list) :
             /\ list[p] = b
             /\ Without(b) \in Seq(Bufs)
             /\ Len(Without(b)) = Len(list) - 1
             /\ \A i \in 1..Len(list) - 1 :
                    Without(b)[i] = IF i < p THEN list[i] ELSE list[i + 1]
<1>. DEFINE p == Position(b)
            n == Len(list)
            front == SubSeq(list, 1, p - 1)
            back  == SubSeq(list, p + 1, n)
<1>1. list \in Seq(Bufs) /\ n \in Nat
  BY LenProperties DEF ListComplete
<1>2. p \in 1..n /\ list[p] = b
  BY DEF ListComplete, Position
<1>3. Without(b) = front \o back
  BY DEF Without, RemoveAt
<1>. HIDE DEF p, n
<1>4. /\ front \in Seq(Bufs) /\ Len(front) = p - 1
      /\ \A i \in 1..p - 1 : front[i] = list[i]
  <2>1. \A i \in 1..p - 1 : list[i] \in Bufs
    BY <1>1, <1>2, ElementOfSeq DEF n
  <2>. QED BY <1>1, <1>2, <2>1 DEF n
<1>5. /\ back \in Seq(Bufs) /\ Len(back) = n - p
      /\ \A i \in 1..n - p : back[i] = list[p + i]
  <2>1. \A i \in p + 1..n : list[i] \in Bufs
    BY <1>1, <1>2, ElementOfSeq DEF n
  <2>. QED BY <1>1, <1>2, <2>1 DEF n
<1>. HIDE DEF front, back
<1>6. /\ front \o back \in Seq(Bufs)
      /\ Len(front \o back) = n - 1
      /\ \A i \in 1..n - 1 : (front \o back)[i] = IF i <= p - 1 THEN front[i]
                                                  ELSE back[i - (p - 1)]
  BY <1>1, <1>2, <1>4, <1>5, ConcatProperties
<1>7. ASSUME NEW i \in 1..n - 1
      PROVE  Without(b)[i] = IF i < p THEN list[i] ELSE list[i + 1]
  <2>1. CASE i < p
    BY <1>1, <1>2, <1>3, <1>4, <1>6, <2>1
  <2>2. CASE ~(i < p)
    <3>1. i - (p - 1) \in 1..n - p /\ p + (i - (p - 1)) = i + 1
      BY <1>1, <1>2, <2>2
    <3>. QED BY <1>1, <1>2, <1>3, <1>5, <1>6, <2>2, <3>1
  <2>. QED BY <2>1, <2>2
<1>. QED BY <1>2, <1>3, <1>6, <1>7 DEF n

\* What it leaves: every other buffer, once, and not the one taken out.
LEMMA WithoutRest ==
    ASSUME ListComplete, Distinct, NEW b \in Bufs
    PROVE  /\ Without(b) \in Seq(Bufs) /\ Len(Without(b)) = Len(list) - 1
           /\ Len(list) \in Nat \ {0}
           /\ \A x \in Bufs \ {b} : \E i \in 1..Len(list) - 1 : Without(b)[i] = x
           /\ \A i \in 1..Len(list) - 1 : Without(b)[i] # b
           /\ \A i, j \in 1..Len(list) - 1 : Without(b)[i] = Without(b)[j] => i = j
<1>. DEFINE n == Len(list)
            w == Without(b)
<1>1. n \in Nat
  BY LenProperties DEF ListComplete
<1>2. PICK p \in 1..n : /\ list[p] = b /\ w \in Seq(Bufs) /\ Len(w) = n - 1
                        /\ \A i \in 1..n - 1 : w[i] = IF i < p THEN list[i] ELSE list[i + 1]
  BY WithoutAt
<1>3. \A i, j \in 1..n : list[i] = list[j] => i = j
  BY DEF Distinct
<1>4. ASSUME NEW x \in Bufs \ {b} PROVE \E i \in 1..n - 1 : w[i] = x
  <2>1. PICK k \in 1..n : list[k] = x
    BY DEF ListComplete
  <2>. HIDE DEF n, w
  <2>2. CASE k < p
    <3>1. k \in 1..n - 1 /\ w[k] = x
      BY <1>1, <1>2, <2>1, <2>2
    <3>. QED BY <3>1
  <2>3. CASE k > p
    <3>1. k - 1 \in 1..n - 1 /\ ~(k - 1 < p) /\ (k - 1) + 1 = k
      BY <1>1, <1>2, <2>3
    <3>2. w[k - 1] = x
      BY <1>2, <2>1, <3>1
    <3>. QED BY <3>1, <3>2
  <2>. QED BY <1>1, <1>2, <2>1, <2>2, <2>3
<1>. HIDE DEF n, w
<1>5. ASSUME NEW i \in 1..n - 1
      PROVE  \E k \in 1..n : w[i] = list[k] /\ k # p /\ k = IF i < p THEN i ELSE i + 1
  BY <1>1, <1>2
<1>6. \A i \in 1..n - 1 : w[i] # b
  BY <1>2, <1>3, <1>5
<1>7. ASSUME NEW i \in 1..n - 1, NEW j \in 1..n - 1, w[i] = w[j] PROVE i = j
  <2>1. PICK k \in 1..n : w[i] = list[k] /\ k = IF i < p THEN i ELSE i + 1
    BY <1>5
  <2>2. PICK m \in 1..n : w[j] = list[m] /\ m = IF j < p THEN j ELSE j + 1
    BY <1>5
  <2>3. k = m
    BY <1>3, <1>7, <2>1, <2>2
  <2>. QED BY <1>1, <2>1, <2>2, <2>3
<1>. QED BY <1>1, <1>2, <1>4, <1>6, <1>7 DEF n, w

\* liftBuffer() and downBuffer() keep every buffer on the list, once.
LEMMA LiftedKeeps ==
    ASSUME ListComplete, Distinct, NEW b \in Bufs, list' = Lifted(b)
    PROVE  ListComplete' /\ Distinct'
<1>. DEFINE n == Len(list)
            w == Without(b)
<1>1. /\ w \in Seq(Bufs) /\ Len(w) = n - 1 /\ n \in Nat \ {0}
      /\ \A x \in Bufs \ {b} : \E i \in 1..n - 1 : w[i] = x
      /\ \A i \in 1..n - 1 : w[i] # b
      /\ \A i, j \in 1..n - 1 : w[i] = w[j] => i = j
  BY WithoutRest
<1>2. list' = <<b>> \o w
  BY DEF Lifted
<1>3. n = Len(FirstOrder)
  BY DEF ListComplete
<1>. HIDE DEF n, w
<1>4. <<b>> \in Seq(Bufs) /\ Len(<<b>>) = 1 /\ <<b>>[1] = b
  OBVIOUS
<1>5. /\ list' \in Seq(Bufs) /\ Len(list') = n
      /\ \A i \in 1..n : list'[i] = IF i <= 1 THEN <<b>>[i] ELSE w[i - 1]
  BY <1>1, <1>2, <1>4, ConcatProperties
<1>6. list'[1] = b /\ \A i \in 2..n : i - 1 \in 1..n - 1 /\ list'[i] = w[i - 1]
  BY <1>1, <1>4, <1>5
<1>7. ASSUME NEW x \in Bufs PROVE \E i \in 1..n : list'[i] = x
  <2>1. CASE x = b
    <3>1. 1 \in 1..n
      BY <1>1
    <3>. QED BY <1>6, <2>1, <3>1
  <2>2. CASE x # b
    <3>1. PICK k \in 1..n - 1 : w[k] = x
      BY <1>1, <2>2
    <3>2. k + 1 \in 2..n /\ (k + 1) - 1 = k
      BY <1>1, <3>1
    <3>3. list'[k + 1] = x
      BY <1>6, <3>1, <3>2
    <3>4. k + 1 \in 1..n
      BY <1>1, <3>2
    <3>. QED BY <3>3, <3>4
  <2>. QED BY <2>1, <2>2
<1>8. ASSUME NEW i \in 1..n, NEW j \in 1..n, list'[i] = list'[j] PROVE i = j
  <2>1. CASE i = 1 \/ j = 1
    <3>1. \A k \in 2..n : list'[k] # b
      BY <1>1, <1>6
    <3>. QED BY <1>1, <1>6, <1>8, <2>1, <3>1
  <2>2. CASE i # 1 /\ j # 1
    <3>1. i \in 2..n /\ j \in 2..n
      BY <1>1, <2>2
    <3>2. i - 1 = j - 1
      BY <1>1, <1>6, <1>8, <3>1
    <3>. QED BY <3>1, <3>2
  <2>. QED BY <2>1, <2>2
<1>. QED BY <1>3, <1>5, <1>7, <1>8 DEF ListComplete, Distinct

LEMMA LoweredKeeps ==
    ASSUME ListComplete, Distinct, NEW b \in Bufs, list' = Lowered(b)
    PROVE  ListComplete' /\ Distinct'
<1>. DEFINE n == Len(list)
            w == Without(b)
<1>1. /\ w \in Seq(Bufs) /\ Len(w) = n - 1 /\ n \in Nat \ {0}
      /\ \A x \in Bufs \ {b} : \E i \in 1..n - 1 : w[i] = x
      /\ \A i \in 1..n - 1 : w[i] # b
      /\ \A i, j \in 1..n - 1 : w[i] = w[j] => i = j
  BY WithoutRest
<1>2. list' = Append(w, b)
  BY DEF Lowered
<1>3. n = Len(FirstOrder)
  BY DEF ListComplete
<1>. HIDE DEF n, w
<1>4. /\ list' \in Seq(Bufs) /\ Len(list') = n /\ list'[n] = b
      /\ \A i \in 1..n - 1 : list'[i] = w[i]
  BY <1>1, <1>2, AppendProperties
<1>5. ASSUME NEW x \in Bufs PROVE \E i \in 1..n : list'[i] = x
  <2>1. CASE x = b
    BY <1>1, <1>4, <2>1
  <2>2. CASE x # b
    <3>1. PICK k \in 1..n - 1 : w[k] = x
      BY <1>1, <2>2
    <3>2. k \in 1..n /\ list'[k] = x
      BY <1>1, <1>4, <3>1
    <3>. QED BY <3>2
  <2>. QED BY <2>1, <2>2
<1>6. ASSUME NEW i \in 1..n, NEW j \in 1..n, list'[i] = list'[j] PROVE i = j
  BY <1>1, <1>4, <1>6
<1>. QED BY <1>3, <1>4, <1>5, <1>6 DEF ListComplete, Distinct

LEMMA ListNext ==
    ASSUME BInv, ListComplete, Distinct, [Next]_vars
    PROVE  ListComplete' /\ Distinct'
<1>1. ASSUME UNCHANGED list PROVE ListComplete' /\ Distinct'
  BY <1>1 DEF ListComplete, Distinct
<1>2. ASSUME NEW t \in Tasks, TakeLock(t) PROVE ListComplete' /\ Distinct'
  <2>1. bh[t] \in Bufs
    BY <1>2 DEF BInv, TypeOK, Placed, TakeLock, At
  <2>2. list' = Lifted(bh[t]) \/ UNCHANGED list
    BY <1>2 DEF TakeLock
  <2>. QED BY <1>1, <2>1, <2>2, LiftedKeeps
<1>3. ASSUME NEW t \in Tasks, Filled(t) PROVE ListComplete' /\ Distinct'
  <2>1. bh[t] \in Bufs
    BY <1>3 DEF BInv, TypeOK, Placed, Filled, At
  <2>. QED BY <1>3, <2>1, LiftedKeeps DEF Filled
<1>4. ASSUME NEW t \in Tasks, Brelse(t) PROVE ListComplete' /\ Distinct'
  <2>1. bh[t] \in Bufs
    BY <1>4 DEF BInv, TypeOK, Placed, Brelse, At
  <2>2. list' = Lowered(bh[t]) \/ UNCHANGED list
    BY <1>4 DEF Brelse
  <2>. QED BY <1>1, <2>1, <2>2, LoweredKeeps
<1>5. ASSUME NEW t \in Tasks, TaskStep(t) PROVE ListComplete' /\ Distinct'
  <2>1. ASSUME \/ \E k \in Blocks : GetblkPanics(t, k)
               \/ \E b \in Bufs, k \in Blocks : GetblkHit(t, b, k) \/ GetblkMiss(t, b, k)
               \/ WaitForLock(t) \/ WaitForDisk(t) \/ Look(t) \/ Bwrite(t) \/ Written(t)
               \/ \E v \in Values : Change(t, v)
        PROVE  UNCHANGED list
    BY <2>1 DEF GetblkPanics, GetblkHit, GetblkMiss, WaitForLock, WaitForDisk, Look,
                Bwrite, Written, Change, bufs
  <2>. QED BY <1>1, <1>2, <1>3, <1>4, <1>5, <2>1 DEF TaskStep
<1>6. ASSUME \/ \E t \in Tasks : ChildExits(t)
             \/ \E b \in Bufs : DiskDone(b)
             \/ UNCHANGED vars
      PROVE  UNCHANGED list
  BY <1>6 DEF ChildExits, DiskDone, bufs, vars
<1>. QED BY <1>1, <1>5, <1>6 DEF Next

\* However long buffers are lifted and lowered, the list holds each of them
\* once: the scans of getblk() miss none and come to an end.
THEOREM ListCompleteTheorem == Spec => []ListComplete
<1>1. Init => ListComplete /\ Distinct
  BY OrderAssumption DEF Init, ListComplete, Distinct
<1>2. BInv /\ (ListComplete /\ Distinct) /\ [Next]_vars => (ListComplete /\ Distinct)'
  BY ListNext
<1>. QED BY <1>1, <1>2, BcacheInvariance, PTL DEF Spec

-----------------------------------------------------------------------------
(* The cache implements BlockStore: only Look and Change are visible.      *)

\* What Current says of one block.
LEMMA CurrentAt ==
    ASSUME OneBufferPerBlock, Named, NEW k \in Blocks
    PROVE  /\ \A b \in Bufs : blocknr[b] = k /\ uptodate[b] => Current[k] = data[b]
           /\ (\A b \in Bufs : ~(blocknr[b] = k /\ uptodate[b])) => Current[k] = disk[k]
BY DEF OneBufferPerBlock, Named, Current

LEMMA CurrentAtPrime ==
    ASSUME OneBufferPerBlock', Named', NEW k \in Blocks
    PROVE  /\ \A b \in Bufs : blocknr'[b] = k /\ uptodate'[b] => Current'[k] = data'[b]
           /\ (\A b \in Bufs : ~(blocknr'[b] = k /\ uptodate'[b])) => Current'[k] = disk'[k]
BY DEF OneBufferPerBlock, Named, Current

LEMMA SameCurrent ==
    ASSUME \A k \in Blocks : Current'[k] = Current[k] PROVE Current' = Current
BY DEF Current

\* A buffer that loses its block held what the medium holds.
LEMMA GetblkMissQuiet ==
    ASSUME NEW t \in Tasks, NEW b \in Bufs, NEW k \in Blocks,
           BInv, BInv', GetblkMiss(t, b, k)
    PROVE  Current' = Current
<1>. USE DEF BInv
<1>1. Users(b) = {} /\ uptodate' = [uptodate EXCEPT ![b] = FALSE]
  BY UsersFinite, FS_EmptySet DEF CountIsUsers, GetblkMiss, Unused, Renamed
<1>2. uptodate[b] => data[b] = disk[blocknr[b]]
  BY <1>1 DEF WrittenThrough
<1>3. blocknr' = [blocknr EXCEPT ![b] = k] /\ data' = data /\ disk' = disk
  BY DEF GetblkMiss
<1>4. ASSUME NEW i \in Blocks PROVE Current'[i] = Current[i]
  <2>1. CASE \E c \in Bufs \ {b} : blocknr[c] = i /\ uptodate[c]
    <3>1. PICK c \in Bufs \ {b} : blocknr[c] = i /\ uptodate[c]
      BY <2>1
    <3>2. blocknr'[c] = i /\ uptodate'[c]
      BY <1>1, <1>3, <3>1 DEF TypeOK
    <3>. QED BY <1>3, <3>1, <3>2, CurrentAt, CurrentAtPrime
  <2>2. CASE ~ \E c \in Bufs \ {b} : blocknr[c] = i /\ uptodate[c]
    <3>1. \A c \in Bufs : ~(blocknr'[c] = i /\ uptodate'[c])
      BY <1>1, <1>3, <2>2 DEF TypeOK
    <3>2. Current'[i] = disk[i]
      BY <1>3, <3>1, CurrentAtPrime
    <3>3. CASE blocknr[b] = i /\ uptodate[b]
      BY <1>2, <3>2, <3>3, CurrentAt
    <3>4. CASE ~(blocknr[b] = i /\ uptodate[b])
      BY <2>2, <3>2, <3>4, CurrentAt
    <3>. QED BY <3>3, <3>4
  <2>. QED BY <2>1, <2>2
<1>. QED BY <1>4, SameCurrent

LEMMA UserHasBlock ==
    ASSUME BInv, NEW t \in Tasks, bh[t] \in Bufs PROVE blocknr[bh[t]] \in Blocks
BY DEF BInv, TypeOK, CountIsUsers, Users

\* A buffer becomes up to date when it holds what the medium holds.
LEMMA FilledQuiet ==
    ASSUME NEW t \in Tasks, BInv, BInv', Filled(t)
    PROVE  Current' = Current
<1>. USE DEF BInv
<1>1. PICK b \in Bufs : b = bh[t] /\ ~uptodate[b] /\ data[b] = disk[blocknr[b]]
  BY DEF TypeOK, Placed, Content, Filled, At
<1>2. /\ uptodate' = [uptodate EXCEPT ![b] = TRUE]
      /\ blocknr' = blocknr /\ data' = data /\ disk' = disk
  BY <1>1 DEF Filled
<1>3. ASSUME NEW i \in Blocks PROVE Current'[i] = Current[i]
  <2>1. CASE \E c \in Bufs : blocknr[c] = i /\ uptodate[c]
    <3>1. PICK c \in Bufs : blocknr[c] = i /\ uptodate[c] /\ uptodate'[c]
      BY <1>1, <1>2, <2>1 DEF TypeOK
    <3>. QED BY <1>2, <3>1, CurrentAt, CurrentAtPrime
  <2>2. CASE ~ \E c \in Bufs : blocknr[c] = i /\ uptodate[c]
    <3>1. Current[i] = disk[i]
      BY <2>2, CurrentAt
    <3>2. CASE blocknr[b] = i
      <4>1. blocknr'[b] = i /\ uptodate'[b]
        BY <1>2, <3>2 DEF TypeOK
      <4>. QED BY <1>1, <1>2, <3>1, <3>2, <4>1, CurrentAtPrime
    <3>3. CASE blocknr[b] # i
      <4>1. \A c \in Bufs : ~(blocknr'[c] = i /\ uptodate'[c])
        BY <1>2, <2>2, <3>3 DEF TypeOK
      <4>. QED BY <1>2, <3>1, <4>1, CurrentAtPrime
    <3>. QED BY <3>2, <3>3
  <2>. QED BY <2>1, <2>2
<1>. QED BY <1>3, SameCurrent

\* A transfer from the medium fills a buffer that is not up to date yet, and a
\* transfer to it concerns a block whose content is that of the buffer.
LEMMA DiskDoneQuiet ==
    ASSUME NEW b \in Bufs, BInv, BInv', DiskDone(b)
    PROVE  Current' = Current
<1>. USE DEF BInv
<1>1. PICK t \in Tasks : /\ bh[t] = b
                         /\ busy[b] = "in"  => pc[t] = "fill"
                         /\ busy[b] = "out" => pc[t] = "flush"
  BY DEF TypeOK, Transfers, TransferOwned, ExclusiveUse, DiskDone
<1>2. /\ busy[b] = "in"  => ~uptodate[b]
      /\ busy[b] = "out" => uptodate[b]
      /\ blocknr[b] \in Blocks
  <2>1. blocknr[b] \in Blocks
    BY <1>1, UserHasBlock
  <2>. QED BY <1>1, <2>1 DEF Content, DiskDone, TypeOK, Transfers
<1>3. blocknr' = blocknr /\ uptodate' = uptodate
  BY DEF DiskDone
<1>4. ASSUME NEW i \in Blocks PROVE Current'[i] = Current[i]
  <2>1. CASE busy[b] = "in"
    <3>1. disk' = disk /\ \A c \in Bufs : uptodate[c] => data'[c] = data[c]
      BY <1>2, <2>1 DEF DiskDone, TypeOK
    <3>2. CASE \E c \in Bufs : blocknr[c] = i /\ uptodate[c]
      BY <1>3, <3>1, <3>2, CurrentAt, CurrentAtPrime
    <3>3. CASE ~ \E c \in Bufs : blocknr[c] = i /\ uptodate[c]
      BY <1>3, <3>1, <3>3, CurrentAt, CurrentAtPrime
    <3>. QED BY <3>2, <3>3
  <2>2. CASE busy[b] = "out"
    <3>1. data' = data /\ \A n \in Blocks : n # blocknr[b] => disk'[n] = disk[n]
      BY <2>2 DEF DiskDone, TypeOK
    <3>2. CASE \E c \in Bufs : blocknr[c] = i /\ uptodate[c]
      BY <1>3, <3>1, <3>2, CurrentAt, CurrentAtPrime
    <3>3. CASE ~ \E c \in Bufs : blocknr[c] = i /\ uptodate[c]
      <4>1. blocknr[b] # i
        BY <1>2, <2>2, <3>3
      <4>. QED BY <1>3, <3>1, <3>3, <4>1, CurrentAt, CurrentAtPrime
    <3>. QED BY <3>2, <3>3
  <2>. QED BY <2>1, <2>2 DEF DiskDone, TypeOK, Transfers
<1>. QED BY <1>4, SameCurrent

LEMMA LookReads ==
    ASSUME NEW t \in Tasks, BInv, Look(t)
    PROVE  Store!Read
<1>. USE DEF BInv
<1>1. bh[t] \in Bufs /\ blocknr[bh[t]] \in Blocks /\ uptodate[bh[t]]
  <2>1. bh[t] \in Bufs /\ uptodate[bh[t]]
    BY DEF Look, At, TypeOK, Placed, Content
  <2>. QED BY <2>1, UserHasBlock
<1>2. Current[blocknr[bh[t]]] = data[bh[t]]
  BY <1>1, CurrentAt
<1>3. Current' = Current
  BY DEF Look, bufs, Current
<1>4. got' = [got EXCEPT ![t] = Current[blocknr[bh[t]]]]
  BY <1>2 DEF Look
<1>. QED BY <1>1, <1>3, <1>4 DEF Store!Read

LEMMA ChangeWrites ==
    ASSUME NEW t \in Tasks, NEW v \in Values, BInv, BInv', Change(t, v)
    PROVE  Store!Write
<1>. USE DEF BInv
<1>1. PICK b \in Bufs : b = bh[t] /\ blocknr[b] \in Blocks /\ uptodate[b]
  <2>1. bh[t] \in Bufs /\ uptodate[bh[t]]
    BY DEF Change, At, TypeOK, Placed, Content
  <2>. QED BY <2>1, UserHasBlock
<1>2. /\ data' = [data EXCEPT ![b] = v]
      /\ blocknr' = blocknr /\ uptodate' = uptodate /\ disk' = disk
  BY <1>1 DEF Change
<1>3. ASSUME NEW i \in Blocks
      PROVE  Current'[i] = IF i = blocknr[b] THEN v ELSE Current[i]
  <2>1. CASE i = blocknr[b]
    BY <1>1, <1>2, <2>1, CurrentAtPrime DEF TypeOK
  <2>2. CASE i # blocknr[b]
    <3>1. \A c \in Bufs : blocknr[c] = i => data'[c] = data[c]
      BY <1>2, <2>2 DEF TypeOK
    <3>2. CASE \E c \in Bufs : blocknr[c] = i /\ uptodate[c]
      BY <1>2, <2>2, <3>1, <3>2, CurrentAt, CurrentAtPrime
    <3>3. CASE ~ \E c \in Bufs : blocknr[c] = i /\ uptodate[c]
      BY <1>2, <2>2, <3>3, CurrentAt, CurrentAtPrime
    <3>. QED BY <3>2, <3>3
  <2>. QED BY <2>1, <2>2
<1>4. Current' = [Current EXCEPT ![blocknr[b]] = v]
  <2>1. Current = [i \in Blocks |-> Current[i]] /\ Current' = [i \in Blocks |-> Current'[i]]
    BY DEF Current
  <2>. QED BY <1>1, <1>3, <2>1
<1>5. got' = got
  BY DEF Change
<1>. QED BY <1>1, <1>4, <1>5 DEF Store!Write

\* Whatever the tasks and the disk do, the cache is one atomic store of blocks:
\* every change takes effect at once and every look sees the latest change.
THEOREM BcacheImplementsBlockStore == Spec => IsBlockStore
<1>1. Init => Store!Init
  BY DEF Init, Store!Init, Current
<1>2. BInv /\ BInv' /\ [Next]_vars => [Store!Read \/ Store!Write]_<<Current, got>>
  <2>. SUFFICES ASSUME BInv, BInv', [Next]_vars
                PROVE  [Store!Read \/ Store!Write]_<<Current, got>>
    OBVIOUS
  <2>1. ASSUME UNCHANGED <<blocknr, uptodate, data, disk>> PROVE Current' = Current
    BY <2>1 DEF Current
  <2>2. ASSUME NEW t \in Tasks, TaskStep(t)
        PROVE  [Store!Read \/ Store!Write]_<<Current, got>>
    <3>1. ASSUME NEW b \in Bufs, NEW k \in Blocks, GetblkMiss(t, b, k)
          PROVE  UNCHANGED <<Current, got>>
      BY <3>1, GetblkMissQuiet DEF GetblkMiss
    <3>2. ASSUME Filled(t) PROVE UNCHANGED <<Current, got>>
      BY <3>2, FilledQuiet DEF Filled
    <3>3. ASSUME \/ \E k \in Blocks : GetblkPanics(t, k)
                 \/ \E b \in Bufs, k \in Blocks : GetblkHit(t, b, k)
                 \/ WaitForLock(t) \/ TakeLock(t) \/ WaitForDisk(t)
                 \/ Bwrite(t) \/ Written(t) \/ Brelse(t)
          PROVE  UNCHANGED <<Current, got>>
      BY <2>1, <3>3 DEF GetblkPanics, GetblkHit, WaitForLock, TakeLock, WaitForDisk,
                        Bwrite, Written, Brelse, bufs
    <3>. QED BY <2>2, <3>1, <3>2, <3>3, LookReads, ChangeWrites DEF TaskStep
  <2>3. ASSUME NEW t \in Tasks, ChildExits(t) PROVE UNCHANGED <<Current, got>>
    BY <2>1, <2>3 DEF ChildExits, bufs
  <2>4. ASSUME NEW b \in Bufs, DiskDone(b) PROVE UNCHANGED <<Current, got>>
    BY <2>4, DiskDoneQuiet DEF DiskDone
  <2>5. CASE UNCHANGED vars
    BY <2>1, <2>5 DEF vars, bufs
  <2>. QED BY <2>2, <2>3, <2>4, <2>5 DEF Next
<1>. QED BY <1>1, <1>2, BcacheInvariance, PTL DEF Spec, IsBlockStore, Store!Spec

=============================================================================
