------------------------------ MODULE FatFile ------------------------------
(***************************************************************************)
(* Regular files on FAT32 (arch/riscv/kernel/fat32.c and the file calls of *)
(* sysfile.c): cluster chains, their allocation, reading, writing and      *)
(* truncation through several opens of a file.                             *)
(*                                                                         *)
(* A call works under the entry's sleep lock and sleeps for the disk all   *)
(* the time, so calls on different files interleave: the model cuts a      *)
(* write where one cluster has been dealt with.  Two calls never meet in   *)
(* one FAT entry except in allocClus(), which tests and sets it under the  *)
(* buffer's lock.                                                          *)
(*                                                                         *)
(* The kernel stops when it panics and when it asks the disk for a sector  *)
(* that is not there.  readFAT() does not look whether it is given a       *)
(* cluster; reallocCurClus() gives it the end mark after a read that ended *)
(* with the last cluster.  The sector it then asks for, RsvdSecCnt +       *)
(* 2097151, is on media of 1 GB or more, and what it finds there is taken  *)
(* for a cluster.  The model follows the kernel as far as the FAT goes,    *)
(* and stops where rwClus() is given no data cluster.                      *)
(***************************************************************************)
EXTENDS Integers, Sequences

CONSTANTS
    Files, Opens, FileOf,    \* open files and the regular file behind each
    Byte, Zero,              \* what is written, what an emptied cluster holds
    FATSz, PerSec,           \* sectors of the FAT, entries in one of them
    DataClusCnt,             \* data clusters of the disk
    BytSPerClus,
    RootClus,
    AtMark,                  \* what readFAT() finds when it is given an end mark
    OnDisk,                  \* chain of each file when the disk is mounted
    MaxSize, MaxCall,        \* bounds: bytes of a file, of one call
    Idle

ASSUME FileAssumption == FileOf \in [Opens -> Files] /\ Idle \notin Opens
ASSUME DiskAssumption ==
    /\ {FATSz, PerSec, DataClusCnt, BytSPerClus} \subseteq Nat \ {0}
    /\ {MaxSize, MaxCall} \subseteq Nat
    /\ DataClusCnt + 2 <= FATSz * PerSec

Entries  == 0..FATSz*PerSec-1
Clusters == 2..DataClusCnt+1
EOC      == FATSz * PerSec       \* every mark from FAT32_EOC on
NoSector == -1                   \* the medium ends before the sector asked for

\* A word in the sector that is no entry's number leads on to others, until one is
\* one of these.
ASSUME MarkAssumption == AtMark \in Entries \cup {EOC, NoSector}

\* The medium is smaller than 1 GB, as the one that the Makefile makes for QEMU.
SmallMedium == AtMark = NoSector

ASSUME MountAssumption ==
    /\ RootClus \in Clusters
    /\ \A f \in Files : OnDisk[f] \in Seq(Clusters \ {RootClus})
    /\ \A f, g \in Files : \A i \in DOMAIN OnDisk[f], j \in DOMAIN OnDisk[g] :
          OnDisk[f][i] = OnDisk[g][j] => f = g /\ i = j

VARIABLES
    fat, data,     \* the FAT, the content of the clusters
    ent,           \* first_clus, cur_clus, clus_cnt, file_size of each file
    pos,           \* f_pos of each open file
    busy,          \* the write under way in each file
    reply,         \* history: what the latest read returned, till the next change
    stopped

vars == <<fat, data, ent, pos, busy, reply, stopped>>

Blank == [k \in 0..BytSPerClus-1 |-> Zero]

TypeOK ==
    /\ fat  \in [Entries -> 0..EOC]
    /\ data \in [Clusters -> [0..BytSPerClus-1 -> Byte \cup {Zero}]]
    /\ ent  \in [Files -> [first : {0} \cup Clusters, cur : Entries \cup {EOC},
                           cnt : 0..DataClusCnt, size : 0..MaxSize]]
    /\ pos  \in [Opens -> 0..MaxSize]
    /\ busy \in [Files -> [open : Opens \cup {Idle}, rest : Seq(Byte), off : 0..MaxSize]]
    /\ reply \in Seq(Byte \cup {Zero})
    /\ stopped \in BOOLEAN

-----------------------------------------------------------------------------
NoWrite == [open |-> Idle, rest |-> <<>>, off |-> 0]

Init ==
    LET Next_(c) == LET f == CHOOSE f \in Files : \E i \in DOMAIN OnDisk[f] : OnDisk[f][i] = c
                        i == CHOOSE i \in DOMAIN OnDisk[f] : OnDisk[f][i] = c
                    IN  IF i = Len(OnDisk[f]) THEN EOC ELSE OnDisk[f][i + 1]
        held == UNION {{OnDisk[f][i] : i \in DOMAIN OnDisk[f]} : f \in Files}
    IN  fat = [c \in Entries |-> IF c \in {0, 1, RootClus} THEN EOC
                                 ELSE IF c \in held THEN Next_(c) ELSE 0]
    /\ data = [c \in Clusters |-> Blank]
    /\ ent = [f \in Files |->
                 LET first == IF OnDisk[f] = <<>> THEN 0 ELSE OnDisk[f][1]
                 IN  [first |-> first, cur |-> first, cnt |-> Len(OnDisk[f]),
                      size |-> Len(OnDisk[f]) * BytSPerClus]]
    /\ pos = [o \in Opens |-> 0]
    /\ busy = [f \in Files |-> NoWrite]
    /\ reply = <<>> /\ stopped = FALSE

-----------------------------------------------------------------------------
\* What a call on one file works on: the disk and the file's entry.
Session(f) == [fat |-> fat, data |-> data, e |-> ent[f], stop |-> FALSE]

\* allocClus() looks at the first BytsPerSec / 32 entries of a sector, while an
\* entry takes four bytes, and counts clusters by that number.
EntryNumPerSec == PerSec \div 8

ClusterOf(entry) == (entry \div PerSec) * EntryNumPerSec + (entry % PerSec)

Emptied_Not(d, c) == d                       \* mutant: the old content stays

Emptied(d, c) == [d EXCEPT ![c] = Blank]     \* emptyClus()

\* allocClus() and the link to it from the end of the chain, as reallocCurClus()
\* makes it, or from the entry, as ewrite() makes it.
Extended(s) ==
    LET free == {c \in Entries : c % PerSec < EntryNumPerSec /\ s.fat[c] = 0}
        entry == CHOOSE c \in free : \A d \in free : c <= d
        new  == ClusterOf(entry)
        used == [s.fat EXCEPT ![entry] = EOC]
    IN  IF free = {} \/ new \notin Clusters THEN [s EXCEPT !.stop = TRUE]
        ELSE [s EXCEPT
                !.fat  = IF s.e.cnt > 0 /\ s.e.cur \in Clusters
                           THEN [used EXCEPT ![s.e.cur] = new] ELSE used,
                !.data = Emptied(@, new),
                !.e = [s.e EXCEPT !.first = IF s.e.cnt = 0 THEN new ELSE s.e.first,
                                  !.cur = new, !.cnt = s.e.cnt + 1]]

readFAT(t, c) == IF c \in Entries THEN t[c] ELSE AtMark

\* The last cluster of the chain that goes through c, the k-th from c on.
LastFrom(t, c) ==
    LET end[d \in Entries] == IF t[d] = EOC THEN d ELSE end[t[d]]
    IN  IF c \in Entries THEN end[c] ELSE IF AtMark \in Entries THEN end[AtMark] ELSE AtMark

NthFrom(t, c, k) ==
    LET nth[i \in 1..k] == IF i = 1 THEN c ELSE readFAT(t, nth[i - 1]) IN nth[k]

\* reallocCurClus(entry, off, alloc): cur_clus to the cluster of off.
Located(s, off, alloc) ==
    LET rlvClus == off \div BytSPerClus + 1
        grown[n \in 0..rlvClus] ==
            IF n <= s.e.cnt
              THEN [s EXCEPT !.e.cur = LastFrom(s.fat, s.e.cur)]
              ELSE LET g == grown[n-1] IN IF g.stop THEN g ELSE Extended(g)
    IN  IF rlvClus < s.e.cnt
          THEN [s EXCEPT !.e.cur = NthFrom(s.fat, s.e.first, rlvClus)]
        ELSE IF s.e.cur \notin Entries /\ SmallMedium THEN [s EXCEPT !.stop = TRUE]
        ELSE IF alloc THEN grown[rlvClus] ELSE [s EXCEPT !.e.cur = LastFrom(s.fat, @)]

\* The disk and the entry after a session that went well.
Becomes(f, s) ==
    /\ fat' = s.fat /\ data' = s.data /\ ent' = [ent EXCEPT ![f] = s.e]
    /\ UNCHANGED stopped

Stop == stopped' = TRUE /\ UNCHANGED <<fat, data, ent, pos, busy, reply>>

-----------------------------------------------------------------------------
\* fwrite() up to the first cluster of an empty file.
WriteCall(o) ==
    LET f == FileOf[o]
        s == IF ent[f].first = 0 THEN Extended(Session(f)) ELSE Session(f)
    IN  /\ ~stopped /\ busy[f] = NoWrite
        /\ \/ /\ ~s.stop /\ Becomes(f, s)
              /\ \E n \in 0..MaxCall : \E src \in [1..n -> Byte] :
                    /\ pos[o] + n <= MaxSize
                    /\ busy' = [busy EXCEPT ![f] = [open |-> o, rest |-> src, off |-> pos[o]]]
              /\ UNCHANGED <<pos, reply>>
           \/ s.stop /\ Stop

\* ewrite(), once around the loop.
WritePiece(f) ==
    LET b == busy[f]
        at == b.off % BytSPerClus
        m == IF Len(b.rest) + at > BytSPerClus THEN BytSPerClus - at ELSE Len(b.rest)
        s == Located(Session(f), b.off, TRUE)
        stops == s.stop \/ s.e.cur \notin Clusters
        written(old) == [k \in 0..BytSPerClus-1 |->
                            IF k \in at..at+m-1 THEN b.rest[k - at + 1] ELSE old[k]]
    IN  /\ ~stopped /\ b.rest # <<>>
        /\ \/ /\ ~stops /\ Becomes(f, [s EXCEPT !.data[s.e.cur] = written(@)])
              /\ busy' = [busy EXCEPT ![f].rest = SubSeq(b.rest, m + 1, Len(b.rest)),
                                      ![f].off = b.off + m]
              /\ reply' = <<>> /\ UNCHANGED pos
           \/ stops /\ Stop

\* The end of ewrite() and fwrite().
WriteReturn(f) ==
    LET b == busy[f]
    IN  /\ ~stopped /\ b.open # Idle /\ b.rest = <<>>
        /\ ent' = [ent EXCEPT ![f].size = IF b.off > @ THEN b.off ELSE @]
        /\ pos' = [pos EXCEPT ![b.open] = b.off]
        /\ busy' = [busy EXCEPT ![f] = NoWrite]
        /\ UNCHANGED <<fat, data, reply, stopped>>

Clipped(n, off, size) == IF off + n <= size THEN n ELSE size - off

\* fread() and eread(); reading to the end of a cluster moves on to the next
\* entry of the chain, whatever it holds.
Read(o, n) ==
    LET f == FileOf[o]
        off == pos[o]
        num == Clipped(n, off, ent[f].size)
        s == Located(Session(f), off, FALSE)
        inChain == off \div BytSPerClus < s.e.cnt
        \* where the call is and what it has copied after k bytes
        after[k \in 0..num] ==
            IF k = 0 THEN [cur |-> s.e.cur, dst |-> <<>>]
            ELSE LET a == after[k-1]
                 IN  IF a.cur \notin Clusters THEN a
                     ELSE [cur |-> IF (off + k) % BytSPerClus = 0 THEN s.fat[a.cur] ELSE a.cur,
                           dst |-> Append(a.dst, s.data[a.cur][(off + k - 1) % BytSPerClus])]
    IN  /\ ~stopped /\ busy[f] = NoWrite /\ off <= ent[f].size
        /\ IF s.stop \/ (num > 0 /\ ~inChain) \/ Len(after[num].dst) < num
             THEN Stop
             ELSE /\ ent' = [ent EXCEPT ![f].cur = after[num].cur]
                  /\ reply' = after[num].dst
                  /\ pos' = [pos EXCEPT ![o] = off + num]
                  /\ UNCHANGED <<fat, data, busy, stopped>>

-----------------------------------------------------------------------------
\* The clusters of a file's chain, as etrunc() walks it.
Chain(f) ==
    LET from[c \in Clusters] == {c} \cup (IF fat[c] \in Clusters THEN from[fat[c]] ELSE {})
    IN  IF ent[f].first \in Clusters THEN from[ent[f].first] ELSE {}

Truncated_KeepsCount(e) == [e EXCEPT !.size = 0, !.first = 0]   \* mutant: clus_cnt stays

Truncated(e) == [e EXCEPT !.size = 0, !.first = 0, !.cnt = 0]

\* open() of a file that exists, with O_TRUNC or O_APPEND or neither.
Open(o) ==
    LET f == FileOf[o]
    IN  /\ ~stopped /\ busy[f] = NoWrite
        /\ \/ /\ LET chain == Chain(f) IN fat' = [c \in Entries |-> IF c \in chain THEN 0 ELSE fat[c]]
              /\ ent' = [ent EXCEPT ![f] = Truncated(@)]
           \/ UNCHANGED <<fat, ent>>
        /\ \E p \in {0, ent'[f].size} : pos' = [pos EXCEPT ![o] = p]
        /\ reply' = <<>> /\ UNCHANGED <<data, busy, stopped>>

Next ==
    \/ \E o \in Opens : Open(o) \/ WriteCall(o) \/ (\E n \in 0..MaxCall : Read(o, n))
    \/ \E f \in Files : WritePiece(f) \/ WriteReturn(f)

Spec == Init /\ [][Next]_vars

-----------------------------------------------------------------------------
\* No cluster is lost and none is in two files: what the FAT marks as used is
\* the root directory and the files' chains, which share nothing and have the
\* lengths the entries say.
ChainsExact ==
    /\ {c \in Clusters : fat[c] # 0} = {RootClus} \cup UNION {Chain(f) : f \in Files}
    /\ \A f \in Files : \A k \in 1..ent[f].cnt :
          /\ NthFrom(fat, ent[f].first, k) \in Clusters
          /\ fat[NthFrom(fat, ent[f].first, k)] = EOC <=> k = ent[f].cnt
    /\ \A f, g \in Files : f # g => Chain(f) \cap Chain(g) = {}

\* A cluster that becomes part of a file was free before.
AllocatedWasFree == [][\A f \in Files : \A c \in Chain(f)' \ Chain(f) : fat[c] = 0]_vars

\* Files implement byte files: what every open reads is what all of them wrote,
\* at the positions they had, with zeros in between; truncation and the reuse of
\* clusters leave nothing behind.
Started(f) == busy[f].open # Idle /\ busy[f].off > pos[busy[f].open]

Length(f) == IF Started(f) /\ busy[f].off > ent[f].size THEN busy[f].off ELSE ent[f].size

ByteAt(f, k) ==
    IF k \div BytSPerClus < ent[f].cnt
      THEN data[NthFrom(fat, ent[f].first, k \div BytSPerClus + 1)][k % BytSPerClus]
      ELSE Zero

BytesOf(f) == [k \in 1..Length(f) |-> ByteAt(f, k - 1)]

Position(o) == IF busy[FileOf[o]].open = o THEN busy[FileOf[o]].off ELSE pos[o]

Promise == INSTANCE ByteFiles WITH
    MaxPiece <- MaxCall,
    InitialContent <- [f \in Files |-> [k \in 1..Len(OnDisk[f]) * BytSPerClus |-> Zero]],
    content <- [f \in Files |-> BytesOf(f)],
    pos <- [o \in Opens |-> Position(o)]

IsByteFiles == Promise!Spec

=============================================================================
