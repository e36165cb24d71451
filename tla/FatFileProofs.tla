---------------------------- MODULE FatFileProofs ----------------------------
(***************************************************************************)
(* Proofs about regular files on FAT32: on a medium below 1 GB, as long as *)
(* allocClus() finds what it needs in the first sector of the FAT, the     *)
(* chains of the files are exact and files are byte files.                 *)
(***************************************************************************)
EXTENDS FatFile, SequenceTheorems, WellFoundedInduction, TLAPS

B == BytSPerClus

\* The chains q, one per file: clusters that follow each other in the FAT t.
After(s, i) == IF i = Len(s) THEN EOC ELSE s[i + 1]
In(q, c) == \E f \in Files : \E i \in 1..Len(q[f]) : q[f][i] = c

Apart(q) ==
    \A f, g \in Files : \A i \in 1..Len(q[f]), j \in 1..Len(q[g]) :
        q[f][i] = q[g][j] => f = g /\ i = j

Fixed == {0, 1, RootClus}      \* entries of the FAT that belong to no file

ChainType == Seq(Clusters \ {RootClus})

Chains(q, t) ==
    /\ q \in [Files -> ChainType] /\ Apart(q)
    /\ t \in [Entries -> 0..EOC] /\ \A c \in Fixed : t[c] = EOC
    /\ \A f \in Files : \A i \in 1..Len(q[f]) : t[q[f][i]] = After(q[f], i)
    /\ \A c \in Entries \ Fixed : t[c] # 0 => In(q, c)

\* What the entry e of a file with the chain s says.
EntryType == [first : Nat, cur : 0..EOC, cnt : Nat, size : Nat]
Says(e, s) ==
    /\ e \in EntryType /\ e.cnt = Len(s)
    /\ e.first = IF s = <<>> THEN 0 ELSE s[1]
    /\ s # <<>> => e.cur = EOC \/ \E i \in 1..Len(s) : e.cur = s[i]

Cluster  == [0..B-1 -> Byte \cup {Zero}]
DataType == [Clusters -> Cluster]

\* Byte k of a file with the chain s.
At(d, s, k) == IF k \div B < Len(s) THEN d[s[k \div B + 1]][k % B] ELSE Zero

\* The calls under way, and the bytes beyond the end of each file.
BusyType == [open : Opens \cup {Idle}, rest : Seq(Byte), off : Nat]
Calling(f) ==
    LET b == busy[f]
    IN  /\ b \in BusyType /\ Len(b.rest) <= MaxCall
        /\ b.open = Idle => b = NoWrite
        /\ b.open # Idle => FileOf[b.open] = f /\ pos[b.open] <= b.off
Empty(q, f) == \A k \in Nat : k >= Length(f) => At(data, q[f], k) = Zero

Exact(q) ==
    /\ Chains(q, fat) /\ data \in DataType
    /\ DOMAIN ent = Files /\ \A f \in Files : Says(ent[f], q[f])
Contents(q) ==
    /\ pos \in [Opens -> Nat] /\ reply \in Seq(Byte \cup {Zero})
    /\ DOMAIN busy = Files /\ \A f \in Files : Calling(f) /\ Empty(q, f)

\* What allocClus() finds is in the first sector of the FAT.
Window(t) == FATSz = 1 \/ \E c \in Entries : c < EntryNumPerSec /\ t[c] = 0
FirstSector == Window(fat)

IInv == \E q \in [Files -> ChainType] : Exact(q) /\ Contents(q)

-----------------------------------------------------------------------------
(* Numbers: least elements, climbing, quotients.                           *)

LEMMA Least ==
    ASSUME NEW T, T \subseteq Nat, T # {}
    PROVE  \E k \in T : \A m \in T : k <= m
<1>. DEFINE R == {p \in Nat \X Nat : p[1] < p[2]}
<1>1. IsWellFoundedOn(R, Nat)
  BY NatLessThanWellFounded DEF OpToRel
<1>. HIDE DEF R
<1>2. PICK k \in T : \A m \in T : ~(<<m, k>> \in R)
  BY <1>1, WFMin
<1>3. ASSUME NEW m \in T PROVE k <= m
  <2>1. m \in Nat /\ k \in Nat /\ << m, k >> \in Nat \X Nat
    OBVIOUS
  <2>2. << m, k >>[1] = m /\ << m, k >>[2] = k
    OBVIOUS
  <2>3. m < k => << m, k >> \in R
    BY <2>1, <2>2 DEF R
  <2>. QED BY <1>2, <2>1, <2>3
<1>. QED BY <1>3

\* What holds at first and from each number to the next holds throughout.
LEMMA Climb ==
    ASSUME NEW S, 0 \in S, \A n \in Nat : n \in S => n + 1 \in S
    PROVE  Nat \subseteq S
<1>. DEFINE T == Nat \ S
<1>1. SUFFICES ASSUME T # {} PROVE FALSE
  OBVIOUS
<1>2. PICK k \in T : \A m \in T : k <= m
  BY <1>1, Least
<1>3. k # 0 /\ k \in Nat
  OBVIOUS
<1>4. k - 1 \in Nat /\ k - 1 \notin T
  BY <1>2, <1>3
<1>. QED BY <1>3, <1>4

LEMMA Constants_ ==
    /\ B \in Nat \ {0} /\ EOC \in Nat /\ MaxSize \in Nat /\ MaxCall \in Nat
    /\ Clusters \subseteq Entries /\ Entries = 0..EOC-1 /\ EOC \notin Entries /\ EOC # 0
    /\ 0 \in Entries \ Clusters /\ 1 \in Entries \ Clusters /\ RootClus \in Clusters
    /\ Fixed \subseteq Entries
<1>1. FATSz \in Nat \ {0} /\ PerSec \in Nat \ {0}
  BY DiskAssumption
<1>2. EOC \in Nat
  BY <1>1 DEF EOC
<1>3. DataClusCnt \in Nat \ {0} /\ DataClusCnt + 2 <= EOC /\ Entries = 0..EOC-1
  BY DiskAssumption DEF EOC, Entries
<1>4. RootClus \in Clusters
  BY MountAssumption
<1>5. Clusters \subseteq Entries /\ EOC # 0 /\ 0 \in Entries \ Clusters /\ 1 \in Entries \ Clusters
  BY <1>2, <1>3 DEF Clusters
<1>. QED BY <1>2, <1>3, <1>4, <1>5, DiskAssumption DEF B, Fixed

-----------------------------------------------------------------------------
(* What walking along chains returns.                                      *)

\* reallocCurClus() finds a cluster by counting from the first.
LEMMA NthIs ==
    ASSUME NEW t, NEW c, NEW k \in Nat, NEW q \in Seq(Clusters), k \in 1..Len(q), q[1] = c,
           \A i \in 1..Len(q)-1 : t[q[i]] = q[i+1]
    PROVE  NthFrom(t, c, k) = q[k]
<1>0. \A i \in 1..Len(q)-1 : readFAT(t, q[i]) = q[i+1]
  <2>1. Clusters \subseteq Entries
    BY Constants_
  <2>2. \A i \in 1..Len(q)-1 : q[i] \in Clusters
    OBVIOUS
  <2>. QED BY <2>1, <2>2 DEF readFAT
<1>. DEFINE nth == CHOOSE nth : nth = [i \in 1..k |-> IF i = 1 THEN c ELSE readFAT(t, nth[i - 1])]
<1>1. NthFrom(t, c, k) = nth[k]
  BY DEF NthFrom
<1>2. nth = [i \in 1..k |-> IF i = 1 THEN c ELSE readFAT(t, nth[i - 1])]
  <2>. DEFINE g == [i \in 1..k |-> q[i]]
  <2>1. g = [i \in 1..k |-> IF i = 1 THEN c ELSE readFAT(t, g[i - 1])]
    BY <1>0
  <2>. QED BY <2>1
<1>. HIDE DEF nth
<1>. DEFINE S == {i \in Nat : i < k => nth[i + 1] = q[i + 1]}
<1>3. 0 \in S
  BY <1>2
<1>4. ASSUME NEW i \in Nat, i \in S PROVE i + 1 \in S
  <2>1. SUFFICES ASSUME i + 1 < k PROVE nth[i + 2] = q[i + 2]
    OBVIOUS
  <2>2. nth[i + 2] = readFAT(t, nth[i + 1])
    BY <1>2, <2>1
  <2>3. nth[i + 1] = q[i + 1] /\ i + 1 \in 1..Len(q)-1
    BY <1>4, <2>1
  <2>. QED BY <1>0, <2>2, <2>3
<1>5. Nat \subseteq S
  <2>. HIDE DEF S
  <2>. QED BY <1>3, <1>4, Climb
<1>6. k - 1 \in S /\ k - 1 < k /\ (k - 1) + 1 = k
  <2>1. k - 1 \in Nat
    OBVIOUS
  <2>. HIDE DEF S
  <2>. QED BY <1>5, <2>1
<1>. QED BY <1>1, <1>6

\* What is in a chain.
LEMMA Members ==
    ASSUME NEW q, NEW t, Chains(q, t), NEW f \in Files, NEW i \in 1..Len(q[f])
    PROVE  /\ q[f] \in ChainType /\ Len(q[f]) \in Nat /\ Len(q[f]) \in 1..Len(q[f])
           /\ q[f][i] \in Clusters \ Fixed /\ q[f][i] \in Entries /\ q[f][i] # EOC /\ q[f][i] # 0
           /\ i = Len(q[f]) => t[q[f][i]] = EOC
           /\ i # Len(q[f]) => t[q[f][i]] = q[f][i + 1] /\ i + 1 \in 1..Len(q[f])
           /\ t[q[f][i]] \in Entries \cup {EOC} /\ t[q[f][i]] # 0
<1>1. q[f] \in ChainType /\ Len(q[f]) \in Nat /\ Len(q[f]) \in 1..Len(q[f])
  BY DEF Chains, ChainType
<1>2. ASSUME NEW j \in 1..Len(q[f]) PROVE q[f][j] \in Clusters \ {RootClus}
  <2>1. q[f] \in [1..Len(q[f]) -> Clusters \ {RootClus}]
    BY <1>1 DEF ChainType
  <2>. QED BY <2>1
<1>3. \A j \in 1..Len(q[f]) : /\ q[f][j] \in Clusters \ Fixed /\ q[f][j] \in Entries
                              /\ q[f][j] # EOC /\ q[f][j] # 0
  BY <1>2, Constants_ DEF Fixed
<1>4. t[q[f][i]] = After(q[f], i)
  BY DEF Chains
<1>5. i # Len(q[f]) => i + 1 \in 1..Len(q[f])
  BY <1>1
<1>. QED BY <1>1, <1>3, <1>4, <1>5, Constants_ DEF After

\* An entry in use belongs to no file or to one.
LEMMA InUse ==
    ASSUME NEW q, NEW t, Chains(q, t), NEW c \in Entries, t[c] # 0, c \notin Fixed
    PROVE  \E f \in Files : \E i \in 1..Len(q[f]) : q[f][i] = c
BY DEF Chains, In

LEMMA TableType ==
    ASSUME NEW q, NEW t, Chains(q, t), NEW c \in Entries
    PROVE  t[c] \in Entries \cup {EOC}
BY Constants_ DEF Chains

\* The end of every chain is the end of the file's; a free entry leads to entry 0.
LEMMA LastIs ==
    ASSUME NEW q, NEW t, Chains(q, t)
    PROVE  /\ \A c \in Entries : LastFrom(t, c) \in Entries
           /\ \A f \in Files : \A i \in 1..Len(q[f]) : LastFrom(t, q[f][i]) = q[f][Len(q[f])]
<1>. DEFINE end == CHOOSE end : end = [d \in Entries |-> IF t[d] = EOC THEN d ELSE end[t[d]]]
            fileOf(d) == CHOOSE f \in Files : \E i \in 1..Len(q[f]) : q[f][i] = d
            w == [d \in Entries |->
                    IF t[d] = EOC THEN d ELSE IF t[d] = 0 THEN 0
                    ELSE q[fileOf(d)][Len(q[fileOf(d)])]]
<1>1. \A c \in Entries : LastFrom(t, c) = end[c]
  BY DEF LastFrom
<1>2. ASSUME NEW f \in Files, NEW i \in 1..Len(q[f]) PROVE fileOf(q[f][i]) = f
  <2>1. \A g \in Files : (\E j \in 1..Len(q[g]) : q[g][j] = q[f][i]) => g = f
    BY DEF Chains, Apart
  <2>. QED BY <2>1
<1>. HIDE DEF fileOf
<1>3. t[0] = EOC
  BY DEF Chains, Fixed
<1>. HIDE DEF w
<1>4. \A d \in Entries : /\ t[d] = EOC => w[d] = d
                         /\ t[d] = 0 => w[d] = 0
                         /\ t[d] # 0 /\ t[d] # EOC => w[d] = q[fileOf(d)][Len(q[fileOf(d)])]
  BY Constants_ DEF w
<1>5. ASSUME NEW f \in Files, NEW i \in 1..Len(q[f]) PROVE w[q[f][i]] = q[f][Len(q[f])]
  <2>1. CASE i = Len(q[f])
    BY <1>4, <2>1, Members
  <2>2. CASE i # Len(q[f])
    <3>1. t[q[f][i]] = q[f][i + 1] /\ i + 1 \in 1..Len(q[f]) /\ q[f][i] \in Entries
      BY <2>2, Members
    <3>2. q[f][i + 1] # 0 /\ q[f][i + 1] # EOC
      BY <3>1, Members
    <3>. QED BY <1>2, <1>4, <3>1, <3>2
  <2>. QED BY <2>1, <2>2
<1>6. ASSUME NEW d \in Entries, t[d] # EOC PROVE w[d] = w[t[d]]
  <2>1. CASE t[d] = 0
    BY <1>3, <1>4, <2>1, Constants_
  <2>2. CASE t[d] # 0
    <3>1. d \notin Fixed
      BY <1>6 DEF Chains
    <3>2. PICK f \in Files : \E i \in 1..Len(q[f]) : q[f][i] = d
      BY <2>2, <3>1, InUse
    <3>3. PICK i \in 1..Len(q[f]) : q[f][i] = d
      BY <3>2
    <3>4. t[d] = q[f][i + 1] /\ i + 1 \in 1..Len(q[f])
      BY <1>6, <3>3, Members
    <3>. QED BY <1>5, <3>3, <3>4
  <2>. QED BY <2>1, <2>2
<1>7. w = [d \in Entries |-> IF t[d] = EOC THEN d ELSE w[t[d]]]
  <2>1. \A d \in Entries : w[d] = IF t[d] = EOC THEN d ELSE w[t[d]]
    BY <1>4, <1>6
  <2>2. w = [d \in Entries |-> w[d]]
    BY DEF w
  <2>. QED BY <2>1, <2>2
<1>8. end = [d \in Entries |-> IF t[d] = EOC THEN d ELSE end[t[d]]]
  BY <1>7
<1>. HIDE DEF end
<1>9. end[0] = 0
  BY <1>3, <1>8, Constants_
<1>10. ASSUME NEW f \in Files, NEW i \in 1..Len(q[f]) PROVE end[q[f][i]] = q[f][Len(q[f])]
  <2>. DEFINE n == Len(q[f])
              S == {k \in Nat : k < n => end[q[f][n - k]] = q[f][n]}
  <2>1. n \in Nat /\ n \in 1..n
    BY Members
  <2>2. 0 \in S
    <3>1. t[q[f][n]] = EOC /\ q[f][n] \in Entries
      BY <2>1, Members
    <3>2. end[q[f][n]] = q[f][n] /\ n - 0 = n
      BY <1>8, <2>1, <3>1
    <3>. QED BY <3>2
  <2>3. ASSUME NEW k \in Nat, k \in S PROVE k + 1 \in S
    <3>1. SUFFICES ASSUME k + 1 < n PROVE end[q[f][n - (k + 1)]] = q[f][n]
      OBVIOUS
    <3>. DEFINE j == n - (k + 1)
    <3>2. j \in 1..n /\ j # n /\ j + 1 = n - k /\ n - k \in 1..n /\ k < n
      BY <2>1, <3>1
    <3>3. t[q[f][j]] = q[f][n - k] /\ q[f][j] \in Entries /\ q[f][n - k] # EOC
      BY <3>2, Members, SMTT(30)
    <3>4. end[q[f][n - k]] = q[f][n]
      BY <2>3, <3>2
    <3>. QED BY <1>8, <3>3, <3>4
  <2>4. Nat \subseteq S
    <3>. HIDE DEF S
    <3>. QED BY <2>2, <2>3, Climb
  <2>5. n - i \in Nat /\ n - i < n /\ n - (n - i) = i
    BY <2>1
  <2>6. n - i \in S
    BY <2>4, <2>5
  <2>. QED BY <2>5, <2>6
<1>11. ASSUME NEW c \in Entries PROVE end[c] \in Entries
  <2>1. CASE t[c] = EOC
    BY <1>8, <2>1
  <2>2. CASE t[c] = 0
    BY <1>8, <1>9, <2>2, Constants_
  <2>3. CASE t[c] # 0 /\ t[c] # EOC
    <3>1. c \notin Fixed
      BY <2>3 DEF Chains
    <3>2. PICK f \in Files : \E i \in 1..Len(q[f]) : q[f][i] = c
      BY <2>3, <3>1, InUse
    <3>3. PICK i \in 1..Len(q[f]) : q[f][i] = c
      BY <3>2
    <3>4. Len(q[f]) \in 1..Len(q[f])
      BY Members
    <3>5. q[f][Len(q[f])] \in Entries
      BY <3>4, Members
    <3>. QED BY <1>10, <3>3, <3>5
  <2>. QED BY <2>1, <2>2, <2>3
<1>12. \A f \in Files : \A i \in 1..Len(q[f]) : q[f][i] \in Entries
  BY Members
<1>. QED BY <1>1, <1>10, <1>11, <1>12

\* etrunc() finds the clusters of the file, all of them.
LEMMA ChainIs ==
    ASSUME NEW q, Chains(q, fat), NEW f \in Files, Says(ent[f], q[f])
    PROVE  Chain(f) = {q[f][i] : i \in 1..Len(q[f])}
<1>. DEFINE from == CHOOSE from : from = [c \in Clusters |->
                        {c} \cup (IF fat[c] \in Clusters THEN from[fat[c]] ELSE {})]
            s == q[f]
            n == Len(q[f])
            fileOf(d) == CHOOSE g \in Files : \E i \in 1..Len(q[g]) : q[g][i] = d
            Tail_(g, d) == {q[g][j] : j \in {j \in 1..Len(q[g]) :
                                                \E i \in 1..j : q[g][i] = d}}
            w == [d \in Clusters |-> IF fat[d] # 0 /\ d # RootClus THEN Tail_(fileOf(d), d) ELSE {d}]
<1>1. Chain(f) = IF ent[f].first \in Clusters THEN from[ent[f].first] ELSE {}
  BY DEF Chain
<1>2. ASSUME NEW g \in Files, NEW i \in 1..Len(q[g]) PROVE fileOf(q[g][i]) = g
  <2>1. \A h \in Files : (\E j \in 1..Len(q[h]) : q[h][j] = q[g][i]) => h = g
    BY DEF Chains, Apart
  <2>. QED BY <2>1
<1>. HIDE DEF fileOf
<1>3. ASSUME NEW g \in Files, NEW i \in 1..Len(q[g])
      PROVE  Tail_(g, q[g][i]) = {q[g][j] : j \in i..Len(q[g])}
  <2>1. \A j, k \in 1..Len(q[g]) : q[g][j] = q[g][k] => j = k
    BY DEF Chains, Apart
  <2>2. Len(q[g]) \in Nat
    BY Members
  <2>3. {j \in 1..Len(q[g]) : \E k \in 1..j : q[g][k] = q[g][i]} = i..Len(q[g])
    BY <2>1, <2>2
  <2>. QED BY <2>3
<1>. HIDE DEF Tail_
<1>. HIDE DEF w
<1>4. \A d \in Clusters : w[d] = IF fat[d] # 0 /\ d # RootClus THEN Tail_(fileOf(d), d) ELSE {d}
  BY DEF w
<1>5. ASSUME NEW g \in Files, NEW i \in 1..Len(q[g])
      PROVE  q[g][i] \in Clusters /\ w[q[g][i]] = {q[g][j] : j \in i..Len(q[g])}
  <2>1. q[g][i] \in Clusters /\ q[g][i] # RootClus /\ fat[q[g][i]] # 0
    BY Members DEF Fixed
  <2>2. w[q[g][i]] = Tail_(fileOf(q[g][i]), q[g][i])
    BY <1>4, <2>1
  <2>3. fileOf(q[g][i]) = g
    BY <1>2
  <2>. QED BY <1>3, <2>1, <2>2, <2>3
<1>6. ASSUME NEW d \in Clusters
      PROVE  w[d] = {d} \cup (IF fat[d] \in Clusters THEN w[fat[d]] ELSE {})
  <2>1. CASE fat[d] = 0 \/ d = RootClus
    <3>1. fat[d] \notin Clusters
      BY <2>1, Constants_ DEF Chains, Fixed
    <3>. QED BY <1>4, <2>1, <3>1
  <2>2. CASE fat[d] # 0 /\ d # RootClus
    <3>1. d \in Entries /\ d \notin Fixed
      BY <2>2, Constants_ DEF Fixed
    <3>2. PICK g \in Files : \E i \in 1..Len(q[g]) : q[g][i] = d
      BY <2>2, <3>1, InUse
    <3>3. PICK i \in 1..Len(q[g]) : q[g][i] = d
      BY <3>2
    <3>4. Len(q[g]) \in Nat /\ i \in Nat
      BY Members
    <3>5. w[d] = {q[g][j] : j \in i..Len(q[g])}
      BY <1>5, <3>3
    <3>6. CASE i = Len(q[g])
      <4>1. fat[d] \notin Clusters
        <5>1. fat[d] = EOC
          BY <3>3, <3>6, Members
        <5>. QED BY <5>1, Constants_
      <4>2. i..Len(q[g]) = {i}
        BY <3>4, <3>6
      <4>. QED BY <3>3, <3>5, <4>1, <4>2
    <3>7. CASE i # Len(q[g])
      <4>1. fat[d] = q[g][i + 1] /\ i + 1 \in 1..Len(q[g])
        BY <3>3, <3>7, Members
      <4>2. fat[d] \in Clusters /\ w[fat[d]] = {q[g][j] : j \in (i + 1)..Len(q[g])}
        BY <1>5, <4>1
      <4>3. i..Len(q[g]) = {i} \cup ((i + 1)..Len(q[g]))
        BY <3>4
      <4>. QED BY <3>3, <3>5, <4>2, <4>3
    <3>. QED BY <3>6, <3>7
  <2>. QED BY <2>1, <2>2
<1>7. w = [c \in Clusters |-> {c} \cup (IF fat[c] \in Clusters THEN w[fat[c]] ELSE {})]
  <2>1. w = [c \in Clusters |-> w[c]]
    BY DEF w
  <2>. QED BY <1>6, <2>1
<1>8. from = [c \in Clusters |-> {c} \cup (IF fat[c] \in Clusters THEN from[fat[c]] ELSE {})]
  BY <1>7
<1>. HIDE DEF from
<1>9. ASSUME NEW i \in 1..n PROVE from[s[i]] = {s[j] : j \in i..n}
  <2>. DEFINE S == {k \in Nat : k < n => from[s[n - k]] = {s[j] : j \in (n - k)..n}}
  <2>1. n \in Nat /\ n \in 1..n
    BY Members
  <2>2. 0 \in S
    <3>1. s[n] \in Clusters /\ fat[s[n]] \notin Clusters
      BY <2>1, Members, Constants_
    <3>2. from[s[n]] = {s[n]} /\ n - 0 = n /\ n..n = {n}
      BY <1>8, <2>1, <3>1
    <3>. QED BY <3>2
  <2>3. ASSUME NEW k \in Nat, k \in S PROVE k + 1 \in S
    <3>1. SUFFICES ASSUME k + 1 < n
                   PROVE from[s[n - (k + 1)]] = {s[j] : j \in (n - (k + 1))..n}
      OBVIOUS
    <3>. DEFINE i_ == n - (k + 1)
    <3>2. i_ \in 1..n /\ i_ # n /\ i_ + 1 = n - k /\ n - k \in 1..n /\ k < n
      BY <2>1, <3>1
    <3>3. fat[s[i_]] = s[n - k] /\ s[i_] \in Clusters /\ s[n - k] \in Clusters
      BY <3>2, Members, SMTT(30)
    <3>4. from[s[n - k]] = {s[j] : j \in (n - k)..n}
      BY <2>3, <3>2
    <3>5. i_..n = {i_} \cup ((n - k)..n)
      BY <2>1, <3>2, SMTT(30)
    <3>6. from[s[i_]] = {s[i_]} \cup from[s[n - k]]
      BY <1>8, <3>3
    <3>. QED BY <3>4, <3>5, <3>6
  <2>4. Nat \subseteq S
    <3>. HIDE DEF S
    <3>. QED BY <2>2, <2>3, Climb
  <2>5. n - i \in Nat /\ n - i < n /\ n - (n - i) = i
    BY <2>1
  <2>6. n - i \in S
    BY <2>4, <2>5
  <2>. QED BY <2>5, <2>6
<1>10. CASE s = <<>>
  BY <1>1, <1>10, Constants_ DEF Says
<1>11. CASE s # <<>>
  <2>1. s \in ChainType /\ 1 \in 1..n
    BY <1>11 DEF Chains, ChainType
  <2>2. ent[f].first = s[1] /\ s[1] \in Clusters
    BY <1>11, <2>1, Members DEF Says
  <2>. QED BY <1>1, <1>9, <2>1, <2>2
<1>. QED BY <1>10, <1>11

LEMMA ChainNth ==
    ASSUME NEW q, NEW t, Chains(q, t), NEW f \in Files, NEW k \in 1..Len(q[f]),
           NEW c, c = q[f][1]
    PROVE  NthFrom(t, c, k) = q[f][k]
<1>. DEFINE s == q[f]
<1>1. s \in Seq(Clusters) /\ k \in 1..Len(s) /\ s[1] = c /\ k \in Nat
  BY DEF Chains, ChainType
<1>2. ASSUME NEW i \in 1..Len(s)-1 PROVE t[s[i]] = s[i+1]
  <2>1. i \in 1..Len(q[f]) /\ i # Len(q[f])
    BY <1>1
  <2>2. t[q[f][i]] = q[f][i + 1]
    BY <2>1, Members, SMTT(30)
  <2>. QED BY <2>2
<1>. HIDE DEF s
<1>3. NthFrom(t, c, k) = s[k]
  BY <1>1, <1>2, NthIs, SMTT(30)
<1>. QED BY <1>3 DEF s

\* The chains being what they are, the model's own measures of them agree.
LEMMA ExactSays ==
    ASSUME NEW q, Exact(q)
    PROVE  ChainsExact
<1>1. Chains(q, fat) /\ \A f \in Files : Says(ent[f], q[f])
  BY DEF Exact
<1>2. \A f \in Files : Chain(f) = {q[f][i] : i \in 1..Len(q[f])}
  BY <1>1, ChainIs
<1>3. {c \in Clusters : fat[c] # 0} = {RootClus} \cup UNION {Chain(f) : f \in Files}
  <2>1. ASSUME NEW c \in Clusters, fat[c] # 0, c # RootClus PROVE \E f \in Files : c \in Chain(f)
    <3>1. c \in Entries /\ c \notin Fixed
      BY <2>1, Constants_ DEF Fixed
    <3>2. PICK f \in Files : \E i \in 1..Len(q[f]) : q[f][i] = c
      BY <1>1, <2>1, <3>1, InUse
    <3>. QED BY <1>2, <3>2
  <2>2. ASSUME NEW f \in Files, NEW c \in Chain(f) PROVE c \in Clusters /\ fat[c] # 0
    BY <1>1, <1>2, <2>2, Members
  <2>3. RootClus \in Clusters /\ fat[RootClus] # 0
    BY <1>1, Constants_ DEF Chains, Fixed
  <2>. QED BY <2>1, <2>2, <2>3
<1>4. ASSUME NEW f \in Files, NEW k \in 1..ent[f].cnt
      PROVE  /\ NthFrom(fat, ent[f].first, k) \in Clusters
             /\ fat[NthFrom(fat, ent[f].first, k)] = EOC <=> k = ent[f].cnt
  <2>1. k \in 1..Len(q[f]) /\ k \in Nat /\ Len(q[f]) = ent[f].cnt
    BY <1>1 DEF Says
  <2>2. NthFrom(fat, ent[f].first, k) = q[f][k]
    <3>1. ent[f].first = q[f][1]
      BY <1>1, <2>1 DEF Says
    <3>. QED BY <1>1, <2>1, <3>1, ChainNth
  <2>3. k # Len(q[f]) => fat[q[f][k]] = q[f][k + 1] /\ q[f][k + 1] # EOC
    BY <1>1, <2>1, Members
  <2>. QED BY <1>1, <2>1, <2>2, <2>3, Members
<1>5. ASSUME NEW f \in Files, NEW g \in Files, f # g PROVE Chain(f) \cap Chain(g) = {}
  BY <1>1, <1>2, <1>5 DEF Chains, Apart
<1>. QED BY <1>3, <1>4, <1>5 DEF ChainsExact

-----------------------------------------------------------------------------
(* What allocClus() and reallocCurClus() do.                               *)

SessionType == [fat : [Entries -> 0..EOC], data : DataType, e : EntryType, stop : BOOLEAN]

\* The session z has linked the cluster c, a new one, to the chain of s.
Links(s, c, z) ==
    /\ c \in Clusters /\ s.fat[c] = 0
    /\ z.fat = IF s.e.cnt > 0 /\ s.e.cur \in Clusters
                 THEN [[s.fat EXCEPT ![c] = EOC] EXCEPT ![s.e.cur] = c]
                 ELSE [s.fat EXCEPT ![c] = EOC]
    /\ z.data = [s.data EXCEPT ![c] = Blank]
    /\ z.e.first = (IF s.e.cnt = 0 THEN c ELSE s.e.first) /\ z.e.cur = c
    /\ z.e.cnt = s.e.cnt + 1 /\ z.e.size = s.e.size

LEMMA SmallDiv == ASSUME NEW n \in Nat \ {0}, NEW x \in 0..n-1 PROVE x \div n = 0 /\ x % n = x
OBVIOUS

\* allocClus() stops, or makes a cluster part of the file; which one, when it finds
\* the entry in the first sector.
LEMMA ExtendedIs ==
    ASSUME NEW s \in SessionType, ~s.stop
    PROVE  /\ Extended(s) \in SessionType
           /\ ~Extended(s).stop =>
                 /\ \A c \in Entries : Extended(s).fat[c] = 0 => s.fat[c] = 0
                 /\ Window(s.fat) => \E c \in Clusters : Links(s, c, Extended(s))
<1>. DEFINE free == {c \in Entries : c % PerSec < EntryNumPerSec /\ s.fat[c] = 0}
            x == CHOOSE c \in free : \A b \in free : c <= b
            new == ClusterOf(x)
            used == [s.fat EXCEPT ![x] = EOC]
            table == IF s.e.cnt > 0 /\ s.e.cur \in Clusters
                       THEN [used EXCEPT ![s.e.cur] = new] ELSE used
            bytes == [s.data EXCEPT ![new] = Blank]
            says == [s.e EXCEPT !.first = IF s.e.cnt = 0 THEN new ELSE s.e.first,
                                !.cur = new, !.cnt = s.e.cnt + 1]
            z == [s EXCEPT !.fat = table, !.data = bytes, !.e = says]
<1>1. Extended(s) = IF free = {} \/ new \notin Clusters THEN [s EXCEPT !.stop = TRUE] ELSE z
  BY DEF Extended, Emptied
<1>2. s.fat \in [Entries -> 0..EOC] /\ s.data \in DataType /\ s.e \in EntryType /\ s.stop = FALSE
  BY DEF SessionType
<1>3. [s EXCEPT !.stop = TRUE] \in SessionType /\ [s EXCEPT !.stop = TRUE].stop = TRUE
  BY DEF SessionType
<1>4. free # {} => x \in free /\ \A b \in free : x <= b
  <2>1. free \subseteq Nat
    BY Constants_
  <2>. HIDE DEF free
  <2>. QED BY <2>1, Least
<1>. HIDE DEF z, x, new
<1>6. ASSUME free # {}, new \in Clusters
      PROVE  /\ z \in SessionType /\ ~z.stop
             /\ \A c \in Entries : z.fat[c] = 0 => s.fat[c] = 0
             /\ z.fat = table /\ z.data = bytes /\ z.e = says
             /\ says.first = (IF s.e.cnt = 0 THEN new ELSE s.e.first) /\ says.cur = new
             /\ says.cnt = s.e.cnt + 1 /\ says.size = s.e.size
  <2>1. x \in Entries /\ new \in Nat /\ new \in 0..EOC /\ new # 0 /\ EOC \in 0..EOC /\ EOC # 0
    BY <1>4, <1>6, Constants_
  <2>2. says \in EntryType
    <3>1. s.e.cnt + 1 \in Nat
      BY <1>2 DEF EntryType
    <3>. QED BY <1>2, <2>1, <3>1 DEF EntryType
  <2>3. bytes \in DataType
    BY <1>2 DEF DataType, Cluster, Blank, B
  <2>4. /\ table \in [Entries -> 0..EOC] /\ \A c \in Entries : table[c] = 0 => s.fat[c] = 0
    BY <1>2, <2>1
  <2>5. /\ says.first = (IF s.e.cnt = 0 THEN new ELSE s.e.first) /\ says.cur = new
        /\ says.cnt = s.e.cnt + 1 /\ says.size = s.e.size
    BY <1>2 DEF EntryType
  <2>. HIDE DEF table, bytes, says
  <2>6. z.fat = table /\ z.data = bytes /\ z.e = says /\ z.stop = FALSE
    BY <1>2 DEF z, SessionType
  <2>7. z \in SessionType
    BY <2>2, <2>3, <2>4 DEF z, SessionType
  <2>. QED BY <2>4, <2>5, <2>6, <2>7
<1>7. ASSUME free # {}, new \in Clusters, Window(s.fat)
      PROVE  s.fat[new] = 0 /\ x = new
  <2>1. x \in Entries /\ x \in Nat /\ s.fat[x] = 0 /\ \A b \in free : x <= b
    BY <1>4, <1>7, Constants_
  <2>2. PerSec \in Nat \ {0} /\ EntryNumPerSec \in Nat /\ EntryNumPerSec <= PerSec
    BY DiskAssumption DEF EntryNumPerSec
  <2>3. x < PerSec
    <3>1. CASE FATSz = 1
      <4>1. EOC = PerSec
        BY <2>2, <3>1 DEF EOC
      <4>. QED BY <2>1, <4>1, Constants_
    <3>2. CASE FATSz # 1
      <4>1. PICK c \in Entries : c < EntryNumPerSec /\ s.fat[c] = 0
        BY <1>7, <3>2 DEF Window
      <4>2. c \in 0..PerSec-1
        BY <2>2, <4>1, Constants_
      <4>3. c % PerSec = c
        BY <2>2, <4>2, SmallDiv
      <4>4. c \in free
        BY <4>1, <4>3
      <4>5. x <= c /\ c \in Nat
        BY <2>1, <4>2, <4>4
      <4>. QED BY <2>1, <2>2, <4>1, <4>5
    <3>. QED BY <3>1, <3>2
  <2>4. x \div PerSec = 0 /\ x % PerSec = x
    <3>1. x \in 0..PerSec-1
      BY <2>1, <2>2, <2>3
    <3>. QED BY <2>2, <3>1, SmallDiv
  <2>5. new = x
    BY <2>1, <2>2, <2>4 DEF new, ClusterOf
  <2>. QED BY <2>1, <2>5
<1>8. CASE free = {} \/ new \notin Clusters
  BY <1>1, <1>3, <1>8
<1>9. CASE free # {} /\ new \in Clusters
  <2>1. Extended(s) = z
    BY <1>1, <1>9
  <2>2. ASSUME Window(s.fat) PROVE Links(s, new, z)
    BY <1>6, <1>7, <1>9, <2>2 DEF Links
  <2>. QED BY <1>6, <1>9, <2>1, <2>2
<1>. QED BY <1>8, <1>9

\* A free cluster linked to the end of a file's chain makes the chain longer.
LEMMA LinkKeepsChains ==
    ASSUME NEW p, NEW t, Chains(p, t), NEW f \in Files, NEW c \in Clusters, t[c] = 0,
           NEW u, NEW l, p[f] # <<>> => l = p[f][Len(p[f])],
           u = IF p[f] = <<>> THEN [t EXCEPT ![c] = EOC] ELSE [[t EXCEPT ![c] = EOC] EXCEPT ![l] = c]
    PROVE  Chains([p EXCEPT ![f] = Append(p[f], c)], u)
<1>. DEFINE r == Append(p[f], c)
            n == Len(p[f])
            w == [p EXCEPT ![f] = r]
<1>1. /\ p \in [Files -> ChainType] /\ p[f] \in ChainType /\ n \in Nat
      /\ t \in [Entries -> 0..EOC] /\ Fixed \subseteq Entries /\ EOC \in 0..EOC
      /\ c \in Entries /\ c \in 0..EOC /\ c # 0 /\ EOC # 0 /\ c # EOC
      /\ \A x \in Fixed : t[x] = EOC
  <2>1. /\ p \in [Files -> ChainType] /\ t \in [Entries -> 0..EOC] /\ \A x \in Fixed : t[x] = EOC
    BY DEF Chains
  <2>2. p[f] \in ChainType
    BY <2>1
  <2>3. n \in Nat
    BY <2>2 DEF ChainType
  <2>4. c \in Entries /\ c # 0 /\ EOC \in Nat /\ Entries = 0..EOC-1
    BY Constants_
  <2>. QED BY <2>1, <2>2, <2>3, <2>4, Constants_
<1>2. c \notin Fixed /\ c \in Clusters \ {RootClus}
  BY <1>1 DEF Fixed
<1>3. /\ r \in ChainType /\ Len(r) = n + 1 /\ r[n + 1] = c
      /\ \A i \in 1..n : r[i] = p[f][i]
  BY <1>1, <1>2 DEF ChainType
<1>4. /\ w \in [Files -> ChainType] /\ w[f] = r /\ \A g \in Files \ {f} : w[g] = p[g]
  BY <1>1, <1>3
<1>. HIDE DEF r, w
<1>5. \A g \in Files : \A i \in 1..Len(p[g]) : p[g][i] # c /\ p[g][i] \notin Fixed /\ p[g][i] \in Entries
  BY Members
<1>6. p[f] # <<>> => n \in 1..n
  BY <1>1 DEF ChainType
<1>7. Apart(w)
  <2>. SUFFICES ASSUME NEW g \in Files, NEW h \in Files, NEW i \in 1..Len(w[g]), NEW j \in 1..Len(w[h]),
                       w[g][i] = w[h][j]
                PROVE  g = h /\ i = j
    BY DEF Apart
  <2>1. Apart(p)
    BY DEF Chains
  <2>2. CASE g = f /\ h = f
    <3>1. i \in 1..n+1 /\ j \in 1..n+1 /\ r[i] = r[j]
      BY <1>3, <1>4, <2>2
    <3>2. CASE i = n + 1
      BY <1>1, <1>3, <1>5, <2>2, <3>1, <3>2
    <3>3. CASE j = n + 1
      BY <1>1, <1>3, <1>5, <2>2, <3>1, <3>3, SMTT(30)
    <3>4. CASE i # n + 1 /\ j # n + 1
      <4>1. i \in 1..n /\ j \in 1..n
        <5>1. n \in Nat
          BY <1>1
        <5>. HIDE DEF n
        <5>. QED BY <3>1, <3>4, <5>1
      <4>2. p[f][i] = p[f][j]
        BY <1>3, <3>1, <4>1
      <4>. QED BY <2>1, <2>2, <4>1, <4>2 DEF Apart
    <3>. QED BY <3>2, <3>3, <3>4
  <2>3. CASE g = f /\ h # f
    <3>1. i \in 1..n+1 /\ j \in 1..Len(p[h]) /\ r[i] = p[h][j]
      BY <1>3, <1>4, <2>3
    <3>2. i \in 1..n
      BY <1>1, <1>3, <1>5, <3>1
    <3>3. p[f][i] = p[h][j]
      BY <1>3, <3>1, <3>2
    <3>. QED BY <2>1, <2>3, <3>1, <3>2, <3>3 DEF Apart
  <2>4. CASE g # f /\ h = f
    <3>1. j \in 1..n+1 /\ i \in 1..Len(p[g]) /\ r[j] = p[g][i]
      BY <1>3, <1>4, <2>4
    <3>2. j \in 1..n
      BY <1>1, <1>3, <1>5, <3>1
    <3>3. p[f][j] = p[g][i]
      BY <1>3, <3>1, <3>2
    <3>. QED BY <2>1, <2>4, <3>1, <3>2, <3>3 DEF Apart
  <2>5. CASE g # f /\ h # f
    BY <1>4, <2>1, <2>5 DEF Apart
  <2>. QED BY <2>2, <2>3, <2>4, <2>5
<1>8. /\ u \in [Entries -> 0..EOC] /\ u[c] = EOC
      /\ p[f] # <<>> => u[l] = c /\ l \in Entries /\ l # c /\ l \notin Fixed
      /\ \A x \in Entries \ {c} : (p[f] # <<>> => x # l) => u[x] = t[x]
  <2>1. CASE p[f] = <<>>
    BY <1>1, <2>1
  <2>2. CASE p[f] # <<>>
    <3>1. l \in Entries /\ l # c /\ l \notin Fixed
      BY <1>5, <1>6, <2>2
    <3>. QED BY <1>1, <2>2, <3>1
  <2>. QED BY <2>1, <2>2
<1>9. \A x \in Fixed : u[x] = EOC
  BY <1>1, <1>2, <1>8
<1>10. ASSUME NEW g \in Files, NEW i \in 1..Len(w[g]) PROVE u[w[g][i]] = After(w[g], i)
  <2>1. CASE g # f
    <3>1. w[g] = p[g] /\ i \in 1..Len(p[g]) /\ p[g][i] \in Entries /\ p[g][i] # c
      BY <1>4, <1>5, <2>1
    <3>2. p[f] # <<>> => p[g][i] # l
      BY <1>6, <2>1, <3>1 DEF Chains, Apart
    <3>3. u[p[g][i]] = t[p[g][i]]
      BY <1>8, <3>1, <3>2
    <3>. QED BY <3>1, <3>3 DEF Chains
  <2>2. CASE g = f /\ i = n + 1
    BY <1>3, <1>4, <1>8, <2>2 DEF After
  <2>3. CASE g = f /\ i # n + 1
    <3>1. w[g] = r /\ i \in 1..n /\ p[f] # <<>> /\ r[i] = p[f][i]
      <4>1. i \in 1..n+1 /\ w[g] = r
        BY <1>3, <1>4, <2>3
      <4>2. i \in 1..n
        BY <1>1, <2>3, <4>1
      <4>3. n # 0
        BY <1>1, <4>2
      <4>. QED BY <1>1, <1>3, <4>1, <4>2, <4>3 DEF ChainType
    <3>2. CASE i = n
      BY <1>1, <1>3, <1>8, <3>1, <3>2 DEF After
    <3>3. CASE i # n
      <4>1. p[f][i] # l /\ p[f][i] # c /\ p[f][i] \in Entries
        BY <1>5, <1>6, <3>1, <3>3 DEF Chains, Apart
      <4>2. u[p[f][i]] = t[p[f][i]]
        BY <1>8, <4>1
      <4>3. t[p[f][i]] = p[f][i + 1] /\ i + 1 \in 1..n
        BY <3>1, <3>3, Members
      <4>4. r[i + 1] = p[f][i + 1]
        BY <1>3, <4>3
      <4>5. i # n + 1
        BY <1>1, <3>1
      <4>. QED BY <1>3, <2>3, <3>1, <4>2, <4>3, <4>4, <4>5 DEF After
    <3>. QED BY <3>2, <3>3
  <2>. QED BY <2>1, <2>2, <2>3
<1>11. ASSUME NEW x \in Entries \ Fixed, u[x] # 0 PROVE In(w, x)
  <2>1. CASE x = c
    <3>1. n + 1 \in 1..Len(w[f]) /\ w[f][n + 1] = c
      BY <1>1, <1>3, <1>4
    <3>. QED BY <2>1, <3>1 DEF In
  <2>2. CASE x # c
    <3>1. PICK g \in Files : \E i \in 1..Len(p[g]) : p[g][i] = x
      <4>1. CASE p[f] # <<>> /\ x = l
        BY <1>6, <4>1
      <4>2. CASE ~(p[f] # <<>> /\ x = l)
        <5>1. t[x] # 0
          BY <1>8, <1>11, <2>2, <4>2
        <5>. QED BY <1>11, <5>1, InUse
      <4>. QED BY <4>1, <4>2
    <3>2. PICK i \in 1..Len(p[g]) : p[g][i] = x
      BY <3>1
    <3>3. i \in 1..Len(w[g]) /\ w[g][i] = x
      <4>1. CASE g = f
        <5>1. i \in 1..n /\ i \in 1..n+1
          BY <1>1, <4>1
        <5>. QED BY <1>3, <1>4, <3>2, <4>1, <5>1
      <4>2. CASE g # f
        BY <1>4, <3>2, <4>2, SMTT(30)
      <4>. QED BY <4>1, <4>2
    <3>. QED BY <3>3 DEF In
  <2>. QED BY <2>1, <2>2
<1>. QED BY <1>4, <1>7, <1>8, <1>9, <1>10, <1>11 DEF Chains, w, r

\* From the session s to the session z the chain of f has become r: what has come to
\* it was free and has been emptied.
Grown(q, f, s, r, z) ==
    /\ z \in SessionType /\ ~z.stop
    /\ r \in ChainType /\ Chains([q EXCEPT ![f] = r], z.fat)
    /\ Says(z.e, r) /\ z.e.size = s.e.size
    /\ Len(r) >= Len(q[f]) /\ \A i \in 1..Len(q[f]) : r[i] = q[f][i]
    /\ \A i \in 1..Len(r) : i > Len(q[f]) => s.fat[r[i]] = 0 /\ z.data[r[i]] = Blank
    /\ \A c \in Clusters : z.data[c] = s.data[c] \/ \E i \in 1..Len(r) : i > Len(q[f]) /\ r[i] = c
    /\ \A c \in Entries : z.fat[c] = 0 => s.fat[c] = 0

LEMMA LinkGrows ==
    ASSUME NEW q, NEW f \in Files, q \in [Files -> ChainType], NEW s, NEW r, NEW z, Grown(q, f, s, r, z),
           r # <<>> => z.e.cur = r[Len(r)],
           NEW c, NEW y \in SessionType, ~y.stop, Links(z, c, y)
    PROVE  /\ Append(r, c) \in ChainType /\ Len(Append(r, c)) = Len(r) + 1
           /\ Append(r, c)[Len(r) + 1] = c
           /\ Grown(q, f, s, Append(r, c), y) /\ y.e.cur = c
<1>. DEFINE p == [q EXCEPT ![f] = r]
            w == Append(r, c)
            n == Len(r)
<1>1. /\ p[f] = r /\ [p EXCEPT ![f] = w] = [q EXCEPT ![f] = w]
      /\ r \in ChainType /\ n \in Nat /\ Len(q[f]) \in Nat /\ n >= Len(q[f])
      /\ z.e \in EntryType /\ z.e.cnt = n /\ Chains(p, z.fat)
  BY DEF Grown, ChainType, Says
<1>2. /\ c \in Clusters /\ z.fat[c] = 0 /\ c \in Entries /\ s.fat[c] = 0
      /\ y.data = [z.data EXCEPT ![c] = Blank] /\ z.data \in DataType
      /\ y.e.first = (IF z.e.cnt = 0 THEN c ELSE z.e.first) /\ y.e.cur = c
      /\ y.e.cnt = z.e.cnt + 1 /\ y.e.size = z.e.size
      /\ y.fat = IF z.e.cnt > 0 /\ z.e.cur \in Clusters
                   THEN [[z.fat EXCEPT ![c] = EOC] EXCEPT ![z.e.cur] = c]
                   ELSE [z.fat EXCEPT ![c] = EOC]
  BY Constants_ DEF Links, Grown, SessionType
<1>3. \A i \in 1..n : r[i] # c /\ r[i] \in Clusters
  <2>. SUFFICES ASSUME NEW i \in 1..n PROVE r[i] # c /\ r[i] \in Clusters
    OBVIOUS
  <2>1. i \in 1..Len(p[f])
    BY <1>1
  <2>2. z.fat[p[f][i]] # 0 /\ p[f][i] \in Clusters
    BY <1>1, <2>1, Members
  <2>. QED BY <1>1, <1>2, <2>2
<1>4. c # RootClus
  BY <1>1, <1>2, Constants_ DEF Chains, Fixed
<1>5. /\ w \in ChainType /\ Len(w) = n + 1 /\ w[n + 1] = c /\ \A i \in 1..n : w[i] = r[i]
  BY <1>1, <1>2, <1>4 DEF ChainType
<1>6. r # <<>> <=> n > 0
  BY <1>1 DEF ChainType
<1>7. Chains([p EXCEPT ![f] = w], y.fat)
  <2>1. r # <<>> => z.e.cur = r[n] /\ z.e.cur \in Clusters
    BY <1>1, <1>3, <1>6
  <2>2. y.fat = IF p[f] = <<>> THEN [z.fat EXCEPT ![c] = EOC]
                ELSE [[z.fat EXCEPT ![c] = EOC] EXCEPT ![z.e.cur] = c]
    BY <1>1, <1>2, <1>6, <2>1
  <2>3. p[f] # <<>> => z.e.cur = p[f][Len(p[f])]
    BY <1>1, <2>1
  <2>4. w = Append(p[f], c)
    BY <1>1
  <2>. DEFINE u == y.fat
              l == z.e.cur
              t == z.fat
  <2>5. /\ Chains(p, t) /\ c \in Clusters /\ t[c] = 0 /\ (p[f] # <<>> => l = p[f][Len(p[f])])
        /\ u = IF p[f] = <<>> THEN [t EXCEPT ![c] = EOC]
               ELSE [[t EXCEPT ![c] = EOC] EXCEPT ![l] = c]
    BY <1>1, <1>2, <2>2, <2>3
  <2>. HIDE DEF p, w, n, u, l, t
  <2>6. Chains([p EXCEPT ![f] = Append(p[f], c)], u)
    BY <2>5, LinkKeepsChains
  <2>. QED BY <2>4, <2>6 DEF u
<1>8. Says(y.e, w)
  <2>1. y.e \in EntryType
    BY DEF SessionType
  <2>2. y.e.first = w[1]
    <3>1. CASE n = 0
      BY <1>1, <1>2, <1>5, <3>1
    <3>2. CASE n # 0
      <4>1. n > 0 /\ 1 \in 1..n
        BY <1>1, <3>2
      <4>2. z.e.first = r[1]
        BY <1>6, <4>1 DEF Grown, Says
      <4>. QED BY <1>1, <1>2, <1>5, <4>1, <4>2
    <3>. QED BY <3>1, <3>2
  <2>3. w # <<>> /\ n + 1 \in 1..Len(w)
    BY <1>1, <1>5
  <2>. HIDE DEF w
  <2>. QED BY <1>1, <1>2, <1>5, <2>1, <2>2, <2>3 DEF Says
<1>9. \A b \in Clusters : y.data[b] = IF b = c THEN Blank ELSE z.data[b]
  BY <1>2 DEF DataType
<1>10. ASSUME NEW i \in 1..Len(w) PROVE (i = n + 1 /\ w[i] = c) \/ (i \in 1..n /\ w[i] = r[i])
  <2>. HIDE DEF w
  <2>. QED BY <1>1, <1>5
<1>11. \A i \in 1..Len(w) : i > Len(q[f]) => s.fat[w[i]] = 0 /\ y.data[w[i]] = Blank
  <2>. SUFFICES ASSUME NEW i \in 1..Len(w), i > Len(q[f])
                PROVE  s.fat[w[i]] = 0 /\ y.data[w[i]] = Blank
    OBVIOUS
  <2>. HIDE DEF w, n
  <2>1. CASE i = n + 1 /\ w[i] = c
    BY <1>2, <1>9, <2>1
  <2>2. CASE i \in 1..n /\ w[i] = r[i]
    <3>1. s.fat[r[i]] = 0 /\ z.data[r[i]] = Blank
      BY <2>2 DEF Grown, n
    <3>. QED BY <1>3, <1>9, <2>2, <3>1
  <2>. QED BY <1>10, <2>1, <2>2
<1>12. ASSUME NEW b \in Clusters
       PROVE  y.data[b] = s.data[b] \/ \E i \in 1..Len(w) : i > Len(q[f]) /\ w[i] = b
  <2>. HIDE DEF w
  <2>1. CASE b = c
    <3>1. n + 1 \in 1..Len(w) /\ n + 1 > Len(q[f])
      BY <1>1, <1>5
    <3>. QED BY <1>5, <2>1, <3>1
  <2>2. CASE b # c
    <3>1. y.data[b] = z.data[b]
      BY <1>9, <2>2
    <3>2. z.data[b] = s.data[b] \/ \E i \in 1..n : i > Len(q[f]) /\ r[i] = b
      BY DEF Grown
    <3>3. \A i \in 1..n : i \in 1..Len(w) /\ w[i] = r[i]
      BY <1>1, <1>5
    <3>. QED BY <3>1, <3>2, <3>3
  <2>. QED BY <2>1, <2>2
<1>13. ASSUME NEW b \in Entries, y.fat[b] = 0 PROVE s.fat[b] = 0
  <2>1. z.fat \in [Entries -> 0..EOC] /\ c # 0 /\ EOC # 0
    BY <1>2, Constants_ DEF Grown, SessionType
  <2>2. z.fat[b] = 0
    BY <1>2, <1>13, <2>1
  <2>. QED BY <2>2 DEF Grown
<1>14. Len(w) >= Len(q[f]) /\ \A i \in 1..Len(q[f]) : w[i] = q[f][i]
  <2>1. \A i \in 1..Len(q[f]) : r[i] = q[f][i]
    BY DEF Grown
  <2>2. \A i \in 1..Len(q[f]) : i \in 1..n
    BY <1>1
  <2>. HIDE DEF w, n
  <2>. QED BY <1>1, <1>5, <2>1, <2>2
<1>15. y.e.size = s.e.size
  BY <1>2 DEF Grown
<1>16. Chains([q EXCEPT ![f] = w], y.fat)
  BY <1>1, <1>7
<1>. HIDE DEF w
<1>. QED BY <1>2, <1>5, <1>8, <1>11, <1>12, <1>13, <1>14, <1>15, <1>16 DEF Grown, w

Moved(s, c) == [s EXCEPT !.e.cur = c]

LEMMA MovedIs ==
    ASSUME NEW s \in SessionType, NEW c \in 0..EOC
    PROVE  /\ Moved(s, c) \in SessionType /\ Moved(s, c).stop = s.stop
           /\ Moved(s, c).fat = s.fat /\ Moved(s, c).data = s.data
           /\ Moved(s, c).e.cur = c /\ Moved(s, c).e.first = s.e.first
           /\ Moved(s, c).e.cnt = s.e.cnt /\ Moved(s, c).e.size = s.e.size
BY DEF Moved, SessionType, EntryType

\* reallocCurClus() goes on as often as it has to.
Growing(k, b, n, g) ==
    g = [m \in 0..n |->
            IF m <= k THEN b ELSE LET h == g[m-1] IN IF h.stop THEN h ELSE Extended(h)]

LEMMA GrowingExists ==
    ASSUME NEW k \in Nat, NEW b, NEW n \in Nat
    PROVE  \E g : Growing(k, b, n, g)
<1>. DEFINE Next_(h) == IF h.stop THEN h ELSE Extended(h)
            T == {i \in Nat : \E g : g = [m \in 0..i |-> IF m <= k THEN b ELSE Next_(g[m-1])]}
<1>1. 0 \in T
  <2>. DEFINE g == [m \in 0..0 |-> b]
  <2>1. g = [m \in 0..0 |-> IF m <= k THEN b ELSE Next_(g[m-1])]
    <3>1. \A m \in 0..0 : m <= k
      OBVIOUS
    <3>. HIDE DEF Next_
    <3>. QED BY <3>1
  <2>. HIDE DEF g, Next_
  <2>. QED BY <2>1
<1>2. ASSUME NEW i \in Nat, i \in T PROVE i + 1 \in T
  <2>1. PICK g : g = [m \in 0..i |-> IF m <= k THEN b ELSE Next_(g[m-1])]
    BY <1>2
  <2>. HIDE DEF Next_
  <2>. DEFINE h == [m \in 0..i+1 |-> IF m <= i THEN g[m]
                                      ELSE IF m <= k THEN b ELSE Next_(g[m-1])]
  <2>2. \A m \in 0..i : h[m] = g[m] /\ m \in 0..i+1
    OBVIOUS
  <2>3. h[i + 1] = IF i + 1 <= k THEN b ELSE Next_(g[i])
    OBVIOUS
  <2>4. h = [m \in 0..i+1 |-> h[m]]
    OBVIOUS
  <2>. HIDE DEF h
  <2>5. ASSUME NEW m \in 0..i+1 PROVE h[m] = IF m <= k THEN b ELSE Next_(h[m-1])
    <3>1. CASE m = i + 1
      <4>1. m - 1 = i /\ i \in 0..i
        BY <3>1
      <4>. QED BY <2>2, <2>3, <3>1, <4>1
    <3>2. CASE m # i + 1
      <4>1. m \in 0..i
        BY <3>2
      <4>2. g[m] = IF m <= k THEN b ELSE Next_(g[m-1])
        BY <2>1, <4>1
      <4>3. ~(m <= k) => m - 1 \in 0..i
        BY <4>1
      <4>. QED BY <2>2, <4>1, <4>2, <4>3
    <3>. QED BY <3>1, <3>2
  <2>6. h = [m \in 0..i+1 |-> IF m <= k THEN b ELSE Next_(h[m-1])]
    BY <2>4, <2>5
  <2>. QED BY <2>6
<1>3. Nat \subseteq T
  <2>. HIDE DEF T
  <2>. QED BY <1>1, <1>2, Climb
<1>4. \E g : g = [m \in 0..n |-> IF m <= k THEN b ELSE Next_(g[m-1])]
  BY <1>3
<1>. QED BY <1>4 DEF Growing

\* A session on f while the chains are q.
Fits(q, f, s) ==
    /\ q \in [Files -> ChainType] /\ s \in SessionType /\ ~s.stop
    /\ Chains(q, s.fat) /\ Says(s.e, q[f])

\* Moving along the own chain changes nothing else.
LEMMA MovedFits ==
    ASSUME NEW q, NEW f \in Files, NEW s, Fits(q, f, s), NEW c \in 0..EOC,
           q[f] # <<>> => c = EOC \/ \E i \in 1..Len(q[f]) : c = q[f][i]
    PROVE  Grown(q, f, s, q[f], Moved(s, c))
<1>1. [q EXCEPT ![f] = q[f]] = q /\ q[f] \in ChainType
  BY DEF Fits
<1>2. Len(q[f]) \in Nat
  BY <1>1 DEF ChainType
<1>3. s \in SessionType /\ ~s.stop
  BY DEF Fits
<1>4. /\ Moved(s, c) \in SessionType /\ ~Moved(s, c).stop
      /\ Moved(s, c).fat = s.fat /\ Moved(s, c).data = s.data /\ Moved(s, c).e \in EntryType
      /\ Moved(s, c).e.cur = c /\ Moved(s, c).e.first = s.e.first
      /\ Moved(s, c).e.cnt = s.e.cnt /\ Moved(s, c).e.size = s.e.size
  BY <1>3, MovedIs DEF SessionType
<1>5. Says(Moved(s, c).e, q[f])
  BY <1>4 DEF Says, Fits
<1>6. \A i \in 1..Len(q[f]) : ~(i > Len(q[f]))
  BY <1>2
<1>7. Chains([q EXCEPT ![f] = q[f]], Moved(s, c).fat)
  BY <1>1, <1>4 DEF Fits
<1>8. \A x \in Clusters : Moved(s, c).data[x] = s.data[x]
  BY <1>4
<1>. QED BY <1>1, <1>2, <1>4, <1>5, <1>6, <1>7, <1>8 DEF Grown

LEMMA LastFits ==
    ASSUME NEW q, NEW f \in Files, NEW s, Fits(q, f, s), s.e.cur \in Entries
    PROVE  /\ LastFrom(s.fat, s.e.cur) \in 0..EOC
           /\ q[f] # <<>> => /\ LastFrom(s.fat, s.e.cur) = q[f][Len(q[f])]
                             /\ Len(q[f]) \in 1..Len(q[f])
<1>1. LastFrom(s.fat, s.e.cur) \in Entries /\ Chains(q, s.fat)
  BY LastIs DEF Fits
<1>2. ASSUME q[f] # <<>>
      PROVE  LastFrom(s.fat, s.e.cur) = q[f][Len(q[f])] /\ Len(q[f]) \in 1..Len(q[f])
  <2>1. PICK i \in 1..Len(q[f]) : s.e.cur = q[f][i]
    BY <1>2, Constants_ DEF Fits, Says
  <2>. QED BY <1>1, <2>1, LastIs, Members
<1>. QED BY <1>1, <1>2, Constants_

LEMMA GrowingGrows ==
    ASSUME NEW q, NEW f \in Files, NEW s, Fits(q, f, s), s.e.cur \in Entries, NEW n \in Nat, NEW g,
           Growing(s.e.cnt, Moved(s, LastFrom(s.fat, s.e.cur)), n, g),
           n >= s.e.cnt
    PROVE  /\ g[n] \in SessionType
           /\ ~g[n].stop /\ Window(g[n].fat) =>
                 \E r : Grown(q, f, s, r, g[n]) /\ Len(r) = n /\ (n > 0 => g[n].e.cur = r[n])
<1>. DEFINE b == Moved(s, LastFrom(s.fat, s.e.cur))
            k == s.e.cnt
            Good(m) == \E r : /\ Grown(q, f, s, r, g[m]) /\ Len(r) = IF m <= k THEN k ELSE m
                              /\ r # <<>> => g[m].e.cur = r[Len(r)]
            T == {m \in Nat : m <= n => /\ g[m] \in SessionType
                                        /\ ~g[m].stop /\ Window(g[m].fat) => Good(m)}
<1>1. k \in Nat /\ k = Len(q[f]) /\ q \in [Files -> ChainType] /\ s \in SessionType
  BY DEF Fits, Says, EntryType
<1>2. b \in SessionType /\ Grown(q, f, s, q[f], b)
      /\ (q[f] # <<>> => b.e.cur = q[f][Len(q[f])])
  <2>. DEFINE c == LastFrom(s.fat, s.e.cur)
  <2>1. c \in 0..EOC /\ (q[f] # <<>> => c = q[f][Len(q[f])] /\ Len(q[f]) \in 1..Len(q[f]))
    BY LastFits
  <2>. HIDE DEF c
  <2>2. Grown(q, f, s, q[f], Moved(s, c)) /\ Moved(s, c) \in SessionType
    BY <1>1, <2>1, MovedFits, MovedIs
  <2>3. Moved(s, c).e.cur = c
    BY <1>1, <2>1, MovedIs
  <2>. QED BY <2>1, <2>2, <2>3 DEF c
<1>. HIDE DEF b
<1>3. /\ \A m \in 0..n : m <= k => g[m] = b
      /\ \A m \in 0..n : m > k => g[m] = IF g[m-1].stop THEN g[m-1] ELSE Extended(g[m-1])
  BY <1>1 DEF b, Growing
<1>4. ASSUME NEW m \in 0..n, m <= k PROVE g[m] \in SessionType /\ Good(m)
  BY <1>1, <1>2, <1>3, <1>4
<1>. HIDE DEF Good, k
<1>5. 0 \in T
  <2>1. 0 \in 0..n /\ 0 <= k
    BY <1>1
  <2>2. g[0] \in SessionType /\ Good(0)
    BY <1>4, <2>1
  <2>. QED BY <2>2
<1>6. ASSUME NEW m \in Nat, m \in T PROVE m + 1 \in T
  <2>. SUFFICES ASSUME m + 1 <= n
                PROVE  /\ g[m+1] \in SessionType
                       /\ ~g[m+1].stop /\ Window(g[m+1].fat) => Good(m+1)
    BY DEF T
  <2>1. CASE m + 1 <= k
    <3>1. m + 1 \in 0..n
      OBVIOUS
    <3>2. g[m+1] \in SessionType /\ Good(m+1)
      BY <1>4, <2>1, <3>1
    <3>. QED BY <3>2
  <2>2. CASE m + 1 > k
    <3>1. m + 1 \in 0..n /\ (m + 1) - 1 = m /\ m <= n /\ m >= k
      BY <1>1, <2>2
    <3>2. g[m+1] = IF g[m].stop THEN g[m] ELSE Extended(g[m])
      BY <1>3, <2>2, <3>1
    <3>3. g[m] \in SessionType /\ (~g[m].stop /\ Window(g[m].fat) => Good(m))
      BY <1>6, <3>1
    <3>4. CASE g[m].stop
      BY <3>2, <3>3, <3>4
    <3>5. CASE ~g[m].stop
      <4>. DEFINE z == g[m]
                  y == g[m+1]
      <4>1. y = Extended(z) /\ z \in SessionType /\ ~z.stop
        BY <3>2, <3>3, <3>5
      <4>2. y \in SessionType /\
            (~y.stop => /\ \A c \in Entries : y.fat[c] = 0 => z.fat[c] = 0
                        /\ Window(z.fat) => \E c \in Clusters : Links(z, c, y))
        <5>. HIDE DEF z, y
        <5>. QED BY <4>1, ExtendedIs
      <4>3. ASSUME ~y.stop, Window(y.fat) PROVE Good(m+1)
        <5>1. Window(z.fat)
          BY <4>2, <4>3 DEF Window
        <5>2. PICK c \in Clusters : Links(z, c, y)
          BY <4>2, <4>3, <5>1
        <5>3. PICK r : /\ Grown(q, f, s, r, z) /\ Len(r) = (IF m <= k THEN k ELSE m)
                       /\ r # <<>> => z.e.cur = r[Len(r)]
          BY <3>3, <4>1, <5>1 DEF Good
        <5>4. Len(r) = m
          BY <1>1, <3>1, <5>3
        <5>. HIDE DEF z, y
        <5>5. /\ Len(Append(r, c)) = m + 1 /\ Append(r, c)[m + 1] = c /\ Append(r, c) # <<>>
              /\ Grown(q, f, s, Append(r, c), y) /\ y.e.cur = c
          <6>1. /\ Append(r, c) \in ChainType /\ Len(Append(r, c)) = Len(r) + 1
                /\ Append(r, c)[Len(r) + 1] = c
                /\ Grown(q, f, s, Append(r, c), y) /\ y.e.cur = c
            BY <1>1, <4>2, <4>3, <5>2, <5>3, LinkGrows
          <6>2. Append(r, c) # <<>>
            <7>1. Len(<<>>) = 0
              OBVIOUS
            <7>2. Len(Append(r, c)) # 0
              BY <5>4, <6>1
            <7>. QED BY <7>1, <7>2
          <6>. QED BY <5>4, <6>1, <6>2
        <5>6. Len(Append(r, c)) = IF m + 1 <= k THEN k ELSE m + 1
          BY <1>1, <2>2, <5>5
        <5>7. Grown(q, f, s, Append(r, c), g[m+1]) /\ g[m+1].e.cur = c
          BY <5>5 DEF y
        <5>. QED BY <5>5, <5>6, <5>7 DEF Good
      <4>. QED BY <4>2, <4>3
    <3>. QED BY <3>4, <3>5
  <2>3. m + 1 <= k \/ m + 1 > k
    BY <1>1
  <2>. QED BY <2>1, <2>2, <2>3
<1>7. n \in T
  <2>1. Nat \subseteq T
    <3>. HIDE DEF T
    <3>. QED BY <1>5, <1>6, Climb
  <2>. QED BY <2>1
<1>8. g[n] \in SessionType /\ (~g[n].stop /\ Window(g[n].fat) => Good(n))
  BY <1>7
<1>9. ASSUME Good(n)
      PROVE  \E r : Grown(q, f, s, r, g[n]) /\ Len(r) = n /\ (n > 0 => g[n].e.cur = r[n])
  <2>1. PICK r : /\ Grown(q, f, s, r, g[n]) /\ Len(r) = (IF n <= k THEN k ELSE n)
                 /\ r # <<>> => g[n].e.cur = r[Len(r)]
    BY <1>9 DEF Good
  <2>2. Len(r) = n /\ (n > 0 => r # <<>>)
    BY <1>1, <2>1 DEF k
  <2>. QED BY <2>1, <2>2
<1>. QED BY <1>8, <1>9

\* reallocCurClus() that may allocate finds the cluster of the offset, or stops.
LEMMA LocatedGrows ==
    ASSUME SmallMedium, NEW q, NEW f \in Files, NEW s, Fits(q, f, s), NEW off \in Nat
    PROVE  /\ Located(s, off, TRUE) \in SessionType
           /\ ~Located(s, off, TRUE).stop /\ Window(Located(s, off, TRUE).fat) =>
                 \E r : /\ Grown(q, f, s, r, Located(s, off, TRUE))
                        /\ off \div B + 1 \in 1..Len(r)
                        /\ Located(s, off, TRUE).e.cur = r[off \div B + 1]
<1>. DEFINE n == off \div B + 1
            z == Located(s, off, TRUE)
            grown == CHOOSE grown : grown = [m \in 0..n |->
                         IF m <= s.e.cnt THEN Moved(s, LastFrom(s.fat, s.e.cur))
                         ELSE LET g == grown[m-1] IN IF g.stop THEN g ELSE Extended(g)]
<1>1. n \in Nat /\ n >= 1
  <2>1. off \div B \in Nat
    BY Constants_
  <2>. QED BY <2>1
<1>2. /\ s.e.cnt = Len(q[f]) /\ Len(q[f]) \in Nat /\ s \in SessionType /\ ~s.stop
      /\ q[f] \in Seq(Clusters) /\ (q[f] # <<>> => s.e.first = q[f][1]) /\ Chains(q, s.fat)
  BY DEF Fits, Says, EntryType, ChainType
<1>3. z = IF n < s.e.cnt THEN Moved(s, NthFrom(s.fat, s.e.first, n))
          ELSE IF s.e.cur \notin Entries THEN [s EXCEPT !.stop = TRUE]
          ELSE grown[n]
  BY DEF Located, Moved, B
<1>4. CASE n < s.e.cnt
  <2>1. n \in 1..Len(q[f]) /\ q[f] # <<>>
    BY <1>1, <1>2, <1>4
  <2>2. NthFrom(s.fat, s.e.first, n) = q[f][n]
    BY <1>2, <2>1, ChainNth
  <2>3. q[f][n] \in 0..EOC
    BY <1>2, <2>1, Members, Constants_
  <2>4. /\ Grown(q, f, s, q[f], Moved(s, q[f][n])) /\ Moved(s, q[f][n]).e.cur = q[f][n]
        /\ Moved(s, q[f][n]) \in SessionType
    BY <1>2, <2>1, <2>3, MovedFits, MovedIs
  <2>. QED BY <1>3, <1>4, <2>1, <2>2, <2>4
<1>5. CASE ~(n < s.e.cnt)
  <2>1. CASE s.e.cur \notin Entries
    <3>1. [s EXCEPT !.stop = TRUE] \in SessionType /\ [s EXCEPT !.stop = TRUE].stop
      BY <1>2 DEF SessionType
    <3>. QED BY <1>3, <1>5, <2>1, <3>1
  <2>2. CASE s.e.cur \in Entries
    <3>1. Growing(s.e.cnt, Moved(s, LastFrom(s.fat, s.e.cur)), n, grown)
      <4>1. s.e.cnt \in Nat
        BY <1>2
      <4>. DEFINE b == Moved(s, LastFrom(s.fat, s.e.cur))
                  k == s.e.cnt
      <4>. HIDE DEF n
      <4>2. \E g : Growing(k, b, n, g)
        <5>. HIDE DEF b, k
        <5>. QED BY <1>1, <4>1, GrowingExists DEF k
      <4>. QED BY <4>2, Zenon DEF Growing
    <3>. HIDE DEF grown
    <3>2. z = grown[n]
      BY <1>3, <1>5, <2>2
    <3>3. n >= s.e.cnt
      BY <1>1, <1>2, <1>5
    <3>. HIDE DEF n, z
    <3>4. /\ grown[n] \in SessionType
          /\ ~grown[n].stop /\ Window(grown[n].fat) =>
               \E r : Grown(q, f, s, r, grown[n]) /\ Len(r) = n /\ (n > 0 => grown[n].e.cur = r[n])
      <4>. DEFINE g == grown
      <4>1. Growing(s.e.cnt, Moved(s, LastFrom(s.fat, s.e.cur)), n, g)
        BY <3>1
      <4>. HIDE DEF g
      <4>2. /\ g[n] \in SessionType
            /\ ~g[n].stop /\ Window(g[n].fat) =>
                 \E r : Grown(q, f, s, r, g[n]) /\ Len(r) = n /\ (n > 0 => g[n].e.cur = r[n])
        BY <1>1, <2>2, <3>3, <4>1, GrowingGrows
      <4>. QED BY <4>2 DEF g
    <3>5. ASSUME ~z.stop, Window(z.fat)
          PROVE  \E r : Grown(q, f, s, r, z) /\ n \in 1..Len(r) /\ z.e.cur = r[n]
      <4>1. PICK r : Grown(q, f, s, r, z) /\ Len(r) = n /\ (n > 0 => z.e.cur = r[n])
        BY <3>2, <3>4, <3>5
      <4>2. n \in 1..Len(r) /\ z.e.cur = r[n]
        BY <1>1, <4>1
      <4>. QED BY <4>1, <4>2
    <3>6. z \in SessionType
      BY <3>2, <3>4
    <3>. QED BY <3>5, <3>6, Zenon DEF n, z
  <2>. QED BY <2>1, <2>2
<1>. QED BY <1>4, <1>5

\* One that does not only moves, to the cluster of the offset if there is one.
LEMMA LocatedMoves ==
    ASSUME SmallMedium, NEW q, NEW f \in Files, NEW s, Fits(q, f, s), NEW off \in Nat,
           ~Located(s, off, FALSE).stop
    PROVE  \E c \in 0..EOC :
              /\ Located(s, off, FALSE) = Moved(s, c)
              /\ off \div B + 1 \in 1..Len(q[f]) => c = q[f][off \div B + 1]
              /\ q[f] # <<>> => \E i \in 1..Len(q[f]) : c = q[f][i]
<1>. DEFINE n == off \div B + 1
            z == Located(s, off, FALSE)
<1>1. n \in Nat /\ n >= 1
  <2>1. off \div B \in Nat
    BY Constants_
  <2>. QED BY <2>1
<1>2. /\ s.e.cnt = Len(q[f]) /\ Len(q[f]) \in Nat /\ s \in SessionType /\ ~s.stop
      /\ q[f] \in Seq(Clusters) /\ (q[f] # <<>> => s.e.first = q[f][1]) /\ Chains(q, s.fat)
  BY DEF Fits, Says, EntryType, ChainType
<1>3. z = IF n < s.e.cnt THEN Moved(s, NthFrom(s.fat, s.e.first, n))
          ELSE IF s.e.cur \notin Entries THEN [s EXCEPT !.stop = TRUE]
          ELSE Moved(s, LastFrom(s.fat, s.e.cur))
  BY DEF Located, Moved, B
<1>4. CASE n < s.e.cnt
  <2>1. n \in 1..Len(q[f]) /\ q[f] # <<>>
    BY <1>1, <1>2, <1>4
  <2>2. NthFrom(s.fat, s.e.first, n) = q[f][n]
    BY <1>2, <2>1, ChainNth
  <2>3. q[f][n] \in 0..EOC
    BY <1>2, <2>1, Members, Constants_
  <2>. QED BY <1>3, <1>4, <2>1, <2>2, <2>3
<1>5. CASE ~(n < s.e.cnt)
  <2>1. s.e.cur \in Entries
    BY <1>2, <1>3, <1>5 DEF SessionType
  <2>. DEFINE c == LastFrom(s.fat, s.e.cur)
  <2>2. c \in 0..EOC /\ (q[f] # <<>> => c = q[f][Len(q[f])] /\ Len(q[f]) \in 1..Len(q[f]))
    BY <2>1, LastFits
  <2>3. z = Moved(s, c)
    BY <1>3, <1>5, <2>1
  <2>4. n \in 1..Len(q[f]) => n = Len(q[f]) /\ q[f] # <<>>
    BY <1>1, <1>2, <1>5
  <2>. HIDE DEF c, z, n
  <2>5. /\ n \in 1..Len(q[f]) => c = q[f][n]
        /\ q[f] # <<>> => \E i \in 1..Len(q[f]) : c = q[f][i]
    BY <2>2, <2>4
  <2>. QED BY <2>2, <2>3, <2>5 DEF n, z
<1>. QED BY <1>4, <1>5

-----------------------------------------------------------------------------
(* Bytes.                                                                  *)

LEMMA DivMod ==
    ASSUME NEW n \in Nat \ {0}, NEW x \in Nat
    PROVE  x \div n \in Nat /\ x % n \in 0..n-1 /\ x = n * (x \div n) + (x % n)
OBVIOUS

LEMMA DivUnique ==
    ASSUME NEW n \in Nat \ {0}, NEW a \in Nat, NEW r \in 0..n-1
    PROVE  (n * a + r) \div n = a /\ (n * a + r) % n = r
OBVIOUS

\* From one byte to the next, in the cluster or to the start of the next one.
LEMMA DivNext ==
    ASSUME NEW x \in Nat
    PROVE  /\ (x + 1) % B = 0 => (x + 1) \div B = x \div B + 1
           /\ (x + 1) % B # 0 => (x + 1) \div B = x \div B
<1>. DEFINE a == x \div B
            r == x % B
<1>1. B \in Nat \ {0}
  BY Constants_
<1>2. a \in Nat /\ r \in 0..B-1 /\ x = B * a + r
  BY <1>1, DivMod
<1>. HIDE DEF a, r
<1>3. CASE r + 1 = B
  <2>1. x + 1 = B * (a + 1) + 0 /\ a + 1 \in Nat /\ 0 \in 0..B-1
    BY <1>1, <1>2, <1>3
  <2>. DEFINE h == a + 1
  <2>3. x + 1 = B * h + 0 /\ h \in Nat
    BY <2>1
  <2>. HIDE DEF h
  <2>2. (x + 1) \div B = h /\ (x + 1) % B = 0
    BY <1>1, <2>1, <2>3, DivUnique
  <2>. QED BY <2>2 DEF a, h
<1>4. CASE r + 1 # B
  <2>1. x + 1 = B * a + (r + 1) /\ r + 1 \in 0..B-1
    BY <1>1, <1>2, <1>4
  <2>2. (x + 1) \div B = a /\ (x + 1) % B = r + 1
    BY <1>1, <1>2, <2>1, DivUnique
  <2>3. r + 1 # 0
    BY <1>1, <1>2
  <2>. QED BY <2>2, <2>3 DEF a
<1>. QED BY <1>3, <1>4

\* The bytes from x on for m, all in one cluster.
LEMMA DivPiece ==
    ASSUME NEW x \in Nat, NEW m \in Nat, (x % B) + m <= B, NEW k \in Nat
    PROVE  k \in x..x+m-1 <=> k \div B = x \div B /\ k % B \in (x % B)..(x % B)+m-1
<1>. DEFINE a == x \div B
            r == x % B
            b == k \div B
            l == k % B
<1>1. B \in Nat \ {0}
  BY Constants_
<1>2. /\ a \in Nat /\ r \in 0..B-1 /\ x = B * a + r
      /\ b \in Nat /\ l \in 0..B-1 /\ k = B * b + l
  BY <1>1, DivMod
<1>3. r + m <= B
  OBVIOUS
<1>. HIDE DEF a, r, b, l
<1>4. ASSUME b = a PROVE k \in x..x+m-1 <=> l \in r..r+m-1
  <2>1. k - x = l - r
    BY <1>1, <1>2, <1>4
  <2>. QED BY <1>1, <1>2, <2>1
<1>5. ASSUME k \in x..x+m-1 PROVE b = a
  <2>1. k = B * a + (k - x + r) /\ k - x + r \in 0..B-1
    BY <1>1, <1>2, <1>3, <1>5
  <2>2. k \div B = a
    BY <1>1, <1>2, <2>1, DivUnique
  <2>. QED BY <2>2 DEF b
<1>. QED BY <1>4, <1>5 DEF a, r, b, l

LEMMA AtType ==
    ASSUME NEW d \in DataType, NEW s \in ChainType, NEW k \in Nat
    PROVE  At(d, s, k) \in Byte \cup {Zero}
<1>1. k \div B \in Nat /\ k % B \in 0..B-1
  BY Constants_, DivMod
<1>2. CASE k \div B < Len(s)
  <2>1. k \div B + 1 \in 1..Len(s) /\ s \in [1..Len(s) -> Clusters \ {RootClus}]
    BY <1>1, <1>2 DEF ChainType
  <2>2. s[k \div B + 1] \in Clusters
    BY <2>1
  <2>. QED BY <1>1, <1>2, <2>2 DEF At, DataType, Cluster
<1>3. CASE ~(k \div B < Len(s))
  BY <1>3 DEF At
<1>. QED BY <1>2, <1>3

\* What comes to a chain is empty, and nothing of the other chains is touched.
LEMMA GrownBytes ==
    ASSUME NEW q, NEW f \in Files, NEW s, Fits(q, f, s), NEW r, NEW z, Grown(q, f, s, r, z)
    PROVE  /\ \A k \in Nat : At(z.data, r, k) = At(s.data, q[f], k)
           /\ \A g \in Files \ {f} : \A k \in Nat : At(z.data, q[g], k) = At(s.data, q[g], k)
<1>1. /\ Len(q[f]) \in Nat /\ Len(r) \in Nat /\ Len(r) >= Len(q[f]) /\ Chains(q, s.fat)
      /\ \A i \in 1..Len(q[f]) : r[i] = q[f][i]
  BY DEF Fits, Grown, ChainType
<1>2. ASSUME NEW g \in Files, NEW i \in 1..Len(q[g]) PROVE z.data[q[g][i]] = s.data[q[g][i]]
  <2>1. q[g][i] \in Clusters /\ s.fat[q[g][i]] # 0
    BY <1>1, Members
  <2>. QED BY <2>1 DEF Grown
<1>3. ASSUME NEW g \in Files, NEW k \in Nat PROVE At(z.data, q[g], k) = At(s.data, q[g], k)
  <2>1. k \div B \in Nat
    BY Constants_, DivMod
  <2>2. k \div B < Len(q[g]) => k \div B + 1 \in 1..Len(q[g])
    <3>1. Len(q[g]) \in Nat
      BY DEF Fits, ChainType
    <3>. QED BY <2>1, <3>1
  <2>. QED BY <1>2, <2>2 DEF At
<1>4. ASSUME NEW k \in Nat PROVE At(z.data, r, k) = At(s.data, q[f], k)
  <2>. DEFINE i == k \div B + 1
  <2>1. k \div B \in Nat /\ k % B \in 0..B-1
    BY Constants_, DivMod
  <2>2. CASE k \div B < Len(q[f])
    <3>1. i \in 1..Len(q[f]) /\ k \div B < Len(r)
      BY <1>1, <2>1, <2>2
    <3>2. r[i] = q[f][i] /\ z.data[q[f][i]] = s.data[q[f][i]]
      BY <1>1, <1>2, <3>1
    <3>. QED BY <2>2, <3>1, <3>2 DEF At
  <2>3. CASE ~(k \div B < Len(q[f])) /\ k \div B < Len(r)
    <3>1. i \in 1..Len(r) /\ i > Len(q[f])
      BY <1>1, <2>1, <2>3
    <3>2. z.data[r[i]] = Blank
      BY <3>1 DEF Grown
    <3>3. Blank[k % B] = Zero
      BY <2>1 DEF Blank, B
    <3>. QED BY <2>3, <3>2, <3>3 DEF At
  <2>4. CASE ~(k \div B < Len(q[f])) /\ ~(k \div B < Len(r))
    BY <2>4 DEF At
  <2>. QED BY <1>1, <2>1, <2>2, <2>3, <2>4
<1>. QED BY <1>3, <1>4

\* What eread() has done after the first bytes, as Read says it.
Reading(t, d, c, off, n, g) ==
    g = [k \in 0..n |->
            IF k = 0 THEN [cur |-> c, dst |-> <<>>]
            ELSE LET a == g[k-1]
                 IN  IF a.cur \notin Clusters THEN a
                     ELSE [cur |-> IF (off + k) % BytSPerClus = 0 THEN t[a.cur] ELSE a.cur,
                           dst |-> Append(a.dst, d[a.cur][(off + k - 1) % BytSPerClus])]]

LEMMA ReadingExists ==
    ASSUME NEW t, NEW d, NEW c, NEW off, NEW n \in Nat
    PROVE  \E g : Reading(t, d, c, off, n, g)
<1>. DEFINE first == [cur |-> c, dst |-> <<>>]
            Next_(a, k) == IF a.cur \notin Clusters THEN a
                           ELSE [cur |-> IF (off + k) % BytSPerClus = 0 THEN t[a.cur] ELSE a.cur,
                                 dst |-> Append(a.dst, d[a.cur][(off + k - 1) % BytSPerClus])]
            T == {i \in Nat : \E g : g = [k \in 0..i |-> IF k = 0 THEN first ELSE Next_(g[k-1], k)]}
<1>. HIDE DEF first, Next_
<1>1. 0 \in T
  <2>. DEFINE g == [k \in 0..0 |-> first]
  <2>1. g = [k \in 0..0 |-> IF k = 0 THEN first ELSE Next_(g[k-1], k)]
    <3>1. \A k \in 0..0 : k = 0
      OBVIOUS
    <3>. QED BY <3>1
  <2>. HIDE DEF g
  <2>. QED BY <2>1
<1>2. ASSUME NEW i \in Nat, i \in T PROVE i + 1 \in T
  <2>1. PICK g : g = [k \in 0..i |-> IF k = 0 THEN first ELSE Next_(g[k-1], k)]
    BY <1>2
  <2>. DEFINE h == [k \in 0..i+1 |-> IF k <= i THEN g[k] ELSE Next_(g[k-1], k)]
  <2>2. \A k \in 0..i : h[k] = g[k] /\ k \in 0..i+1
    OBVIOUS
  <2>3. h[i + 1] = Next_(g[i], i + 1)
    OBVIOUS
  <2>4. h = [k \in 0..i+1 |-> h[k]]
    OBVIOUS
  <2>. HIDE DEF h
  <2>5. ASSUME NEW k \in 0..i+1 PROVE h[k] = IF k = 0 THEN first ELSE Next_(h[k-1], k)
    <3>1. CASE k = i + 1
      <4>1. k - 1 = i /\ i \in 0..i /\ k # 0
        BY <3>1
      <4>. QED BY <2>2, <2>3, <3>1, <4>1
    <3>2. CASE k # i + 1
      <4>1. k \in 0..i
        BY <3>2
      <4>2. g[k] = IF k = 0 THEN first ELSE Next_(g[k-1], k)
        BY <2>1, <4>1
      <4>3. k # 0 => k - 1 \in 0..i
        BY <4>1
      <4>. QED BY <2>2, <4>1, <4>2, <4>3
    <3>. QED BY <3>1, <3>2
  <2>6. h = [k \in 0..i+1 |-> IF k = 0 THEN first ELSE Next_(h[k-1], k)]
    BY <2>4, <2>5
  <2>. QED BY <2>6
<1>3. Nat \subseteq T
  <2>. HIDE DEF T
  <2>. QED BY <1>1, <1>2, Climb
<1>4. \E g : g = [k \in 0..n |-> IF k = 0 THEN first ELSE Next_(g[k-1], k)]
  BY <1>3
<1>. QED BY <1>4 DEF Reading, first, Next_

\* As many bytes as it has copied are the file's, and it stays on the chain.
Copied(q, d, f, off, n, a) ==
    /\ a.cur \in 0..EOC
    /\ q[f] # <<>> => a.cur = EOC \/ \E i \in 1..Len(q[f]) : a.cur = q[f][i]
    /\ a.dst \in Seq(Byte \cup {Zero}) /\ Len(a.dst) <= n
    /\ Len(a.dst) = n => \A j \in 1..n : a.dst[j] = At(d, q[f], off + j - 1)

LEMMA ReadingReads ==
    ASSUME NEW q, NEW t, Chains(q, t), NEW d \in DataType, NEW f \in Files, NEW c, NEW off \in Nat,
           NEW n \in Nat, NEW g, Reading(t, d, c, off, n, g),
           q[f] # <<>> => c = EOC \/ \E i \in 1..Len(q[f]) : c = q[f][i],
           c \in 0..EOC, n > 0 => off \div B < Len(q[f]) /\ c = q[f][off \div B + 1]
    PROVE  Copied(q, d, f, off, n, g[n])
<1>. DEFINE s == q[f]
            L == Len(q[f])
            OnChain(x) == x \in 0..EOC /\ (s # <<>> => x = EOC \/ \E i \in 1..L : x = s[i])
            Here_(k, x) == IF (off + k) \div B < L THEN x = s[(off + k) \div B + 1]
                           ELSE x = EOC
            Good(k) == /\ OnChain(g[k].cur)
                       /\ g[k].dst \in Seq(Byte \cup {Zero}) /\ Len(g[k].dst) <= k
                       /\ Len(g[k].dst) = k =>
                             /\ n > 0 => Here_(k, g[k].cur)
                             /\ \A j \in 1..k : g[k].dst[j] = At(d, s, off + j - 1)
            T == {k \in Nat : k <= n => Good(k)}
<1>1. /\ s \in ChainType /\ L \in Nat /\ B \in Nat \ {0}
      /\ \A i \in 1..L : s[i] \in Clusters /\ s[i] \in 0..EOC
  <2>1. s \in ChainType /\ L \in Nat
    BY DEF Chains, ChainType
  <2>2. \A i \in 1..L : s[i] \in Clusters /\ s[i] \in Entries
    BY Members
  <2>. QED BY <2>1, <2>2, Constants_
<1>2. g[0] = [cur |-> c, dst |-> <<>>]
  BY DEF Reading
<1>3. ASSUME NEW k \in 1..n
      PROVE  g[k] = IF g[k-1].cur \notin Clusters THEN g[k-1]
                    ELSE [cur |-> IF (off + k) % B = 0 THEN t[g[k-1].cur] ELSE g[k-1].cur,
                          dst |-> Append(g[k-1].dst, d[g[k-1].cur][(off + k - 1) % B])]
  <2>. DEFINE step(a, m) == IF a.cur \notin Clusters THEN a
                            ELSE [cur |-> IF (off + m) % B = 0 THEN t[a.cur] ELSE a.cur,
                                  dst |-> Append(a.dst, d[a.cur][(off + m - 1) % B])]
  <2>1. g = [m \in 0..n |-> IF m = 0 THEN [cur |-> c, dst |-> <<>>] ELSE step(g[m-1], m)]
    BY Zenon DEF Reading, B
  <2>. HIDE DEF step
  <2>2. k \in 0..n /\ k # 0
    OBVIOUS
  <2>3. g[k] = step(g[k-1], k)
    BY <2>1, <2>2
  <2>. QED BY <2>3, Zenon DEF step
<1>. HIDE DEF s, L, OnChain, Here_
<1>4. 0 \in T
  <2>1. g[0].cur = c /\ g[0].dst = <<>> /\ <<>> \in Seq(Byte \cup {Zero}) /\ Len(<<>>) = 0
    BY <1>2
  <2>2. OnChain(c)
    BY DEF OnChain, s, L
  <2>3. n > 0 => Here_(0, c)
    <3>1. off + 0 = off
      OBVIOUS
    <3>. QED BY <3>1 DEF Here_, s, L
  <2>4. OnChain(g[0].cur) /\ (n > 0 => Here_(0, g[0].cur))
    BY <2>1, <2>2, <2>3
  <2>5. g[0].dst \in Seq(Byte \cup {Zero}) /\ Len(g[0].dst) <= 0
    BY <2>1
  <2>6. Good(0)
    BY <2>4, <2>5
  <2>. HIDE DEF Good
  <2>. QED BY <2>6
<1>. HIDE DEF Good
<1>5. ASSUME NEW k \in Nat, k \in T PROVE k + 1 \in T
  <2>. SUFFICES ASSUME k + 1 <= n PROVE Good(k + 1)
    OBVIOUS
  <2>. DEFINE a == g[k]
              b == g[k + 1]
              x == off + k
  <2>1. Good(k) /\ k + 1 \in 1..n /\ (k + 1) - 1 = k /\ n > 0 /\ x \in Nat
        /\ off + (k + 1) = x + 1 /\ off + (k + 1) - 1 = x
    BY <1>5
  <2>2. b = IF a.cur \notin Clusters THEN a
            ELSE [cur |-> IF (x + 1) % B = 0 THEN t[a.cur] ELSE a.cur,
                  dst |-> Append(a.dst, d[a.cur][x % B])]
    BY <1>3, <2>1
  <2>0. /\ OnChain(a.cur) /\ a.dst \in Seq(Byte \cup {Zero}) /\ Len(a.dst) <= k
        /\ Len(a.dst) = k => Here_(k, a.cur) /\ \A j \in 1..k : a.dst[j] = At(d, s, off + j - 1)
    BY <2>1 DEF Good
  <2>. HIDE DEF a, b, x
  <2>3. /\ OnChain(a.cur) /\ a.dst \in Seq(Byte \cup {Zero}) /\ Len(a.dst) <= k /\ Len(a.dst) \in Nat
        /\ Len(a.dst) = k => Here_(k, a.cur) /\ \A j \in 1..k : a.dst[j] = At(d, s, off + j - 1)
    BY <2>0
  <2>4. CASE a.cur \notin Clusters
    <3>1. b = a /\ Len(b.dst) <= k + 1 /\ Len(b.dst) # k + 1
      BY <2>2, <2>3, <2>4
    <3>. QED BY <2>3, <3>1 DEF Good, b
  <2>5. CASE a.cur \in Clusters
    <3>. DEFINE y == d[a.cur][x % B]
    <3>1. b.cur = (IF (x + 1) % B = 0 THEN t[a.cur] ELSE a.cur) /\ b.dst = Append(a.dst, y)
      BY <2>2, <2>5
    <3>2. y \in Byte \cup {Zero}
      <4>1. x % B \in 0..B-1
        BY <1>1, <2>1, DivMod DEF x
      <4>. QED BY <2>5, <4>1 DEF DataType, Cluster
    <3>. HIDE DEF y
    <3>3. /\ b.dst \in Seq(Byte \cup {Zero}) /\ Len(b.dst) = Len(a.dst) + 1
          /\ \A j \in 1..Len(a.dst) : b.dst[j] = a.dst[j]
          /\ b.dst[Len(a.dst) + 1] = y
      BY <2>3, <3>1, <3>2
    <3>4. a.cur # EOC
      BY <2>5, Constants_
    <3>5. x \in Nat /\ x \div B \in Nat
      BY <1>1, <2>1, DivMod DEF x
    <3>6. OnChain(b.cur)
      <4>1. t[a.cur] \in 0..EOC
        <5>1. a.cur \in Entries
          BY <2>5, Constants_
        <5>2. t[a.cur] \in Entries \cup {EOC}
          BY <5>1, TableType
        <5>. QED BY <5>2, Constants_
      <4>2. CASE s = <<>>
        BY <2>3, <3>1, <4>1, <4>2 DEF OnChain
      <4>3. CASE s # <<>>
        <5>1. PICK i \in 1..L : a.cur = s[i]
          BY <2>3, <3>4, <4>3 DEF OnChain
        <5>2. t[s[i]] = EOC \/ \E j \in 1..L : t[s[i]] = s[j]
          <6>0. i \in 1..Len(q[f])
            BY DEF L
          <6>1. /\ i = Len(q[f]) => t[q[f][i]] = EOC
                /\ i # Len(q[f]) => t[q[f][i]] = q[f][i + 1] /\ i + 1 \in 1..Len(q[f])
            BY <6>0, Members
          <6>. QED BY <6>1 DEF s, L
        <5>. QED BY <2>3, <3>1, <4>1, <5>1, <5>2 DEF OnChain
      <4>. QED BY <4>2, <4>3
    <3>7. ASSUME Len(b.dst) = k + 1
          PROVE  Here_(k + 1, b.cur) /\ \A j \in 1..k+1 : b.dst[j] = At(d, s, off + j - 1)
      <4>1. Len(a.dst) = k
        BY <2>3, <3>3, <3>7
      <4>2. x \div B < L /\ a.cur = s[x \div B + 1]
        BY <2>3, <3>4, <4>1 DEF Here_, x
      <4>3. x \div B + 1 \in 1..L
        BY <1>1, <3>5, <4>2, SMTT(30)
      <4>4. y = At(d, s, x)
        <5>1. At(d, s, x) = d[s[x \div B + 1]][x % B]
          BY <4>2 DEF At, L, s
        <5>2. y = d[s[x \div B + 1]][x % B]
          BY <4>2 DEF y
        <5>. QED BY <5>1, <5>2
      <4>5. ASSUME NEW j \in 1..k+1 PROVE b.dst[j] = At(d, s, off + j - 1)
        <5>1. CASE j = k + 1
          <6>1. off + j - 1 = x
            BY <5>1 DEF x
          <6>. QED BY <3>3, <4>1, <4>4, <5>1, <6>1
        <5>2. CASE j # k + 1
          <6>1. j \in 1..k
            BY <5>2
          <6>. QED BY <2>3, <3>3, <4>1, <6>1
        <5>. QED BY <5>1, <5>2
      <4>6. Here_(k + 1, b.cur)
        <5>1. off + (k + 1) = x + 1
          BY DEF x
        <5>2. CASE (x + 1) % B # 0
          <6>1. (x + 1) \div B = x \div B /\ b.cur = a.cur
            BY <3>1, <3>5, <5>2, DivNext
          <6>. QED BY <4>2, <5>1, <6>1 DEF Here_
        <5>3. CASE (x + 1) % B = 0
          <6>1. (x + 1) \div B = x \div B + 1 /\ b.cur = t[s[x \div B + 1]]
            BY <3>1, <3>5, <4>2, <5>3, DivNext
          <6>2. CASE x \div B + 1 = L
            <7>1. b.cur = EOC
              BY <4>3, <6>1, <6>2, Members DEF s, L
            <7>2. ~((x + 1) \div B < L)
              BY <1>1, <6>1, <6>2
            <7>. QED BY <5>1, <7>1, <7>2 DEF Here_
          <6>3. CASE x \div B + 1 # L
            <7>1. b.cur = s[(x \div B + 1) + 1]
              BY <4>3, <6>1, <6>3, Members DEF s, L
            <7>2. (x + 1) \div B < L
              BY <1>1, <3>5, <4>3, <6>1, <6>3
            <7>. QED BY <5>1, <6>1, <7>1, <7>2 DEF Here_
          <6>. QED BY <6>2, <6>3
        <5>. QED BY <5>2, <5>3
      <4>. QED BY <4>5, <4>6
    <3>8. Len(b.dst) <= k + 1
      BY <2>3, <3>3
    <3>. QED BY <3>3, <3>6, <3>7, <3>8 DEF Good, b
  <2>. QED BY <2>4, <2>5
<1>6. n \in T
  <2>1. Nat \subseteq T
    <3>. HIDE DEF T
    <3>. QED BY <1>4, <1>5, Climb
  <2>. QED BY <2>1
<1>7. Good(n)
  BY <1>6
<1>. QED BY <1>7 DEF Good, OnChain, s, L, Copied

-----------------------------------------------------------------------------
(* From calls to the files.                                                *)

LEMMA StayFits ==
    ASSUME NEW q, NEW f \in Files, NEW s, Fits(q, f, s)
    PROVE  Grown(q, f, s, q[f], s)
<1>1. [q EXCEPT ![f] = q[f]] = q /\ q[f] \in ChainType /\ Len(q[f]) \in Nat
  BY DEF Fits, ChainType
<1>2. \A i \in 1..Len(q[f]) : ~(i > Len(q[f]))
  BY <1>1
<1>3. /\ s \in SessionType /\ ~s.stop /\ Chains(q, s.fat) /\ Says(s.e, q[f])
  BY DEF Fits
<1>. QED BY <1>1, <1>2, <1>3 DEF Grown

LEMMA SessionFits ==
    ASSUME NEW q, Exact(q), NEW f \in Files
    PROVE  /\ Fits(q, f, Session(f)) /\ q \in [Files -> ChainType]
           /\ Session(f).fat = fat /\ Session(f).data = data /\ Session(f).e = ent[f]
<1>1. Session(f).fat = fat /\ Session(f).data = data /\ Session(f).e = ent[f] /\ Session(f).stop = FALSE
  BY DEF Session
<1>2. fat \in [Entries -> 0..EOC] /\ data \in DataType /\ ent[f] \in EntryType
      /\ q \in [Files -> ChainType] /\ Chains(q, fat) /\ Says(ent[f], q[f])
  BY DEF Exact, Chains, Says
<1>3. Session(f) \in SessionType
  BY <1>2 DEF Session, SessionType
<1>. QED BY <1>1, <1>2, <1>3 DEF Fits

\* What is in the chains p and was not in the chains q was free.
Fresh(q, p) ==
    \A g \in Files : \A i \in 1..Len(p[g]) :
        fat[p[g][i]] = 0 \/ \E j \in 1..Len(q[g]) : q[g][j] = p[g][i]

LEMMA FreshSelf == ASSUME NEW q PROVE Fresh(q, q)
BY DEF Fresh

LEMMA SessionEnds ==
    ASSUME NEW q, Exact(q), NEW f \in Files, NEW r, NEW z, Grown(q, f, Session(f), r, z),
           fat' = z.fat, data' \in DataType, ent' = [ent EXCEPT ![f] = z.e]
    PROVE  Exact([q EXCEPT ![f] = r])' /\ Fresh(q, [q EXCEPT ![f] = r])
<1>. DEFINE p == [q EXCEPT ![f] = r]
<1>1. /\ q \in [Files -> ChainType] /\ DOMAIN ent = Files /\ \A g \in Files : Says(ent[g], q[g])
      /\ Session(f).fat = fat /\ r \in ChainType
  BY SessionFits DEF Exact, Grown
<1>2. p[f] = r /\ \A g \in Files \ {f} : p[g] = q[g]
  BY <1>1
<1>3. Chains(p, z.fat) /\ Says(z.e, r)
  BY DEF Grown
<1>. HIDE DEF p
<1>4. DOMAIN ent' = Files /\ \A g \in Files : ent'[g] = IF g = f THEN z.e ELSE ent[g]
  BY <1>1
<1>5. \A g \in Files : Says(ent'[g], p[g])
  BY <1>1, <1>2, <1>3, <1>4
<1>6. Chains(p, fat')
  BY <1>3
<1>7. Exact(p)'
  BY <1>4, <1>5, <1>6 DEF Exact, p
<1>8. Fresh(q, p)
  <2>1. ASSUME NEW i \in 1..Len(r) PROVE fat[r[i]] = 0 \/ \E j \in 1..Len(q[f]) : q[f][j] = r[i]
    <3>1. CASE i > Len(q[f])
      BY <1>1, <3>1 DEF Grown
    <3>2. CASE ~(i > Len(q[f]))
      <4>1. Len(q[f]) \in Nat
        BY <1>1 DEF ChainType
      <4>2. i \in 1..Len(q[f])
        BY <3>2, <4>1
      <4>3. r[i] = q[f][i]
        BY <4>2 DEF Grown
      <4>. QED BY <4>2, <4>3
    <3>. QED BY <3>1, <3>2
  <2>. QED BY <1>2, <2>1, SMTT(30) DEF Fresh
<1>. QED BY <1>7, <1>8 DEF p

\* The first n bytes of a file with the chain s.
Bytes(d, s, n) == [k \in 1..n |-> At(d, s, k - 1)]

LEMMA BytesSeq ==
    ASSUME NEW d \in DataType, NEW s \in ChainType, NEW n \in Nat
    PROVE  /\ Bytes(d, s, n) \in Seq(Byte \cup {Zero}) /\ Len(Bytes(d, s, n)) = n
           /\ \A k \in 1..n : Bytes(d, s, n)[k] = At(d, s, k - 1)
<1>1. \A k \in 1..n : At(d, s, k - 1) \in Byte \cup {Zero}
  <2>. SUFFICES ASSUME NEW k \in 1..n PROVE At(d, s, k - 1) \in Byte \cup {Zero}
    OBVIOUS
  <2>1. k - 1 \in Nat
    OBVIOUS
  <2>. QED BY <2>1, AtType
<1>2. Bytes(d, s, n) \in [1..n -> Byte \cup {Zero}]
  BY <1>1 DEF Bytes
<1>3. Bytes(d, s, n) \in Seq(Byte \cup {Zero}) /\ DOMAIN Bytes(d, s, n) = 1..n
  BY <1>2
<1>4. Len(Bytes(d, s, n)) = n
  BY <1>3
<1>. QED BY <1>3, <1>4 DEF Bytes

\* What the model reads off the FAT is what the chain says.
LEMMA AtIs ==
    ASSUME NEW q, NEW t, Chains(q, t), NEW d, NEW f \in Files, NEW e, Says(e, q[f]), NEW k \in Nat
    PROVE  (IF k \div BytSPerClus < e.cnt
              THEN d[NthFrom(t, e.first, k \div BytSPerClus + 1)][k % BytSPerClus] ELSE Zero)
           = At(d, q[f], k)
<1>1. k \div B \in Nat /\ e.cnt = Len(q[f]) /\ Len(q[f]) \in Nat
  <2>1. k \div B \in Nat
    BY Constants_, DivMod
  <2>2. Len(q[f]) \in Nat
    BY DEF Chains, ChainType
  <2>. QED BY <2>1, <2>2 DEF Says
<1>2. ASSUME k \div B < Len(q[f]) PROVE NthFrom(t, e.first, k \div B + 1) = q[f][k \div B + 1]
  <2>1. k \div B + 1 \in 1..Len(q[f]) /\ q[f] # <<>>
    BY <1>1, <1>2
  <2>2. e.first = q[f][1]
    BY <2>1 DEF Says
  <2>. QED BY <2>1, <2>2, ChainNth
<1>. QED BY <1>1, <1>2 DEF At, B

LEMMA LengthIs ==
    ASSUME NEW q, Exact(q), Contents(q), NEW f \in Files
    PROVE  Length(f) \in Nat
<1>1. ent[f].size \in Nat /\ busy[f].off \in Nat
  BY DEF Exact, Says, EntryType, Contents, Calling, BusyType
<1>. QED BY <1>1 DEF Length

LEMMA ContentIs ==
    ASSUME NEW q, Exact(q), Contents(q), NEW f \in Files
    PROVE  BytesOf(f) = Bytes(data, q[f], Length(f)) /\ Length(f) \in Nat
<1>1. Length(f) \in Nat /\ Chains(q, fat) /\ Says(ent[f], q[f])
  BY LengthIs DEF Exact
<1>2. \A k \in 1..Length(f) : ByteAt(f, k - 1) = At(data, q[f], k - 1)
  <2>. SUFFICES ASSUME NEW k \in 1..Length(f) PROVE ByteAt(f, k - 1) = At(data, q[f], k - 1)
    OBVIOUS
  <2>. DEFINE m == k - 1
  <2>1. m \in Nat
    BY <1>1
  <2>. HIDE DEF m
  <2>2. ByteAt(f, m) = At(data, q[f], m)
    BY <1>1, <2>1, AtIs DEF ByteAt
  <2>. QED BY <2>2 DEF m
<1>. QED BY <1>1, <1>2 DEF BytesOf, Bytes

\* The same after the step.
LEMMA ContentNext ==
    ASSUME NEW q, Exact(q)', NEW f \in Files, Length(f)' \in Nat
    PROVE  BytesOf(f)' = Bytes(data', q[f], Length(f)')
<1>1. Chains(q, fat') /\ Says(ent'[f], q[f])
  BY DEF Exact
<1>2. \A k \in 1..Length(f)' : ByteAt(f, k - 1)' = At(data', q[f], k - 1)
  <2>. SUFFICES ASSUME NEW k \in 1..Length(f)' PROVE ByteAt(f, k - 1)' = At(data', q[f], k - 1)
    OBVIOUS
  <2>. DEFINE m == k - 1
  <2>1. m \in Nat
    OBVIOUS
  <2>. HIDE DEF m
  <2>2. ByteAt(f, m)' = At(data', q[f], m)
    BY <1>1, <2>1, AtIs DEF ByteAt
  <2>. QED BY <2>2 DEF m
<1>. QED BY <1>2 DEF BytesOf, Bytes

-----------------------------------------------------------------------------
(* The steps of byte files.                                                *)

Content_ == [f \in Files |-> BytesOf(f)]
Positions == [o \in Opens |-> Position(o)]
Mapped == <<Content_, Positions, reply>>

LEMMA AbsStutter ==
    ASSUME \A g \in Files : BytesOf(g)' = BytesOf(g),
           \A x \in Opens : Position(x)' = Position(x), reply' = reply
    PROVE  [Promise!Next]_Mapped
<1>1. Content_' = Content_
  BY DEF Content_
<1>2. Positions' = Positions
  BY DEF Positions
<1>. QED BY <1>1, <1>2 DEF Mapped

LEMMA AbsWrite ==
    ASSUME NEW o \in Opens, NEW n \in 0..MaxCall, NEW s \in [1..n -> Byte], NEW f \in Files,
           FileOf[o] = f,
           \A g \in Files \ {f} : BytesOf(g)' = BytesOf(g),
           BytesOf(f)' = Promise!Patched(BytesOf(f), Position(o), s),
           \A x \in Opens \ {o} : Position(x)' = Position(x),
           Position(o)' = Position(o) + n, reply' \in {reply, <<>>}
    PROVE  [Promise!Next]_Mapped
<1>1. Content_[f] = BytesOf(f) /\ Positions[o] = Position(o)
  BY DEF Content_, Positions
<1>2. Content_' = [Content_ EXCEPT ![f] = Promise!Patched(Content_[f], Positions[o], s)]
  <2>1. Content_' = [g \in Files |-> BytesOf(g)']
    BY DEF Content_
  <2>2. Content_ = [g \in Files |-> BytesOf(g)]
    BY DEF Content_
  <2>. QED BY <1>1, <2>1, <2>2
<1>3. Positions' = [Positions EXCEPT ![o] = Positions[o] + n]
  <2>1. Positions' = [x \in Opens |-> Position(x)']
    BY DEF Positions
  <2>2. Positions = [x \in Opens |-> Position(x)]
    BY DEF Positions
  <2>. QED BY <1>1, <2>1, <2>2
<1>4. Promise!Write(o)
  BY <1>2, <1>3 DEF Promise!Write, Content_, Positions
<1>. QED BY <1>4 DEF Promise!Next

LEMMA AbsRead ==
    ASSUME NEW o \in Opens, NEW f \in Files, FileOf[o] = f,
           NEW k \in Position(o)..Len(BytesOf(f)),
           \A g \in Files : BytesOf(g)' = BytesOf(g),
           \A x \in Opens \ {o} : Position(x)' = Position(x),
           Position(o)' = k, reply' = SubSeq(BytesOf(f), Position(o) + 1, k)
    PROVE  [Promise!Next]_Mapped
<1>1. Content_[f] = BytesOf(f) /\ Positions[o] = Position(o)
  BY DEF Content_, Positions
<1>2. Content_' = Content_
  BY DEF Content_
<1>3. Positions' = [Positions EXCEPT ![o] = k]
  <2>1. Positions' = [x \in Opens |-> Position(x)']
    BY DEF Positions
  <2>2. Positions = [x \in Opens |-> Position(x)]
    BY DEF Positions
  <2>. QED BY <2>1, <2>2
<1>4. Promise!Read(o)
  BY <1>1, <1>2, <1>3 DEF Promise!Read, Promise!Here, Content_, Positions
<1>. QED BY <1>4 DEF Promise!Next

LEMMA AbsOpen ==
    ASSUME NEW o \in Opens, NEW f \in Files, FileOf[o] = f,
           \A g \in Files \ {f} : BytesOf(g)' = BytesOf(g),
           BytesOf(f)' \in {BytesOf(f), <<>>},
           \A x \in Opens \ {o} : Position(x)' = Position(x),
           Position(o)' \in {0, Len(BytesOf(f)')}, reply' = <<>>
    PROVE  [Promise!Next]_Mapped
<1>1. Content_[f] = BytesOf(f)
  BY DEF Content_
<1>. DEFINE c == BytesOf(f)'
            p == Position(o)'
<1>2. Content_' = [Content_ EXCEPT ![f] = c]
  <2>1. Content_' = [g \in Files |-> BytesOf(g)']
    BY DEF Content_
  <2>2. Content_ = [g \in Files |-> BytesOf(g)]
    BY DEF Content_
  <2>. QED BY <2>1, <2>2
<1>3. Positions' = [Positions EXCEPT ![o] = p]
  <2>1. Positions' = [x \in Opens |-> Position(x)']
    BY DEF Positions
  <2>2. Positions = [x \in Opens |-> Position(x)]
    BY DEF Positions
  <2>. QED BY <2>1, <2>2
<1>4. c \in {Content_[f], <<>>} /\ p \in {0, Len(c)}
  BY <1>1
<1>. HIDE DEF c, p
<1>5. Promise!Open(o)
  BY <1>2, <1>3, <1>4 DEF Promise!Open, Promise!Here, Content_, Positions
<1>. QED BY <1>5 DEF Promise!Next

\* Contents after a step that changes no content and no length.
LEMMA SameBytes ==
    ASSUME NEW q, NEW p, Exact(q), Contents(q), Exact(p)', NEW g \in Files,
           Length(g)' = Length(g), \A k \in Nat : At(data', p[g], k) = At(data, q[g], k)
    PROVE  BytesOf(g)' = BytesOf(g)
<1>1. BytesOf(g) = Bytes(data, q[g], Length(g)) /\ Length(g) \in Nat
  BY ContentIs
<1>2. BytesOf(g)' = Bytes(data', p[g], Length(g)')
  BY <1>1, ContentNext
<1>3. \A k \in 1..Length(g) : k - 1 \in Nat
  BY <1>1
<1>. QED BY <1>1, <1>2, <1>3 DEF Bytes

\* One that writes the n bytes of s at x, or only makes the file longer.
Patches(q, p, f, x, n, s) ==
    /\ Length(f)' = IF Length(f) > x + n THEN Length(f) ELSE x + n
    /\ \A k \in Nat : At(data', p[f], k) = IF k \in x..x+n-1 THEN s[k - x + 1]
                                           ELSE At(data, q[f], k)

LEMMA PatchedBytes ==
    ASSUME NEW q, NEW p, Exact(q), Contents(q), Exact(p)', NEW f \in Files,
           NEW x \in Nat, NEW n \in Nat, NEW s \in [1..n -> Byte], Patches(q, p, f, x, n, s)
    PROVE  BytesOf(f)' = Promise!Patched(BytesOf(f), x, s)
<1>0. /\ Length(f)' = IF Length(f) > x + n THEN Length(f) ELSE x + n
      /\ \A k \in Nat : At(data', p[f], k) = IF k \in x..x+n-1 THEN s[k - x + 1]
                                             ELSE At(data, q[f], k)
  BY DEF Patches
<1>. DEFINE l == Length(f)
            m == Length(f)'
            c == BytesOf(f)
<1>1. c = Bytes(data, q[f], l) /\ l \in Nat /\ data \in DataType /\ q[f] \in ChainType
  BY ContentIs DEF Exact, Chains
<1>2. Len(c) = l /\ \A k \in 1..l : c[k] = At(data, q[f], k - 1)
  <2>. HIDE DEF l, c
  <2>. QED BY <1>1, BytesSeq
<1>3. m \in Nat /\ m = IF l > x + n THEN l ELSE x + n
  BY <1>0, <1>1
<1>4. BytesOf(f)' = Bytes(data', p[f], m)
  BY <1>3, ContentNext
<1>5. Len(s) = n
  OBVIOUS
<1>. HIDE DEF l, m, c
<1>6. ASSUME NEW k \in 1..m
      PROVE  At(data', p[f], k - 1) = IF k \in x+1..x+Len(s) THEN s[k - x]
                                      ELSE IF k <= Len(c) THEN c[k] ELSE Zero
  <2>. DEFINE y == k - 1
  <2>1. y \in Nat /\ (y \in x..x+n-1 <=> k \in x+1..x+n) /\ y - x + 1 = k - x
    BY <1>3
  <2>. HIDE DEF y
  <2>2. At(data', p[f], y) = IF k \in x+1..x+n THEN s[k - x] ELSE At(data, q[f], y)
    BY <1>0, <2>1
  <2>3. k <= l => c[k] = At(data, q[f], y)
    <3>1. k <= l => k \in 1..l
      BY <1>1, <1>3
    <3>. QED BY <1>2, <3>1 DEF y
  <2>4. ~(k <= l) => At(data, q[f], y) = Zero
    <3>1. ~(k <= l) => y >= Length(f)
      BY <1>1, <1>3 DEF y, l
    <3>. QED BY <2>1, <3>1 DEF Contents, Empty
  <2>. QED BY <1>2, <1>5, <2>2, <2>3, <2>4 DEF y
<1>7. Promise!Patched(c, x, s) =
        [k \in 1..m |-> IF k \in x+1..x+Len(s) THEN s[k - x] ELSE IF k <= Len(c) THEN c[k] ELSE Zero]
  BY <1>2, <1>3, <1>5 DEF Promise!Patched
<1>. QED BY <1>4, <1>6, <1>7 DEF Bytes, c

-----------------------------------------------------------------------------
(* One lemma for each action.                                              *)

Onward(q) == \E p \in [Files -> ChainType] : Exact(p)' /\ Contents(p)' /\ Fresh(q, p)

LEMMA StopStep ==
    ASSUME NEW q, Exact(q), Contents(q), UNCHANGED <<fat, data, ent, pos, busy, reply>>
    PROVE  Onward(q) /\ [Promise!Next]_Mapped
<1>1. Exact(q)'
  BY DEF Exact
<1>2. \A g \in Files : Length(g)' = Length(g)
  BY DEF Length, Started
<1>3. Contents(q)'
  BY <1>2 DEF Contents, Calling, Empty
<1>4. \A g \in Files : BytesOf(g)' = BytesOf(g)
  BY <1>1, <1>2, SameBytes
<1>5. \A x \in Opens : Position(x)' = Position(x)
  BY DEF Position
<1>6. [Promise!Next]_Mapped
  BY <1>4, <1>5, AbsStutter
<1>7. q \in [Files -> ChainType]
  BY DEF Exact, Chains
<1>. QED BY <1>1, <1>3, <1>6, <1>7, FreshSelf DEF Onward

\* etrunc() frees the clusters of one file.
LEMMA TruncKeepsChains ==
    ASSUME NEW q, NEW t, Chains(q, t), NEW f \in Files, NEW u,
           u = [c \in Entries |-> IF c \in {q[f][i] : i \in 1..Len(q[f])} THEN 0 ELSE t[c]]
    PROVE  Chains([q EXCEPT ![f] = <<>>], u)
<1>. DEFINE p == [q EXCEPT ![f] = <<>>]
            gone == {q[f][i] : i \in 1..Len(q[f])}
<1>1. /\ q \in [Files -> ChainType] /\ t \in [Entries -> 0..EOC] /\ Apart(q)
      /\ \A c \in Fixed : t[c] = EOC
  BY DEF Chains
<1>2. p \in [Files -> ChainType] /\ p[f] = <<>> /\ \A g \in Files \ {f} : p[g] = q[g]
  BY <1>1 DEF ChainType
<1>. HIDE DEF p
<1>3. \A c \in Entries : u[c] = IF c \in gone THEN 0 ELSE t[c]
  OBVIOUS
<1>4. \A c \in gone : c \notin Fixed
  BY Members
<1>5. ASSUME NEW g \in Files \ {f}, NEW i \in 1..Len(q[g]) PROVE q[g][i] \notin gone
  BY <1>1 DEF Apart
<1>6. \A g \in Files : 1..Len(p[g]) = (IF g = f THEN {} ELSE 1..Len(q[g]))
  <2>1. Len(<<>>) = 0 /\ 1..0 = {}
    OBVIOUS
  <2>. QED BY <1>2, <2>1
<1>. HIDE DEF gone
<1>7. u \in [Entries -> 0..EOC]
  <2>1. 0 \in 0..EOC
    BY Constants_
  <2>. QED BY <1>1, <2>1 DEF gone
<1>8. Apart(p)
  BY <1>1, <1>2, <1>6 DEF Apart
<1>9. \A c \in Fixed : u[c] = EOC
  BY <1>1, <1>3, <1>4, Constants_
<1>10. ASSUME NEW g \in Files, NEW i \in 1..Len(p[g]) PROVE u[p[g][i]] = After(p[g], i)
  <2>1. g # f /\ p[g] = q[g] /\ i \in 1..Len(q[g])
    BY <1>2, <1>6
  <2>2. q[g][i] \in Entries
    BY <2>1, Members
  <2>3. u[q[g][i]] = t[q[g][i]]
    BY <1>3, <1>5, <2>1, <2>2
  <2>. QED BY <2>1, <2>3 DEF Chains
<1>11. ASSUME NEW c \in Entries \ Fixed, u[c] # 0 PROVE In(p, c)
  <2>1. c \notin gone /\ t[c] # 0
    BY <1>3, <1>11
  <2>2. PICK g \in Files : \E i \in 1..Len(q[g]) : q[g][i] = c
    BY <2>1, InUse
  <2>3. g # f
    BY <2>1, <2>2 DEF gone
  <2>. QED BY <1>2, <2>2, <2>3 DEF In
<1>. QED BY <1>2, <1>7, <1>8, <1>9, <1>10, <1>11 DEF Chains, p

LEMMA Truncates ==
    ASSUME NEW q, Exact(q), NEW f \in Files, UNCHANGED data,
           LET chain == Chain(f) IN fat' = [c \in Entries |-> IF c \in chain THEN 0 ELSE fat[c]],
           ent' = [ent EXCEPT ![f] = Truncated(@)]
    PROVE  /\ Exact([q EXCEPT ![f] = <<>>])' /\ Fresh(q, [q EXCEPT ![f] = <<>>])
           /\ ent'[f].size = 0 /\ \A g \in Files \ {f} : ent'[g] = ent[g]
<1>. DEFINE p == [q EXCEPT ![f] = <<>>]
            e == Truncated(ent[f])
<1>1. /\ q \in [Files -> ChainType] /\ DOMAIN ent = Files /\ Chains(q, fat)
      /\ \A g \in Files : Says(ent[g], q[g])
  BY DEF Exact, Chains
<1>2. p[f] = <<>> /\ \A g \in Files \ {f} : p[g] = q[g]
  BY <1>1
<1>3. Chain(f) = {q[f][i] : i \in 1..Len(q[f])}
  BY <1>1, ChainIs
<1>4. Chains(p, fat')
  <2>1. fat' = [c \in Entries |-> IF c \in {q[f][i] : i \in 1..Len(q[f])} THEN 0 ELSE fat[c]]
    BY <1>3
  <2>. HIDE DEF p
  <2>. QED BY <1>1, <2>1, TruncKeepsChains DEF p
<1>5. Says(e, <<>>) /\ e.size = 0
  <2>1. ent[f] \in EntryType
    BY <1>1 DEF Says
  <2>2. e \in EntryType /\ e.cnt = 0 /\ e.first = 0 /\ e.size = 0 /\ Len(<<>>) = 0
    BY <2>1 DEF Truncated, EntryType
  <2>. QED BY <2>2 DEF Says
<1>6. DOMAIN ent' = Files /\ ent'[f] = e /\ \A g \in Files \ {f} : ent'[g] = ent[g]
  BY <1>1
<1>. HIDE DEF p, e
<1>7. \A g \in Files : Says(ent'[g], p[g])
  BY <1>1, <1>2, <1>5, <1>6
<1>8. Exact(p)'
  BY <1>4, <1>6, <1>7 DEF Exact
<1>9. Fresh(q, p)
  <2>1. Len(<<>>) = 0 /\ 1..0 = {}
    OBVIOUS
  <2>. QED BY <1>2, <2>1 DEF Fresh
<1>. QED BY <1>5, <1>6, <1>8, <1>9 DEF p

\* Outside of a write the length is that of the entry.
LEMMA IdleLength == ASSUME NEW f \in Files, busy[f] = NoWrite PROVE Length(f) = ent[f].size
BY DEF NoWrite, Length, Started

LEMMA IdleLengthNext ==
    ASSUME NEW f \in Files, busy'[f] = NoWrite PROVE Length(f)' = ent'[f].size
BY DEF NoWrite, Length, Started

\* A step on one file does not change the length of another, nor its call.
LEMMA OtherLength ==
    ASSUME NEW q, Contents(q), NEW f \in Files, NEW g \in Files, g # f,
           ent'[g] = ent[g], busy'[g] = busy[g],
           \A x \in Opens : FileOf[x] # f => pos'[x] = pos[x]
    PROVE  Length(g)' = Length(g) /\ Calling(g)'
<1>1. Calling(g)
  BY DEF Contents
<1>2. busy[g].open # Idle => busy[g].open \in Opens /\ FileOf[busy[g].open] = g
  BY <1>1 DEF Calling, BusyType
<1>3. busy[g].open # Idle => pos'[busy[g].open] = pos[busy[g].open]
  BY <1>2
<1>. QED BY <1>1, <1>3 DEF Length, Started, Calling

\* How the chains and the contents of the other files fare is the same for every
\* step on the file f: they do not.
LEMMA OthersStay ==
    ASSUME NEW q, NEW p, Exact(q), Contents(q), Exact(p)', NEW f \in Files, NEW g \in Files, g # f,
           ent'[g] = ent[g], busy'[g] = busy[g],
           \A x \in Opens : FileOf[x] # f => pos'[x] = pos[x],
           \A k \in Nat : At(data', p[g], k) = At(data, q[g], k)
    PROVE  (Calling(g) /\ Empty(p, g))' /\ BytesOf(g)' = BytesOf(g)
<1>1. Length(g)' = Length(g) /\ Calling(g)'
  BY OtherLength
<1>2. Empty(p, g)'
  BY <1>1 DEF Empty, Contents
<1>3. BytesOf(g)' = BytesOf(g)
  BY <1>1, SameBytes
<1>. QED BY <1>1, <1>2, <1>3

\* An open on another file stays where it is.
LEMMA OtherPosition ==
    ASSUME NEW f \in Files, NEW x \in Opens, FileOf[x] # f, pos'[x] = pos[x],
           \A g \in Files \ {f} : busy'[g] = busy[g]
    PROVE  Position(x)' = Position(x)
<1>1. FileOf[x] \in Files \ {f}
  BY FileAssumption
<1>2. busy'[FileOf[x]] = busy[FileOf[x]]
  BY <1>1
<1>. QED BY <1>2 DEF Position

LEMMA IdlePosition == ASSUME NEW x \in Opens, busy[FileOf[x]] = NoWrite PROVE Position(x) = pos[x]
BY FileAssumption DEF NoWrite, Position

LEMMA IdlePositionNext ==
    ASSUME NEW x \in Opens, busy'[FileOf[x]] = NoWrite PROVE Position(x)' = pos'[x]
BY FileAssumption DEF NoWrite, Position

LEMMA IdleCalling == ASSUME NEW f \in Files, busy'[f] = NoWrite PROVE Calling(f)'
<1>1. NoWrite \in BusyType /\ Len(NoWrite.rest) = 0 /\ NoWrite.open = Idle
  BY DEF NoWrite, BusyType
<1>2. 0 <= MaxCall
  BY Constants_
<1>. QED BY <1>1, <1>2 DEF Calling

LEMMA OpenStep ==
    ASSUME NEW q, Exact(q), Contents(q), NEW o \in Opens, Open(o)
    PROVE  Onward(q) /\ [Promise!Next]_Mapped
<1>. DEFINE f == FileOf[o]
<1>1. /\ f \in Files /\ busy[f] = NoWrite /\ reply' = <<>>
      /\ UNCHANGED <<data, busy, stopped>>
      /\ \E p \in {0, ent'[f].size} : pos' = [pos EXCEPT ![o] = p]
  BY FileAssumption DEF Open
<1>2. \/ /\ LET chain == Chain(f) IN fat' = [c \in Entries |-> IF c \in chain THEN 0 ELSE fat[c]]
         /\ ent' = [ent EXCEPT ![f] = Truncated(@)]
      \/ UNCHANGED <<fat, ent>>
  BY DEF Open
<1>3. FileOf[o] = f
  OBVIOUS
<1>. HIDE DEF f
<1>4. q \in [Files -> ChainType] /\ pos \in [Opens -> Nat] /\ DOMAIN busy = Files
  BY DEF Exact, Chains, Contents
<1>5. PICK w \in {0, ent'[f].size} : pos' = [pos EXCEPT ![o] = w]
  BY <1>1
<1>6. pos'[o] = w /\ \A x \in Opens \ {o} : pos'[x] = pos[x]
  BY <1>4, <1>5
<1>7. \A x \in Opens : FileOf[x] # f => pos'[x] = pos[x]
  BY <1>3, <1>6
<1>8. ASSUME NEW p \in [Files -> ChainType], Exact(p)', Fresh(q, p), ent'[f].size \in Nat,
             \A g \in Files \ {f} : ent'[g] = ent[g] /\ p[g] = q[g],
             \A k \in Nat : k >= ent'[f].size => At(data', p[f], k) = Zero,
             BytesOf(f)' \in {BytesOf(f), <<>>}, Len(BytesOf(f)') = ent'[f].size
      PROVE  Onward(q) /\ [Promise!Next]_Mapped
  <2>1. ASSUME NEW g \in Files, g # f
        PROVE  (Calling(g) /\ Empty(p, g))' /\ BytesOf(g)' = BytesOf(g)
    <3>1. p[g] = q[g] /\ ent'[g] = ent[g] /\ busy'[g] = busy[g] /\ data' = data
      BY <1>1, <1>8, <2>1
    <3>2. \A k \in Nat : At(data', p[g], k) = At(data, q[g], k)
      BY <3>1
    <3>3. Exact(p)'
      BY <1>8
    <3>. QED BY <1>1, <1>7, <2>1, <3>1, <3>2, <3>3, OthersStay
  <2>2. (Calling(f) /\ Empty(p, f))'
    <3>1. Calling(f)' /\ Length(f)' = ent'[f].size
      BY <1>1, IdleCalling, IdleLengthNext
    <3>. QED BY <1>8, <3>1 DEF Empty
  <2>3. pos' \in [Opens -> Nat] /\ reply' \in Seq(Byte \cup {Zero}) /\ DOMAIN busy' = Files
    <3>1. w \in Nat
      BY <1>5, <1>8
    <3>. QED BY <1>1, <1>4, <1>5, <3>1
  <2>4. Contents(p)'
    BY <2>1, <2>2, <2>3 DEF Contents
  <2>5. \A x \in Opens \ {o} : Position(x)' = Position(x)
    <3>. SUFFICES ASSUME NEW x \in Opens \ {o} PROVE Position(x)' = Position(x)
      OBVIOUS
    <3>. QED BY <1>1, <1>6 DEF Position
  <2>6. Position(o)' \in {0, Len(BytesOf(f)')}
    <3>1. busy'[FileOf[o]] = NoWrite
      BY <1>1, <1>3
    <3>2. Position(o)' = w
      BY <1>6, <3>1, IdlePositionNext
    <3>. QED BY <1>5, <1>8, <3>2
  <2>7. [Promise!Next]_Mapped
    BY <1>1, <1>3, <1>8, <2>1, <2>5, <2>6, AbsOpen
  <2>. QED BY <1>8, <2>4, <2>7 DEF Onward
<1>9. CASE /\ LET chain == Chain(f) IN fat' = [c \in Entries |-> IF c \in chain THEN 0 ELSE fat[c]]
           /\ ent' = [ent EXCEPT ![f] = Truncated(@)]
  <2>. DEFINE p == [q EXCEPT ![f] = <<>>]
  <2>1. /\ Exact(p)' /\ Fresh(q, p) /\ ent'[f].size = 0
        /\ \A g \in Files \ {f} : ent'[g] = ent[g]
    BY <1>1, <1>9, Truncates
  <2>2. p \in [Files -> ChainType] /\ p[f] = <<>> /\ \A g \in Files \ {f} : p[g] = q[g]
    BY <1>1, <1>4 DEF ChainType
  <2>. HIDE DEF p
  <2>3. \A k \in Nat : At(data', <<>>, k) = Zero
    <3>1. Len(<<>>) = 0 /\ \A k \in Nat : k \div B \in Nat
      BY Constants_, DivMod
    <3>. QED BY <3>1 DEF At
  <2>4. BytesOf(f)' = <<>>
    <3>1. Length(f)' = 0
      BY <1>1, <2>1, IdleLengthNext
    <3>2. BytesOf(f)' = Bytes(data', p[f], 0)
      BY <1>1, <2>1, <3>1, ContentNext
    <3>3. 1..0 = {}
      OBVIOUS
    <3>. QED BY <3>2, <3>3 DEF Bytes
  <2>5. Len(BytesOf(f)') = ent'[f].size
    BY <2>1, <2>4
  <2>. QED BY <1>8, <2>1, <2>2, <2>3, <2>4, <2>5
<1>10. CASE UNCHANGED <<fat, ent>>
  <2>1. Exact(q)'
    BY <1>1, <1>10 DEF Exact
  <2>2. Length(f) = ent[f].size /\ Length(f)' = ent[f].size
    BY <1>1, <1>10, IdleLength, IdleLengthNext
  <2>3. BytesOf(f) = Bytes(data, q[f], Length(f)) /\ Length(f) \in Nat
    BY <1>1, ContentIs
  <2>4. BytesOf(f)' = BytesOf(f)
    BY <1>1, <2>1, <2>2, SameBytes
  <2>5. Len(BytesOf(f)) = ent[f].size
    <3>1. data \in DataType /\ q[f] \in ChainType
      BY <1>1, <1>4 DEF Exact
    <3>. QED BY <2>2, <2>3, <3>1, BytesSeq
  <2>6. \A k \in Nat : k >= ent[f].size => At(data, q[f], k) = Zero
    BY <1>1, <2>2 DEF Contents, Empty
  <2>. QED BY <1>1, <1>4, <1>8, <1>10, <2>1, <2>2, <2>3, <2>4, <2>5, <2>6, FreshSelf
<1>. QED BY <1>2, <1>9, <1>10

\* The end of a write: what lies between the old end and where it got counts as
\* zeros from now on, which it was.
LEMMA ReturnStep ==
    ASSUME NEW q, Exact(q), Contents(q), NEW f \in Files, WriteReturn(f)
    PROVE  Onward(q) /\ [Promise!Next]_Mapped
<1>. DEFINE b == busy[f]
            size == IF b.off > ent[f].size THEN b.off ELSE ent[f].size
<1>0. PICK o \in Opens : o = b.open
  <2>1. b \in BusyType /\ b.open # Idle
    BY DEF WriteReturn, Contents, Calling
  <2>. QED BY <2>1 DEF BusyType
<1>1. /\ o # Idle /\ b.rest = <<>> /\ UNCHANGED <<fat, data, reply, stopped>>
      /\ ent' = [ent EXCEPT ![f].size = size] /\ pos' = [pos EXCEPT ![o] = b.off]
      /\ busy' = [busy EXCEPT ![f] = NoWrite]
  BY <1>0 DEF WriteReturn
<1>2. /\ o \in Opens /\ FileOf[o] = f /\ b.off \in Nat /\ pos[o] <= b.off /\ pos[o] \in Nat
      /\ pos \in [Opens -> Nat] /\ DOMAIN busy = Files /\ reply \in Seq(Byte \cup {Zero})
  <2>1. b \in BusyType /\ FileOf[o] = f /\ pos[o] <= b.off
    BY <1>0, <1>1 DEF Contents, Calling
  <2>2. pos \in [Opens -> Nat] /\ DOMAIN busy = Files /\ reply \in Seq(Byte \cup {Zero})
    BY DEF Contents
  <2>. QED BY <1>1, <2>1, <2>2 DEF BusyType
<1>3. /\ DOMAIN ent = Files /\ ent[f] \in EntryType /\ Says(ent[f], q[f]) /\ q \in [Files -> ChainType]
      /\ ent[f].size \in Nat
  BY DEF Exact, Says, EntryType, Chains
<1>. DEFINE e == [ent[f] EXCEPT !.size = size]
<1>4. e \in EntryType /\ e.size = size /\ e.first = ent[f].first /\ e.cur = ent[f].cur /\ e.cnt = ent[f].cnt
  BY <1>2, <1>3 DEF EntryType
<1>5. size \in Nat /\ size = IF b.off > ent[f].size THEN b.off ELSE ent[f].size
  BY <1>2, <1>3
<1>6. ent' = [ent EXCEPT ![f] = e]
  BY <1>1, <1>3
<1>7. Length(f) = IF b.off > pos[o] /\ b.off > ent[f].size THEN b.off ELSE ent[f].size
  BY <1>0, <1>1 DEF Length, Started
<1>8. Position(o) = b.off
  BY <1>0, <1>2 DEF Position
<1>. HIDE DEF b, size, e
<1>9. DOMAIN ent' = Files /\ ent'[f] = e /\ \A g \in Files \ {f} : ent'[g] = ent[g]
  BY <1>3, <1>6
<1>10. DOMAIN busy' = Files /\ busy'[f] = NoWrite /\ \A g \in Files \ {f} : busy'[g] = busy[g]
  BY <1>1, <1>2
<1>11. pos' \in [Opens -> Nat] /\ pos'[o] = b.off /\ \A x \in Opens \ {o} : pos'[x] = pos[x]
  BY <1>1, <1>2
<1>12. Exact(q)'
  <2>1. Says(e, q[f])
    BY <1>3, <1>4 DEF Says
  <2>2. \A g \in Files : Says(ent'[g], q[g])
    BY <1>9, <2>1 DEF Exact
  <2>. QED BY <1>1, <1>9, <2>2 DEF Exact
<1>13. \A x \in Opens : FileOf[x] # f => pos'[x] = pos[x]
  BY <1>2, <1>11
<1>14. ASSUME NEW g \in Files, g # f
       PROVE  (Calling(g) /\ Empty(q, g))' /\ BytesOf(g)' = BytesOf(g)
  <2>1. ent'[g] = ent[g] /\ busy'[g] = busy[g]
    BY <1>9, <1>10, <1>14
  <2>2. \A k \in Nat : At(data', q[g], k) = At(data, q[g], k)
    BY <1>1
  <2>. QED BY <1>12, <1>13, <1>14, <2>1, <2>2, OthersStay
<1>15. Calling(f)' /\ Length(f)' = size
  BY <1>4, <1>9, <1>10, IdleCalling, IdleLengthNext
<1>16. Length(f) \in Nat /\ Length(f) <= size
       /\ size = IF Length(f) > b.off + 0 THEN Length(f) ELSE b.off + 0
  BY <1>2, <1>3, <1>5, <1>7
<1>17. Empty(q, f)'
  <2>1. \A k \in Nat : k >= size => k >= Length(f)
    BY <1>5, <1>16
  <2>2. \A k \in Nat : k >= size => At(data', q[f], k) = Zero
    BY <1>1, <2>1 DEF Contents, Empty
  <2>. QED BY <1>15, <2>2 DEF Empty
<1>18. Contents(q)'
  BY <1>1, <1>2, <1>10, <1>11, <1>14, <1>15, <1>17 DEF Contents
<1>19. <<>> \in [1..0 -> Byte]
  OBVIOUS
<1>20. BytesOf(f)' = Promise!Patched(BytesOf(f), Position(o), <<>>)
  <2>. DEFINE x == b.off
              s == <<>>
              n == 0
  <2>1. x \in Nat /\ n \in Nat /\ s \in [1..n -> Byte] /\ Position(o) = x
    BY <1>2, <1>8, <1>19
  <2>2. Length(f)' = IF Length(f) > x + n THEN Length(f) ELSE x + n
    BY <1>15, <1>16
  <2>3. \A k \in Nat : At(data', q[f], k) = IF k \in x..x+n-1 THEN s[k - x + 1] ELSE At(data, q[f], k)
    <3>1. \A k \in Nat : ~(k \in x..x+n-1)
      BY <2>1
    <3>. QED BY <1>1, <3>1
  <2>. HIDE DEF x, n, s
  <2>4. Patches(q, q, f, x, n, s)
    BY <2>2, <2>3 DEF Patches
  <2>5. BytesOf(f)' = Promise!Patched(BytesOf(f), x, s)
    BY <1>12, <2>1, <2>4, PatchedBytes
  <2>. QED BY <2>1, <2>5 DEF s
<1>21. \A x \in Opens \ {o} : Position(x)' = Position(x)
  <2>. SUFFICES ASSUME NEW x \in Opens \ {o} PROVE Position(x)' = Position(x)
    OBVIOUS
  <2>1. CASE FileOf[x] = f
    <3>1. Position(x)' = pos'[x]
      BY <1>10, <2>1, IdlePositionNext
    <3>2. Position(x) = pos[x]
      BY <1>0, <2>1 DEF Position, b
    <3>. QED BY <1>11, <3>1, <3>2
  <2>2. CASE FileOf[x] # f
    BY <1>10, <1>13, <2>2, OtherPosition
  <2>. QED BY <2>1, <2>2
<1>22. Position(o)' = Position(o) + 0
  <2>1. Position(o)' = b.off
    BY <1>2, <1>10, <1>11, IdlePositionNext
  <2>. QED BY <1>2, <1>8, <2>1
<1>23. [Promise!Next]_Mapped
  <2>. DEFINE n == 0
              s == <<>>
  <2>1. n \in 0..MaxCall /\ s \in [1..n -> Byte] /\ Position(o)' = Position(o) + n
        /\ reply' \in {reply, <<>>} /\ BytesOf(f)' = Promise!Patched(BytesOf(f), Position(o), s)
    BY <1>1, <1>19, <1>20, <1>22, Constants_
  <2>. HIDE DEF n, s
  <2>2. \A g \in Files \ {f} : BytesOf(g)' = BytesOf(g)
    BY <1>14
  <2>. QED BY <1>2, <1>21, <2>1, <2>2, AbsWrite
<1>. QED BY <1>3, <1>12, <1>18, <1>23, FreshSelf DEF Onward

\* ewrite() gives an empty file its first cluster before it writes.
LEMMA CallGrows ==
    ASSUME NEW q, Exact(q), NEW f \in Files, FirstSector, NEW z,
           z = (IF ent[f].first = 0 THEN Extended(Session(f)) ELSE Session(f)), ~z.stop
    PROVE  \E r : Grown(q, f, Session(f), r, z)
<1>. DEFINE s == Session(f)
<1>1. Fits(q, f, s) /\ q \in [Files -> ChainType] /\ s.fat = fat /\ s.e = ent[f]
  BY SessionFits
<1>2. s \in SessionType /\ ~s.stop /\ Says(s.e, q[f])
  BY <1>1 DEF Fits
<1>. HIDE DEF s
<1>3. CASE ent[f].first # 0
  <2>1. z = s
    BY <1>3 DEF s
  <2>2. Grown(q, f, s, q[f], s)
    BY <1>1, StayFits
  <2>. QED BY <2>1, <2>2 DEF s
<1>4. CASE ent[f].first = 0
  <2>1. z = Extended(s)
    BY <1>4 DEF s
  <2>2. q[f] = <<>>
    <3>1. CASE q[f] # <<>>
      <4>1. q[f] \in ChainType
        BY <1>1
      <4>2. 1 \in 1..Len(q[f])
        BY <3>1, <4>1 DEF ChainType
      <4>3. q[f][1] # 0
        BY <1>1, <4>2, Members DEF Fits
      <4>. QED BY <1>1, <1>2, <1>4, <3>1, <4>3 DEF Says
    <3>. QED BY <3>1
  <2>3. z \in SessionType /\ \E c \in Clusters : Links(s, c, z)
    BY <1>1, <1>2, <2>1, ExtendedIs DEF FirstSector
  <2>4. PICK c \in Clusters : Links(s, c, z)
    BY <2>3
  <2>. DEFINE r == q[f]
  <2>5. Grown(q, f, s, r, s) /\ (r # <<>> => s.e.cur = r[Len(r)])
    BY <1>1, <2>2, StayFits
  <2>. HIDE DEF r
  <2>6. Grown(q, f, s, Append(r, c), z)
    BY <1>1, <2>3, <2>4, <2>5, LinkGrows
  <2>. QED BY <2>6 DEF s
<1>. QED BY <1>3, <1>4

LEMMA CallStep ==
    ASSUME NEW q, Exact(q), Contents(q), NEW o \in Opens, WriteCall(o), FirstSector
    PROVE  Onward(q) /\ [Promise!Next]_Mapped
<1>. DEFINE f == FileOf[o]
            z == IF ent[f].first = 0 THEN Extended(Session(f)) ELSE Session(f)
<1>1. f \in Files /\ busy[f] = NoWrite
  BY FileAssumption DEF WriteCall
<1>2. \/ /\ ~z.stop /\ Becomes(f, z)
         /\ \E n \in 0..MaxCall : \E src \in [1..n -> Byte] :
               busy' = [busy EXCEPT ![f] = [open |-> o, rest |-> src, off |-> pos[o]]]
         /\ UNCHANGED <<pos, reply>>
      \/ Stop
  BY DEF WriteCall
<1>3. FileOf[o] = f
  OBVIOUS
<1>. HIDE DEF f
<1>4. CASE Stop
  BY <1>4, StopStep DEF Stop
<1>5. CASE /\ ~z.stop /\ Becomes(f, z)
           /\ \E n \in 0..MaxCall : \E src \in [1..n -> Byte] :
                 busy' = [busy EXCEPT ![f] = [open |-> o, rest |-> src, off |-> pos[o]]]
           /\ UNCHANGED <<pos, reply>>
  <2>1. PICK n \in 0..MaxCall : \E src \in [1..n -> Byte] :
                 busy' = [busy EXCEPT ![f] = [open |-> o, rest |-> src, off |-> pos[o]]]
    BY <1>5
  <2>2. PICK src \in [1..n -> Byte] :
                 busy' = [busy EXCEPT ![f] = [open |-> o, rest |-> src, off |-> pos[o]]]
    BY <2>1
  <2>3. PICK r : Grown(q, f, Session(f), r, z)
    BY <1>1, <1>5, CallGrows
  <2>. HIDE DEF z
  <2>4. /\ fat' = z.fat /\ data' = z.data /\ ent' = [ent EXCEPT ![f] = z.e]
        /\ pos' = pos /\ reply' = reply
    BY <1>5 DEF Becomes
  <2>5. z.data \in DataType /\ z.e.size = Session(f).e.size /\ r \in ChainType
    BY <2>3 DEF Grown, SessionType
  <2>. DEFINE p == [q EXCEPT ![f] = r]
  <2>6. Exact(p)' /\ Fresh(q, p)
    BY <1>1, <2>3, <2>4, <2>5, SessionEnds
  <2>7. /\ Fits(q, f, Session(f)) /\ q \in [Files -> ChainType]
        /\ Session(f).data = data /\ Session(f).e = ent[f]
    BY <1>1, SessionFits
  <2>8. p \in [Files -> ChainType] /\ p[f] = r /\ \A g \in Files \ {f} : p[g] = q[g]
    BY <1>1, <2>5, <2>7
  <2>. HIDE DEF p
  <2>9. /\ \A k \in Nat : At(data', p[f], k) = At(data, q[f], k)
        /\ \A g \in Files \ {f} : \A k \in Nat : At(data', p[g], k) = At(data, q[g], k)
    BY <1>1, <2>3, <2>4, <2>7, <2>8, GrownBytes
  <2>10. /\ DOMAIN ent = Files /\ DOMAIN busy = Files /\ pos \in [Opens -> Nat]
         /\ reply \in Seq(Byte \cup {Zero})
    BY DEF Exact, Contents
  <2>11. /\ ent'[f].size = ent[f].size /\ \A g \in Files \ {f} : ent'[g] = ent[g]
         /\ busy'[f] = [open |-> o, rest |-> src, off |-> pos[o]]
         /\ \A g \in Files \ {f} : busy'[g] = busy[g]
         /\ DOMAIN busy' = Files
    BY <1>1, <2>2, <2>4, <2>5, <2>7, <2>10
  <2>12. busy'[f].open = o /\ busy'[f].rest = src /\ busy'[f].off = pos[o]
    BY <2>11
  <2>13. Length(f) = ent[f].size /\ Length(f)' = ent[f].size
    <3>1. ~(pos[o] > pos[o])
      BY <2>10
    <3>. QED BY <1>1, <2>4, <2>11, <2>12, <3>1, IdleLength DEF Length, Started
  <2>14. Calling(f)'
    <3>1. src \in Seq(Byte) /\ Len(src) = n /\ n <= MaxCall
      BY Constants_
    <3>2. busy'[f] \in BusyType
      BY <2>10, <2>11, <3>1 DEF BusyType
    <3>3. busy'[f].open # Idle /\ pos'[busy'[f].open] <= busy'[f].off
      BY <2>4, <2>10, <2>12, FileAssumption
    <3>. QED BY <1>3, <2>12, <3>1, <3>2, <3>3 DEF Calling
  <2>15. Empty(p, f)'
    BY <1>1, <2>9, <2>13 DEF Empty, Contents
  <2>16. ASSUME NEW g \in Files, g # f
         PROVE  (Calling(g) /\ Empty(p, g))' /\ BytesOf(g)' = BytesOf(g)
    <3>1. ent'[g] = ent[g] /\ busy'[g] = busy[g]
      BY <2>11, <2>16
    <3>2. \A k \in Nat : At(data', p[g], k) = At(data, q[g], k)
      BY <2>9, <2>16
    <3>. QED BY <1>1, <2>4, <2>6, <2>16, <3>1, <3>2, OthersStay
  <2>17. Contents(p)'
    BY <2>4, <2>10, <2>11, <2>14, <2>15, <2>16 DEF Contents
  <2>18. BytesOf(f)' = BytesOf(f)
    BY <1>1, <2>6, <2>9, <2>13, SameBytes
  <2>19. ASSUME NEW x \in Opens PROVE Position(x)' = Position(x)
    <3>1. CASE FileOf[x] # f
      BY <1>1, <2>4, <2>11, <3>1, OtherPosition
    <3>2. CASE FileOf[x] = f
      <4>1. Position(x) = pos[x]
        BY <1>1, <3>2, IdlePosition
      <4>. QED BY <2>4, <2>12, <3>2, <4>1 DEF Position
    <3>. QED BY <3>1, <3>2
  <2>20. [Promise!Next]_Mapped
    BY <2>4, <2>16, <2>18, <2>19, AbsStutter
  <2>. QED BY <2>6, <2>8, <2>17, <2>20 DEF Onward
<1>. QED BY <1>2, <1>4, <1>5

\* The first bytes of what is still to be written, and the others.
LEMMA FrontIs ==
    ASSUME NEW S, NEW v \in Seq(S), NEW m \in Nat, m <= Len(v)
    PROVE  /\ SubSeq(v, 1, m) \in [1..m -> S] /\ \A i \in 1..m : SubSeq(v, 1, m)[i] = v[i]
           /\ SubSeq(v, m + 1, Len(v)) \in Seq(S)
           /\ Len(SubSeq(v, m + 1, Len(v))) = Len(v) - m
<1>. DEFINE n == Len(v)
            h == m + 1
<1>1. n \in Nat /\ h \in Nat /\ \A i \in 1..n : v[i] \in S
  OBVIOUS
<1>2. /\ \A i \in 1..m : v[i] \in S
      /\ \A i \in h..n : v[i] \in S
  BY <1>1
<1>. HIDE DEF n, h
<1>3. /\ SubSeq(v, 1, m) \in Seq(S) /\ Len(SubSeq(v, 1, m)) = (IF 1 <= m THEN m - 1 + 1 ELSE 0)
      /\ \A i \in 1..m-1+1 : SubSeq(v, 1, m)[i] = v[1 + i - 1]
  BY <1>2, SubSeqProperties
<1>4. SubSeq(v, h, n) \in Seq(S) /\ Len(SubSeq(v, h, n)) = IF h <= n THEN n - h + 1 ELSE 0
  BY <1>1, <1>2, SubSeqProperties
<1>5. SubSeq(v, 1, m) \in [1..m -> S] /\ \A i \in 1..m : SubSeq(v, 1, m)[i] = v[i]
  <2>. DEFINE w == SubSeq(v, 1, m)
  <2>1. w \in Seq(S) /\ Len(w) = m /\ \A i \in 1..m : w[i] = v[i]
    BY <1>3
  <2>. HIDE DEF w
  <2>2. w \in [1..m -> S]
    BY <2>1
  <2>. QED BY <2>1, <2>2 DEF w
<1>6. Len(SubSeq(v, h, n)) = n - m
  BY <1>1, <1>4 DEF h, n
<1>. QED BY <1>4, <1>5, <1>6 DEF h, n

\* The cluster old with the first m bytes of v written from at on.
Overlaid(old, at, m, v) ==
    [k \in 0..B-1 |-> IF k \in at..at+m-1 THEN v[k - at + 1] ELSE old[k]]

\* The cluster of byte x in the file f has become the c-th of y that way.
Lands(p, f, d, x, m, v, c, w, y) ==
    /\ (x % B) + m <= B /\ x \div B + 1 \in 1..Len(p[f]) /\ c = p[f][x \div B + 1]
    /\ y = [d EXCEPT ![c] = w] /\ w = Overlaid(d[c], x % B, m, v)

\* What a piece of a write changes: its bytes.
LEMMA WrittenAt ==
    ASSUME NEW p, NEW t, Chains(p, t), NEW f \in Files, NEW d \in DataType, NEW x \in Nat, NEW m \in Nat,
           NEW v \in Seq(Byte), m <= Len(v), NEW c, NEW w, NEW y, Lands(p, f, d, x, m, v, c, w, y)
    PROVE  /\ y \in DataType
           /\ \A k \in Nat : At(y, p[f], k) = IF k \in x..x+m-1 THEN v[k - x + 1] ELSE At(d, p[f], k)
           /\ \A g \in Files \ {f} : \A k \in Nat : At(y, p[g], k) = At(d, p[g], k)
<1>. DEFINE i == x \div B + 1
            at == x % B
<1>0. /\ at + m <= B /\ i \in 1..Len(p[f]) /\ c = p[f][i]
      /\ y = [d EXCEPT ![c] = w] /\ w = Overlaid(d[c], at, m, v)
  BY DEF Lands
<1>1. /\ B \in Nat \ {0} /\ x \div B \in Nat /\ at \in 0..B-1 /\ x = B * (x \div B) + at
      /\ i \in 1..Len(p[f]) /\ c = p[f][i] /\ at + m <= B
  BY <1>0, Constants_, DivMod
<1>. HIDE DEF at
<1>2. c \in Clusters /\ d[c] \in Cluster
  <2>1. p[f][x \div B + 1] \in Clusters
    BY <1>0, Members
  <2>. QED BY <1>0, <2>1, SMTT(30) DEF DataType
<1>3. w \in Cluster /\ \A k \in 0..B-1 : w[k] = IF k \in at..at+m-1 THEN v[k - at + 1] ELSE d[c][k]
  <2>1. w = [k \in 0..B-1 |-> IF k \in at..at+m-1 THEN v[k - at + 1] ELSE d[c][k]]
    BY <1>0 DEF Overlaid
  <2>2. ASSUME NEW k \in 0..B-1
        PROVE  (IF k \in at..at+m-1 THEN v[k - at + 1] ELSE d[c][k]) \in Byte \cup {Zero}
    <3>1. CASE k \in at..at+m-1
      <4>1. k - at + 1 \in 1..Len(v)
        BY <1>1, <3>1
      <4>. QED BY <3>1, <4>1
    <3>2. CASE ~(k \in at..at+m-1)
      BY <1>2, <3>2, Zenon DEF Cluster
    <3>. QED BY <3>1, <3>2
  <2>. QED BY <2>1, <2>2, SMTT(30) DEF Cluster
<1>4. y \in DataType /\ y[c] = w /\ \A b \in Clusters \ {c} : y[b] = d[b]
  BY <1>0, <1>2, <1>3, Zenon DEF DataType
<1>5. ASSUME NEW g \in Files, NEW j \in 1..Len(p[g]), g # f \/ j # i
      PROVE  y[p[g][j]] = d[p[g][j]]
  <2>0. Apart(p)
    BY DEF Chains
  <2>1. p[g][j] # c
    <3>1. i \in 1..Len(p[f]) /\ c = p[f][i]
      BY <1>1
    <3>. HIDE DEF i
    <3>. QED BY <1>5, <2>0, <3>1 DEF Apart
  <2>2. p[g][j] \in Clusters
    BY Members
  <2>. QED BY <1>4, <2>1, <2>2
<1>6. \A g \in Files : Len(p[g]) \in Nat
  BY DEF Chains, ChainType
<1>7. ASSUME NEW g \in Files, NEW a \in Nat, a < Len(p[g]), g # f \/ a # x \div B
      PROVE  y[p[g][a + 1]] = d[p[g][a + 1]]
  <2>1. a + 1 \in 1..Len(p[g]) /\ (g # f \/ a + 1 # i)
    <3>1. x \div B \in Nat
      BY <1>1
    <3>. QED BY <1>6, <1>7, <3>1
  <2>. QED BY <1>5, <2>1
<1>8. ASSUME NEW g \in Files \ {f}, NEW k \in Nat PROVE At(y, p[g], k) = At(d, p[g], k)
  <2>. DEFINE a == k \div B
              l == k % B
  <2>1. a \in Nat
    BY <1>1, DivMod
  <2>2. At(y, p[g], k) = IF a < Len(p[g]) THEN y[p[g][a + 1]][l] ELSE Zero
    BY DEF At
  <2>3. At(d, p[g], k) = IF a < Len(p[g]) THEN d[p[g][a + 1]][l] ELSE Zero
    BY DEF At
  <2>. HIDE DEF a, l
  <2>. QED BY <1>7, <2>1, <2>2, <2>3
<1>9. ASSUME NEW k \in Nat
      PROVE  At(y, p[f], k) = IF k \in x..x+m-1 THEN v[k - x + 1] ELSE At(d, p[f], k)
  <2>. DEFINE a == k \div B
              l == k % B
              h == x \div B
  <2>1. a \in Nat /\ l \in 0..B-1 /\ k = B * a + l
    BY <1>1, DivMod
  <2>2. k \in x..x+m-1 <=> a = h /\ l \in at..at+m-1
    BY <1>0, DivPiece DEF at
  <2>3. At(y, p[f], k) = IF a < Len(p[f]) THEN y[p[f][a + 1]][l] ELSE Zero
    BY DEF At
  <2>4. At(d, p[f], k) = IF a < Len(p[f]) THEN d[p[f][a + 1]][l] ELSE Zero
    BY DEF At
  <2>5. h \in Nat /\ h < Len(p[f]) /\ p[f][h + 1] = c /\ x = B * h + at
    <3>1. h \in Nat /\ p[f][h + 1] = c /\ x = B * h + at /\ h + 1 \in 1..Len(p[f])
      BY <1>1
    <3>. HIDE DEF h
    <3>2. h < Len(p[f])
      BY <1>6, <3>1
    <3>. QED BY <3>1, <3>2
  <2>6. a # h /\ a < Len(p[f]) => y[p[f][a + 1]] = d[p[f][a + 1]]
    BY <1>7, <2>1
  <2>. HIDE DEF a, l, h
  <2>7. CASE a = h
    <3>1. At(y, p[f], k) = w[l] /\ At(d, p[f], k) = d[c][l]
      BY <1>4, <2>3, <2>4, <2>5, <2>7
    <3>2. l - at = k - x
      <4>. DEFINE u == B * h
      <4>1. u \in Nat /\ k = u + l /\ x = u + at
        BY <1>1, <2>1, <2>5, <2>7
      <4>. HIDE DEF u
      <4>. QED BY <1>1, <2>1, <4>1
    <3>3. l - at + 1 = k - x + 1
      BY <3>2
    <3>4. w[l] = IF l \in at..at+m-1 THEN v[l - at + 1] ELSE d[c][l]
      BY <1>3, <2>1
    <3>. QED BY <2>2, <2>7, <3>1, <3>3, <3>4
  <2>8. CASE a # h
    BY <2>2, <2>3, <2>4, <2>6, <2>8, Zenon
  <2>. QED BY <2>7, <2>8
<1>. QED BY <1>4, <1>8, <1>9

LEMMA PieceStep ==
    ASSUME SmallMedium, NEW q, Exact(q), Contents(q), NEW f \in Files, WritePiece(f), FirstSector'
    PROVE  Onward(q) /\ [Promise!Next]_Mapped
<1>. DEFINE b == busy[f]
            x == b.off
            v == b.rest
            at == x % B
            m == IF Len(v) + at > B THEN B - at ELSE Len(v)
            z == Located(Session(f), x, TRUE)
            c == z.e.cur
            w == [k \in 0..B-1 |-> IF k \in at..at+m-1 THEN v[k - at + 1] ELSE z.data[c][k]]
<1>1. v # <<>> /\ \/ /\ ~(z.stop \/ c \notin Clusters) /\ Becomes(f, [z EXCEPT !.data[c] = w])
                     /\ busy' = [busy EXCEPT ![f].rest = SubSeq(v, m + 1, Len(v)),
                                             ![f].off = x + m]
                     /\ reply' = <<>> /\ UNCHANGED pos
                  \/ Stop
  BY Zenon DEF WritePiece, B
<1>2. CASE Stop
  BY <1>2, StopStep DEF Stop
<1>3. CASE /\ ~(z.stop \/ c \notin Clusters) /\ Becomes(f, [z EXCEPT !.data[c] = w])
           /\ busy' = [busy EXCEPT ![f].rest = SubSeq(v, m + 1, Len(v)),
                                   ![f].off = x + m]
           /\ reply' = <<>> /\ UNCHANGED pos
  <2>1. b \in BusyType /\ b # NoWrite /\ Len(b.rest) <= MaxCall /\ b.open # Idle
    <3>0. b.rest # <<>>
      BY <1>1, Zenon
    <3>. HIDE DEF b
    <3>1. b # NoWrite
      BY <3>0 DEF NoWrite
    <3>. QED BY <3>1, Zenon DEF Contents, Calling, b
  <2>2. PICK o \in Opens : o = b.open
    BY <2>1 DEF BusyType
  <2>3. /\ FileOf[o] = f /\ pos[o] <= x /\ x \in Nat /\ v \in Seq(Byte) /\ pos[o] \in Nat
        /\ Len(v) \in Nat /\ Len(v) <= MaxCall /\ B \in Nat \ {0} /\ at \in 0..B-1
    <3>1. FileOf[o] = f /\ pos[o] <= x /\ pos \in [Opens -> Nat]
      BY <2>1, <2>2 DEF Contents, Calling
    <3>2. x \in Nat /\ v \in Seq(Byte)
      BY <2>1 DEF BusyType
    <3>3. B \in Nat \ {0} /\ at \in 0..B-1
      BY <3>2, Constants_, DivMod, Zenon
    <3>. HIDE DEF at, b
    <3>. QED BY <2>1, <3>1, <3>2, <3>3
  <2>4. Len(v) # 0
    <3>1. v # <<>> /\ v \in Seq(Byte)
      BY <1>1, <2>3, Zenon
    <3>. HIDE DEF v
    <3>. QED BY <3>1
  <2>. HIDE DEF b, x, v, at
  <2>5. m \in Nat /\ m > 0 /\ m <= Len(v) /\ at + m <= B
    BY <2>3, <2>4
  <2>. HIDE DEF m
  <2>6. /\ Fits(q, f, Session(f)) /\ q \in [Files -> ChainType]
        /\ Session(f).data = data /\ Session(f).e = ent[f]
    BY SessionFits
  <2>7. /\ z \in SessionType
        /\ ~z.stop /\ Window(z.fat) =>
             \E r : Grown(q, f, Session(f), r, z) /\ x \div B + 1 \in 1..Len(r) /\ c = r[x \div B + 1]
    <3>. DEFINE s == Session(f)
                y == Located(s, x, TRUE)
    <3>1. Fits(q, f, s) /\ x \in Nat
      BY <2>3, <2>6
    <3>. HIDE DEF s
    <3>2. /\ y \in SessionType
          /\ ~y.stop /\ Window(y.fat) =>
                \E r : /\ Grown(q, f, s, r, y)
                       /\ x \div B + 1 \in 1..Len(r)
                       /\ y.e.cur = r[x \div B + 1]
      BY <3>1, LocatedGrows
    <3>. HIDE DEF y
    <3>3. z = y /\ c = y.e.cur
      BY DEF y, s
    <3>. HIDE DEF z, c
    <3>. QED BY <3>2, <3>3 DEF s
  <2>8. ~z.stop /\ Becomes(f, [z EXCEPT !.data[c] = w])
        /\ reply' = <<>> /\ pos' = pos
        /\ busy' = [busy EXCEPT ![f].rest = SubSeq(v, m + 1, Len(v)), ![f].off = x + m]
    BY <1>3
  <2>. DEFINE d == z.data
  <2>9. d \in DataType /\ d = z.data
    BY <2>7 DEF SessionType
  <2>10. /\ fat' = z.fat /\ data' = [d EXCEPT ![c] = w] /\ ent' = [ent EXCEPT ![f] = z.e]
    <3>. HIDE DEF z, w
    <3>. QED BY <2>7, <2>8 DEF Becomes, SessionType
  <2>. HIDE DEF z, c
  <2>11. PICK r : Grown(q, f, Session(f), r, z) /\ x \div B + 1 \in 1..Len(r) /\ c = r[x \div B + 1]
    BY <2>7, <2>8, <2>10 DEF FirstSector
  <2>12. z.e.size = ent[f].size /\ r \in ChainType
    BY <2>6, <2>11 DEF Grown
  <2>. DEFINE p == [q EXCEPT ![f] = r]
              src == SubSeq(v, 1, m)
  <2>13. p \in [Files -> ChainType] /\ p[f] = r /\ \A g \in Files \ {f} : p[g] = q[g]
    BY <2>6, <2>12
  <2>14. Chains(p, z.fat)
    BY <2>11 DEF Grown
  <2>15. src \in [1..m -> Byte] /\ src \in Seq(Byte) /\ \A i \in 1..m : src[i] = v[i]
    BY <2>3, <2>5, FrontIs
  <2>16. /\ \A k \in Nat : At(d, r, k) = At(data, q[f], k)
         /\ \A g \in Files \ {f} : \A k \in Nat : At(d, q[g], k) = At(data, q[g], k)
    BY <2>6, <2>9, <2>11, GrownBytes
  <2>. HIDE DEF p, src, d, w
  <2>17. /\ data' \in DataType
         /\ \A k \in Nat : At(data', p[f], k) = IF k \in x..x+m-1 THEN v[k - x + 1] ELSE At(d, p[f], k)
         /\ \A g \in Files \ {f} : \A k \in Nat : At(data', p[g], k) = At(d, p[g], k)
    <3>. DEFINE y == data'
    <3>1. (x % B) + m <= B
      BY <2>5 DEF at
    <3>2. w = Overlaid(d[c], x % B, m, v)
      BY DEF w, d, at, Overlaid
    <3>3. y = [d EXCEPT ![c] = w]
      BY <2>10
    <3>4. c = p[f][x \div B + 1] /\ x \div B + 1 \in 1..Len(p[f])
      BY <2>11, <2>13
    <3>. HIDE DEF y
    <3>5. /\ y \in DataType
          /\ \A k \in Nat : At(y, p[f], k) = IF k \in x..x+m-1 THEN v[k - x + 1] ELSE At(d, p[f], k)
          /\ \A g \in Files \ {f} : \A k \in Nat : At(y, p[g], k) = At(d, p[g], k)
      <4>. DEFINE t == z.fat
      <4>1. Chains(p, t)
        BY <2>14
      <4>2. x \in Nat /\ m \in Nat /\ m <= Len(v) /\ v \in Seq(Byte) /\ d \in DataType
        BY <2>3, <2>5, <2>9
      <4>3. Lands(p, f, d, x, m, v, c, w, y)
        BY <3>1, <3>2, <3>3, <3>4 DEF Lands
      <4>. HIDE DEF t
      <4>. QED BY <4>1, <4>2, <4>3, WrittenAt
    <3>. QED BY <3>5 DEF y
  <2>18. Exact(p)' /\ Fresh(q, p)
    BY <2>10, <2>11, <2>17, SessionEnds DEF p
  <2>19. /\ DOMAIN ent = Files /\ DOMAIN busy = Files /\ pos \in [Opens -> Nat]
         /\ reply \in Seq(Byte \cup {Zero})
    BY DEF Exact, Contents
  <2>20. /\ ent'[f].size = ent[f].size /\ \A g \in Files \ {f} : ent'[g] = ent[g]
    BY <2>10, <2>12, <2>19
  <2>. DEFINE rest == SubSeq(v, m + 1, Len(v))
  <2>21. rest \in Seq(Byte) /\ Len(rest) = Len(v) - m
    BY <2>3, <2>5, FrontIs
  <2>. HIDE DEF rest
  <2>22. /\ busy'[f].open = o /\ busy'[f].rest = rest /\ busy'[f].off = x + m
         /\ busy'[f] \in BusyType /\ DOMAIN busy' = Files
         /\ \A g \in Files \ {f} : busy'[g] = busy[g]
    <3>1. x + m \in Nat /\ busy[f] \in BusyType /\ busy[f].open = o
      BY <2>1, <2>2, <2>3, <2>5 DEF b
    <3>2. busy' = [busy EXCEPT ![f].rest = rest, ![f].off = x + m]
      BY <2>8 DEF rest
    <3>3. /\ DOMAIN busy' = Files /\ busy'[f] = [busy[f] EXCEPT !.rest = rest, !.off = x + m]
          /\ \A g \in Files \ {f} : busy'[g] = busy[g]
      BY <2>19, <3>2
    <3>. QED BY <2>21, <3>1, <3>3 DEF BusyType
  <2>23. ent[f].size \in Nat
    BY DEF Exact, Says, EntryType
  <2>24. Length(f) = IF x > pos[o] /\ x > ent[f].size THEN x ELSE ent[f].size
    BY <2>1, <2>2 DEF Length, Started, b, x
  <2>25. Length(f)' = IF x + m > ent[f].size THEN x + m ELSE ent[f].size
    <3>1. o # Idle /\ x + m > pos[o]
      BY <2>1, <2>2, <2>3, <2>5
    <3>. QED BY <2>8, <2>20, <2>22, <3>1 DEF Length, Started
  <2>26. /\ Length(f)' = IF Length(f) > x + m THEN Length(f) ELSE x + m
         /\ Length(f)' >= Length(f) /\ Length(f)' >= x + m /\ Length(f) \in Nat
    BY <2>3, <2>5, <2>23, <2>24, <2>25
  <2>27. Calling(f)'
    <3>1. o # Idle /\ pos'[o] <= x + m
      BY <2>1, <2>2, <2>3, <2>5, <2>8
    <3>2. Len(rest) <= MaxCall
      BY <2>3, <2>5, <2>21, Constants_, SMTT(30)
    <3>. QED BY <2>3, <2>22, <3>1, <3>2 DEF Calling
  <2>28. \A k \in Nat : At(data', p[f], k) = IF k \in x..x+m-1 THEN src[k - x + 1] ELSE At(data, q[f], k)
    <3>. SUFFICES ASSUME NEW k \in Nat
                  PROVE  At(data', p[f], k) = IF k \in x..x+m-1 THEN src[k - x + 1] ELSE At(data, q[f], k)
      OBVIOUS
    <3>1. k \in x..x+m-1 => k - x + 1 \in 1..m
      BY <2>3, <2>5, SMTT(30)
    <3>. QED BY <2>13, <2>15, <2>16, <2>17, <3>1
  <2>29. Empty(p, f)'
    <3>. SUFFICES ASSUME NEW k \in Nat, k >= Length(f)' PROVE At(data', p[f], k) = Zero
      BY DEF Empty
    <3>1. k >= Length(f) /\ ~(k \in x..x+m-1)
      BY <2>3, <2>5, <2>26
    <3>. QED BY <2>28, <3>1 DEF Contents, Empty
  <2>30. ASSUME NEW g \in Files, g # f
         PROVE  (Calling(g) /\ Empty(p, g))' /\ BytesOf(g)' = BytesOf(g)
    <3>1. ent'[g] = ent[g] /\ busy'[g] = busy[g]
      BY <2>20, <2>22, <2>30
    <3>2. \A k \in Nat : At(data', p[g], k) = At(data, q[g], k)
      BY <2>13, <2>16, <2>17, <2>30
    <3>3. (\A y \in Opens : pos'[y] = pos[y]) /\ Exact(p)'
      BY <2>8, <2>18
    <3>. QED BY <2>30, <3>1, <3>2, <3>3, OthersStay
  <2>31. Contents(p)'
    <3>1. reply' \in Seq(Byte \cup {Zero})
      BY <2>8
    <3>. QED BY <2>8, <2>19, <2>22, <2>27, <2>29, <2>30, <3>1 DEF Contents
  <2>32. Position(o) = x /\ Position(o)' = x + m
    BY <2>2, <2>3, <2>22 DEF Position, x, b
  <2>33. ASSUME NEW y \in Opens \ {o} PROVE Position(y)' = Position(y)
    <3>1. CASE FileOf[y] # f
      BY <2>8, <2>22, <3>1, OtherPosition
    <3>2. CASE FileOf[y] = f
      BY <2>2, <2>8, <2>22, <3>2 DEF Position, b
    <3>. QED BY <3>1, <3>2
  <2>34. PICK X \in Nat : X = x
    BY <2>3
  <2>35. PICK M \in Nat : M = m
    BY <2>5
  <2>36. PICK s \in [1..M -> Byte] : s = src
    BY <2>15, <2>35
  <2>37. BytesOf(f)' = Promise!Patched(BytesOf(f), X, s)
    <3>1. Length(f)' = IF Length(f) > X + M THEN Length(f) ELSE X + M
      BY <2>26, <2>34, <2>35
    <3>2. \A k \in Nat : At(data', p[f], k) = IF k \in X..X+M-1 THEN s[k - X + 1] ELSE At(data, q[f], k)
      BY <2>28, <2>34, <2>35, <2>36
    <3>3. Patches(q, p, f, X, M, s)
      BY <3>1, <3>2 DEF Patches
    <3>. QED BY <2>18, <3>3, PatchedBytes
  <2>38. [Promise!Next]_Mapped
    <3>1. M \in 0..MaxCall /\ Position(o)' = Position(o) + M
      BY <2>3, <2>5, <2>32, <2>35, Constants_
    <3>2. BytesOf(f)' = Promise!Patched(BytesOf(f), Position(o), s) /\ reply' \in {reply, <<>>}
      BY <2>8, <2>32, <2>34, <2>37
    <3>. QED BY <2>3, <2>30, <2>33, <3>1, <3>2, AbsWrite
  <2>. QED BY <2>13, <2>18, <2>31, <2>38 DEF Onward
<1>. QED BY <1>1, <1>2, <1>3, ZenonT(30)

LEMMA ReadStep ==
    ASSUME SmallMedium, NEW q, Exact(q), Contents(q), NEW o \in Opens, NEW n \in 0..MaxCall, Read(o, n)
    PROVE  Onward(q) /\ [Promise!Next]_Mapped
<1>. DEFINE f == FileOf[o]
            off == pos[o]
            num == Clipped(n, off, ent[f].size)
            s == Session(f)
            z == Located(s, off, FALSE)
            inChain == off \div B < z.e.cnt
            after == CHOOSE after : after = [k \in 0..num |->
                        IF k = 0 THEN [cur |-> z.e.cur, dst |-> <<>>]
                        ELSE LET a == after[k-1]
                             IN  IF a.cur \notin Clusters THEN a
                                 ELSE [cur |-> IF (off + k) % BytSPerClus = 0 THEN z.fat[a.cur] ELSE a.cur,
                                       dst |-> Append(a.dst, z.data[a.cur][(off + k - 1) % BytSPerClus])]]
<1>0. /\ IF z.stop \/ (num > 0 /\ ~inChain) \/ Len(after[num].dst) < num
           THEN Stop
           ELSE /\ ent' = [ent EXCEPT ![f].cur = after[num].cur]
                /\ reply' = after[num].dst
                /\ pos' = [pos EXCEPT ![o] = off + num]
                /\ UNCHANGED <<fat, data, busy, stopped>>
  BY ZenonT(30) DEF Read, B
<1>1. f \in Files /\ busy[f] = NoWrite /\ off <= ent[f].size
  BY FileAssumption, Zenon DEF Read
<1>2. FileOf[o] = f
  OBVIOUS
<1>. HIDE DEF f, inChain, z, after, num, s
<1>3. CASE Stop
  BY <1>3, StopStep DEF Stop
<1>4. CASE ~(z.stop \/ (num > 0 /\ ~inChain) \/ Len(after[num].dst) < num)
  <2>1. /\ ent' = [ent EXCEPT ![f].cur = after[num].cur]
        /\ reply' = after[num].dst
        /\ pos' = [pos EXCEPT ![o] = off + num]
        /\ UNCHANGED <<fat, data, busy, stopped>>
    BY <1>0, <1>4
  <2>2. ~z.stop /\ (num > 0 => inChain) /\ ~(Len(after[num].dst) < num)
    BY <1>4
  <2>3. /\ DOMAIN ent = Files /\ DOMAIN busy = Files /\ pos \in [Opens -> Nat]
        /\ Chains(q, fat) /\ data \in DataType /\ Says(ent[f], q[f]) /\ ent[f] \in EntryType
    BY <1>1 DEF Exact, Contents, Says
  <2>4. off \in Nat /\ ent[f].size \in Nat /\ num \in Nat /\ off + num <= ent[f].size
    <3>1. off \in Nat /\ ent[f].size \in Nat /\ off <= ent[f].size
      BY <1>1, <2>3 DEF EntryType
    <3>2. n \in Nat
      OBVIOUS
    <3>. HIDE DEF off
    <3>. QED BY <3>1, <3>2 DEF Clipped, num
  <2>5. /\ Fits(q, f, s) /\ q \in [Files -> ChainType]
        /\ s.fat = fat /\ s.data = data /\ s.e = ent[f] /\ s \in SessionType
    BY <1>1, SessionFits DEF Fits, s
  <2>. HIDE DEF off
  <2>6. PICK c \in 0..EOC :
              /\ z = Moved(s, c)
              /\ off \div B + 1 \in 1..Len(q[f]) => c = q[f][off \div B + 1]
              /\ q[f] # <<>> => \E i \in 1..Len(q[f]) : c = q[f][i]
    <3>. DEFINE y == Located(s, off, FALSE)
    <3>1. ~y.stop
      BY <2>2 DEF z
    <3>2. \E c \in 0..EOC :
              /\ y = Moved(s, c)
              /\ off \div B + 1 \in 1..Len(q[f]) => c = q[f][off \div B + 1]
              /\ q[f] # <<>> => \E i \in 1..Len(q[f]) : c = q[f][i]
      BY <1>1, <2>4, <2>5, <3>1, LocatedMoves, ZenonT(30)
    <3>. QED BY <3>2 DEF z
  <2>7. z.fat = fat /\ z.data = data /\ z.e.cnt = ent[f].cnt /\ z.e.cur = c
    BY <2>5, <2>6, MovedIs
  <2>8. num > 0 => off \div B < Len(q[f]) /\ c = q[f][off \div B + 1]
    <3>1. ASSUME num > 0 PROVE off \div B < Len(q[f]) /\ c = q[f][off \div B + 1]
      <4>1. off \div B \in Nat /\ Len(q[f]) \in Nat
        <5>1. off \div B \in Nat
          BY <2>4, Constants_, DivMod
        <5>2. q[f] \in Seq(Clusters \ {RootClus})
          BY <1>1, <2>5 DEF ChainType
        <5>. QED BY <5>1, <5>2
      <4>2. off \div B < Len(q[f])
        BY <2>2, <2>3, <2>7, <3>1 DEF inChain, Says
      <4>3. off \div B + 1 \in 1..Len(q[f])
        BY <4>1, <4>2
      <4>. QED BY <2>6, <4>2, <4>3
    <3>. QED BY <3>1
  <2>9. Reading(fat, data, c, off, num, after)
    <3>. DEFINE t == z.fat
                d == z.data
                x == z.e.cur
    <3>1. Reading(t, d, x, off, num, after)
      <4>1. \E g : Reading(t, d, x, off, num, g)
        <5>. HIDE DEF t, d, x
        <5>. QED BY <2>4, ReadingExists
      <4>. QED BY <4>1, Zenon DEF after, Reading
    <3>2. t = fat /\ d = data /\ x = c
      BY <2>7
    <3>. HIDE DEF t, d, x
    <3>. QED BY <3>1, <3>2, Zenon
  <2>. DEFINE m == num
              g == after
  <2>0. m \in Nat /\ Reading(fat, data, c, off, m, g) /\ (m > 0 => off \div B < Len(q[f]) /\ c = q[f][off \div B + 1])
    BY <2>4, <2>8, <2>9
  <2>. HIDE DEF m, g
  <2>10. /\ g[m].cur \in 0..EOC
         /\ q[f] # <<>> => g[m].cur = EOC \/ \E i \in 1..Len(q[f]) : g[m].cur = q[f][i]
         /\ g[m].dst \in Seq(Byte \cup {Zero}) /\ Len(g[m].dst) <= m
         /\ Len(g[m].dst) = m =>
               \A j \in 1..m : g[m].dst[j] = At(data, q[f], off + j - 1)
    <3>1. Chains(q, fat) /\ data \in DataType /\ off \in Nat /\ c \in 0..EOC
      BY <2>3, <2>4
    <3>2. q[f] # <<>> => c = EOC \/ \E i \in 1..Len(q[f]) : c = q[f][i]
      BY <2>6
    <3>3. f \in Files
      BY <1>1
    <3>4. Copied(q, data, f, off, m, g[m])
      BY <2>0, <3>1, <3>2, <3>3, ReadingReads
    <3>. QED BY <3>4 DEF Copied
  <2>. DEFINE y == g[m].cur
              r == g[m].dst
              e == [ent[f] EXCEPT !.cur = y]
  <2>11. /\ ent' = [ent EXCEPT ![f].cur = y] /\ reply' = r /\ pos' = [pos EXCEPT ![o] = off + m]
         /\ ~(Len(r) < m) /\ off + m <= ent[f].size
    BY <2>1, <2>2, <2>4 DEF m, g
  <2>12. /\ y \in 0..EOC /\ (q[f] # <<>> => y = EOC \/ \E i \in 1..Len(q[f]) : y = q[f][i])
         /\ r \in Seq(Byte \cup {Zero}) /\ Len(r) <= m
         /\ Len(r) = m => \A j \in 1..m : r[j] = At(data, q[f], off + j - 1)
    BY <2>10
  <2>. HIDE DEF y, r
  <2>13. Len(r) = m /\ \A j \in 1..m : r[j] = At(data, q[f], off + j - 1)
    <3>1. Len(r) = m
      BY <2>0, <2>11, <2>12
    <3>. QED BY <2>12, <3>1
  <2>14. /\ e \in EntryType /\ e.cur = y /\ e.first = ent[f].first /\ e.cnt = ent[f].cnt
         /\ e.size = ent[f].size
    BY <2>3, <2>12 DEF EntryType
  <2>15. ent' = [ent EXCEPT ![f] = e]
    BY <1>1, <2>3, <2>11
  <2>. HIDE DEF e
  <2>16. DOMAIN ent' = Files /\ ent'[f] = e /\ \A h \in Files \ {f} : ent'[h] = ent[h]
    BY <1>1, <2>3, <2>15
  <2>17. Exact(q)'
    <3>1. Says(e, q[f])
      BY <2>3, <2>12, <2>14 DEF Says
    <3>2. \A h \in Files : Says(ent'[h], q[h])
      BY <2>16, <3>1 DEF Exact
    <3>. QED BY <2>1, <2>3, <2>16, <3>2 DEF Exact
  <2>18. /\ pos' \in [Opens -> Nat] /\ pos'[o] = off + m
         /\ \A x \in Opens \ {o} : pos'[x] = pos[x]
    <3>1. off + m \in Nat
      BY <2>0, <2>4
    <3>. QED BY <2>3, <2>11, <3>1
  <2>19. busy' = busy /\ data' = data
    BY <2>1
  <2>20. ASSUME NEW h \in Files, h # f
         PROVE  (Calling(h) /\ Empty(q, h))' /\ BytesOf(h)' = BytesOf(h)
    <3>1. ent'[h] = ent[h] /\ busy'[h] = busy[h]
      BY <2>16, <2>19, <2>20
    <3>2. \A k \in Nat : At(data', q[h], k) = At(data, q[h], k)
      BY <2>19
    <3>3. \A x \in Opens : FileOf[x] # f => pos'[x] = pos[x]
      BY <1>2, <2>18
    <3>. QED BY <1>1, <2>17, <2>20, <3>1, <3>2, <3>3, OthersStay
  <2>21. busy'[f] = NoWrite
    BY <1>1, <2>19
  <2>22. Length(f) = ent[f].size /\ Length(f)' = ent[f].size
    BY <1>1, <2>14, <2>16, <2>21, IdleLength, IdleLengthNext
  <2>23. Calling(f)' /\ Empty(q, f)'
    <3>1. Calling(f)'
      BY <1>1, <2>21, IdleCalling
    <3>. QED BY <1>1, <2>19, <2>22, <3>1 DEF Contents, Empty
  <2>24. Contents(q)'
    <3>1. reply' \in Seq(Byte \cup {Zero}) /\ DOMAIN busy' = Files
      BY <2>3, <2>11, <2>12, <2>19
    <3>. QED BY <2>18, <2>20, <2>23, <3>1 DEF Contents
  <2>25. BytesOf(f)' = BytesOf(f)
    BY <1>1, <2>17, <2>19, <2>22, SameBytes
  <2>26. BytesOf(f) = Bytes(data, q[f], ent[f].size)
    BY <1>1, <2>22, ContentIs
  <2>27. PICK K \in Nat : K = off + m
    BY <2>0, <2>4
  <2>28. Position(o) = off /\ Position(o)' = K
    <3>1. Position(o) = pos[o] /\ Position(o)' = pos'[o]
      BY <1>1, <1>2, <2>21, IdlePosition, IdlePositionNext
    <3>. QED BY <2>18, <2>27, <3>1 DEF off
  <2>29. /\ Len(BytesOf(f)) = ent[f].size /\ BytesOf(f) \in Seq(Byte \cup {Zero})
         /\ \A k \in 1..ent[f].size : BytesOf(f)[k] = At(data, q[f], k - 1)
    <3>1. q[f] \in ChainType
      BY <1>1, <2>5
    <3>. DEFINE n_ == ent[f].size
                h == q[f]
    <3>2. n_ \in Nat /\ h \in ChainType /\ data \in DataType /\ BytesOf(f) = Bytes(data, h, n_)
      BY <2>3, <2>4, <2>26, <3>1
    <3>. HIDE DEF n_, h
    <3>3. /\ Bytes(data, h, n_) \in Seq(Byte \cup {Zero}) /\ Len(Bytes(data, h, n_)) = n_
          /\ \A k \in 1..n_ : Bytes(data, h, n_)[k] = At(data, h, k - 1)
      BY <3>2, BytesSeq
    <3>. QED BY <3>2, <3>3 DEF n_, h
  <2>30. reply' = SubSeq(BytesOf(f), Position(o) + 1, K)
    <3>. DEFINE w == BytesOf(f)
                i == off + 1
                u == SubSeq(w, i, K)
    <3>1. /\ i \in Int /\ K \in Int /\ K <= ent[f].size /\ K - i + 1 = m
          /\ i <= K => K - i + 1 = m
          /\ ~(i <= K) => m = 0
      BY <2>0, <2>4, <2>11, <2>27, SMTT(30)
    <3>2. \A k \in i..K : k \in 1..ent[f].size
      BY <2>4, <3>1
    <3>3. \A k \in i..K : w[k] = At(data, q[f], k - 1)
      BY <2>29, <3>2
    <3>4. \A k \in i..K : w[k] \in Byte \cup {Zero}
      BY <2>29, <3>2
    <3>. HIDE DEF w, i
    <3>5. /\ u \in Seq(Byte \cup {Zero}) /\ Len(u) = (IF i <= K THEN K - i + 1 ELSE 0)
          /\ \A j \in 1..K-i+1 : u[j] = w[i + j - 1]
      BY <3>1, <3>4, SubSeqProperties
    <3>6. Len(u) = m
      BY <2>0, <3>1, <3>5
    <3>7. ASSUME NEW j \in 1..m PROVE u[j] = r[j]
      <4>. DEFINE k == i + j - 1
      <4>1. k \in i..K /\ k - 1 = off + j - 1
        BY <2>0, <2>4, <3>1 DEF i
      <4>2. u[j] = w[k]
        BY <3>1, <3>5
      <4>3. r[j] = At(data, q[f], off + j - 1)
        BY <2>13
      <4>. HIDE DEF k, u
      <4>4. w[k] = At(data, q[f], k - 1)
        BY <3>3, <4>1
      <4>. QED BY <4>1, <4>2, <4>3, <4>4
    <3>. HIDE DEF u
    <3>8. u = r
      BY <2>0, <2>12, <2>13, <3>5, <3>6, <3>7
    <3>. QED BY <2>11, <2>28, <3>8 DEF u, w, i
  <2>31. [Promise!Next]_Mapped
    <3>1. K \in Position(o)..Len(BytesOf(f))
      BY <2>0, <2>4, <2>11, <2>27, <2>28, <2>29
    <3>2. \A h \in Files : BytesOf(h)' = BytesOf(h)
      BY <2>20, <2>25
    <3>3. \A x \in Opens \ {o} : Position(x)' = Position(x)
      <4>. SUFFICES ASSUME NEW x \in Opens \ {o} PROVE Position(x)' = Position(x)
        OBVIOUS
      <4>. QED BY <2>18, <2>19 DEF Position
    <3>. QED BY <1>1, <1>2, <2>28, <2>30, <3>1, <3>2, <3>3, AbsRead
  <2>. QED BY <2>5, <2>17, <2>24, <2>31, FreshSelf DEF Onward
<1>. QED BY <1>0, <1>3, <1>4, Zenon

-----------------------------------------------------------------------------
(* The start.                                                              *)

LEMMA StartChains ==
    ASSUME Init
    PROVE  /\ Chains([f \in Files |-> OnDisk[f]], fat)
           /\ \A f \in Files : OnDisk[f] \in ChainType
<1>. DEFINE q == [f \in Files |-> OnDisk[f]]
            held == UNION {{OnDisk[f][i] : i \in DOMAIN OnDisk[f]} : f \in Files}
            fileOf(c) == CHOOSE f \in Files : \E i \in DOMAIN OnDisk[f] : OnDisk[f][i] = c
            index(f, c) == CHOOSE i \in DOMAIN OnDisk[f] : OnDisk[f][i] = c
            Next_(c) == LET f == fileOf(c)
                            i == index(f, c)
                        IN  IF i = Len(OnDisk[f]) THEN EOC ELSE OnDisk[f][i + 1]
<1>1. fat = [c \in Entries |-> IF c \in {0, 1, RootClus} THEN EOC
                               ELSE IF c \in held THEN Next_(c) ELSE 0]
  BY DEF Init
<1>2. /\ \A f \in Files : OnDisk[f] \in ChainType
      /\ \A f, g \in Files : \A i \in DOMAIN OnDisk[f], j \in DOMAIN OnDisk[g] :
            OnDisk[f][i] = OnDisk[g][j] => f = g /\ i = j
  BY MountAssumption DEF ChainType
<1>3. \A f \in Files : DOMAIN OnDisk[f] = 1..Len(OnDisk[f]) /\ Len(OnDisk[f]) \in Nat
  <2>. SUFFICES ASSUME NEW f \in Files
                PROVE  DOMAIN OnDisk[f] = 1..Len(OnDisk[f]) /\ Len(OnDisk[f]) \in Nat
    OBVIOUS
  <2>. DEFINE s == OnDisk[f]
  <2>1. s \in ChainType
    BY <1>2
  <2>. HIDE DEF s
  <2>2. DOMAIN s = 1..Len(s) /\ Len(s) \in Nat
    BY <2>1 DEF ChainType
  <2>. QED BY <2>2 DEF s
<1>4. q \in [Files -> ChainType] /\ \A f \in Files : q[f] = OnDisk[f]
  BY <1>2
<1>5. ASSUME NEW f \in Files, NEW i \in DOMAIN OnDisk[f]
      PROVE  fileOf(OnDisk[f][i]) = f /\ index(f, OnDisk[f][i]) = i
  <2>1. \A g \in Files : (\E j \in DOMAIN OnDisk[g] : OnDisk[g][j] = OnDisk[f][i]) => g = f
    BY <1>2
  <2>2. \A j \in DOMAIN OnDisk[f] : OnDisk[f][j] = OnDisk[f][i] => j = i
    BY <1>2
  <2>3. fileOf(OnDisk[f][i]) = f
    BY <2>1
  <2>4. index(f, OnDisk[f][i]) = i
    BY <2>2
  <2>. QED BY <2>3, <2>4
<1>6. ASSUME NEW f \in Files, NEW i \in DOMAIN OnDisk[f]
      PROVE  OnDisk[f][i] \in Clusters \ Fixed /\ OnDisk[f][i] \in Entries
  <2>1. OnDisk[f] \in [1..Len(OnDisk[f]) -> Clusters \ {RootClus}]
    BY <1>2 DEF ChainType
  <2>2. OnDisk[f][i] \in Clusters \ {RootClus}
    BY <1>3, <2>1
  <2>. QED BY <2>2, Constants_ DEF Fixed
<1>7. ASSUME NEW f \in Files, NEW i \in DOMAIN OnDisk[f]
      PROVE  Next_(OnDisk[f][i]) = After(OnDisk[f], i)
  <2>1. fileOf(OnDisk[f][i]) = f /\ index(f, OnDisk[f][i]) = i
    BY <1>5
  <2>. HIDE DEF fileOf, index
  <2>2. Next_(OnDisk[f][i]) = IF i = Len(OnDisk[f]) THEN EOC ELSE OnDisk[f][i + 1]
    BY <2>1
  <2>. QED BY <2>2 DEF After
<1>. HIDE DEF Next_, q
<1>8. ASSUME NEW f \in Files, NEW i \in DOMAIN OnDisk[f]
      PROVE  After(OnDisk[f], i) \in 0..EOC
  <2>1. i # Len(OnDisk[f]) => i + 1 \in DOMAIN OnDisk[f]
    BY <1>3
  <2>. QED BY <1>6, <2>1, Constants_ DEF After
<1>9. \A c \in held : \E f \in Files : \E i \in DOMAIN OnDisk[f] : c = OnDisk[f][i]
  OBVIOUS
<1>10. \A f \in Files : \A i \in DOMAIN OnDisk[f] : OnDisk[f][i] \in held
  OBVIOUS
<1>. HIDE DEF held
<1>11. fat \in [Entries -> 0..EOC] /\ \A c \in Fixed : fat[c] = EOC
  <2>1. 0 \in 0..EOC /\ EOC \in 0..EOC
    BY Constants_
  <2>2. \A c \in held : Next_(c) \in 0..EOC
    BY <1>7, <1>8, <1>9
  <2>. QED BY <1>1, <2>1, <2>2, Constants_ DEF Fixed
<1>12. ASSUME NEW f \in Files, NEW i \in 1..Len(q[f]) PROVE fat[q[f][i]] = After(q[f], i)
  <2>1. q[f] = OnDisk[f] /\ i \in DOMAIN OnDisk[f]
    BY <1>3, <1>4
  <2>2. OnDisk[f][i] \in Entries /\ OnDisk[f][i] \notin Fixed /\ OnDisk[f][i] \in held
    BY <1>6, <1>10, <2>1
  <2>3. fat[OnDisk[f][i]] = Next_(OnDisk[f][i])
    BY <1>1, <2>2 DEF Fixed
  <2>. QED BY <1>7, <2>1, <2>3
<1>13. ASSUME NEW c \in Entries \ Fixed, fat[c] # 0 PROVE In(q, c)
  <2>1. c \in held
    BY <1>1, <1>13 DEF Fixed
  <2>2. PICK f \in Files : \E i \in DOMAIN OnDisk[f] : c = OnDisk[f][i]
    BY <1>9, <2>1
  <2>. QED BY <1>3, <1>4, <2>2 DEF In
<1>14. Apart(q)
  <2>. SUFFICES ASSUME NEW f \in Files, NEW g \in Files, NEW i \in 1..Len(q[f]), NEW j \in 1..Len(q[g]),
                       q[f][i] = q[g][j]
                PROVE  f = g /\ i = j
    BY DEF Apart
  <2>. QED BY <1>2, <1>3, <1>4
<1>. QED BY <1>2, <1>4, <1>11, <1>12, <1>13, <1>14 DEF Chains, q

LEMMA Starts == Init => IInv /\ Promise!Init
<1>. SUFFICES ASSUME Init PROVE IInv /\ Promise!Init
  OBVIOUS
<1>. DEFINE q == [f \in Files |-> OnDisk[f]]
<1>1. Chains(q, fat) /\ (\A f \in Files : OnDisk[f] \in ChainType) /\ \A f \in Files : q[f] = OnDisk[f]
  BY StartChains
<1>. HIDE DEF q
<1>2. /\ data = [c \in Clusters |-> Blank] /\ pos = [o \in Opens |-> 0]
      /\ busy = [f \in Files |-> NoWrite] /\ reply = <<>>
      /\ ent = [f \in Files |->
                  LET first == IF OnDisk[f] = <<>> THEN 0 ELSE OnDisk[f][1]
                  IN  [first |-> first, cur |-> first, cnt |-> Len(OnDisk[f]),
                       size |-> Len(OnDisk[f]) * BytSPerClus]]
  BY DEF Init
<1>3. data \in DataType
  BY <1>2 DEF DataType, Cluster, Blank, B
<1>4. ASSUME NEW f \in Files
      PROVE  Says(ent[f], q[f]) /\ ent[f].size = Len(OnDisk[f]) * BytSPerClus /\ ent[f].size \in Nat
  <2>. DEFINE s == OnDisk[f]
              first == IF s = <<>> THEN 0 ELSE s[1]
  <2>1. s \in ChainType /\ Len(s) \in Nat /\ BytSPerClus \in Nat
    BY <1>1, Constants_ DEF ChainType, B
  <2>2. s # <<>> => 1 \in 1..Len(s) /\ s[1] \in Clusters
    BY <2>1 DEF ChainType
  <2>3. first \in 0..EOC /\ first \in Nat
    <3>1. 0 \in 0..EOC /\ Clusters \subseteq 0..EOC
      BY Constants_
    <3>2. first \in 0..EOC
      <4>1. CASE s = <<>>
        BY <3>1, <4>1
      <4>2. CASE s # <<>>
        BY <2>2, <3>1, <4>2
      <4>. QED BY <4>1, <4>2
    <3>. HIDE DEF first
    <3>. QED BY <3>2
  <2>4. ent[f] = [first |-> first, cur |-> first, cnt |-> Len(s), size |-> Len(s) * BytSPerClus]
    BY <1>2
  <2>5. Len(s) * BytSPerClus \in Nat
    BY <2>1
  <2>. DEFINE n == Len(s) * BytSPerClus
  <2>6. n \in Nat /\ ent[f] = [first |-> first, cur |-> first, cnt |-> Len(s), size |-> n]
    BY <2>4, <2>5
  <2>7. q[f] = s
    BY <1>1
  <2>. HIDE DEF n, s, first
  <2>8. /\ ent[f] \in EntryType /\ ent[f].first = first /\ ent[f].cur = first
        /\ ent[f].cnt = Len(s) /\ ent[f].size = n
    BY <2>1, <2>3, <2>6 DEF EntryType
  <2>9. Says(ent[f], s)
    BY <2>2, <2>8 DEF Says, first
  <2>. QED BY <2>6, <2>7, <2>8, <2>9 DEF n, s
<1>5. Exact(q)
  <2>1. DOMAIN ent = Files
    BY <1>2
  <2>. QED BY <1>1, <1>3, <1>4, <2>1 DEF Exact
<1>6. ASSUME NEW f \in Files, NEW k \in Nat PROVE At(data, q[f], k) = Zero
  <2>1. k \div B \in Nat /\ k % B \in 0..B-1 /\ q[f] \in ChainType
    BY <1>1, Constants_, DivMod
  <2>2. Blank[k % B] = Zero
    BY <2>1 DEF Blank, B
  <2>. DEFINE a == k \div B
  <2>3. a < Len(q[f]) => data[q[f][a + 1]] = Blank
    <3>1. a < Len(q[f]) => a + 1 \in 1..Len(q[f])
      <4>1. Len(q[f]) \in Nat /\ a \in Nat
        BY <2>1 DEF ChainType
      <4>. HIDE DEF a
      <4>. QED BY <4>1
    <3>2. \A i \in 1..Len(q[f]) : q[f][i] \in Clusters
      BY <1>1, Members
    <3>. HIDE DEF a
    <3>. QED BY <1>2, <3>1, <3>2
  <2>4. At(data, q[f], k) = IF a < Len(q[f]) THEN data[q[f][a + 1]][k % B] ELSE Zero
    BY DEF At
  <2>. HIDE DEF a
  <2>. QED BY <2>2, <2>3, <2>4
<1>7. ASSUME NEW f \in Files PROVE busy[f] = NoWrite /\ Calling(f) /\ Empty(q, f)
  <2>1. busy[f] = NoWrite
    BY <1>2
  <2>2. NoWrite \in BusyType /\ Len(NoWrite.rest) = 0 /\ NoWrite.open = Idle
    BY DEF NoWrite, BusyType
  <2>3. 0 <= MaxCall
    BY Constants_
  <2>. QED BY <1>6, <2>1, <2>2, <2>3 DEF Calling, Empty
<1>8. Contents(q)
  <2>1. pos \in [Opens -> Nat] /\ reply \in Seq(Byte \cup {Zero}) /\ DOMAIN busy = Files
    BY <1>2
  <2>. QED BY <1>7, <2>1 DEF Contents
<1>9. Content_ = [f \in Files |-> [k \in 1..Len(OnDisk[f]) * BytSPerClus |-> Zero]]
  <2>1. ASSUME NEW f \in Files PROVE BytesOf(f) = [k \in 1..Len(OnDisk[f]) * BytSPerClus |-> Zero]
    <3>. DEFINE n == Len(OnDisk[f]) * BytSPerClus
    <3>1. BytesOf(f) = Bytes(data, q[f], n) /\ n \in Nat
      <4>1. Length(f) = ent[f].size
        BY <1>7, IdleLength
      <4>. QED BY <1>4, <1>5, <1>8, <4>1, ContentIs
    <3>. HIDE DEF n
    <3>2. \A k \in 1..n : At(data, q[f], k - 1) = Zero
      <4>. SUFFICES ASSUME NEW k \in 1..n PROVE At(data, q[f], k - 1) = Zero
        OBVIOUS
      <4>1. k - 1 \in Nat
        BY <3>1
      <4>. QED BY <1>6, <4>1
    <3>. QED BY <3>1, <3>2 DEF Bytes, n
  <2>. QED BY <2>1 DEF Content_
<1>10. Positions = [o \in Opens |-> 0]
  <2>1. ASSUME NEW o \in Opens PROVE Position(o) = 0
    <3>1. busy[FileOf[o]] = NoWrite
      BY <1>2, FileAssumption
    <3>. QED BY <1>2, <3>1, IdlePosition
  <2>. QED BY <2>1 DEF Positions
<1>11. q \in [Files -> ChainType]
  BY <1>1 DEF q
<1>12. Promise!Init
  BY <1>2, <1>9, <1>10 DEF Promise!Init, Content_, Positions
<1>. QED BY <1>5, <1>8, <1>11, <1>12 DEF IInv

-----------------------------------------------------------------------------
(* What holds.                                                             *)

\* One step of the files.
LEMMA OneStep ==
    ASSUME SmallMedium, NEW q, Exact(q), Contents(q), [Next]_vars, FirstSector, FirstSector'
    PROVE  Onward(q) /\ [Promise!Next]_Mapped
<1>1. CASE UNCHANGED vars
  BY <1>1, StopStep DEF vars
<1>2. ASSUME NEW o \in Opens, Open(o) PROVE Onward(q) /\ [Promise!Next]_Mapped
  BY <1>2, OpenStep
<1>3. ASSUME NEW o \in Opens, WriteCall(o) PROVE Onward(q) /\ [Promise!Next]_Mapped
  BY <1>3, CallStep
<1>4. ASSUME NEW o \in Opens, NEW n \in 0..MaxCall, Read(o, n)
      PROVE  Onward(q) /\ [Promise!Next]_Mapped
  BY <1>4, ReadStep
<1>5. ASSUME NEW f \in Files, WritePiece(f) PROVE Onward(q) /\ [Promise!Next]_Mapped
  BY <1>5, PieceStep
<1>6. ASSUME NEW f \in Files, WriteReturn(f) PROVE Onward(q) /\ [Promise!Next]_Mapped
  BY <1>6, ReturnStep
<1>. QED BY <1>1, <1>2, <1>3, <1>4, <1>5, <1>6 DEF Next

\* The clusters of the chain, in a form that holds of every state.
ChainsKnown == \A q \in [Files -> ChainType] : Exact(q) =>
                  \A f \in Files : Chain(f) = {q[f][i] : i \in 1..Len(q[f])}

LEMMA KnowChains == ChainsKnown
<1>. SUFFICES ASSUME NEW q \in [Files -> ChainType], Exact(q), NEW f \in Files
              PROVE  Chain(f) = {q[f][i] : i \in 1..Len(q[f])}
  BY DEF ChainsKnown
<1>1. Chains(q, fat) /\ Says(ent[f], q[f])
  BY DEF Exact
<1>. QED BY <1>1, ChainIs

LEMMA Invariance == SmallMedium => (Spec /\ []FirstSector => []IInv)
<1>. SUFFICES ASSUME SmallMedium PROVE Spec /\ []FirstSector => []IInv
  OBVIOUS
<1>1. Init => IInv
  BY Starts
<1>2. IInv /\ [Next]_vars /\ FirstSector /\ FirstSector' => IInv'
  <2>. SUFFICES ASSUME IInv, [Next]_vars, FirstSector, FirstSector' PROVE IInv'
    OBVIOUS
  <2>1. PICK q \in [Files -> ChainType] : Exact(q) /\ Contents(q)
    BY DEF IInv
  <2>2. Onward(q)
    BY <2>1, OneStep
  <2>. QED BY <2>2 DEF Onward, IInv
<1>. QED BY <1>1, <1>2, PTL DEF Spec

\* On a medium that ends before the sector readFAT() asks for when it is given an end
\* mark (below 1 GB), and as long as allocClus() finds a free entry in the first sector
\* of the FAT, where it numbers clusters rightly, what the FAT marks as used is the root directory and the
\* chains of the files, which share nothing and are as long as the entries say.
THEOREM ChainsExactTheorem == SmallMedium => (Spec /\ []FirstSector => []ChainsExact)
<1>. SUFFICES ASSUME SmallMedium PROVE Spec /\ []FirstSector => []ChainsExact
  OBVIOUS
<1>1. IInv => ChainsExact
  BY ExactSays DEF IInv
<1>. QED BY <1>1, Invariance, PTL

\* A FAT of one sector always has what allocClus() needs.
LEMMA OneSector == FATSz = 1 => (Spec => []FirstSector)
<1>. SUFFICES ASSUME FATSz = 1 PROVE Spec => []FirstSector
  OBVIOUS
<1>1. FirstSector
  BY DEF FirstSector, Window
<1>. QED BY <1>1, PTL

\* Then, on such a medium, the calls on several opens of several files implement byte files: reading
\* returns what was written, and zeros where nothing was.
THEOREM FilesAreByteFiles == SmallMedium => (Spec /\ []FirstSector => IsByteFiles)
<1>. SUFFICES ASSUME SmallMedium PROVE Spec /\ []FirstSector => IsByteFiles
  OBVIOUS
<1>1. Init => Promise!Init
  BY Starts
<1>2. IInv /\ [Next]_vars /\ FirstSector /\ FirstSector' => [Promise!Next]_Mapped
  <2>. SUFFICES ASSUME IInv, [Next]_vars, FirstSector, FirstSector' PROVE [Promise!Next]_Mapped
    OBVIOUS
  <2>1. PICK q \in [Files -> ChainType] : Exact(q) /\ Contents(q)
    BY DEF IInv
  <2>. QED BY <2>1, OneStep
<1>. QED BY <1>1, <1>2, Invariance, PTL
        DEF Spec, IsByteFiles, Promise!Spec, Mapped, Content_, Positions

\* And a cluster that becomes part of a file was free before.
THEOREM AllocatedWasFreeTheorem == SmallMedium => (Spec /\ []FirstSector => AllocatedWasFree)
<1>. SUFFICES ASSUME SmallMedium PROVE Spec /\ []FirstSector => AllocatedWasFree
  OBVIOUS
<1>0. ChainsKnown'
  BY KnowChains, PTL
<1>1. IInv /\ [Next]_vars /\ FirstSector /\ FirstSector' =>
        [\A f \in Files : \A c \in Chain(f)' \ Chain(f) : fat[c] = 0]_vars
  <2>. SUFFICES ASSUME IInv, [Next]_vars, FirstSector, FirstSector',
                       NEW f \in Files, NEW c \in Chain(f)' \ Chain(f)
                PROVE  fat[c] = 0
    OBVIOUS
  <2>1. PICK q \in [Files -> ChainType] : Exact(q) /\ Contents(q)
    BY DEF IInv
  <2>2. PICK p \in [Files -> ChainType] : Exact(p)' /\ Fresh(q, p)
    BY <2>1, OneStep DEF Onward
  <2>3. Chain(f) = {q[f][i] : i \in 1..Len(q[f])}
    BY <2>1, KnowChains DEF ChainsKnown
  <2>4. Chain(f)' = {p[f][i] : i \in 1..Len(p[f])}
    BY <1>0, <2>2 DEF ChainsKnown
  <2>. QED BY <2>2, <2>3, <2>4 DEF Fresh
<1>. QED BY <1>1, Invariance, PTL DEF Spec, AllocatedWasFree
=============================================================================
