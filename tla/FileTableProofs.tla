--------------------------- MODULE FileTableProofs ---------------------------
(***************************************************************************)
(* Proofs about the cache of directory entries and the file table: every   *)
(* counter says how many references there are, in files and in entries;    *)
(* and the entries in use form a tree, as the directories on the disk do.   *)
(***************************************************************************)
EXTENDS FileTable, FiniteSetTheorems, SequenceTheorems, WellFoundedInduction, TLAPS

Entries == {Root} \cup Slots
Ind(b) == IF b THEN 1 ELSE 0

-----------------------------------------------------------------------------
(* What the variables hold while the kernel runs.                          *)

\* What CHOOSE stands for in a directory without a free place.
Nowhere == CHOOSE p \in {} : \A q \in {} : p <= q

EntryRecord == [refcnt : Nat, parent : Entries \cup {NoEntry}, name : Name \cup {NoName},
                place : Places \cup {0, Nowhere}, dir : BOOLEAN, clus : Dirs \cup {0, DataClus},
                uptodate : BOOLEAN, dirty : BOOLEAN, home : Dirs \cup {0}]
EntryType == {r \in EntryRecord : r.dir <=> r.clus \in Dirs}

CallType == [pc : Pcs, call : Calls, cur : Entries \cup {NoEntry}, nxt : Slots \cup {NoEntry},
             put : Slots \cup {NoEntry}, rest : Seq(Name \cup {Dot, DotDot}), then : Pcs,
             file : Sfds \cup {-1}, fd : Fds \cup {-1}]

FileType == [type : FileTypes, count : Nat, entry : Entries \cup {NoEntry}]

\* Every slot is on the ring, once.
Ring(o) ==
    /\ o \in Seq(Slots) /\ Len(o) = ENTRY_CACHE_NUM
    /\ \A e \in Slots : \E i \in 1..ENTRY_CACHE_NUM : o[i] = e
    /\ \A i, j \in 1..ENTRY_CACHE_NUM : o[i] = o[j] => i = j

\* Where the call is that eput() has interrupted, if it has.
Doing(a) == IF a.pc = "flush" THEN a.then ELSE a.pc

Creates(a) == a.call \in {"creat", "mkdir"}
Walking == {"walk", "search", "arrived", "lookup", "make"}
HasCur == Walking \cup {"giveUp", "drop", "trunc", "chdir", "empty", "lockParent", "remove"}
HasNxt == {"search", "lookup", "make"}
Resumes == {"user", "walk", "arrived", "giveUp", "drop", "chdir", "unlock"}

\* The variables of a call at each place of it.
Shape(a) ==
    /\ a.cur # NoEntry <=> Doing(a) \in HasCur
    /\ a.nxt # NoEntry <=> Doing(a) \in HasNxt
    /\ a.put # NoEntry <=> a.pc = "flush"
    /\ IF a.pc = "flush" THEN a.then \in Resumes ELSE a.then = "user"
    /\ Doing(a) \in {"lookup", "make"} => Creates(a)
    /\ Creates(a) /\ Doing(a) \in Walking => a.rest # <<>> /\ a.rest[Len(a.rest)] \in Name
    /\ Doing(a) \in {"walk", "search"} => Len(a.rest) > (IF Creates(a) THEN 1 ELSE 0)
    /\ Doing(a) \in {"arrived", "lookup", "make"} =>
          Len(a.rest) = (IF Creates(a) THEN 1 ELSE 0)

ETyped(E) == E \in [Entries -> EntryType]

Typed ==
    /\ ETyped(entry) /\ Ring(order)
    /\ holder \in [Entries -> Tasks \cup {Nobody}]
    /\ cwd \in [Tasks -> Entries] /\ at \in [Tasks -> CallType]
    /\ leak \in [Entries -> Nat] /\ disk \in [Dirs -> [Places -> PlaceType]]
    /\ \A t \in Tasks : Shape(at[t])

\* The root is its own parent; a slot in use has one, which is not itself.
Sound(E) ==
    /\ E[Root].parent = Root
    /\ \A e \in Slots : E[e].refcnt > 0 => E[e].parent \in Entries \ {e}

\* The entry that a lookup has taken for a name not found yet is its task's alone,
\* and the lookup is in a directory; what is emptied is none.
Working(t) ==
    /\ at[t].pc \in HasNxt =>
          LET e == at[t].nxt IN
          /\ entry[e].refcnt = 1 /\ ~entry[e].uptodate
          /\ entry[e].parent = at[t].cur /\ entry[e].name = Head(at[t].rest)
          /\ entry[e].name \in Name /\ entry[at[t].cur].dir
    /\ at[t].pc \in {"trunc", "empty"} => ~entry[at[t].cur].dir

\* The locks that a call keeps.
LocksOf(a, E) ==
    LET p == Doing(a)
    IN  (IF p \in {"search", "lookup", "giveUp", "trunc", "empty", "lockParent", "make", "remove"}
           THEN {a.cur} ELSE {})
        \cup (IF p = "make" THEN {a.nxt} ELSE {})
        \cup (IF p = "remove" THEN {E[a.cur].parent} ELSE {})
        \cup (IF a.pc = "flush" THEN {a.put} ELSE {})

LocksExact ==
    \A t \in Tasks : \A e \in Entries :
        /\ e \in LocksOf(at[t], entry) => holder[e] = t
        /\ holder[e] = t => leak[e] > 0 \/ e \in LocksOf(at[t], entry)

\* Valid entries, by directory and name, are different; what is being looked up
\* in a directory has none.
OneHit ==
    /\ \A a, b \in Slots :
          /\ entry[a].uptodate /\ entry[b].uptodate /\ entry[a].name # NoName
          /\ entry[a].parent = entry[b].parent /\ entry[a].name = entry[b].name
          => a = b
    /\ \A t \in Tasks : at[t].pc \in HasNxt =>
          \A e \in Slots : ~(/\ entry[e].uptodate /\ entry[e].parent = at[t].cur
                             /\ entry[e].name = Head(at[t].rest))

-----------------------------------------------------------------------------
(* The file table.                                                         *)

\* What open() has set aside while it empties the file.
Reserved(t) ==
    at[t].pc = "trunc" =>
        /\ at[t].file \in Sfds /\ at[t].fd \in Fds
        /\ FTable[t][at[t].fd] = Marked /\ file[at[t].file].count = 1

\* The descriptors that lead to a file.
Leads(T, s) == {p \in Tasks \X Fds : T[p[1]][p[2]] = s}

\* The books of a file are in order, so that no two calls fill in the same one.
FileBalanced(s) ==
    file[s].count = Cardinality(Leads(FTable, s)) + Ind(s \in Opening) + lost[s] + Ind(s < Std)

\* A file that is open has an entry, of its kind.
HasEntry(s) ==
    file[s].count > 0 /\ file[s].type \in {"reg", "dir"} /\ s \notin Opening
        => /\ file[s].entry \in Entries
           /\ file[s].type = "reg" => ~entry[file[s].entry].dir

TableTyped ==
    /\ file \in [Sfds -> FileType] /\ lost \in [Sfds -> Nat]
    /\ FTable \in [Tasks -> [Fds -> Sfds \cup {NULL, Marked}]]
    /\ \A t \in Tasks : Reserved(t)
    /\ \A t, u \in Tasks : at[t].pc = "trunc" /\ at[u].pc = "trunc"
                              /\ at[t].file = at[u].file => t = u
    /\ \A s \in Sfds : FileBalanced(s)

-----------------------------------------------------------------------------
(* Numbers and finite sets.                                                *)

LEMMA EntryFacts ==
    /\ Root \in Entries /\ Slots \subseteq Entries /\ Root \notin Slots
    /\ NoEntry \notin Entries /\ Entries = Slots \cup {Root}
    /\ Slots = 1..ENTRY_CACHE_NUM /\ ENTRY_CACHE_NUM \in Nat \ {0}
BY CacheAssumption DEF Entries, Root, Slots, NoEntry

LEMMA FiniteSlots == IsFiniteSet(Slots)
BY CacheAssumption, FS_Interval DEF Slots

LEMMA FiniteFds == IsFiniteSet(Fds) /\ IsFiniteSet(Sfds)
<1>1. PROCOFILENUM - 1 \in Int /\ SYSOFILENUM - 1 \in Int
  BY TableAssumption
<1>2. IsFiniteSet(0..PROCOFILENUM - 1) /\ IsFiniteSet(0..SYSOFILENUM - 1)
  BY <1>1, FS_Interval
<1>. QED BY <1>2 DEF Fds, Sfds

\* Two finite sets that differ at most in x.
LEMMA CardDelta ==
    ASSUME NEW A, NEW B, NEW x, IsFiniteSet(A), A \ {x} = B \ {x}
    PROVE  /\ IsFiniteSet(B) /\ Cardinality(A) \in Nat /\ Cardinality(B) \in Nat
           /\ Cardinality(A) + Ind(x \in B) = Cardinality(B) + Ind(x \in A)
<1>. DEFINE C == A \ {x}
<1>1. IsFiniteSet(C)
  BY FS_Subset
<1>2. Cardinality(C) \in Nat /\ IsFiniteSet(C \cup {x}) /\ Cardinality(C \cup {x}) = Cardinality(C) + 1
  BY <1>1, FS_AddElement, FS_CardinalityType
<1>3. A = (IF x \in A THEN C \cup {x} ELSE C) /\ B = (IF x \in B THEN C \cup {x} ELSE C)
  OBVIOUS
<1>4. Cardinality(A) = Cardinality(C) + Ind(x \in A)
  <2>1. CASE x \in A
    BY <1>2, <1>3, <2>1 DEF Ind
  <2>2. CASE x \notin A
    BY <1>2, <1>3, <2>2 DEF Ind
  <2>. QED BY <2>1, <2>2
<1>5. Cardinality(B) = Cardinality(C) + Ind(x \in B) /\ IsFiniteSet(B)
  <2>1. CASE x \in B
    BY <1>1, <1>2, <1>3, <2>1 DEF Ind
  <2>2. CASE x \notin B
    BY <1>1, <1>2, <1>3, <2>2 DEF Ind
  <2>. QED BY <2>1, <2>2
<1>. HIDE DEF C
<1>6. Ind(x \in A) \in 0..1 /\ Ind(x \in B) \in 0..1
  BY DEF Ind
<1>. QED BY <1>2, <1>4, <1>5, <1>6

\* A finite set that is not empty.
LEMMA CardPositive ==
    ASSUME NEW A, NEW x \in A, IsFiniteSet(A)
    PROVE  Cardinality(A) \in Nat /\ Cardinality(A) >= 1
<1>1. Cardinality(A) \in Nat /\ (Cardinality(A) = 0 <=> A = {})
  BY FS_EmptySet, FS_CardinalityType
<1>. QED BY <1>1

-----------------------------------------------------------------------------
(* Counting references.  A and W stand for at and cwd, E for entry, F for  *)
(* file.                                                                   *)

Variables3 == {"cur", "nxt", "put"}

CallRefs(A, x) == {v \in Tasks \X Variables3 : A[v[1]][v[2]] = x}
CwdRefs(A, W, x) == {t \in Tasks : W[t] = x /\ A[t].pc # "chdir" /\ A[t].then # "chdir"}
FileRefs(F, O, x) == {s \in Sfds : /\ F[s].count > 0 /\ F[s].entry = x
                                   /\ F[s].type \in {"reg", "dir"} /\ s \notin O}
Below(E, x) == {c \in Slots \ {x} : E[c].refcnt > 0 /\ E[c].parent = x}

\* The references from tasks, and those of one task with the call a and directory w.
Held(A, W, x) == Cardinality(CallRefs(A, x)) + Cardinality(CwdRefs(A, W, x))
Own(a, w, x) == Ind(a.cur = x) + Ind(a.nxt = x) + Ind(a.put = x)
                  + Ind(w = x /\ a.pc # "chdir" /\ a.then # "chdir")

\* What x counts besides the entries below it.
Owed(E, x) == E[x].refcnt - Cardinality(Below(E, x))

\* The books of an entry are in order.
Balanced(x) == Owed(entry, x) = Held(at, cwd, x) + Cardinality(FileRefs(file, Opening, x))
                                  + leak[x]

LEMMA FiniteRefs ==
    ASSUME NEW A, NEW W, NEW x
    PROVE  IsFiniteSet(CallRefs(A, x)) /\ IsFiniteSet(CwdRefs(A, W, x))
<1>1. IsFiniteSet(Variables3)
  <2>1. IsFiniteSet({"cur"}) /\ IsFiniteSet({"nxt"}) /\ IsFiniteSet({"put"})
    BY FS_Singleton
  <2>2. IsFiniteSet({"cur"} \cup {"nxt"})
    BY <2>1, FS_Union
  <2>3. IsFiniteSet(({"cur"} \cup {"nxt"}) \cup {"put"})
    BY <2>1, <2>2, FS_Union
  <2>. QED BY <2>3 DEF Variables3
<1>2. IsFiniteSet(Tasks \X Variables3)
  BY <1>1, CacheAssumption, FS_Product
<1>. QED BY <1>2, CacheAssumption, FS_Subset DEF CallRefs, CwdRefs

LEMMA FiniteBelow ==
    ASSUME NEW E, NEW x
    PROVE  IsFiniteSet(Below(E, x)) /\ Cardinality(Below(E, x)) \in Nat
<1>1. IsFiniteSet(Below(E, x))
  BY FiniteSlots, FS_Subset DEF Below
<1>. QED BY <1>1, FS_CardinalityType

LEMMA FiniteFileRefs ==
    ASSUME NEW F, NEW O, NEW x
    PROVE  IsFiniteSet(FileRefs(F, O, x)) /\ Cardinality(FileRefs(F, O, x)) \in Nat
<1>1. IsFiniteSet(FileRefs(F, O, x))
  BY FiniteFds, FS_Subset DEF FileRefs
<1>. QED BY <1>1, FS_CardinalityType

\* The references of tasks other than t.
RestCalls(A, t, x) == {v \in CallRefs(A, x) : v[1] # t}
RestCwd(A, W, t, x) == CwdRefs(A, W, x) \ {t}
Rest(A, W, t, x) == Cardinality(RestCalls(A, t, x)) + Cardinality(RestCwd(A, W, t, x))

LEMMA TaskSplit ==
    ASSUME NEW A, NEW W, NEW t \in Tasks, NEW x
    PROVE  /\ Rest(A, W, t, x) \in Nat /\ Own(A[t], W[t], x) \in Nat
           /\ Held(A, W, x) = Rest(A, W, t, x) + Own(A[t], W[t], x)
<1>. DEFINE S(V) == {v \in CallRefs(A, x) : v[1] # t \/ v[2] \in V}
            S0 == RestCalls(A, t, x)
            S1 == S({"cur"})
            S2 == S({"cur", "nxt"})
            S3 == CallRefs(A, x)
            C0 == RestCwd(A, W, t, x)
            C1 == CwdRefs(A, W, x)
            i == Ind(A[t].cur = x)
            j == Ind(A[t].nxt = x)
            k == Ind(A[t].put = x)
            l == Ind(W[t] = x /\ A[t].pc # "chdir" /\ A[t].then # "chdir")
<1>1. IsFiniteSet(S3) /\ IsFiniteSet(C1)
  BY FiniteRefs
<1>2. IsFiniteSet(S2) /\ IsFiniteSet(S1) /\ IsFiniteSet(S0)
  BY <1>1, FS_Subset DEF RestCalls
<1>3. /\ <<t, "put">> \in S3 <=> A[t].put = x
      /\ <<t, "put">> \notin S2 /\ S3 \ {<<t, "put">>} = S2 \ {<<t, "put">>}
  BY DEF CallRefs, Variables3
<1>4. /\ <<t, "nxt">> \in S2 <=> A[t].nxt = x
      /\ <<t, "nxt">> \notin S1 /\ S2 \ {<<t, "nxt">>} = S1 \ {<<t, "nxt">>}
  BY DEF CallRefs, Variables3
<1>5. /\ <<t, "cur">> \in S1 <=> A[t].cur = x
      /\ <<t, "cur">> \notin S0 /\ S1 \ {<<t, "cur">>} = S0 \ {<<t, "cur">>}
  BY DEF CallRefs, Variables3, RestCalls
<1>6. /\ t \in C1 <=> (W[t] = x /\ A[t].pc # "chdir" /\ A[t].then # "chdir")
      /\ t \notin C0 /\ C1 \ {t} = C0 \ {t}
  BY DEF CwdRefs, RestCwd
<1>. HIDE DEF S, S0, S1, S2, S3, C0, C1
<1>7. Cardinality(S3) = Cardinality(S2) + k /\ Cardinality(S2) \in Nat /\ Cardinality(S3) \in Nat
  <2>1. Cardinality(S3) + Ind(<<t, "put">> \in S2) = Cardinality(S2) + Ind(<<t, "put">> \in S3)
        /\ Cardinality(S2) \in Nat /\ Cardinality(S3) \in Nat
    BY <1>1, <1>3, CardDelta
  <2>. QED BY <1>3, <2>1 DEF Ind
<1>8. Cardinality(S2) = Cardinality(S1) + j /\ Cardinality(S1) \in Nat
  <2>1. Cardinality(S2) + Ind(<<t, "nxt">> \in S1) = Cardinality(S1) + Ind(<<t, "nxt">> \in S2)
        /\ Cardinality(S1) \in Nat
    BY <1>2, <1>4, CardDelta
  <2>. QED BY <1>4, <1>7, <2>1 DEF Ind
<1>9. Cardinality(S1) = Cardinality(S0) + i /\ Cardinality(S0) \in Nat
  <2>1. Cardinality(S1) + Ind(<<t, "cur">> \in S0) = Cardinality(S0) + Ind(<<t, "cur">> \in S1)
        /\ Cardinality(S0) \in Nat
    BY <1>2, <1>5, CardDelta
  <2>. QED BY <1>5, <1>8, <2>1 DEF Ind
<1>10. Cardinality(C1) = Cardinality(C0) + l /\ Cardinality(C0) \in Nat
  <2>1. Cardinality(C1) + Ind(t \in C0) = Cardinality(C0) + Ind(t \in C1)
        /\ Cardinality(C0) \in Nat /\ Cardinality(C1) \in Nat
    BY <1>1, <1>6, CardDelta
  <2>. QED BY <1>6, <2>1 DEF Ind
<1>11. i \in 0..1 /\ j \in 0..1 /\ k \in 0..1 /\ l \in 0..1
  BY DEF Ind
<1>12. /\ Held(A, W, x) = Cardinality(S3) + Cardinality(C1)
       /\ Rest(A, W, t, x) = Cardinality(S0) + Cardinality(C0)
       /\ Own(A[t], W[t], x) = i + j + k + l
  BY DEF Held, Rest, Own, S0, S3, C0, C1
<1>. HIDE DEF i, j, k, l
<1>. QED BY <1>7, <1>8, <1>9, <1>10, <1>11, <1>12

\* What two tasks refer to counts both.
LEMMA TwoTasks ==
    ASSUME NEW A, NEW W, NEW t \in Tasks, NEW u \in Tasks, t # u, NEW x,
           Own(A[t], W[t], x) >= 1, Own(A[u], W[u], x) >= 1
    PROVE  Held(A, W, x) >= 2 /\ Held(A, W, x) \in Nat
<1>1. Rest(A, W, t, x) >= 1
  <2>1. IsFiniteSet(RestCalls(A, t, x)) /\ IsFiniteSet(RestCwd(A, W, t, x))
    BY FiniteRefs, FS_Subset DEF RestCalls, RestCwd
  <2>2. /\ Cardinality(RestCalls(A, t, x)) \in Nat
        /\ Cardinality(RestCwd(A, W, t, x)) \in Nat
    BY <2>1, FS_CardinalityType
  <2>3. \/ \E v \in Variables3 : A[u][v] = x
        \/ W[u] = x /\ A[u].pc # "chdir" /\ A[u].then # "chdir"
    BY DEF Own, Ind, Variables3
  <2>4. CASE \E v \in Variables3 : A[u][v] = x
    <3>1. PICK v \in Variables3 : A[u][v] = x
      BY <2>4
    <3>2. <<u, v>> \in RestCalls(A, t, x)
      BY <3>1 DEF RestCalls, CallRefs
    <3>. QED BY <2>1, <2>2, <3>2, CardPositive DEF Rest
  <2>5. CASE W[u] = x /\ A[u].pc # "chdir" /\ A[u].then # "chdir"
    <3>1. u \in RestCwd(A, W, t, x)
      BY <2>5 DEF RestCwd, CwdRefs
    <3>. QED BY <2>1, <2>2, <3>1, CardPositive DEF Rest
  <2>. QED BY <2>3, <2>4, <2>5
<1>2. /\ Rest(A, W, t, x) \in Nat /\ Own(A[t], W[t], x) \in Nat
      /\ Held(A, W, x) = Rest(A, W, t, x) + Own(A[t], W[t], x)
  BY TaskSplit
<1>. QED BY <1>1, <1>2

-----------------------------------------------------------------------------
(* The ring.                                                               *)

C(E, O) == [entry |-> E, order |-> O]
N == ENTRY_CACHE_NUM

\* The ring w is O without its place p: what is behind it moves up by one.
MovedUp(w, O, p) ==
    /\ w \in Seq(Slots) /\ Len(w) = N - 1
    /\ \A i \in 1..N - 1 : w[i] = IF i < p THEN O[i] ELSE O[i + 1]

LEMMA WithoutAt ==
    ASSUME NEW E, NEW O, Ring(O), NEW b \in Slots
    PROVE  \E p \in 1..N : O[p] = b /\ MovedUp(Without(C(E, O), b), O, p)
<1>. DEFINE p == Position(C(E, O), b)
            front == SubSeq(O, 1, p - 1)
            back  == SubSeq(O, p + 1, N)
<1>1. O \in Seq(Slots) /\ Len(O) = N /\ N \in Nat
  BY EntryFacts DEF Ring, N
<1>2. p \in 1..N /\ O[p] = b
  BY DEF Ring, Position, C, N
<1>3. Without(C(E, O), b) = front \o back
  BY <1>1 DEF Without, RemoveAt, C
<1>. HIDE DEF p, N
<1>4. /\ front \in Seq(Slots) /\ Len(front) = p - 1
      /\ \A i \in 1..p - 1 : front[i] = O[i]
  <2>1. \A i \in 1..p - 1 : O[i] \in Slots
    BY <1>1, <1>2, ElementOfSeq
  <2>. QED BY <1>1, <1>2, <2>1
<1>5. /\ back \in Seq(Slots) /\ Len(back) = N - p
      /\ \A i \in 1..N - p : back[i] = O[p + i]
  <2>1. \A i \in p + 1..N : O[i] \in Slots
    BY <1>1, <1>2, ElementOfSeq
  <2>. QED BY <1>1, <1>2, <2>1
<1>. HIDE DEF front, back
<1>6. /\ front \o back \in Seq(Slots) /\ Len(front \o back) = N - 1
      /\ \A i \in 1..N - 1 : (front \o back)[i] = IF i <= p - 1 THEN front[i]
                                                  ELSE back[i - (p - 1)]
  <2>1. /\ front \o back \in Seq(Slots) /\ Len(front \o back) = Len(front) + Len(back)
        /\ \A i \in 1..Len(front) + Len(back) :
              (front \o back)[i] = IF i <= Len(front) THEN front[i] ELSE back[i - Len(front)]
    BY ONLY <1>4, <1>5, ConcatProperties
  <2>2. (p - 1) + (N - p) = N - 1
    BY <1>1, <1>2
  <2>. QED BY <1>4, <1>5, <2>1, <2>2
<1>7. ASSUME NEW i \in 1..N - 1
      PROVE  (front \o back)[i] = IF i < p THEN O[i] ELSE O[i + 1]
  <2>1. CASE i < p
    BY <1>1, <1>2, <1>4, <1>6, <2>1
  <2>2. CASE ~(i < p)
    <3>1. i - (p - 1) \in 1..N - p /\ p + (i - (p - 1)) = i + 1
      BY <1>1, <1>2, <2>2
    <3>. QED BY <1>1, <1>2, <1>5, <1>6, <2>2, <3>1
  <2>. QED BY <2>1, <2>2
<1>. QED BY <1>2, <1>3, <1>6, <1>7 DEF MovedUp

\* What is left: every other slot, once.
Fewer(w, b) ==
    /\ w \in Seq(Slots) /\ Len(w) = N - 1 /\ N \in Nat \ {0}
    /\ \A x \in Slots \ {b} : \E i \in 1..N - 1 : w[i] = x
    /\ \A i \in 1..N - 1 : w[i] # b
    /\ \A i, j \in 1..N - 1 : w[i] = w[j] => i = j

LEMMA WithoutRest ==
    ASSUME NEW E, NEW O, Ring(O), NEW b \in Slots
    PROVE  Fewer(Without(C(E, O), b), b)
<1>. DEFINE w == Without(C(E, O), b)
<1>1. N \in Nat \ {0}
  BY EntryFacts DEF N
<1>2a. PICK p \in 1..N : O[p] = b /\ MovedUp(w, O, p)
  BY WithoutAt
<1>2. /\ O[p] = b /\ w \in Seq(Slots) /\ Len(w) = N - 1
      /\ \A i \in 1..N - 1 : w[i] = IF i < p THEN O[i] ELSE O[i + 1]
  BY <1>2a DEF MovedUp
<1>3. /\ \A i, j \in 1..N : O[i] = O[j] => i = j
      /\ \A x \in Slots : \E k \in 1..N : O[k] = x
  BY DEF Ring, N
<1>. HIDE DEF N, w
<1>4. ASSUME NEW x \in Slots \ {b} PROVE \E i \in 1..N - 1 : w[i] = x
  <2>1. PICK k \in 1..N : O[k] = x
    BY <1>3
  <2>2. CASE k < p
    <3>1. k \in 1..N - 1 /\ w[k] = x
      BY <1>1, <1>2, <2>1, <2>2
    <3>. QED BY <3>1
  <2>3. CASE k > p
    <3>1. k - 1 \in 1..N - 1 /\ ~(k - 1 < p) /\ (k - 1) + 1 = k
      BY <1>1, <1>2, <2>3
    <3>2. w[k - 1] = x
      BY <1>2, <2>1, <3>1
    <3>. QED BY <3>1, <3>2
  <2>. QED BY <1>1, <1>2, <2>1, <2>2, <2>3
<1>5. ASSUME NEW i \in 1..N - 1
      PROVE  \E k \in 1..N : w[i] = O[k] /\ k # p /\ k = IF i < p THEN i ELSE i + 1
  BY <1>1, <1>2
<1>6. \A i \in 1..N - 1 : w[i] # b
  BY <1>2, <1>3, <1>5
<1>7. ASSUME NEW i \in 1..N - 1, NEW j \in 1..N - 1, w[i] = w[j] PROVE i = j
  <2>1. PICK k \in 1..N : w[i] = O[k] /\ k = IF i < p THEN i ELSE i + 1
    BY <1>5
  <2>2. PICK m \in 1..N : w[j] = O[m] /\ m = IF j < p THEN j ELSE j + 1
    BY <1>5
  <2>3. k = m
    BY <1>3, <1>7, <2>1, <2>2
  <2>. QED BY <1>1, <2>1, <2>2, <2>3
<1>. QED BY <1>1, <1>2, <1>4, <1>6, <1>7 DEF Fewer, w

\* It comes back at the front or at the end.
LEMMA FrontRing ==
    ASSUME NEW w, NEW b \in Slots, Fewer(w, b)
    PROVE  Ring(<< b >> \o w)
<1>. DEFINE o == << b >> \o w
<1>1. /\ w \in Seq(Slots) /\ Len(w) = N - 1 /\ N \in Nat \ {0}
      /\ \A x \in Slots \ {b} : \E i \in 1..N - 1 : w[i] = x
      /\ \A i \in 1..N - 1 : w[i] # b
      /\ \A i, j \in 1..N - 1 : w[i] = w[j] => i = j
  BY DEF Fewer
<1>. HIDE DEF N
<1>2. << b >> \in Seq(Slots) /\ Len(<< b >>) = 1 /\ << b >>[1] = b
  OBVIOUS
<1>3. /\ o \in Seq(Slots) /\ Len(o) = N
      /\ \A i \in 1..N : o[i] = IF i <= 1 THEN << b >>[i] ELSE w[i - 1]
  BY <1>1, <1>2, ConcatProperties
<1>. HIDE DEF o
<1>4. o[1] = b /\ \A i \in 2..N : i - 1 \in 1..N - 1 /\ o[i] = w[i - 1]
  BY <1>1, <1>2, <1>3
<1>5. ASSUME NEW x \in Slots PROVE \E i \in 1..N : o[i] = x
  <2>1. CASE x = b
    <3>1. 1 \in 1..N
      BY <1>1
    <3>. QED BY <1>4, <2>1, <3>1
  <2>2. CASE x # b
    <3>1. PICK k \in 1..N - 1 : w[k] = x
      BY <1>1, <2>2
    <3>2. k + 1 \in 2..N /\ (k + 1) - 1 = k
      BY <1>1, <3>1
    <3>3. o[k + 1] = x
      BY <1>4, <3>1, <3>2
    <3>4. k + 1 \in 1..N
      BY <1>1, <3>2
    <3>. QED BY <3>3, <3>4
  <2>. QED BY <2>1, <2>2
<1>6. ASSUME NEW i \in 1..N, NEW j \in 1..N, o[i] = o[j] PROVE i = j
  <2>1. CASE i = 1 \/ j = 1
    <3>1. \A k \in 2..N : o[k] # b
      BY <1>1, <1>4
    <3>. QED BY <1>1, <1>4, <1>6, <2>1, <3>1
  <2>2. CASE i # 1 /\ j # 1
    <3>1. i \in 2..N /\ j \in 2..N
      BY <1>1, <2>2
    <3>2. i - 1 = j - 1
      BY <1>1, <1>4, <1>6, <3>1
    <3>. QED BY <3>1, <3>2
  <2>. QED BY <2>1, <2>2
<1>. QED BY <1>3, <1>5, <1>6 DEF Ring, N, o

LEMMA EndRing ==
    ASSUME NEW w, NEW b \in Slots, Fewer(w, b)
    PROVE  Ring(Append(w, b))
<1>. DEFINE o == Append(w, b)
<1>1. /\ w \in Seq(Slots) /\ Len(w) = N - 1 /\ N \in Nat \ {0}
      /\ \A x \in Slots \ {b} : \E i \in 1..N - 1 : w[i] = x
      /\ \A i \in 1..N - 1 : w[i] # b
      /\ \A i, j \in 1..N - 1 : w[i] = w[j] => i = j
  BY DEF Fewer
<1>. HIDE DEF N
<1>2. /\ o \in Seq(Slots) /\ Len(o) = N /\ o[N] = b
      /\ \A i \in 1..N - 1 : o[i] = w[i]
  BY <1>1, AppendProperties
<1>. HIDE DEF o
<1>3. ASSUME NEW x \in Slots PROVE \E i \in 1..N : o[i] = x
  <2>1. CASE x = b
    BY <1>1, <1>2, <2>1
  <2>2. CASE x # b
    <3>1. PICK k \in 1..N - 1 : w[k] = x
      BY <1>1, <2>2
    <3>2. k \in 1..N /\ o[k] = x
      BY <1>1, <1>2, <3>1
    <3>. QED BY <3>2
  <2>. QED BY <2>1, <2>2
<1>4. ASSUME NEW i \in 1..N, NEW j \in 1..N, o[i] = o[j] PROVE i = j
  BY <1>1, <1>2, <1>4
<1>. QED BY <1>2, <1>3, <1>4 DEF Ring, N, o

LEMMA Least ==
    ASSUME NEW T, T \subseteq Nat, T # {}
    PROVE  \E k \in T : \A m \in T : k <= m
<1>. DEFINE R == {p \in Nat \X Nat : p[1] < p[2]}
<1>1. IsWellFoundedOn(R, Nat)
  BY NatLessThanWellFounded DEF OpToRel
<1>. HIDE DEF R
<1>2. PICK k \in T : \A m \in T : ~(<<m, k>> \in R)
  BY <1>1, WFMin
<1>3. ASSUME NEW m \in T PROVE k <= m
  <2>1. m \in Nat /\ k \in Nat /\ << m, k >> \in Nat \X Nat
    OBVIOUS
  <2>2. << m, k >>[1] = m /\ << m, k >>[2] = k
    OBVIOUS
  <2>3. m < k => << m, k >> \in R
    BY <2>1, <2>2 DEF R
  <2>. QED BY <1>2, <2>1, <2>3
<1>. QED BY <1>3

\* eget() finds an entry to use again when there is one.
LEMMA OldestReusable ==
    ASSUME NEW E, NEW O, Ring(O), Reusable(C(E, O)) # {}
    PROVE  Oldest(C(E, O)) \in Reusable(C(E, O))
<1>. DEFINE R == Reusable(C(E, O))
            Back == {k \in Nat : \E i \in 1..N : k = N - i /\ O[i] \in R}
<1>1. R \subseteq Slots /\ C(E, O).order = O
  BY DEF Reusable, C
<1>2. /\ N \in Nat \ {0} /\ DOMAIN O = 1..N
      /\ \A e \in Slots : \E i \in 1..N : O[i] = e
  <2>1. N \in Nat \ {0}
    BY EntryFacts DEF N
  <2>2. O \in Seq(Slots) /\ Len(O) = N
    BY DEF Ring, N
  <2>3. \A e \in Slots : \E i \in 1..N : O[i] = e
    BY DEF Ring, N
  <2>. QED BY <2>1, <2>2, <2>3, LenProperties
<1>. HIDE DEF R, N
<1>3. PICK e \in R : TRUE
  BY DEF R
<1>4. PICK i \in 1..N : O[i] = e
  BY <1>1, <1>2, <1>3
<1>5. N - i \in Back
  BY <1>2, <1>3, <1>4
<1>6. PICK k \in Back : \A m \in Back : k <= m
  <2>1. Back # {} /\ Back \subseteq Nat
    BY <1>5
  <2>. HIDE DEF Back
  <2>. QED BY <2>1, Least
<1>7. PICK j \in 1..N : k = N - j /\ O[j] \in R
  BY <1>6
<1>8. ASSUME NEW d \in R
      PROVE  d = O[j] \/ \E l, m \in DOMAIN O : l < m /\ O[l] = d /\ O[m] = O[j]
  <2>1. PICK l \in 1..N : O[l] = d
    BY <1>1, <1>2
  <2>2. N - l \in Back
    BY <1>2, <2>1
  <2>3. N - j <= N - l
    BY <1>6, <1>7, <2>2
  <2>4. l < j \/ l = j
    BY <1>2, <2>3
  <2>. QED BY <1>2, <2>1, <2>4
<1>9. \E x \in R : \A d \in R : d = x \/ \E l, m \in DOMAIN O : l < m /\ O[l] = d /\ O[m] = x
  BY <1>7, <1>8
<1>. QED BY <1>1, <1>9 DEF Oldest, R

-----------------------------------------------------------------------------
(* What the functions of the cache do to the entries E and the ring O.     *)

Plus(E, e) == [E EXCEPT ![e].refcnt = @ + 1]
Use(E, e) == IF E[e].refcnt = 0 THEN Plus(Plus(E, E[e].parent), e) ELSE Plus(E, e)
New(dp, name) == [Unused EXCEPT !.refcnt = 1, !.parent = dp, !.name = name]
Rename(E, e, dp, name) == Plus([E EXCEPT ![e] = New(dp, name)], dp)
Last_(E, e) == [E EXCEPT ![e] = IF @.name = NoName THEN Unused ELSE [@ EXCEPT !.refcnt = 0],
                         ![E[e].parent].refcnt = @ - 1]

LEMMA CacheIs == Cache = C(entry, order)
BY DEF Cache, C

LEMMA CacheFields ==
    ASSUME NEW E, NEW O
    PROVE  C(E, O).entry = E /\ C(E, O).order = O
BY DEF C

LEMMA edupIs ==
    ASSUME NEW E, NEW O, NEW e
    PROVE  edup(C(E, O), e) = C(Plus(E, e), O)
BY DEF edup, C, Plus

LEMMA TakenIs ==
    ASSUME NEW E, NEW O, NEW e
    PROVE  Taken(C(E, O), e) = C(Use(E, e), O)
<1>1. CASE E[e].refcnt = 0
  BY <1>1, CacheFields, edupIs DEF Taken, Use
<1>2. CASE E[e].refcnt # 0
  BY <1>2, CacheFields, edupIs DEF Taken, Use
<1>. QED BY <1>1, <1>2

LEMMA RenamedIs ==
    ASSUME NEW E, NEW O, NEW e, NEW dp, NEW name
    PROVE  Renamed(C(E, O), e, dp, name) = C(Rename(E, e, dp, name), O)
<1>1. [C(E, O) EXCEPT !.entry[e] = New(dp, name)] = C([E EXCEPT ![e] = New(dp, name)], O)
  BY DEF C
<1>2. Renamed(C(E, O), e, dp, name) = edup([C(E, O) EXCEPT !.entry[e] = New(dp, name)], dp)
  BY DEF Renamed, New
<1>. QED BY <1>1, <1>2, edupIs DEF Rename

LEMMA Reordered ==
    ASSUME NEW E, NEW O, NEW o
    PROVE  [C(E, O) EXCEPT !.order = o] = C(E, o)
BY DEF C

LEMMA PutLastIs ==
    ASSUME NEW E, NEW O, NEW e \in Slots, Ring(O)
    PROVE  \E o : Ring(o) /\ PutLast(C(E, O), e) = C(Last_(E, e), o)
<1>. DEFINE o == Append(Without(C(E, O), e), e)
<1>1. Ring(o)
  BY WithoutRest, EndRing
<1>2. Lowered(C(E, O), e) = [C(E, O) EXCEPT !.order = o]
  BY ZenonT(30) DEF Lowered
<1>. HIDE DEF o
<1>5. Lowered(C(E, O), e) = C(E, o)
  BY <1>2, Reordered
<1>3. PutLast(C(E, O), e) =
        [C(E, o) EXCEPT !.entry[e] = IF @.name = NoName THEN Unused ELSE [@ EXCEPT !.refcnt = 0],
                        !.entry[E[e].parent].refcnt = @ - 1]
  BY <1>5, CacheFields DEF PutLast
<1>4. PutLast(C(E, O), e) = C(Last_(E, e), o)
  BY <1>3 DEF C, Last_
<1>. QED BY <1>1, <1>4

-----------------------------------------------------------------------------
(* How they change what is owed.                                           *)

LEMMA FieldTypes ==
    ASSUME NEW E, ETyped(E), NEW e \in Entries
    PROVE  /\ E[e] \in EntryType /\ E[e].refcnt \in Nat
           /\ E[e].parent \in Entries \cup {NoEntry}
BY DEF ETyped, EntryType, EntryRecord

LEMMA UnusedTyped ==
    /\ Unused \in EntryType /\ Unused.refcnt = 0
    /\ \A dp \in Entries, name \in Name :
          /\ New(dp, name) \in EntryType /\ New(dp, name).refcnt = 1
          /\ New(dp, name).parent = dp /\ New(dp, name).name = name
          /\ New(dp, name).uptodate = FALSE /\ New(dp, name).dirty = FALSE
          /\ New(dp, name).dir = FALSE /\ New(dp, name).clus = 0
BY DiskAssumption DEF Unused, EntryType, EntryRecord, New

LEMMA SameBelow ==
    ASSUME NEW E, NEW F, NEW x,
           \A c \in Slots \ {x} : E[c].refcnt > 0 /\ E[c].parent = x
                                   <=> F[c].refcnt > 0 /\ F[c].parent = x
    PROVE  Below(E, x) = Below(F, x)
BY DEF Below

LEMMA PlusTyped ==
    ASSUME NEW E, ETyped(E), NEW e \in Entries
    PROVE  ETyped(Plus(E, e))
<1>1. E[e].refcnt \in Nat /\ E[e] \in EntryType
  BY FieldTypes
<1>. QED BY <1>1 DEF ETyped, Plus, EntryType, EntryRecord

LEMMA OwedPlus ==
    ASSUME NEW E, ETyped(E), NEW e \in Entries, e = Root \/ E[e].refcnt > 0
    PROVE  /\ ETyped(Plus(E, e)) /\ (Sound(E) => Sound(Plus(E, e)))
           /\ \A x \in Entries : Owed(Plus(E, e), x) = Owed(E, x) + Ind(x = e)
<1>. DEFINE F == Plus(E, e)
<1>1. E[e].refcnt \in Nat /\ E[e] \in EntryType
  BY FieldTypes
<1>2. ETyped(F)
  BY <1>1 DEF ETyped, Plus, EntryType, EntryRecord
<1>3. \A c \in Entries :
         /\ F[c].parent = E[c].parent
         /\ F[c].refcnt = E[c].refcnt + Ind(c = e)
  BY <1>1, FieldTypes DEF Plus, ETyped, EntryType, EntryRecord, Ind
<1>4. \A c \in Slots : F[c].refcnt > 0 <=> E[c].refcnt > 0
  BY <1>1, <1>3, EntryFacts, FieldTypes DEF Ind
<1>. HIDE DEF F
<1>5. ASSUME NEW x \in Entries PROVE Owed(F, x) = Owed(E, x) + Ind(x = e)
  <2>1. Below(E, x) = Below(F, x)
    BY <1>3, <1>4, EntryFacts, SameBelow
  <2>2. Cardinality(Below(E, x)) \in Nat /\ E[x].refcnt \in Nat /\ Ind(x = e) \in Nat
    BY FiniteBelow, FieldTypes DEF Ind
  <2>. QED BY <1>3, <2>1, <2>2 DEF Owed
<1>6. Sound(E) => Sound(F)
  BY <1>3, <1>4, EntryFacts DEF Sound
<1>. QED BY <1>2, <1>5, <1>6 DEF F

\* An entry comes into use, in E it is not and in F it is: it and its parent count.
LEMMA OwedStart ==
    ASSUME NEW E, ETyped(E), NEW F, ETyped(F), NEW e \in Slots, NEW p \in Entries \ {e},
           E[e].refcnt = 0, F[e].refcnt = 1, F[e].parent = p,
           F[p].refcnt = E[p].refcnt + 1, F[p].parent = E[p].parent,
           p = Root \/ E[p].refcnt > 0,
           \A c \in Entries \ {e, p} : F[c].refcnt = E[c].refcnt /\ F[c].parent = E[c].parent
    PROVE  \A x \in Entries : Owed(F, x) = Owed(E, x) + Ind(x = e)
<1>. SUFFICES ASSUME NEW x \in Entries PROVE Owed(F, x) = Owed(E, x) + Ind(x = e)
  OBVIOUS
<1>1. \A c \in Slots \ {e} :
         /\ F[c].refcnt > 0 <=> E[c].refcnt > 0
         /\ F[c].parent = E[c].parent
  BY EntryFacts, FieldTypes
<1>2. Below(E, x) \ {e} = Below(F, x) \ {e}
  <2>1. ASSUME NEW c \in Slots \ {e} PROVE c \in Below(E, x) <=> c \in Below(F, x)
    <3>1. /\ F[c].refcnt > 0 <=> E[c].refcnt > 0
          /\ F[c].parent = E[c].parent
      BY <1>1, Zenon
    <3>. QED BY <3>1, Zenon DEF Below
  <2>2. Below(E, x) \subseteq Slots /\ Below(F, x) \subseteq Slots
    BY DEF Below
  <2>. QED BY <2>1, <2>2
<1>3. e \notin Below(E, x) /\ (e \in Below(F, x) <=> x = p)
  BY DEF Below
<1>4. /\ Cardinality(Below(E, x)) \in Nat /\ Cardinality(Below(F, x)) \in Nat
      /\ Cardinality(Below(E, x)) + Ind(x = p) = Cardinality(Below(F, x))
  <2>1. Cardinality(Below(E, x)) + Ind(e \in Below(F, x))
            = Cardinality(Below(F, x)) + Ind(e \in Below(E, x))
    BY <1>2, FiniteBelow, CardDelta
  <2>. QED BY <1>3, <2>1, FiniteBelow DEF Ind
<1>5. E[x].refcnt \in Nat /\ F[x].refcnt \in Nat
  BY FieldTypes
<1>6. F[x].refcnt = E[x].refcnt + Ind(x = e) + Ind(x = p)
  BY <1>5 DEF Ind
<1>7. Ind(x = e) \in 0..1 /\ Ind(x = p) \in 0..1
  BY DEF Ind
<1>. QED BY <1>4, <1>5, <1>6, <1>7 DEF Owed

LEMMA OwedUse ==
    ASSUME NEW E, ETyped(E), Sound(E), NEW e \in Slots,
           E[e].parent \in Entries \ {e}, E[E[e].parent].refcnt > 0
    PROVE  /\ ETyped(Use(E, e)) /\ Sound(Use(E, e))
           /\ \A x \in Entries : Owed(Use(E, e), x) = Owed(E, x) + Ind(x = e)
<1>. DEFINE p == E[e].parent
            F == Plus(Plus(E, p), e)
<1>1. CASE E[e].refcnt # 0
  BY <1>1, EntryFacts, FieldTypes, OwedPlus DEF Use
<1>2. CASE E[e].refcnt = 0
  <2>1. E[e].refcnt \in Nat /\ E[p].refcnt \in Nat /\ e \in Entries /\ p \in Entries /\ p # e
    BY EntryFacts, FieldTypes
  <2>2. ETyped(Plus(E, p))
    BY PlusTyped
  <2>3. ETyped(F)
    <3>. HIDE DEF p
    <3>. QED BY <2>1, <2>2, PlusTyped
  <2>4. /\ \A c \in Entries : F[c].parent = E[c].parent
        /\ F[e].refcnt = 1 /\ F[p].refcnt = E[p].refcnt + 1
        /\ \A c \in Entries \ {e, p} : F[c].refcnt = E[c].refcnt
    BY <1>2, <2>1 DEF Plus, ETyped, EntryType, EntryRecord
  <2>. HIDE DEF F
  <2>5. \A x \in Entries : Owed(F, x) = Owed(E, x) + Ind(x = e)
    <3>. HIDE DEF p
    <3>1. F[e].parent = p
      BY <2>1, <2>4 DEF p
    <3>2. E[p].refcnt > 0
      BY DEF p
    <3>. QED BY <1>2, <2>1, <2>3, <2>4, <3>1, <3>2, OwedStart
  <2>6. Sound(F)
    <3>1. ASSUME NEW c \in Slots, F[c].refcnt > 0 PROVE F[c].parent \in Entries \ {c}
      <4>1. CASE c = e
        BY <2>1, <2>4, <4>1
      <4>2. CASE c # e
        BY <2>1, <2>4, <3>1, <4>2, EntryFacts DEF Sound
      <4>. QED BY <4>1, <4>2
    <3>2. F[Root].parent = Root
      BY <2>4, EntryFacts DEF Sound
    <3>. QED BY <3>1, <3>2 DEF Sound
  <2>. QED BY <1>2, <2>3, <2>5, <2>6 DEF Use, F
<1>. QED BY <1>1, <1>2

LEMMA OwedRename ==
    ASSUME NEW E, ETyped(E), Sound(E), NEW e \in Slots, E[e].refcnt = 0,
           NEW dp \in Entries, E[dp].refcnt > 0, NEW name \in Name
    PROVE  /\ ETyped(Rename(E, e, dp, name)) /\ Sound(Rename(E, e, dp, name))
           /\ Rename(E, e, dp, name)[e] = New(dp, name)
           /\ \A x \in Entries : Owed(Rename(E, e, dp, name), x) = Owed(E, x) + Ind(x = e)
<1>. DEFINE F == Rename(E, e, dp, name)
<1>1. /\ E[e].refcnt \in Nat /\ E[dp].refcnt \in Nat /\ e \in Entries /\ dp # e
      /\ E[dp] \in EntryType
  BY EntryFacts, FieldTypes
<1>2. /\ New(dp, name) \in EntryType /\ New(dp, name).refcnt = 1 /\ New(dp, name).parent = dp
  BY UnusedTyped
<1>3. ETyped(F)
  BY <1>1, <1>2 DEF Rename, Plus, ETyped, EntryType, EntryRecord
<1>4. /\ F[e] = New(dp, name) /\ F[dp].parent = E[dp].parent
      /\ F[dp].refcnt = E[dp].refcnt + 1
      /\ \A c \in Entries \ {e, dp} : F[c] = E[c]
  BY <1>1 DEF Rename, Plus, ETyped, EntryType, EntryRecord
<1>. HIDE DEF F
<1>5. \A x \in Entries : Owed(F, x) = Owed(E, x) + Ind(x = e)
  BY <1>1, <1>2, <1>3, <1>4, OwedStart
<1>6. Sound(F)
  <2>1. ASSUME NEW c \in Slots, F[c].refcnt > 0 PROVE F[c].parent \in Entries \ {c}
    <3>1. CASE c = e
      BY <1>1, <1>2, <1>4, <3>1
    <3>2. CASE c # e
      BY <1>1, <1>4, <2>1, <3>2, EntryFacts DEF Sound
    <3>. QED BY <3>1, <3>2
  <2>2. F[Root].parent = Root
    BY <1>4, EntryFacts DEF Sound
  <2>. QED BY <2>1, <2>2 DEF Sound
<1>. QED BY <1>3, <1>4, <1>5, <1>6 DEF F

\* Last_() changes another entry in its count only, and keeps e under its name.
GivenBack(E, F, e) ==
    /\ \A c \in Entries \ {e} : \E n \in Nat : F[c] = [E[c] EXCEPT !.refcnt = n]
    /\ \A c \in Entries \ {e, E[e].parent} : F[c] = E[c]
    /\ F[e] = IF E[e].name = NoName THEN Unused ELSE [E[e] EXCEPT !.refcnt = 0]

LEMMA OwedLast ==
    ASSUME NEW E, ETyped(E), Sound(E), NEW e \in Slots, E[e].refcnt = 1,
           E[E[e].parent].refcnt > 1
    PROVE  /\ ETyped(Last_(E, e)) /\ Sound(Last_(E, e))
           /\ \A x \in Entries : Owed(E, x) = Owed(Last_(E, e), x) + Ind(x = e)
           /\ GivenBack(E, Last_(E, e), e)
<1>. DEFINE p == E[e].parent
            n == IF E[e].name = NoName THEN Unused ELSE [E[e] EXCEPT !.refcnt = 0]
            F == Last_(E, e)
<1>1. /\ E[e].refcnt \in Nat /\ e \in Entries /\ p \in Entries /\ p # e
      /\ E[e] \in EntryType /\ E[p] \in EntryType /\ E[p].refcnt \in Nat
  BY EntryFacts, FieldTypes DEF Sound
<1>2. n \in EntryType /\ n.refcnt = 0
  BY <1>1, UnusedTyped DEF EntryType, EntryRecord
<1>3. F = [E EXCEPT ![e] = n, ![p].refcnt = @ - 1]
  BY DEF Last_
<1>4. p \in Entries \ {e} /\ E[p].refcnt > 1
  BY <1>1
<1>. HIDE DEF n, F, p
<1>5. ETyped(F)
  BY <1>1, <1>2, <1>3, <1>4 DEF ETyped, EntryType, EntryRecord
<1>6. /\ F[e] = n /\ F[p] = [E[p] EXCEPT !.refcnt = @ - 1]
      /\ \A c \in Entries \ {e, p} : F[c] = E[c]
  BY <1>1, <1>3, <1>4 DEF ETyped
<1>7. F[p].refcnt = E[p].refcnt - 1 /\ F[p].parent = E[p].parent
  BY <1>1, <1>6 DEF EntryType, EntryRecord
<1>8. \A x \in Entries : Owed(E, x) = Owed(F, x) + Ind(x = e)
  <2>1. /\ F[e].refcnt = 0 /\ E[e].refcnt = 1 /\ E[e].parent = p
        /\ E[p].refcnt = F[p].refcnt + 1 /\ E[p].parent = F[p].parent
        /\ F[p].refcnt > 0
    BY <1>1, <1>2, <1>4, <1>6, <1>7 DEF p
  <2>2. \A c \in Entries \ {e, p} : E[c].refcnt = F[c].refcnt /\ E[c].parent = F[c].parent
    BY <1>6
  <2>. QED BY <1>4, <1>5, <2>1, <2>2, OwedStart
<1>9. Sound(F)
  <2>1. ASSUME NEW c \in Slots, F[c].refcnt > 0 PROVE F[c].parent \in Entries \ {c}
    <3>1. c # e
      BY <1>2, <1>6, <2>1
    <3>2. CASE c = p
      <4>1. E[p].refcnt > 0
        BY <1>1, <1>4
      <4>2. E[p].parent \in Entries \ {p}
        BY <2>1, <3>2, <4>1 DEF Sound
      <4>. QED BY <1>7, <3>2, <4>2
    <3>3. CASE c # p
      BY <1>6, <2>1, <3>1, <3>3, EntryFacts DEF Sound
    <3>. QED BY <3>2, <3>3
  <2>2. F[Root].parent = Root
    BY <1>6, <1>7, EntryFacts DEF Sound
  <2>. QED BY <2>1, <2>2 DEF Sound
<1>10. ASSUME NEW c \in Entries \ {e} PROVE \E m \in Nat : F[c] = [E[c] EXCEPT !.refcnt = m]
  <2>1. CASE c = p
    BY <1>1, <1>4, <1>6, <2>1
  <2>2. CASE c # p
    <3>1. E[c] \in EntryType /\ E[c].refcnt \in Nat
      BY FieldTypes
    <3>2. E[c] = [E[c] EXCEPT !.refcnt = E[c].refcnt]
      BY <3>1 DEF EntryType, EntryRecord
    <3>. QED BY <1>6, <2>2, <3>1, <3>2
  <2>. QED BY <2>1, <2>2
<1>11. GivenBack(E, F, e)
  BY <1>6, <1>10 DEF GivenBack, n, p
<1>. QED BY <1>5, <1>8, <1>9, <1>11 DEF F

\* Other fields do not matter.
LEMMA OwedSame ==
    ASSUME NEW E, NEW F,
           \A c \in Entries : E[c].refcnt = F[c].refcnt /\ E[c].parent = F[c].parent
    PROVE  /\ \A x \in Entries : Owed(E, x) = Owed(F, x)
           /\ Sound(E) => Sound(F)
<1>1. \A x \in Entries : Below(E, x) = Below(F, x)
  BY EntryFacts, SameBelow
<1>. QED BY <1>1, EntryFacts DEF Owed, Sound

-----------------------------------------------------------------------------
(* What eput() does when the kernel runs on.                               *)

\* The call as it waits in eput(e) for the disk, to go on at r.
Waiting(r, e) == [r EXCEPT !.pc = "flush", !.put = e, !.then = r.pc]

\* The entries E and the locks h become what they are after the step.
PutSome(t, E, h, e, r) ==
    /\ e = Root \/ E[e].refcnt > 1
    /\ E[e].refcnt > 0 /\ entry' = [E EXCEPT ![e].refcnt = @ - 1]
    /\ holder' = h /\ at' = [at EXCEPT ![t] = r]

PutEnds(t, E, h, e, r) ==
    /\ e \in Slots /\ E[e].refcnt = 1 /\ E[e].dirty = FALSE /\ h[e] = Nobody
    /\ E[E[e].parent].refcnt > 1 /\ entry' = Last_(E, e)
    /\ holder' = h /\ at' = [at EXCEPT ![t] = r]

PutWaits(t, E, h, e, r) ==
    /\ e \in Slots /\ E[e].refcnt = 1 /\ E[e].dirty = TRUE /\ h[e] = Nobody
    /\ entry' = E
    /\ holder' = [h EXCEPT ![e] = t] /\ at' = [at EXCEPT ![t] = Waiting(r, e)]

Put(t, E, h, e, r) ==
    PutSome(t, E, h, e, r) \/ PutEnds(t, E, h, e, r) \/ PutWaits(t, E, h, e, r)

LEMMA EputIs ==
    ASSUME NEW t, NEW E, ETyped(E), NEW O, Ring(O), NEW h, NEW e \in Entries, NEW r,
           eput(t, C(E, O), h, e, r), kernel' = "running"
    PROVE  Put(t, E, h, e, r) /\ Ring(order')
<1>1. C(E, O).entry = E /\ C(E, O).order = O
  BY CacheFields
<1>2. E[e].refcnt \in Nat /\ E[e].dirty \in BOOLEAN
  BY FieldTypes DEF EntryType, EntryRecord
<1>3. ~End("panic")
  BY DEF End
<1>4. Writes(C(E, O), e) <=> e # Root /\ E[e].refcnt = 1 /\ E[e].dirty
  BY <1>1 DEF Writes
<1>5. CASE /\ E[e].refcnt > 0 /\ ~(e # Root /\ E[e].refcnt = 1)
           /\ Becomes([C(E, O) EXCEPT !.entry[e].refcnt = E[e].refcnt - 1])
           /\ holder' = h /\ at' = [at EXCEPT ![t] = r]
  <2>1. [C(E, O) EXCEPT !.entry[e].refcnt = E[e].refcnt - 1]
            = C([E EXCEPT ![e].refcnt = E[e].refcnt - 1], O)
    BY DEF C
  <2>2. entry' = [E EXCEPT ![e].refcnt = E[e].refcnt - 1] /\ order' = O
    BY <1>5, <2>1, CacheFields DEF Becomes
  <2>3. [E EXCEPT ![e].refcnt = E[e].refcnt - 1] = [E EXCEPT ![e].refcnt = @ - 1]
    OBVIOUS
  <2>. QED BY <1>2, <1>5, <2>2, <2>3 DEF Put, PutSome
<1>6. CASE /\ e # Root /\ E[e].refcnt = 1 /\ ~Writes(C(E, O), e)
           /\ E[E[e].parent].refcnt > 1 /\ h[e] = Nobody
           /\ Becomes(PutLast(C(E, O), e))
           /\ holder' = h /\ at' = [at EXCEPT ![t] = r]
  <2>1. e \in Slots /\ E[e].dirty = FALSE
    BY <1>2, <1>4, <1>6, EntryFacts
  <2>2. PICK o : Ring(o) /\ PutLast(C(E, O), e) = C(Last_(E, e), o)
    BY <2>1, PutLastIs
  <2>3. entry' = Last_(E, e) /\ order' = o
    BY <1>6, <2>2, CacheFields DEF Becomes
  <2>. QED BY <1>6, <2>1, <2>2, <2>3 DEF Put, PutEnds
<1>7. CASE /\ Writes(C(E, O), e) /\ h[e] = Nobody
           /\ Becomes(C(E, O)) /\ holder' = [h EXCEPT ![e] = t]
           /\ at' = [at EXCEPT ![t] = [r EXCEPT !.pc = "flush", !.put = e, !.then = r.pc]]
  <2>1. e \in Slots /\ E[e].refcnt = 1 /\ E[e].dirty = TRUE
    BY <1>2, <1>4, <1>7, EntryFacts
  <2>2. entry' = E /\ order' = O
    BY <1>1, <1>7 DEF Becomes
  <2>. QED BY <1>7, <2>1, <2>2 DEF Put, PutWaits, Waiting
<1>8. Writes(C(E, O), e) => e # Root /\ E[e].refcnt = 1
  BY <1>4
<1>. QED BY <1>1, <1>3, <1>5, <1>6, <1>7, <1>8 DEF eput

\* The references of the call, when eput() of one of them goes on with r or waits.
LEMMA WaitingOwns ==
    ASSUME NEW r \in CallType, r.put = NoEntry, r.then = "user", NEW e \in Slots, NEW w, NEW x
    PROVE  x # NoEntry => Own(Waiting(r, e), w, x) = Own(r, w, x) + Ind(x = e)
<1>1. /\ Waiting(r, e).pc = "flush" /\ Waiting(r, e).then = r.pc /\ Waiting(r, e).put = e
      /\ Waiting(r, e).cur = r.cur /\ Waiting(r, e).nxt = r.nxt
  BY DEF Waiting, CallType
<1>2. e # NoEntry
  BY EntryFacts
<1>. QED BY <1>1, <1>2 DEF Own, Ind

\* The step has no more effect than Put(): types, shape and balance.
LEMMA PutKeeps ==
    ASSUME NEW t \in Tasks, NEW E, ETyped(E), Sound(E), NEW h, h \in [Entries -> Tasks \cup {Nobody}],
           NEW e \in Entries, NEW r \in CallType, r.put = NoEntry, r.then = "user",
           r.pc \in Resumes, Shape(r), at \in [Tasks -> CallType], Put(t, E, h, e, r)
    PROVE  /\ ETyped(entry') /\ Sound(entry')
           /\ holder' \in [Entries -> Tasks \cup {Nobody}]
           /\ at' \in [Tasks -> CallType] /\ \A u \in Tasks \ {t} : at'[u] = at[u]
           /\ Shape(at'[t]) /\ at'[t].pc \in Resumes \cup {"flush"}
           /\ \A w : \A x \in Entries :
                 Owed(entry', x) + Own(r, w, x) + Ind(x = e) = Owed(E, x) + Own(at'[t], w, x)
<1>1. /\ E[e].refcnt \in Nat /\ NoEntry \notin Entries
      /\ \A x \in Entries : Owed(E, x) \in Int /\ \A w : Own(r, w, x) \in Nat
  BY FieldTypes, FiniteBelow, EntryFacts DEF Owed, Own, Ind
<1>2. CASE PutSome(t, E, h, e, r)
  <2>1. /\ E[e].refcnt > 0 /\ (e = Root \/ E[e].refcnt > 1)
        /\ entry' = [E EXCEPT ![e].refcnt = @ - 1] /\ holder' = h /\ at' = [at EXCEPT ![t] = r]
    BY <1>2 DEF PutSome
  <2>2. at'[t] = r /\ at' \in [Tasks -> CallType] /\ \A u \in Tasks \ {t} : at'[u] = at[u]
    BY <2>1
  <2>3. ETyped(entry')
    <3>1. E[e] \in EntryType /\ E[e].refcnt - 1 \in Nat
      BY <1>1, <2>1, FieldTypes
    <3>. QED BY <2>1, <3>1 DEF ETyped, EntryType, EntryRecord
  <2>4. \A c \in Entries : /\ E[c].refcnt = Plus(entry', e)[c].refcnt
                            /\ E[c].parent = Plus(entry', e)[c].parent
    BY <1>1, <2>1, <2>3, FieldTypes DEF Plus, ETyped, EntryType, EntryRecord
  <2>5. e = Root \/ entry'[e].refcnt > 0
    BY <1>1, <2>1 DEF ETyped, EntryType, EntryRecord
  <2>6. /\ \A x \in Entries : Owed(Plus(entry', e), x) = Owed(entry', x) + Ind(x = e)
        /\ \A x \in Entries : Owed(E, x) = Owed(Plus(entry', e), x)
    BY <2>3, <2>4, <2>5, OwedPlus, OwedSame
  <2>7. Sound(entry')
    <3>1. \A c \in Slots : entry'[c].refcnt > 0 => E[c].refcnt > 0
      BY <1>1, <2>1, EntryFacts DEF ETyped, EntryType, EntryRecord
    <3>2. \A c \in Entries : entry'[c].parent = E[c].parent
      BY <2>1, EntryFacts DEF ETyped, EntryType, EntryRecord
    <3>. QED BY <3>1, <3>2, EntryFacts DEF Sound
  <2>8. \A x \in Entries : Owed(entry', x) \in Int /\ Ind(x = e) \in Nat
    BY <2>3, FieldTypes, FiniteBelow DEF Owed, Ind
  <2>9. ASSUME NEW w, NEW x \in Entries
        PROVE  Owed(entry', x) + Own(r, w, x) + Ind(x = e) = Owed(E, x) + Own(at'[t], w, x)
    BY <1>1, <2>2, <2>6, <2>8
  <2>. QED BY <2>1, <2>2, <2>3, <2>7, <2>9
<1>3. CASE PutEnds(t, E, h, e, r)
  <2>1. /\ e \in Slots /\ E[e].refcnt = 1 /\ E[E[e].parent].refcnt > 1
        /\ entry' = Last_(E, e) /\ holder' = h /\ at' = [at EXCEPT ![t] = r]
    BY <1>3 DEF PutEnds
  <2>2. at'[t] = r /\ at' \in [Tasks -> CallType] /\ \A u \in Tasks \ {t} : at'[u] = at[u]
    BY <2>1
  <2>3. /\ ETyped(entry') /\ Sound(entry')
        /\ \A x \in Entries : Owed(E, x) = Owed(entry', x) + Ind(x = e)
    BY <2>1, OwedLast
  <2>4. \A x \in Entries : Owed(entry', x) \in Int /\ Ind(x = e) \in Nat
    BY <2>3, FieldTypes, FiniteBelow DEF Owed, Ind
  <2>. QED BY <1>1, <2>1, <2>2, <2>3, <2>4
<1>4. CASE PutWaits(t, E, h, e, r)
  <2>1. /\ e \in Slots /\ entry' = E
        /\ holder' = [h EXCEPT ![e] = t] /\ at' = [at EXCEPT ![t] = Waiting(r, e)]
    BY <1>4 DEF PutWaits
  <2>2. Waiting(r, e) \in CallType
    BY <2>1, ZenonT(30) DEF Waiting, CallType, Pcs
  <2>3. /\ Waiting(r, e).pc = "flush" /\ Waiting(r, e).then = r.pc /\ Waiting(r, e).put = e
        /\ Waiting(r, e).cur = r.cur /\ Waiting(r, e).nxt = r.nxt
        /\ Waiting(r, e).call = r.call /\ Waiting(r, e).rest = r.rest
    BY DEF Waiting, CallType
  <2>4. r.pc # "flush"
    BY DEF Resumes
  <2>5. Shape(Waiting(r, e))
    BY <1>1, <2>3, <2>4 DEF Shape, Doing, Creates
  <2>6. at'[t] = Waiting(r, e) /\ at' \in [Tasks -> CallType] /\ \A u \in Tasks \ {t} : at'[u] = at[u]
    BY <2>1, <2>2
  <2>7. \A w : \A x \in Entries : Own(Waiting(r, e), w, x) = Own(r, w, x) + Ind(x = e)
    BY <1>1, <2>1, WaitingOwns
  <2>8. \A x \in Entries : Ind(x = e) \in Nat
    BY DEF Ind
  <2>9. holder' \in [Entries -> Tasks \cup {Nobody}]
    BY <2>1
  <2>. QED BY <1>1, <2>1, <2>3, <2>5, <2>6, <2>7, <2>8, <2>9
<1>. QED BY <1>2, <1>3, <1>4 DEF Put

-----------------------------------------------------------------------------
(* The steps of the cache, written out.                                    *)

Stepped(a, y) == [a EXCEPT !.cur = y, !.nxt = NoEntry, !.rest = Tail(a.rest),
                           !.pc = Onward(a.call, Tail(a.rest))]

StepsTo(t, E, y) ==
    Put(t, E, [holder EXCEPT ![at[t].cur] = Nobody], at[t].cur, Stepped(at[t], y))

LEMMA StepToIs ==
    ASSUME NEW t \in Tasks, NEW E, ETyped(E), NEW O, Ring(O), at[t].cur \in Entries, NEW y,
           StepTo(t, C(E, O), y), kernel' = "running"
    PROVE  StepsTo(t, E, y) /\ Ring(order')
<1>1. eput(t, C(E, O), [holder EXCEPT ![at[t].cur] = Nobody], at[t].cur, Stepped(at[t], y))
  BY DEF StepTo, Released, Stepped
<1>. QED BY <1>1, EputIs DEF StepsTo

Misses(t, dp, name, pc, e) ==
    /\ Hits(Cache, dp, name) = {} /\ e \in Slots /\ entry[e].refcnt = 0
    /\ entry' = Rename(entry, e, dp, name) /\ order' = order
    /\ at' = [at EXCEPT ![t].nxt = e, ![t].pc = pc]
    /\ holder' = [holder EXCEPT ![dp] = t]

LEMMA MissIs ==
    ASSUME NEW t, NEW dp, NEW name, NEW pc, Ring(order), Miss(t, dp, name, pc), kernel' = "running"
    PROVE  \E e \in Slots : Misses(t, dp, name, pc, e)
<1>. DEFINE e == Oldest(C(entry, order))
<1>1. ~End("panic")
  BY DEF End
<1>2. /\ Hits(Cache, dp, name) = {} /\ Reusable(C(entry, order)) # {}
      /\ Becomes(Renamed(C(entry, order), e, dp, name))
      /\ at' = [at EXCEPT ![t].nxt = e, ![t].pc = pc]
      /\ holder' = [holder EXCEPT ![dp] = t]
  BY <1>1, CacheIs DEF Miss
<1>3. e \in Slots /\ entry[e].refcnt = 0
  BY <1>2, OldestReusable, CacheFields DEF Reusable
<1>4. entry' = Rename(entry, e, dp, name) /\ order' = order
  BY <1>2, RenamedIs, CacheFields DEF Becomes
<1>. QED BY <1>2, <1>3, <1>4 DEF Misses

\* What a step of Walk() leaves when it finds the name.
Walks(t) ==
    LET dp == at[t].cur
        name == Head(at[t].rest)
    IN  \/ StepsTo(t, Plus(entry, dp), dp)
        \/ StepsTo(t, Plus(entry, entry[dp].parent), entry[dp].parent)
        \/ name \in Name /\ \E e \in Rightful(dp, name) : StepsTo(t, Use(entry, e), e)

FailsIn(t) ==
    /\ at' = [at EXCEPT ![t] = User] /\ leak' = [leak EXCEPT ![at[t].cur] = @ + 1]

\* What is found has the directory as its parent.
LEMMA RightfulIs ==
    ASSUME Typed, NEW dp \in Entries, NEW name, NEW e \in Rightful(dp, name)
    PROVE  /\ e \in Slots /\ e \in Entries /\ entry[e].parent = dp /\ entry[e].uptodate
           /\ ETyped(Use(entry, e))
<1>1. e \in Slots /\ e \in Entries /\ entry[e].parent = dp /\ entry[e].uptodate
  BY EntryFacts, CacheIs, CacheFields DEF Rightful, Hits
<1>2. ETyped(entry) /\ ETyped(Plus(entry, dp)) /\ ETyped(Plus(entry, e)) /\ ETyped(Plus(Plus(entry, dp), e))
  BY <1>1, PlusTyped DEF Typed, ETyped
<1>. QED BY <1>1, <1>2 DEF Use

LEMMA WalkIs ==
    ASSUME Typed, NEW t \in Tasks, at[t].cur \in Entries, entry[at[t].cur].parent \in Entries,
           Walk(t), kernel' = "running"
    PROVE  /\ at[t].pc = "walk" /\ holder[at[t].cur] = Nobody /\ UNCHANGED <<disk, cwd>>
           /\ Ring(order')
           /\ \/ /\ FailsIn(t) /\ holder' = [holder EXCEPT ![at[t].cur] = t] /\ entry' = entry
              \/ entry[at[t].cur].dir /\ leak' = leak /\ Walks(t)
              \/ /\ entry[at[t].cur].dir /\ leak' = leak /\ Head(at[t].rest) \in Name
                 /\ \E e \in Slots : Misses(t, at[t].cur, Head(at[t].rest), "search", e)
<1>. DEFINE dp == at[t].cur
            name == Head(at[t].rest)
            pp == entry[dp].parent
<1>1. ETyped(entry) /\ Ring(order)
  BY DEF Typed, ETyped
<1>2. ~End("stale")
  BY DEF End
<1>3. /\ at[t].pc = "walk" /\ holder[dp] = Nobody /\ UNCHANGED <<disk, cwd>>
  BY DEF Walk, At
<1>4. \/ /\ holder' = [holder EXCEPT ![dp] = t] /\ Fails(t) /\ UNCHANGED <<entry, order>>
      \/ /\ entry[dp].dir /\ UNCHANGED leak
         /\ \/ StepTo(t, edup(Cache, dp), dp)
            \/ StepTo(t, edup(Cache, pp), pp)
            \/ name \in Name /\ (\E e \in Rightful(dp, name) : StepTo(t, Taken(Cache, e), e))
            \/ name \in Name /\ Miss(t, dp, name, "search")
  BY <1>2 DEF Walk, Mistaken
<1>5. ASSUME Fails(t) PROVE FailsIn(t)
  BY <1>5 DEF Fails, FailsIn
<1>6. ASSUME NEW y \in Entries, StepTo(t, edup(Cache, y), y)
      PROVE  StepsTo(t, Plus(entry, y), y) /\ Ring(order')
  <2>1. StepTo(t, C(Plus(entry, y), order), y) /\ ETyped(Plus(entry, y))
    BY <1>1, <1>6, CacheIs, edupIs, PlusTyped
  <2>. QED BY <1>1, <2>1, StepToIs
<1>7. ASSUME NEW e \in Rightful(dp, name), StepTo(t, Taken(Cache, e), e)
      PROVE  StepsTo(t, Use(entry, e), e) /\ Ring(order')
  <2>1. StepTo(t, C(Use(entry, e), order), e) /\ ETyped(Use(entry, e))
    BY <1>7, CacheIs, TakenIs, RightfulIs
  <2>. QED BY <1>1, <2>1, StepToIs
<1>8. ASSUME Miss(t, dp, name, "search")
      PROVE  (\E e \in Slots : Misses(t, dp, name, "search", e)) /\ Ring(order')
  BY <1>1, <1>8, MissIs DEF Misses
<1>9. ASSUME StepTo(t, edup(Cache, dp), dp) PROVE Walks(t) /\ Ring(order')
  BY <1>6, <1>9 DEF Walks
<1>10. ASSUME StepTo(t, edup(Cache, pp), pp) PROVE Walks(t) /\ Ring(order')
  BY <1>6, <1>10 DEF Walks
<1>11. ASSUME name \in Name, NEW e \in Rightful(dp, name), StepTo(t, Taken(Cache, e), e)
       PROVE  Walks(t) /\ Ring(order')
  BY <1>7, <1>11 DEF Walks
<1>. QED BY <1>1, <1>3, <1>4, <1>5, <1>8, <1>9, <1>10, <1>11

\* dirlookup() finds nothing or fills in what it has found.
Fill(E, e, dp, p) ==
    LET d == entry[dp].clus
    IN  [E EXCEPT ![e] = [@ EXCEPT !.place = p, !.dir = disk[d][p].dir, !.home = d,
                                   !.clus = disk[d][p].clus, !.uptodate = TRUE]]
Nameless(e) == [entry EXCEPT ![e].name = NoName]

LEMMA FilledIs ==
    ASSUME NEW e, NEW dp, NEW p
    PROVE  Filled(e, dp, p) = C(Fill(entry, e, dp, p), order)
BY DEF Filled, Cache, C, Fill

LEMMA UnnamedIs ==
    ASSUME NEW e \in Slots, Ring(order), ETyped(entry)
    PROVE  \E o : Ring(o) /\ Unnamed(e) = C(Last_(Nameless(e), e), o)
<1>1. [Cache EXCEPT !.entry[e].name = NoName] = C(Nameless(e), order)
  BY DEF Cache, C, Nameless
<1>. QED BY <1>1, PutLastIs DEF Unnamed

LEMMA SearchIs ==
    ASSUME Typed, NEW t \in Tasks, at[t].cur \in Entries, at[t].nxt \in Slots,
           \A p \in Places : ETyped(Fill(entry, at[t].nxt, at[t].cur, p)),
           Search(t), kernel' = "running"
    PROVE  /\ at[t].pc = "search" /\ UNCHANGED <<disk, cwd>> /\ Ring(order')
           /\ \/ /\ leak' = leak
                 /\ \E p \in Matches(at[t].cur, Head(at[t].rest)) :
                        StepsTo(t, Fill(entry, at[t].nxt, at[t].cur, p), at[t].nxt)
              \/ /\ Matches(at[t].cur, Head(at[t].rest)) = {}
                 /\ FailsIn(t) /\ entry' = Last_(Nameless(at[t].nxt), at[t].nxt) /\ holder' = holder
<1>. DEFINE dp == at[t].cur
            e == at[t].nxt
            found == Matches(dp, Head(at[t].rest))
<1>1. ETyped(entry) /\ Ring(order)
  BY DEF Typed, ETyped
<1>2. /\ at[t].pc = "search" /\ UNCHANGED <<disk, cwd>>
      /\ \/ \E p \in found : StepTo(t, Filled(e, dp, p), e) /\ UNCHANGED leak
         \/ found = {} /\ Becomes(Unnamed(e)) /\ Fails(t) /\ UNCHANGED holder
  BY DEF Search, At
<1>3. ASSUME NEW p \in found, StepTo(t, Filled(e, dp, p), e)
      PROVE  StepsTo(t, Fill(entry, e, dp, p), e) /\ Ring(order')
  <2>1. ETyped(Fill(entry, e, dp, p))
    BY DEF Matches
  <2>2. StepTo(t, C(Fill(entry, e, dp, p), order), e)
    BY <1>3, FilledIs
  <2>. QED BY <1>1, <2>1, <2>2, StepToIs
<1>4. ASSUME Becomes(Unnamed(e)) PROVE entry' = Last_(Nameless(e), e) /\ Ring(order')
  BY <1>1, <1>4, UnnamedIs, CacheFields DEF Becomes
<1>5. ASSUME Fails(t) PROVE FailsIn(t)
  BY <1>5 DEF Fails, FailsIn
<1>. QED BY <1>2, <1>3, <1>4, <1>5

Refusing(a) == [a EXCEPT !.pc = "giveUp", !.nxt = NoEntry]

LEMMA LookupIs ==
    ASSUME Typed, NEW t \in Tasks, at[t].cur \in Entries, Lookup(t), kernel' = "running"
    PROVE  /\ at[t].pc = "arrived" /\ Creates(at[t]) /\ holder[at[t].cur] = Nobody
           /\ entry[at[t].cur].dir /\ UNCHANGED <<disk, cwd, leak>> /\ Ring(order')
           /\ \/ \E e \in Rightful(at[t].cur, Head(at[t].rest)) :
                    Put(t, Use(entry, e), [holder EXCEPT ![at[t].cur] = t], e, Refusing(at[t]))
              \/ \E e \in Slots : Misses(t, at[t].cur, Head(at[t].rest), "lookup", e)
<1>. DEFINE dp == at[t].cur
            name == Head(at[t].rest)
<1>1. ETyped(entry) /\ Ring(order)
  BY DEF Typed, ETyped
<1>2. ~End("panic") /\ ~End("stale")
  BY DEF End
<1>3. /\ at[t].pc = "arrived" /\ Creates(at[t]) /\ holder[dp] = Nobody
      /\ entry[dp].dir /\ UNCHANGED <<disk, cwd, leak>>
      /\ \/ \E e \in Rightful(dp, name) : Exists(t, Taken(Cache, e), [holder EXCEPT ![dp] = t], e)
         \/ Miss(t, dp, name, "lookup")
  BY <1>2 DEF Lookup, At, Creates, Mistaken
<1>4. ASSUME NEW e \in Rightful(dp, name), Exists(t, Taken(Cache, e), [holder EXCEPT ![dp] = t], e)
      PROVE  Put(t, Use(entry, e), [holder EXCEPT ![dp] = t], e, Refusing(at[t])) /\ Ring(order')
  <2>1. /\ eput(t, C(Use(entry, e), order), [holder EXCEPT ![dp] = t], e, Refusing(at[t]))
        /\ ETyped(Use(entry, e)) /\ e \in Entries
    BY <1>4, CacheIs, TakenIs, RightfulIs DEF Exists, Refusing
  <2>. QED BY <1>1, <2>1, EputIs
<1>5. ASSUME Miss(t, dp, name, "lookup")
      PROVE  (\E e \in Slots : Misses(t, dp, name, "lookup", e)) /\ Ring(order')
  BY <1>1, <1>5, MissIs DEF Misses
<1>. QED BY <1>3, <1>4, <1>5

LEMMA GiveUpIs ==
    ASSUME Typed, NEW t \in Tasks, at[t].cur \in Entries, GiveUp(t), kernel' = "running"
    PROVE  /\ at[t].pc = "giveUp" /\ UNCHANGED <<disk, cwd, leak>> /\ Ring(order')
           /\ Put(t, entry, [holder EXCEPT ![at[t].cur] = Nobody], at[t].cur, User)
BY CacheIs, EputIs DEF GiveUp, At, Typed, ETyped

LEMMA DropIs ==
    ASSUME Typed, NEW t \in Tasks, at[t].cur \in Entries, Drop(t), kernel' = "running"
    PROVE  /\ at[t].pc = "drop" /\ UNCHANGED <<disk, cwd, leak>> /\ Ring(order')
           /\ Put(t, entry, holder, at[t].cur, User)
BY CacheIs, EputIs DEF Drop, At, Typed, ETyped

\* The new entry of ealloc(), in the place p and for a directory with the cluster d.
Afresh(E, e, dp, name, p, d) ==
    [Rename(E, e, dp, name) EXCEPT ![e] =
        [@ EXCEPT !.place = p, !.dir = (d # 0), !.clus = d, !.home = entry[dp].clus]]
FreePlaces(dp) == {p \in Places : disk[entry[dp].clus][p] = Free}
FirstPlace(dp) == CHOOSE p \in FreePlaces(dp) : \A q \in FreePlaces(dp) : p <= q

LEMMA NewEntryIs ==
    ASSUME NEW t, NEW e \in Slots, Ring(order), ETyped(entry), NEW dp, NEW d
    PROVE  \E o : /\ Ring(o)
                  /\ NewEntry(t, e, dp, d) = C(Afresh(Last_(Nameless(e), e), e, dp, Head(at[t].rest), FirstPlace(dp), d), o)
<1>. DEFINE name == Head(at[t].rest)
            F == Last_(Nameless(e), e)
            f == FirstPlace(dp)
            k == entry[dp].clus
<1>1. PICK o : Ring(o) /\ Unnamed(e) = C(F, o)
  BY UnnamedIs
<1>2. Renamed(Unnamed(e), e, dp, name) = C(Rename(F, e, dp, name), o)
  BY <1>1, RenamedIs
<1>3. NewEntry(t, e, dp, d) =
        [Renamed(Unnamed(e), e, dp, name) EXCEPT !.entry[e] =
            [@ EXCEPT !.place = f, !.dir = (d # 0), !.clus = d, !.home = k]]
  BY DEF NewEntry, FirstPlace, FreePlaces
<1>. DEFINE R == Rename(F, e, dp, name)
<1>. HIDE DEF f, k, F
<1>4. NewEntry(t, e, dp, d) = [C(R, o) EXCEPT !.entry[e] =
            [@ EXCEPT !.place = f, !.dir = (d # 0), !.clus = d, !.home = k]]
  BY <1>2, <1>3
<1>. HIDE DEF R
<1>5. NewEntry(t, e, dp, d) = C([R EXCEPT ![e] = [@ EXCEPT !.place = f, !.dir = (d # 0), !.clus = d, !.home = k]], o)
  BY <1>4 DEF C
<1>. QED BY <1>1, <1>5 DEF Afresh, R, F, f, k

Clusters(t) == IF at[t].call = "mkdir" THEN Dirs \ DirsInUse ELSE {0}

LEMMA AllocateIs ==
    ASSUME Typed, NEW t \in Tasks, at[t].cur \in Entries, at[t].nxt \in Slots,
           \A p \in Places : ETyped(Fill(entry, at[t].nxt, at[t].cur, p)),
           Allocate(t), kernel' = "running"
    PROVE  /\ at[t].pc = "lookup" /\ UNCHANGED <<disk, cwd, leak>> /\ Ring(order')
           /\ \/ \E p \in Matches(at[t].cur, Head(at[t].rest)) :
                    Put(t, Fill(entry, at[t].nxt, at[t].cur, p), holder, at[t].nxt, Refusing(at[t]))
              \/ /\ Matches(at[t].cur, Head(at[t].rest)) = {}
                 /\ \E d \in Clusters(t) :
                       entry' = Afresh(Last_(Nameless(at[t].nxt), at[t].nxt), at[t].nxt, at[t].cur,
                                       Head(at[t].rest), FirstPlace(at[t].cur), d)
                 /\ holder' = [holder EXCEPT ![at[t].nxt] = t]
                 /\ at' = [at EXCEPT ![t].pc = "make"]
<1>. DEFINE dp == at[t].cur
            e == at[t].nxt
            found == Matches(dp, Head(at[t].rest))
<1>1. ETyped(entry) /\ Ring(order)
  BY DEF Typed, ETyped
<1>2. ~End("panic")
  BY DEF End
<1>3. /\ at[t].pc = "lookup" /\ UNCHANGED <<disk, cwd, leak>>
      /\ \/ \E p \in found : Exists(t, Filled(e, dp, p), holder, e)
         \/ /\ found = {} /\ \E d \in Clusters(t) : Becomes(NewEntry(t, e, dp, d))
            /\ holder' = [holder EXCEPT ![e] = t]
            /\ at' = [at EXCEPT ![t].pc = "make"]
  BY <1>2 DEF Allocate, At, Clusters
<1>4. ASSUME NEW p \in found, Exists(t, Filled(e, dp, p), holder, e)
      PROVE  Put(t, Fill(entry, e, dp, p), holder, e, Refusing(at[t])) /\ Ring(order')
  <2>1. ETyped(Fill(entry, e, dp, p)) /\ e \in Entries
    BY EntryFacts DEF Matches
  <2>2. eput(t, C(Fill(entry, e, dp, p), order), holder, e, Refusing(at[t]))
    BY <1>4, FilledIs DEF Exists, Refusing
  <2>. QED BY <1>1, <2>1, <2>2, EputIs
<1>5. ASSUME NEW d, Becomes(NewEntry(t, e, dp, d))
      PROVE  /\ entry' = Afresh(Last_(Nameless(e), e), e, dp, Head(at[t].rest), FirstPlace(dp), d)
             /\ Ring(order')
  BY <1>1, <1>5, NewEntryIs, CacheFields DEF Becomes
<1>. QED BY <1>3, <1>4, <1>5

\* Where fcreate() goes on with its new entry.
Created(a) ==
    LET next == [a EXCEPT !.cur = a.nxt, !.nxt = NoEntry, !.rest = <<>>]
    IN  IF a.call = "creat" THEN [next EXCEPT !.pc = "arrived", !.call = "open"]
                            ELSE [next EXCEPT !.pc = "drop"]

LEMMA MakeIs ==
    ASSUME Typed, NEW t \in Tasks, at[t].cur \in Entries, at[t].nxt \in Slots,
           Make(t), kernel' = "running"
    PROVE  /\ at[t].pc = "make" /\ UNCHANGED <<cwd, leak>> /\ Ring(order')
           /\ LET dp == at[t].cur
                  e == at[t].nxt
                  new == [name |-> Head(at[t].rest), dir |-> entry[e].dir, clus |-> entry[e].clus]
                  made == [disk EXCEPT ![entry[dp].clus][entry[e].place] = new]
              IN  /\ Put(t, [entry EXCEPT ![e].uptodate = TRUE],
                         [holder EXCEPT ![dp] = Nobody, ![e] = Nobody], dp, Created(at[t]))
                  /\ disk' = IF entry[e].dir THEN [made EXCEPT ![entry[e].clus] = [p \in Places |-> Free]]
                             ELSE made
<1>. DEFINE dp == at[t].cur
            e == at[t].nxt
            h == [holder EXCEPT ![dp] = Nobody, ![e] = Nobody]
            E == [entry EXCEPT ![e].uptodate = TRUE]
            new == [name |-> Head(at[t].rest), dir |-> entry[e].dir, clus |-> entry[e].clus]
            made == [disk EXCEPT ![entry[dp].clus][entry[e].place] = new]
            o == << e >> \o Without(C(entry, order), e)
<1>1. ETyped(entry) /\ Ring(order)
  BY DEF Typed, ETyped
<1>2. Ring(o) /\ Lifted(C(entry, order), e) = C(entry, o)
  <2>1. Ring(o)
    BY <1>1, WithoutRest, FrontRing
  <2>2. Lifted(C(entry, order), e) = [C(entry, order) EXCEPT !.order = o]
    BY DEF Lifted
  <2>. HIDE DEF o
  <2>3. [C(entry, order) EXCEPT !.order = o] = C(entry, o)
    BY DEF C
  <2>. QED BY <2>1, <2>2, <2>3
<1>. HIDE DEF o
<1>3. [Lifted(Cache, e) EXCEPT !.entry[e].uptodate = TRUE] = C(E, o)
  <2>1. [C(entry, o) EXCEPT !.entry[e].uptodate = TRUE] = C(E, o)
    BY DEF C
  <2>. QED BY <1>2, <2>1, CacheIs
<1>4. ETyped(E)
  <2>1. e \in Entries /\ entry[e] \in EntryType
    BY <1>1, EntryFacts, FieldTypes
  <2>. QED BY <1>1, <2>1, ZenonT(30) DEF ETyped, EntryType, EntryRecord
<1>. HIDE DEF E, h
<1>5. eput(t, C(E, o), h, dp, Created(at[t]))
  BY <1>3, Zenon DEF Make, Created, h
<1>6. Put(t, E, h, dp, Created(at[t])) /\ Ring(order')
  BY <1>2, <1>4, <1>5, EputIs
<1>7. /\ at[t].pc = "make" /\ UNCHANGED <<cwd, leak>>
      /\ disk' = IF entry[e].dir THEN [made EXCEPT ![entry[e].clus] = [p \in Places |-> Free]] ELSE made
  BY DEF Make, At
<1>. QED BY <1>6, <1>7 DEF E, h

Clean(e) == [entry EXCEPT ![e].dirty = FALSE]
Resumed(a) == [a EXCEPT !.put = NoEntry, !.pc = a.then, !.then = "user"]

LEMMA FlushIs ==
    ASSUME Typed, NEW t \in Tasks, at[t].put \in Slots, Flush(t), kernel' = "running"
    PROVE  /\ at[t].pc = "flush" /\ UNCHANGED <<cwd, leak>> /\ Ring(order')
           /\ OwnsPlace(at[t].put) /\ disk' = Updated(at[t].put)
           /\ entry[at[t].put].refcnt = 1 /\ entry[entry[at[t].put].parent].refcnt > 1
           /\ entry' = Last_(Clean(at[t].put), at[t].put)
           /\ holder' = [holder EXCEPT ![at[t].put] = Nobody]
           /\ at' = [at EXCEPT ![t] = Resumed(at[t])]
<1>. DEFINE e == at[t].put
<1>1. ETyped(entry) /\ Ring(order) /\ at \in [Tasks -> CallType]
  BY DEF Typed, ETyped
<1>2. ~End("panic") /\ ~End("overwrite") /\ ~End("undercount")
  BY DEF End
<1>3. /\ at[t].pc = "flush" /\ UNCHANGED <<cwd, leak>>
      /\ OwnsPlace(e) /\ disk' = Updated(e)
      /\ entry[e].refcnt = 1 /\ entry[entry[e].parent].refcnt > 1
      /\ Becomes(PutLast([Cache EXCEPT !.entry[e].dirty = FALSE], e))
      /\ holder' = [holder EXCEPT ![e] = Nobody]
      /\ at' = [at EXCEPT ![t].put = NoEntry, ![t].pc = at[t].then, ![t].then = "user"]
  BY <1>2 DEF Flush, At
<1>4. [Cache EXCEPT !.entry[e].dirty = FALSE] = C(Clean(e), order)
  BY DEF Cache, C, Clean
<1>5. entry' = Last_(Clean(e), e) /\ Ring(order')
  BY <1>1, <1>3, <1>4, PutLastIs, CacheFields DEF Becomes
<1>6. at' = [at EXCEPT ![t] = Resumed(at[t])]
  BY <1>1, <1>3, Zenon DEF Resumed
<1>. QED BY <1>3, <1>5, <1>6

Removed(e) == [entry EXCEPT ![e] = [@ EXCEPT !.dirty = FALSE, !.name = NoName]]

LEMMA RemoveFileIs ==
    ASSUME Typed, NEW t \in Tasks, at[t].cur \in Entries, RemoveFile(t), kernel' = "running"
    PROVE  /\ at[t].pc = "remove" /\ UNCHANGED <<cwd, leak>> /\ Ring(order')
           /\ OwnsPlace(at[t].cur)
           /\ Put(t, Removed(at[t].cur),
                  [holder EXCEPT ![at[t].cur] = Nobody, ![entry[at[t].cur].parent] = Nobody],
                  at[t].cur, User)
           /\ disk' = [disk EXCEPT ![entry[entry[at[t].cur].parent].clus][entry[at[t].cur].place] = Free]
<1>. DEFINE e == at[t].cur
            h == [holder EXCEPT ![e] = Nobody, ![entry[e].parent] = Nobody]
<1>1. ETyped(entry) /\ Ring(order)
  BY DEF Typed, ETyped
<1>2. ~End("overwrite")
  BY DEF End
<1>3. [Cache EXCEPT !.entry[e] = [@ EXCEPT !.dirty = FALSE, !.name = NoName]] = C(Removed(e), order)
  BY SMTT(30) DEF Cache, C, Removed
<1>4. /\ at[t].pc = "remove" /\ UNCHANGED <<cwd, leak>> /\ OwnsPlace(e)
      /\ eput(t, C(Removed(e), order), h, e, User)
      /\ disk' = [disk EXCEPT ![entry[entry[e].parent].clus][entry[e].place] = Free]
  BY <1>2, <1>3, Zenon DEF RemoveFile, At
<1>5. ETyped(Removed(e)) /\ e \in Entries
  <2>1. e \in Entries /\ entry[e] \in EntryType
    BY <1>1, EntryFacts, FieldTypes
  <2>. QED BY <1>1, <2>1 DEF ETyped, EntryType, EntryRecord, Removed
<1>. QED BY <1>1, <1>4, <1>5, EputIs, Zenon

-----------------------------------------------------------------------------
(* The steps of the system calls, written out.                             *)

LEMMA LowestIn ==
    ASSUME NEW S, S \subseteq Nat, S # {}
    PROVE  Lowest(S) \in S
BY Least DEF Lowest

LEMMA Descriptors ==
    /\ Sfds \subseteq Nat /\ Fds \subseteq Nat /\ NULL \notin Sfds /\ Marked \notin Sfds /\ NULL # Marked
    /\ -1 \notin Sfds /\ -1 \notin Fds
BY TableAssumption DEF Sfds, Fds, NULL, Marked

\* open() without a descriptor to spare, and with one.
OpenFails(t) ==
    /\ Put(t, entry, holder, at[t].cur, User) /\ UNCHANGED <<file, FTable>>
OpenEmpties(t, s, fd) ==
    /\ file' = [file EXCEPT ![s].count = 1] /\ FTable' = [FTable EXCEPT ![t][fd] = Marked]
    /\ holder' = [holder EXCEPT ![at[t].cur] = t]
    /\ at' = [at EXCEPT ![t].pc = "trunc", ![t].file = s, ![t].fd = fd]
    /\ ~entry[at[t].cur].dir /\ UNCHANGED <<entry, order>>
OpenEnds(t, s, fd) ==
    /\ Opened(s, at[t].cur) /\ FTable' = [FTable EXCEPT ![t][fd] = s]
    /\ at' = [at EXCEPT ![t] = User] /\ UNCHANGED <<entry, order, holder>>

LEMMA OpenIs ==
    ASSUME Typed, NEW t \in Tasks, at[t].cur \in Entries, Open(t), kernel' = "running"
    PROVE  /\ at[t].pc = "arrived" /\ at[t].call \in {"open", "openTrunc"}
           /\ holder[at[t].cur] = Nobody /\ UNCHANGED <<disk, cwd, leak, sysf, lost>> /\ Ring(order')
           /\ \/ OpenFails(t)
              \/ \E s \in FreeSfds, fd \in FreeFds(t) : OpenEmpties(t, s, fd) \/ OpenEnds(t, s, fd)
<1>. DEFINE e == at[t].cur
            s == Lowest(FreeSfds)
            fd == Lowest(FreeFds(t))
<1>1. ETyped(entry) /\ Ring(order)
  BY DEF Typed, ETyped
<1>2. ~Spins /\ ~End("undercount")
  BY DEF Spins, End
<1>3. FreeSfds # {} => s \in FreeSfds
  BY LowestIn, Descriptors DEF FreeSfds
<1>4. FreeFds(t) # {} => fd \in FreeFds(t)
  BY LowestIn, Descriptors DEF FreeFds
<1>. HIDE DEF s, fd
<1>5. /\ at[t].pc = "arrived" /\ at[t].call \in {"open", "openTrunc"}
      /\ holder[e] = Nobody /\ UNCHANGED <<disk, cwd, leak, sysf, lost>>
      /\ \/ eput(t, Cache, holder, e, User) /\ UNCHANGED <<file, FTable>>
         \/ /\ FreeSfds # {} /\ FreeFds(t) # {} /\ UNCHANGED <<entry, order, kernel>>
            /\ IF at[t].call = "openTrunc" /\ ~entry[e].dir
                 THEN /\ file' = [file EXCEPT ![s].count = 1]
                      /\ FTable' = [FTable EXCEPT ![t][fd] = Marked]
                      /\ holder' = [holder EXCEPT ![e] = t]
                      /\ at' = [at EXCEPT ![t].pc = "trunc", ![t].file = s, ![t].fd = fd]
                 ELSE /\ Opened(s, e) /\ FTable' = [FTable EXCEPT ![t][fd] = s]
                      /\ at' = [at EXCEPT ![t] = User] /\ UNCHANGED holder
  BY <1>2 DEF Open, At, s, fd
<1>6. ASSUME eput(t, Cache, holder, e, User)
      PROVE  Put(t, entry, holder, e, User) /\ Ring(order')
  BY <1>1, <1>6, CacheIs, EputIs
<1>7. CASE eput(t, Cache, holder, e, User) /\ UNCHANGED <<file, FTable>>
  BY <1>5, <1>6, <1>7 DEF OpenFails
<1>8. CASE ~(eput(t, Cache, holder, e, User) /\ UNCHANGED <<file, FTable>>)
  <2>1. s \in FreeSfds /\ fd \in FreeFds(t)
    BY <1>3, <1>4, <1>5, <1>8
  <2>2. OpenEmpties(t, s, fd) \/ OpenEnds(t, s, fd)
    BY <1>5, <1>8 DEF OpenEmpties, OpenEnds
  <2>. QED BY <1>1, <1>5, <1>8, <2>1, <2>2
<1>. QED BY <1>7, <1>8

LEMMA ChdirIs ==
    ASSUME Typed, NEW t \in Tasks, at[t].cur \in Entries, Chdir(t), kernel' = "running"
    PROVE  /\ at[t].pc = "arrived" /\ at[t].call = "chdir" /\ UNCHANGED <<disk, cwd, leak, tableVars>>
           /\ Ring(order')
           /\ \/ Put(t, entry, holder, cwd[t], [at[t] EXCEPT !.pc = "chdir"])
              \/ Put(t, entry, holder, at[t].cur, User)
<1>1. ETyped(entry) /\ Ring(order) /\ cwd[t] \in Entries
  BY DEF Typed, ETyped
<1>2. /\ at[t].pc = "arrived" /\ at[t].call = "chdir" /\ UNCHANGED <<disk, cwd, leak, tableVars>>
      /\ \/ eput(t, C(entry, order), holder, cwd[t], [at[t] EXCEPT !.pc = "chdir"])
         \/ eput(t, C(entry, order), holder, at[t].cur, User)
  BY CacheIs DEF Chdir, At
<1>3. ASSUME eput(t, C(entry, order), holder, cwd[t], [at[t] EXCEPT !.pc = "chdir"])
      PROVE  Put(t, entry, holder, cwd[t], [at[t] EXCEPT !.pc = "chdir"]) /\ Ring(order')
  BY <1>1, <1>3, EputIs
<1>4. ASSUME eput(t, C(entry, order), holder, at[t].cur, User)
      PROVE  Put(t, entry, holder, at[t].cur, User) /\ Ring(order')
  BY <1>1, <1>4, EputIs
<1>. QED BY <1>2, <1>3, <1>4

\* close() takes the reference away; the last one of a file takes the entry's too.
LastOf(s) == file[s].count = 1 /\ file[s].type \in {"reg", "dir"}

LEMMA CloseIs ==
    ASSUME Typed, NEW t \in Tasks, NEW fd \in Fds, Close(t, fd), kernel' = "running",
           \A s \in Sfds : LastOf(s) /\ FTable[t][fd] = s => file[s].entry \in Entries
    PROVE  /\ at[t].pc = "user" /\ UNCHANGED <<disk, cwd, leak, lost>> /\ Ring(order')
           /\ \E s \in Sfds :
                /\ FTable[t][fd] = s /\ file[s].count >= 1
                /\ FTable' = [FTable EXCEPT ![t][fd] = NULL]
                /\ file' = [file EXCEPT ![s].count = @ - 1, ![s].entry = IF LastOf(s) THEN NoEntry ELSE @]
                /\ \/ /\ LastOf(s)
                      /\ \E p \in {"unlock", "user"} :
                            Put(t, entry, holder, file[s].entry, [User EXCEPT !.pc = p])
                   \/ ~LastOf(s) /\ UNCHANGED <<entry, order, holder, at, kernel, sysf>>
<1>. DEFINE s == FTable[t][fd]
<1>1. ETyped(entry) /\ Ring(order)
  BY DEF Typed, ETyped
<1>2. ~Spins /\ ~End("fault") /\ ~End("panic")
  BY DEF Spins, End
<1>. HIDE DEF s
<1>3. /\ at[t].pc = "user" /\ UNCHANGED <<disk, cwd, leak, lost>> /\ s \in Sfds
      /\ file[s].count >= 1 /\ FTable' = [FTable EXCEPT ![t][fd] = NULL]
      /\ file' = [file EXCEPT ![s].count = @ - 1, ![s].entry = IF LastOf(s) THEN NoEntry ELSE @]
      /\ IF LastOf(s)
           THEN eput(t, Cache, holder, file[s].entry, [User EXCEPT !.pc = IF sysf' = t THEN "unlock" ELSE "user"])
           ELSE UNCHANGED <<entry, order, holder, at, kernel, sysf>>
  BY <1>2 DEF Close, InUser, At, LastOf, s
<1>4. CASE LastOf(s)
  <2>1. PICK p \in {"unlock", "user"} : eput(t, C(entry, order), holder, file[s].entry, [User EXCEPT !.pc = p])
    BY <1>3, <1>4, CacheIs
  <2>2. file[s].entry \in Entries
    BY <1>3, <1>4 DEF s
  <2>3. Put(t, entry, holder, file[s].entry, [User EXCEPT !.pc = p]) /\ Ring(order')
    BY <1>1, <2>1, <2>2, EputIs
  <2>. QED BY <1>3, <1>4, <2>3 DEF s
<1>5. CASE ~LastOf(s)
  BY <1>1, <1>3, <1>5 DEF s
<1>. QED BY <1>4, <1>5

-----------------------------------------------------------------------------
(* The inductive invariant, and what follows from the books being in order. *)

Core ==
    /\ Typed /\ TableTyped /\ (\A s \in Sfds : HasEntry(s))
    /\ (\A x \in Entries : Balanced(x)) /\ Sound(entry)
    /\ (\A t \in Tasks : Working(t)) /\ LocksExact /\ OneHit

IInv == Running => Core

\* Who refers to x, beside t.
Besides(t, x) == Cardinality(Below(entry, x)) + Rest(at, cwd, t, x)
                     + Cardinality(FileRefs(file, Opening, x)) + leak[x]

LEMMA CountIs ==
    ASSUME Typed, NEW t \in Tasks, NEW x \in Entries, Balanced(x)
    PROVE  /\ entry[x].refcnt = Own(at[t], cwd[t], x) + Besides(t, x)
           /\ Own(at[t], cwd[t], x) \in Nat /\ Rest(at, cwd, t, x) \in Nat /\ leak[x] \in Nat
           /\ Cardinality(Below(entry, x)) \in Nat
           /\ Cardinality(FileRefs(file, Opening, x)) \in Nat
           /\ entry[x].refcnt \in Nat
<1>1. /\ Own(at[t], cwd[t], x) \in Nat /\ Rest(at, cwd, t, x) \in Nat
      /\ Held(at, cwd, x) = Rest(at, cwd, t, x) + Own(at[t], cwd[t], x)
  BY TaskSplit
<1>2. /\ leak[x] \in Nat /\ Cardinality(Below(entry, x)) \in Nat
      /\ Cardinality(FileRefs(file, Opening, x)) \in Nat
      /\ entry[x].refcnt \in Nat
  BY FiniteBelow, FiniteFileRefs, FieldTypes DEF Typed
<1>. QED BY <1>1, <1>2 DEF Balanced, Owed, Besides

\* What a task refers to, what open files refer to, and what has entries in use
\* below it, is in use.
LEMMA ReferredIsUsed ==
    ASSUME Typed, NEW t \in Tasks, NEW x \in Entries, Balanced(x),
           \/ Own(at[t], cwd[t], x) >= 1
           \/ \E s \in Sfds : s \in FileRefs(file, Opening, x)
           \/ \E c \in Slots : c \in Below(entry, x)
    PROVE  entry[x].refcnt >= 1
<1>1. /\ entry[x].refcnt = Own(at[t], cwd[t], x) + Besides(t, x)
      /\ Own(at[t], cwd[t], x) \in Nat /\ Rest(at, cwd, t, x) \in Nat /\ leak[x] \in Nat
      /\ Cardinality(Below(entry, x)) \in Nat
      /\ Cardinality(FileRefs(file, Opening, x)) \in Nat
  BY CountIs
<1>2. CASE Own(at[t], cwd[t], x) >= 1
  BY <1>1, <1>2 DEF Besides
<1>3. CASE \E s \in Sfds : s \in FileRefs(file, Opening, x)
  <2>1. Cardinality(FileRefs(file, Opening, x)) >= 1
    BY <1>3, FiniteFileRefs, CardPositive
  <2>. QED BY <1>1, <2>1 DEF Besides
<1>4. CASE \E c \in Slots : c \in Below(entry, x)
  <2>1. Cardinality(Below(entry, x)) >= 1
    BY <1>4, FiniteBelow, CardPositive
  <2>. QED BY <1>1, <2>1 DEF Besides
<1>. QED BY <1>2, <1>3, <1>4

\* The only reference to x is one of t.
LEMMA OnlyReference ==
    ASSUME Typed, NEW t \in Tasks, NEW x \in Entries, Balanced(x),
           Own(at[t], cwd[t], x) >= 1, entry[x].refcnt = 1
    PROVE  /\ Own(at[t], cwd[t], x) = 1 /\ Below(entry, x) = {} /\ leak[x] = 0
           /\ FileRefs(file, Opening, x) = {}
           /\ \A u \in Tasks \ {t} : Own(at[u], cwd[u], x) = 0
<1>1. /\ entry[x].refcnt = Own(at[t], cwd[t], x) + Besides(t, x)
      /\ Own(at[t], cwd[t], x) \in Nat /\ Rest(at, cwd, t, x) \in Nat /\ leak[x] \in Nat
      /\ Cardinality(Below(entry, x)) \in Nat
      /\ Cardinality(FileRefs(file, Opening, x)) \in Nat
  BY CountIs
<1>2. /\ Own(at[t], cwd[t], x) = 1 /\ Rest(at, cwd, t, x) = 0 /\ leak[x] = 0
      /\ Cardinality(Below(entry, x)) = 0 /\ Cardinality(FileRefs(file, Opening, x)) = 0
  <2>. DEFINE o == Own(at[t], cwd[t], x)
              b == Cardinality(Below(entry, x))
              r == Rest(at, cwd, t, x)
              f == Cardinality(FileRefs(file, Opening, x))
              l == leak[x]
  <2>1. /\ 1 = o + (b + r + f + l) /\ o >= 1
        /\ o \in Nat /\ b \in Nat /\ r \in Nat /\ f \in Nat /\ l \in Nat
    BY <1>1 DEF Besides
  <2>. HIDE DEF o, b, r, f, l
  <2>2. o = 1 /\ r = 0 /\ l = 0 /\ b = 0 /\ f = 0
    BY <2>1
  <2>. QED BY <2>2 DEF o, b, r, f, l
<1>3. Below(entry, x) = {} /\ FileRefs(file, Opening, x) = {}
  BY <1>2, FiniteBelow, FiniteFileRefs, FS_EmptySet
<1>4. ASSUME NEW u \in Tasks \ {t} PROVE Own(at[u], cwd[u], x) = 0
  <2>1. Held(at, cwd, x) = Rest(at, cwd, t, x) + Own(at[t], cwd[t], x)
    BY TaskSplit
  <2>2. Own(at[u], cwd[u], x) \in Nat
    BY TaskSplit
  <2>3. Own(at[u], cwd[u], x) >= 1 => Held(at, cwd, x) >= 2 /\ Held(at, cwd, x) \in Nat
    BY TwoTasks
  <2>. QED BY <1>2, <2>1, <2>2, <2>3
<1>. QED BY <1>2, <1>3, <1>4

LEMMA OwnIs ==
    ASSUME NEW a, NEW w, NEW x
    PROVE  /\ Own(a, w, x) \in Nat
           /\ Own(a, w, x) >= 1 <=> \/ x \in {a.cur, a.nxt, a.put}
                                    \/ w = x /\ a.pc # "chdir" /\ a.then # "chdir"
           /\ Own(a, w, x) = 0 => /\ x \notin {a.cur, a.nxt, a.put}
                                  /\ ~(w = x /\ a.pc # "chdir" /\ a.then # "chdir")
BY DEF Own, Ind

\* The parent of what is in use is in use.
LEMMA ParentIsUsed ==
    ASSUME Core, NEW e \in Slots, entry[e].refcnt > 0
    PROVE  /\ entry[e].parent \in Entries \ {e} /\ entry[entry[e].parent].refcnt >= 1
           /\ e \in Below(entry, entry[e].parent)
<1>1. entry[e].parent \in Entries \ {e}
  BY DEF Core, Sound
<1>2. e \in Below(entry, entry[e].parent)
  BY <1>1 DEF Below
<1>3. CASE Tasks = {}
  <2>1. /\ Balanced(entry[e].parent) /\ leak[entry[e].parent] \in Nat
    BY <1>1 DEF Core, Typed
  <2>2. Cardinality(Below(entry, entry[e].parent)) >= 1 /\ Cardinality(Below(entry, entry[e].parent)) \in Nat
    BY <1>2, FiniteBelow, CardPositive
  <2>3. /\ CallRefs(at, entry[e].parent) = {} /\ CwdRefs(at, cwd, entry[e].parent) = {}
    BY <1>3 DEF CallRefs, CwdRefs
  <2>4. Held(at, cwd, entry[e].parent) = 0
    BY <2>3, FS_EmptySet DEF Held
  <2>5. /\ Cardinality(FileRefs(file, Opening, entry[e].parent)) \in Nat
        /\ entry[entry[e].parent].refcnt \in Nat
    BY <1>1, FiniteFileRefs, FieldTypes DEF Core, Typed
  <2>. QED BY <1>1, <1>2, <2>1, <2>2, <2>4, <2>5 DEF Balanced, Owed
<1>4. CASE Tasks # {}
  <2>1. PICK t \in Tasks : TRUE
    BY <1>4
  <2>2. Typed /\ Balanced(entry[e].parent)
    BY <1>1 DEF Core
  <2>3. entry[entry[e].parent].refcnt >= 1
    BY <1>1, <1>2, <2>1, <2>2, ReferredIsUsed
  <2>. QED BY <1>1, <1>2, <2>3
<1>. QED BY <1>3, <1>4

\* What a lookup has taken is neither a parent, nor in an open file, nor referred
\* to by another task.
LEMMA FreshIsAlone ==
    ASSUME Core, NEW u \in Tasks, at[u].pc \in HasNxt
    PROVE  LET e == at[u].nxt IN
           /\ e \in Slots /\ e \in Entries /\ entry[e].refcnt = 1 /\ ~entry[e].uptodate
           /\ \A c \in Slots : entry[c].refcnt > 0 => entry[c].parent # e
           /\ \A s \in Sfds : s \notin FileRefs(file, Opening, e)
           /\ leak[e] = 0 /\ at[u].cur # e /\ at[u].put # e
           /\ \A t \in Tasks \ {u} : Own(at[t], cwd[t], e) = 0
<1>. DEFINE e == at[u].nxt
<1>1. Typed /\ at[u] \in CallType /\ Shape(at[u]) /\ Working(u)
  BY DEF Core, Typed
<1>2. Doing(at[u]) \in HasNxt
  BY DEF Doing, HasNxt
<1>3. e \in Slots /\ e \in Entries
  BY <1>1, <1>2, EntryFacts DEF Shape, CallType
<1>4. entry[e].refcnt = 1 /\ ~entry[e].uptodate
  BY <1>1 DEF Working
<1>5. Own(at[u], cwd[u], e) >= 1
  BY OwnIs
<1>6. Balanced(e)
  BY <1>3 DEF Core
<1>7. /\ Own(at[u], cwd[u], e) = 1 /\ Below(entry, e) = {} /\ leak[e] = 0
      /\ FileRefs(file, Opening, e) = {}
      /\ \A t \in Tasks \ {u} : Own(at[t], cwd[t], e) = 0
  BY <1>1, <1>3, <1>4, <1>5, <1>6, OnlyReference
<1>8. at[u].cur # e /\ at[u].put # e
  BY <1>7 DEF Own, Ind
<1>9. ASSUME NEW c \in Slots, entry[c].refcnt > 0 PROVE entry[c].parent # e
  BY <1>7, <1>9, ParentIsUsed
<1>. HIDE DEF e
<1>. QED BY <1>3, <1>4, <1>7, <1>8, <1>9 DEF e

-----------------------------------------------------------------------------
(* What a step of task t has to respect so that all of it still holds.     *)

\* Of the other tasks: their calls, what they have taken, and the parent and kind
\* of everything that stays in use.
Frame(t) ==
    /\ \A u \in Tasks \ {t} : at'[u] = at[u] /\ cwd'[u] = cwd[u]
    /\ \A y \in Entries : entry[y].refcnt > 0 /\ entry'[y].refcnt > 0 =>
          /\ entry'[y].parent = entry[y].parent
          /\ y # at[t].nxt => entry'[y].dir = entry[y].dir
    /\ \A u \in Tasks \ {t} : at[u].pc \in HasNxt => entry'[at[u].nxt] = entry[at[u].nxt]

LockStep(t) ==
    /\ \A x \in Entries : leak'[x] >= leak[x]
    /\ \A x \in Entries : \A u \in Tasks \ {t} : holder'[x] = u <=> holder[x] = u
    /\ \A x \in Entries : /\ x \in LocksOf(at'[t], entry') => holder'[x] = t
                          /\ holder'[x] = t => leak'[x] > 0 \/ x \in LocksOf(at'[t], entry')

\* The entry e is valid for this name in this directory.
Valid(E, e, dp, name) == E[e].uptodate /\ E[e].parent = dp /\ E[e].name = name

\* At most the entry that t looked up becomes valid.
HitStep(t) ==
    /\ \A e \in Slots : entry'[e].uptodate /\ entry'[e].name # NoName =>
          \/ Valid(entry, e, entry'[e].parent, entry'[e].name)
          \/ /\ at[t].pc \in HasNxt /\ e = at[t].nxt
             /\ entry'[e].parent = at[t].cur /\ entry'[e].name = Head(at[t].rest)
    /\ at'[t].pc \in HasNxt => \A e \in Slots : ~Valid(entry', e, at'[t].cur, Head(at'[t].rest))

\* What changes in the books of x is what t's references change.
Booked(t, x) ==
    Owed(entry', x) + Own(at[t], cwd[t], x) + leak[x] + Cardinality(FileRefs(file, Opening, x))
        = Owed(entry, x) + Own(at'[t], cwd'[t], x) + leak'[x]
              + Cardinality(FileRefs(file', Opening', x))

LEMMA BalanceKept ==
    ASSUME Core, Typed', NEW t \in Tasks, Frame(t), NEW x \in Entries, Booked(t, x)
    PROVE  Balanced(x)'
<1>1. \A u \in Tasks \ {t} : at[u] = at'[u] /\ cwd[u] = cwd'[u]
  BY DEF Frame
<1>2. /\ Held(at, cwd, x) + Own(at'[t], cwd'[t], x) = Held(at', cwd', x) + Own(at[t], cwd[t], x)
      /\ Held(at, cwd, x) \in Nat /\ Held(at', cwd', x) \in Nat
      /\ Own(at[t], cwd[t], x) \in Nat /\ Own(at'[t], cwd'[t], x) \in Nat
  <2>1. RestCalls(at, t, x) = RestCalls(at', t, x) /\ RestCwd(at, cwd, t, x) = RestCwd(at', cwd', t, x)
    BY <1>1 DEF RestCalls, RestCwd, CallRefs, CwdRefs
  <2>2. Rest(at, cwd, t, x) = Rest(at', cwd', t, x)
    BY <2>1 DEF Rest
  <2>3. /\ Rest(at, cwd, t, x) \in Nat /\ Own(at[t], cwd[t], x) \in Nat
        /\ Held(at, cwd, x) = Rest(at, cwd, t, x) + Own(at[t], cwd[t], x)
    BY TaskSplit
  <2>4. /\ Rest(at', cwd', t, x) \in Nat /\ Own(at'[t], cwd'[t], x) \in Nat
        /\ Held(at', cwd', x) = Rest(at', cwd', t, x) + Own(at'[t], cwd'[t], x)
    BY TaskSplit
  <2>. QED BY <2>2, <2>3, <2>4
<1>3. Owed(entry, x) = Held(at, cwd, x) + Cardinality(FileRefs(file, Opening, x))
                           + leak[x]
  BY DEF Core, Balanced
<1>4. /\ leak[x] \in Nat /\ leak'[x] \in Nat
      /\ Cardinality(FileRefs(file, Opening, x)) \in Nat
      /\ Cardinality(FileRefs(file', Opening', x)) \in Nat
      /\ Owed(entry, x) \in Int /\ Owed(entry', x) \in Int
  <2>1. leak[x] \in Nat /\ leak'[x] \in Nat
    BY DEF Core, Typed
  <2>2. entry[x].refcnt \in Nat /\ entry'[x].refcnt \in Nat
    BY FieldTypes DEF Core, Typed
  <2>. QED BY <2>1, <2>2, FiniteBelow, FiniteFileRefs DEF Owed
<1>5. Owed(entry', x) = Held(at', cwd', x) + Cardinality(FileRefs(file', Opening', x))
                            + leak'[x]
  <2>. DEFINE o == Owed(entry, x)
              p == Owed(entry', x)
              h == Held(at, cwd, x)
              k == Held(at', cwd', x)
              m == Own(at[t], cwd[t], x)
              n == Own(at'[t], cwd'[t], x)
              f == Cardinality(FileRefs(file, Opening, x))
              g == Cardinality(FileRefs(file', Opening', x))
              l == leak[x]
              j == leak'[x]
  <2>1. /\ p + m + l + f = o + n + j + g /\ h + n = k + m /\ o = h + f + l
        /\ o \in Int /\ p \in Int /\ h \in Nat /\ k \in Nat /\ m \in Nat /\ n \in Nat
        /\ f \in Nat /\ g \in Nat /\ l \in Nat /\ j \in Nat
    BY <1>2, <1>3, <1>4 DEF Booked
  <2>. HIDE DEF o, p, h, k, m, n, f, g, l, j
  <2>2. p = k + g + j
    BY <2>1
  <2>. QED BY <2>2 DEF o, p, h, k, m, n, f, g, l, j
<1>. QED BY <1>5 DEF Balanced

\* After the step as before it.
LEMMA UsedAfter ==
    ASSUME Typed', NEW t \in Tasks, NEW x \in Entries, Balanced(x)',
           \/ Own(at'[t], cwd'[t], x) >= 1
           \/ \E s \in Sfds : s \in FileRefs(file', Opening', x)
    PROVE  entry'[x].refcnt > 0
<1>1. /\ Own(at'[t], cwd'[t], x) \in Nat /\ Rest(at', cwd', t, x) \in Nat
      /\ Held(at', cwd', x) = Rest(at', cwd', t, x) + Own(at'[t], cwd'[t], x)
  BY TaskSplit
<1>2. /\ leak'[x] \in Nat /\ Cardinality(Below(entry', x)) \in Nat
      /\ Cardinality(FileRefs(file', Opening', x)) \in Nat
      /\ entry'[x].refcnt \in Nat
  BY FiniteBelow, FiniteFileRefs, FieldTypes DEF Typed
<1>3. Own(at'[t], cwd'[t], x) >= 1 \/ Cardinality(FileRefs(file', Opening', x)) >= 1
  BY FiniteFileRefs, CardPositive
<1>. QED BY <1>1, <1>2, <1>3 DEF Balanced, Owed

LEMMA TakenByCall ==
    ASSUME Core, NEW t \in Tasks
    PROVE  /\ at[t].nxt \in Entries <=> at[t].pc \in HasNxt
           /\ at[t].nxt \in Slots <=> at[t].pc \in HasNxt
           /\ at[t].pc \in HasCur => at[t].cur \in Entries
           /\ at[t].pc = "flush" => at[t].put \in Slots
<1>1. at[t] \in CallType /\ Shape(at[t])
  BY DEF Core, Typed
<1>2. /\ at[t].nxt \in Slots \cup {NoEntry} /\ at[t].cur \in Entries \cup {NoEntry}
      /\ at[t].put \in Slots \cup {NoEntry}
  BY <1>1 DEF CallType
<1>3. "flush" \notin HasNxt /\ "flush" \notin HasCur /\ Resumes \cap HasNxt = {}
  BY DEF HasNxt, HasCur, Walking, Resumes
<1>. QED BY <1>1, <1>2, <1>3, EntryFacts DEF Shape, Doing

\* What another task or an open file refers to is not what t has taken.
LEMMA NotTaken ==
    ASSUME Core, NEW t \in Tasks, NEW y \in Entries,
           \/ \E u \in Tasks \ {t} : Own(at[u], cwd[u], y) >= 1
           \/ \E s \in Sfds : s \in FileRefs(file, Opening, y)
    PROVE  y # at[t].nxt
BY TakenByCall, FreshIsAlone

LEMMA StaysOf ==
    ASSUME Core, Typed', NEW t \in Tasks, Frame(t), NEW y \in Entries, Balanced(y)',
           \/ \E u \in Tasks \ {t} : Own(at[u], cwd[u], y) >= 1
           \/ \E s \in Sfds : /\ s \in FileRefs(file, Opening, y)
                              /\ s \in FileRefs(file', Opening', y)
    PROVE  entry'[y].parent = entry[y].parent /\ entry'[y].dir = entry[y].dir
<1>1. y # at[t].nxt
  BY NotTaken
<1>2. Typed /\ Balanced(y) /\ entry[y].refcnt \in Nat
  BY FieldTypes DEF Core, Typed
<1>3. entry[y].refcnt > 0
  BY <1>2, ReferredIsUsed
<1>4. \A u \in Tasks \ {t} : at'[u] = at[u] /\ cwd'[u] = cwd[u]
  BY DEF Frame
<1>5. entry'[y].refcnt > 0
  BY <1>4, UsedAfter
<1>. QED BY <1>1, <1>3, <1>5 DEF Frame

LEMMA WorkingKept ==
    ASSUME Core, Typed', NEW t \in Tasks, Frame(t), \A x \in Entries : Balanced(x)', Working(t)'
    PROVE  \A u \in Tasks : Working(u)'
<1>. SUFFICES ASSUME NEW u \in Tasks \ {t} PROVE Working(u)'
  OBVIOUS
<1>1. at'[u] = at[u] /\ Working(u)
  BY DEF Frame, Core
<1>2. ASSUME at[u].pc \in HasNxt \cup {"trunc", "empty"}
      PROVE  entry'[at[u].cur].dir = entry[at[u].cur].dir
  <2>1. at[u].cur \in Entries
    BY <1>2, TakenByCall DEF HasNxt, HasCur, Walking
  <2>2. Own(at[u], cwd[u], at[u].cur) >= 1
    BY OwnIs
  <2>. QED BY <2>1, <2>2, StaysOf
<1>3. at[u].pc \in HasNxt => entry'[at[u].nxt] = entry[at[u].nxt]
  BY DEF Frame
<1>. QED BY <1>1, <1>2, <1>3 DEF Working

LEMMA LocksKept ==
    ASSUME Core, Typed', NEW t \in Tasks, Frame(t), \A x \in Entries : Balanced(x)', LockStep(t)
    PROVE  LocksExact'
<1>1. ASSUME NEW u \in Tasks \ {t} PROVE LocksOf(at'[u], entry') = LocksOf(at[u], entry)
  <2>1. at'[u] = at[u]
    BY DEF Frame
  <2>2. ASSUME Doing(at[u]) = "remove" PROVE entry'[at[u].cur].parent = entry[at[u].cur].parent
    <3>1. at[u].pc = "remove"
      BY <2>2 DEF Core, Typed, Shape, Doing, Resumes
    <3>2. at[u].cur \in Entries
      BY <3>1, TakenByCall DEF HasCur
    <3>3. Own(at[u], cwd[u], at[u].cur) >= 1
      BY OwnIs
    <3>. QED BY <3>2, <3>3, StaysOf
  <2>. QED BY <2>1, <2>2 DEF LocksOf
<1>2. ASSUME NEW u \in Tasks \ {t}, NEW x \in Entries
      PROVE  /\ x \in LocksOf(at'[u], entry') => holder'[x] = u
             /\ holder'[x] = u => leak'[x] > 0 \/ x \in LocksOf(at'[u], entry')
  <2>1. /\ x \in LocksOf(at[u], entry) => holder[x] = u
        /\ holder[x] = u => leak[x] > 0 \/ x \in LocksOf(at[u], entry)
    BY DEF Core, LocksExact
  <2>2. holder'[x] = u <=> holder[x] = u
    BY DEF LockStep
  <2>3. leak'[x] >= leak[x] /\ leak[x] \in Nat /\ leak'[x] \in Nat
    BY DEF LockStep, Core, Typed
  <2>. QED BY <1>1, <2>1, <2>2, <2>3
<1>3. \A x \in Entries : /\ x \in LocksOf(at'[t], entry') => holder'[x] = t
                         /\ holder'[x] = t => leak'[x] > 0 \/ x \in LocksOf(at'[t], entry')
  BY DEF LockStep
<1>. QED BY <1>2, <1>3 DEF LocksExact

LEMMA HitsKept ==
    ASSUME Core, Typed', NEW t \in Tasks, Frame(t), HitStep(t)
    PROVE  OneHit'
<1>1. /\ \A a, b \in Slots :
            Valid(entry, a, entry[b].parent, entry[b].name) /\ entry[b].uptodate
                /\ entry[b].name # NoName => a = b
      /\ \A u \in Tasks : at[u].pc \in HasNxt =>
            \A e \in Slots : ~Valid(entry, e, at[u].cur, Head(at[u].rest))
  BY DEF Core, OneHit, Valid
<1>2. ASSUME NEW e \in Slots, entry'[e].uptodate, entry'[e].name # NoName
      PROVE  \/ Valid(entry, e, entry'[e].parent, entry'[e].name)
             \/ /\ at[t].pc \in HasNxt /\ e = at[t].nxt
                /\ entry'[e].parent = at[t].cur /\ entry'[e].name = Head(at[t].rest)
  BY <1>2 DEF HitStep
<1>3. ASSUME NEW a \in Slots, NEW b \in Slots, entry'[a].uptodate, entry'[b].uptodate,
             entry'[a].name # NoName, entry'[a].parent = entry'[b].parent,
             entry'[a].name = entry'[b].name
      PROVE  a = b
  <2>1. CASE Valid(entry, a, entry'[a].parent, entry'[a].name)
    <3>1. CASE Valid(entry, b, entry'[b].parent, entry'[b].name)
      BY <1>1, <1>3, <2>1, <3>1 DEF Valid
    <3>2. CASE ~Valid(entry, b, entry'[b].parent, entry'[b].name)
      BY <1>1, <1>2, <1>3, <2>1, <3>2
    <3>. QED BY <3>1, <3>2
  <2>2. CASE ~Valid(entry, a, entry'[a].parent, entry'[a].name)
    <3>1. CASE Valid(entry, b, entry'[b].parent, entry'[b].name)
      BY <1>1, <1>2, <1>3, <2>2, <3>1
    <3>2. CASE ~Valid(entry, b, entry'[b].parent, entry'[b].name)
      BY <1>2, <1>3, <2>2, <3>2
    <3>. QED BY <3>1, <3>2
  <2>. QED BY <2>1, <2>2
<1>4. ASSUME NEW u \in Tasks, at'[u].pc \in HasNxt, NEW e \in Slots,
             Valid(entry', e, at'[u].cur, Head(at'[u].rest))
      PROVE  FALSE
  <2>1. u # t
    BY <1>4 DEF HitStep
  <2>2. at'[u] = at[u] /\ Working(u) /\ NoName \notin Name
    BY <2>1, CacheAssumption DEF Frame, Core
  <2>3. entry'[e].uptodate /\ entry'[e].parent = at[u].cur /\ entry'[e].name = Head(at[u].rest)
    BY <1>4, <2>2 DEF Valid
  <2>4. Head(at[u].rest) # NoName
    BY <1>4, <2>2 DEF Working
  <2>5. ~Valid(entry, e, at[u].cur, Head(at[u].rest))
    BY <1>1, <1>4, <2>2
  <2>6. at[t].pc \in HasNxt /\ at[t].cur = at[u].cur
    BY <1>2, <2>3, <2>4, <2>5
  <2>7. ASSUME NEW v \in Tasks, at[v].pc \in HasNxt PROVE holder[at[v].cur] = v
    <3>1. at[v].cur \in Entries
      BY <2>7, TakenByCall DEF HasCur, HasNxt, Walking
    <3>2. at[v].cur \in LocksOf(at[v], entry)
      BY <2>7 DEF LocksOf, Doing, HasNxt
    <3>. QED BY <3>1, <3>2 DEF Core, LocksExact
  <2>. QED BY <1>4, <2>1, <2>2, <2>6, <2>7
<1>. QED BY <1>3, <1>4 DEF OneHit, Valid

LEMMA HasEntryKept ==
    ASSUME Core, Typed', NEW t \in Tasks, Frame(t), \A x \in Entries : Balanced(x)',
           NEW s \in Sfds, file'[s].type = file[s].type, file'[s].entry = file[s].entry,
           file'[s].count > 0 /\ file[s].type \in {"reg", "dir"} /\ s \notin Opening'
               => file[s].count > 0 /\ s \notin Opening
    PROVE  HasEntry(s)'
<1>. SUFFICES ASSUME file'[s].count > 0, file[s].type \in {"reg", "dir"}, s \notin Opening'
              PROVE  /\ file[s].entry \in Entries
                     /\ file[s].type = "reg" => ~entry'[file[s].entry].dir
  BY DEF HasEntry
<1>1. /\ file[s].entry \in Entries
      /\ file[s].type = "reg" => ~entry[file[s].entry].dir
  BY DEF Core, HasEntry
<1>2. s \in FileRefs(file, Opening, file[s].entry) /\ s \in FileRefs(file', Opening', file[s].entry)
  BY DEF FileRefs
<1>3. entry'[file[s].entry].dir = entry[file[s].entry].dir
  BY <1>1, <1>2, StaysOf
<1>. QED BY <1>1, <1>3

\* A step of the cache alone leaves the file table as it is.
LEMMA TableKept ==
    ASSUME Core, Typed', NEW t \in Tasks, Frame(t), UNCHANGED <<file, FTable, lost>>,
           at[t].pc # "trunc", at'[t].pc # "trunc"
    PROVE  /\ TableTyped' /\ Opening' = Opening
           /\ \A x \in Entries : FileRefs(file', Opening', x) = FileRefs(file, Opening, x)
<1>1. \A u \in Tasks : at'[u].pc = "trunc" <=> at[u].pc = "trunc"
  BY DEF Frame
<1>2. \A u \in Tasks : at'[u].pc = "trunc" => at'[u] = at[u]
  BY <1>1 DEF Frame
<1>3. Opening' = Opening
  <2>1. \A u \in Tasks : at'[u].pc = "trunc" => at'[u].file = at[u].file
    BY <1>2
  <2>. QED BY <1>1, <2>1 DEF Opening
<1>4. \A u \in Tasks : Reserved(u)'
  BY <1>1, <1>2 DEF Core, TableTyped, Reserved
<1>5. \A u, v \in Tasks : at'[u].pc = "trunc" /\ at'[v].pc = "trunc"
                              /\ at'[u].file = at'[v].file => u = v
  BY <1>1, <1>2 DEF Core, TableTyped
<1>6. \A s \in Sfds : FileBalanced(s)'
  BY <1>3 DEF Core, TableTyped, FileBalanced
<1>7. TableTyped'
  BY <1>4, <1>5, <1>6 DEF Core, TableTyped
<1>. QED BY <1>3, <1>7

\* A step of the cache, put together.
Calm(t) == Typed' /\ Frame(t) /\ LockStep(t) /\ HitStep(t) /\ Sound(entry') /\ Working(t)'

CacheStep(t) ==
    /\ Calm(t)
    /\ \A x \in Entries : Owed(entry', x) + Own(at[t], cwd[t], x) + leak[x]
                              = Owed(entry, x) + Own(at'[t], cwd'[t], x) + leak'[x]

LEMMA CacheStepKeeps ==
    ASSUME Core, NEW t \in Tasks, CacheStep(t), UNCHANGED <<file, FTable, lost>>,
           at[t].pc # "trunc", at'[t].pc # "trunc"
    PROVE  Core'
<1>1. Typed' /\ Frame(t) /\ LockStep(t) /\ HitStep(t) /\ Sound(entry') /\ Working(t)'
  BY DEF CacheStep, Calm
<1>2. /\ TableTyped' /\ Opening' = Opening
      /\ \A x \in Entries : FileRefs(file', Opening', x) = FileRefs(file, Opening, x)
  BY <1>1, TableKept
<1>3. ASSUME NEW x \in Entries PROVE Balanced(x)'
  <2>1. /\ Owed(entry', x) + Own(at[t], cwd[t], x) + leak[x]
              = Owed(entry, x) + Own(at'[t], cwd'[t], x) + leak'[x]
        /\ FileRefs(file', Opening', x) = FileRefs(file, Opening, x)
    BY <1>2 DEF CacheStep
  <2>2. Booked(t, x)
    BY <2>1 DEF Booked
  <2>. QED BY <1>1, <2>2, BalanceKept
<1>4. LocksExact' /\ OneHit' /\ \A u \in Tasks : Working(u)'
  BY <1>1, <1>3, LocksKept, HitsKept, WorkingKept
<1>5. ASSUME NEW s \in Sfds PROVE HasEntry(s)'
  BY <1>1, <1>2, <1>3, HasEntryKept
<1>. QED BY <1>1, <1>2, <1>3, <1>4, <1>5 DEF Core

-----------------------------------------------------------------------------
(* Steps that end in eput().                                               *)

\* From E to F entries lose references or are given back, and that is all.
Slight(E, F) ==
    \A y \in Entries :
        /\ F[y].refcnt > 0 => F[y].parent = E[y].parent /\ F[y].dir = E[y].dir
        /\ F[y].uptodate /\ F[y].name # NoName => Valid(E, y, F[y].parent, F[y].name)

LEMMA SlightLast ==
    ASSUME NEW E, ETyped(E), NEW e \in Slots, NEW F, GivenBack(E, F, e)
    PROVE  Slight(E, F)
<1>1. ASSUME NEW y \in Entries \ {e}
      PROVE  /\ F[y].parent = E[y].parent /\ F[y].dir = E[y].dir
             /\ F[y].uptodate = E[y].uptodate /\ F[y].name = E[y].name
  <2>1. PICK n \in Nat : F[y] = [E[y] EXCEPT !.refcnt = n]
    BY DEF GivenBack
  <2>2. E[y] \in EntryType
    BY FieldTypes
  <2>. QED BY <2>1, <2>2 DEF EntryType, EntryRecord
<1>2. /\ F[e].refcnt = 0
      /\ F[e].name # NoName => /\ F[e].parent = E[e].parent
                               /\ F[e].uptodate = E[e].uptodate /\ F[e].name = E[e].name
  <2>1. E[e] \in EntryType
    BY FieldTypes, EntryFacts
  <2>2. CASE E[e].name = NoName
    <3>1. F[e] = Unused
      BY <2>2 DEF GivenBack
    <3>. QED BY <3>1 DEF Unused
  <2>3. CASE E[e].name # NoName
    <3>1. F[e] = [E[e] EXCEPT !.refcnt = 0]
      BY <2>3 DEF GivenBack
    <3>. QED BY <2>1, <3>1 DEF EntryType, EntryRecord
  <2>. QED BY <2>2, <2>3
<1>. QED BY <1>1, <1>2 DEF Slight, Valid

LEMMA PutFrame ==
    ASSUME NEW t, NEW E, ETyped(E), Sound(E), NEW h, NEW e \in Entries, NEW r, Put(t, E, h, e, r)
    PROVE  /\ Slight(E, entry')
           /\ \A y \in Entries : y # e /\ ~(e \in Slots /\ E[e].refcnt = 1 /\ y = E[e].parent)
                                     => entry'[y] = E[y]
<1>1. CASE PutSome(t, E, h, e, r)
  <2>1. entry' = [E EXCEPT ![e].refcnt = @ - 1]
    BY <1>1 DEF PutSome
  <2>2. \A y \in Entries : /\ entry'[y].parent = E[y].parent /\ entry'[y].dir = E[y].dir
                           /\ entry'[y].uptodate = E[y].uptodate /\ entry'[y].name = E[y].name
    BY <2>1 DEF ETyped, EntryType, EntryRecord
  <2>. QED BY <2>1, <2>2 DEF Slight, Valid, ETyped
<1>2. CASE PutEnds(t, E, h, e, r)
  <2>1. /\ e \in Slots /\ E[e].refcnt = 1 /\ E[E[e].parent].refcnt > 1
        /\ entry' = Last_(E, e)
    BY <1>2 DEF PutEnds
  <2>2. GivenBack(E, entry', e)
    BY <2>1, OwedLast
  <2>3. Slight(E, entry')
    <3>. DEFINE F == entry'
    <3>1. GivenBack(E, F, e)
      BY <2>2
    <3>. HIDE DEF F
    <3>2. Slight(E, F)
      BY <2>1, <3>1, SlightLast
    <3>. QED BY <3>2 DEF F
  <2>. QED BY <2>1, <2>2, <2>3 DEF GivenBack
<1>3. CASE PutWaits(t, E, h, e, r)
  <2>1. entry' = E
    BY <1>3 DEF PutWaits
  <2>. QED BY <2>1 DEF Slight, Valid
<1>. QED BY <1>1, <1>2, <1>3 DEF Put

\* The locks h leave those of others alone and are those that the call r keeps.
LocksFit(t, h, r) ==
    /\ h \in [Entries -> Tasks \cup {Nobody}]
    /\ \A x \in Entries : \A u \in Tasks \ {t} : h[x] = u <=> holder[x] = u
    /\ r.pc = "giveUp" => h[r.cur] = t
    /\ \A x \in Entries : h[x] = t => leak[x] > 0 \/ (r.pc = "giveUp" /\ x = r.cur)

\* The entries E, before the eput(), leave what others rely on.
Near(t, E) ==
    /\ \A y \in Entries : /\ E[y].parent = entry[y].parent
                          /\ y # at[t].nxt => E[y].dir = entry[y].dir
    /\ \A y \in Slots : E[y].uptodate /\ E[y].name # NoName =>
          \/ Valid(entry, y, E[y].parent, E[y].name)
          \/ /\ at[t].pc \in HasNxt /\ y = at[t].nxt
             /\ E[y].parent = at[t].cur /\ E[y].name = Head(at[t].rest)

\* They, and the eput() of e, leave what others have taken alone.
Spared(t, E, e) ==
    \A u \in Tasks \ {t} : at[u].pc \in HasNxt =>
        /\ E[at[u].nxt] = entry[at[u].nxt] /\ e # at[u].nxt
        /\ e \in Slots /\ E[e].refcnt = 1 => E[e].parent # at[u].nxt

\* A reference to e is given back, besides what changes from the call of t to r.
Settled(t, E, e, r) ==
    \A x \in Entries : Owed(E, x) + Own(at[t], cwd[t], x)
                           = Owed(entry, x) + Own(r, cwd[t], x) + Ind(x = e)

Continues(r) ==
    r \in CallType /\ r.put = NoEntry /\ r.then = "user" /\ r.pc \in Resumes /\ Shape(r)

LEMMA PutLocks ==
    ASSUME NEW t \in Tasks, NEW E, NEW h, NEW e \in Entries, NEW r \in CallType, at \in [Tasks -> CallType],
           r.put = NoEntry, r.then = "user", r.pc \in Resumes, leak' = leak,
           LocksFit(t, h, r), Put(t, E, h, e, r), Typed
    PROVE  LockStep(t)
<1>1. /\ h \in [Entries -> Tasks \cup {Nobody}] /\ Nobody \notin Tasks
      /\ \A x \in Entries : \A u \in Tasks \ {t} : h[x] = u <=> holder[x] = u
      /\ r.pc = "giveUp" => h[r.cur] = t
      /\ \A x \in Entries : h[x] = t => leak[x] > 0 \/ (r.pc = "giveUp" /\ x = r.cur)
  BY CacheAssumption DEF LocksFit
<1>2. \A F : LocksOf(r, F) = IF r.pc = "giveUp" THEN {r.cur} ELSE {}
  BY DEF LocksOf, Doing, Resumes
<1>3. \A x \in Entries : leak[x] \in Nat
  BY DEF Typed
<1>4. CASE holder' = h /\ at' = [at EXCEPT ![t] = r]
  <2>1. at'[t] = r
    BY <1>4
  <2>. QED BY <1>1, <1>2, <1>3, <1>4, <2>1 DEF LockStep
<1>5. CASE PutWaits(t, E, h, e, r)
  <2>1. /\ e \in Slots /\ h[e] = Nobody
        /\ holder' = [h EXCEPT ![e] = t] /\ at' = [at EXCEPT ![t] = Waiting(r, e)]
    BY <1>5 DEF PutWaits
  <2>2. at'[t] = Waiting(r, e)
    BY <2>1
  <2>3. /\ Waiting(r, e).pc = "flush" /\ Waiting(r, e).then = r.pc /\ Waiting(r, e).put = e
        /\ Waiting(r, e).cur = r.cur
    BY DEF Waiting, CallType
  <2>4. \A F : LocksOf(Waiting(r, e), F) = (IF r.pc = "giveUp" THEN {r.cur} ELSE {}) \cup {e}
    BY <2>3 DEF LocksOf, Doing, Resumes
  <2>5. \A x \in Entries : holder'[x] = IF x = e THEN t ELSE h[x]
    BY <1>1, <2>1
  <2>6. \A x \in Entries : \A u \in Tasks \ {t} : holder'[x] = u <=> holder[x] = u
    BY <1>1, <2>1, <2>5
  <2>7. \A x \in Entries :
           /\ x \in LocksOf(at'[t], entry') => holder'[x] = t
           /\ holder'[x] = t => leak'[x] > 0 \/ x \in LocksOf(at'[t], entry')
    BY <1>1, <2>1, <2>2, <2>4, <2>5
  <2>. QED BY <1>3, <2>6, <2>7 DEF LockStep
<1>. QED BY <1>4, <1>5 DEF Put, PutSome, PutEnds

LEMMA PutCalm ==
    ASSUME Core, NEW t \in Tasks, NEW E, ETyped(E), Sound(E), NEW h, NEW e \in Entries, NEW r,
           Continues(r), Put(t, E, h, e, r), Ring(order'), UNCHANGED <<cwd, leak>>,
           disk' \in [Dirs -> [Places -> PlaceType]],
           LocksFit(t, h, r), Near(t, E), Spared(t, E, e)
    PROVE  /\ Calm(t) /\ at'[t].pc # "trunc"
           /\ \A x \in Entries : Owed(entry', x) + Own(r, cwd[t], x) + Ind(x = e)
                                     = Owed(E, x) + Own(at'[t], cwd[t], x)
<1>1. /\ r \in CallType /\ r.put = NoEntry /\ r.then = "user" /\ r.pc \in Resumes /\ Shape(r)
      /\ h \in [Entries -> Tasks \cup {Nobody}] /\ at \in [Tasks -> CallType] /\ Typed
  BY DEF Continues, LocksFit, Core, Typed
<1>2. /\ ETyped(entry') /\ Sound(entry')
      /\ holder' \in [Entries -> Tasks \cup {Nobody}]
      /\ at' \in [Tasks -> CallType] /\ \A u \in Tasks \ {t} : at'[u] = at[u]
      /\ Shape(at'[t]) /\ at'[t].pc \in Resumes \cup {"flush"}
      /\ \A x \in Entries : Owed(entry', x) + Own(r, cwd[t], x) + Ind(x = e)
                                = Owed(E, x) + Own(at'[t], cwd[t], x)
  BY <1>1, PutKeeps
<1>3. /\ Slight(E, entry')
      /\ \A y \in Entries : y # e /\ ~(e \in Slots /\ E[e].refcnt = 1 /\ y = E[e].parent)
                                => entry'[y] = E[y]
  BY PutFrame
<1>4. Typed'
  <2>1. \A u \in Tasks : Shape(at'[u])
    BY <1>1, <1>2 DEF Typed
  <2>. QED BY <1>1, <1>2, <2>1 DEF Typed
<1>5. at'[t].pc # "trunc" /\ at'[t].pc \notin HasNxt \cup {"trunc", "empty"}
  BY <1>2 DEF Resumes, HasNxt
<1>6. Frame(t)
  <2>1. \A y \in Entries : entry'[y].refcnt > 0 =>
           /\ entry'[y].parent = entry[y].parent
           /\ y # at[t].nxt => entry'[y].dir = entry[y].dir
    BY <1>3 DEF Slight, Near
  <2>2. ASSUME NEW u \in Tasks \ {t}, at[u].pc \in HasNxt
        PROVE  entry'[at[u].nxt] = entry[at[u].nxt]
    <3>1. at[u].nxt \in Entries
      BY <2>2, TakenByCall
    <3>. QED BY <1>3, <2>2, <3>1 DEF Spared
  <2>. QED BY <1>2, <2>1, <2>2 DEF Frame
<1>7. LockStep(t)
  BY <1>1, PutLocks
<1>8. HitStep(t)
  <2>1. ASSUME NEW y \in Slots, entry'[y].uptodate, entry'[y].name # NoName
        PROVE  \/ Valid(entry, y, entry'[y].parent, entry'[y].name)
               \/ /\ at[t].pc \in HasNxt /\ y = at[t].nxt
                  /\ entry'[y].parent = at[t].cur /\ entry'[y].name = Head(at[t].rest)
    <3>1. Valid(E, y, entry'[y].parent, entry'[y].name)
      BY <1>3, <2>1, EntryFacts DEF Slight
    <3>. QED BY <2>1, <3>1 DEF Near, Valid
  <2>. QED BY <1>5, <2>1 DEF HitStep
<1>9. Working(t)'
  BY <1>5 DEF Working
<1>. QED BY <1>2, <1>4, <1>5, <1>6, <1>7, <1>8, <1>9 DEF Calm

LEMMA PutStep ==
    ASSUME Core, NEW t \in Tasks, NEW E, ETyped(E), Sound(E), NEW h, NEW e \in Entries, NEW r,
           Continues(r), Put(t, E, h, e, r), Ring(order'), UNCHANGED <<cwd, leak>>,
           disk' \in [Dirs -> [Places -> PlaceType]],
           LocksFit(t, h, r), Near(t, E), Spared(t, E, e), Settled(t, E, e, r)
    PROVE  CacheStep(t) /\ at'[t].pc # "trunc"
<1>1. /\ Calm(t) /\ at'[t].pc # "trunc"
      /\ \A x \in Entries : Owed(entry', x) + Own(r, cwd[t], x) + Ind(x = e)
                                = Owed(E, x) + Own(at'[t], cwd[t], x)
  BY PutCalm
<1>2. ASSUME NEW x \in Entries
      PROVE  Owed(entry', x) + Own(at[t], cwd[t], x) + leak[x]
                  = Owed(entry, x) + Own(at'[t], cwd'[t], x) + leak'[x]
  <2>. DEFINE o == Owed(entry, x)
              p == Owed(entry', x)
              q == Owed(E, x)
              a == Own(at[t], cwd[t], x)
              b == Own(at'[t], cwd[t], x)
              c == Own(r, cwd[t], x)
              i == Ind(x = e)
              l == leak[x]
  <2>1. /\ p + c + i = q + b /\ q + a = o + c + i
        /\ leak'[x] = l /\ cwd' = cwd
    BY <1>1 DEF Settled
  <2>2. /\ o \in Int /\ p \in Int /\ q \in Int /\ a \in Nat /\ b \in Nat /\ c \in Nat
        /\ i \in Nat /\ l \in Nat
    <3>1. entry[x].refcnt \in Nat /\ entry'[x].refcnt \in Nat /\ E[x].refcnt \in Nat /\ l \in Nat
      BY <1>1, FieldTypes DEF Calm, Core, Typed
    <3>. QED BY <3>1, FiniteBelow, OwnIs DEF Owed, Ind
  <2>. HIDE DEF o, p, q, a, b, c, i, l
  <2>3. p + a + l = o + b + l
    BY <2>1, <2>2
  <2>. QED BY <2>1, <2>3 DEF o, p, q, a, b, c, i, l
<1>. QED BY <1>1, <1>2 DEF CacheStep

-----------------------------------------------------------------------------
(* Walking along a path.                                                   *)

\* The directory that a call is at, its parent and the call's other references.
LEMMA InCall ==
    ASSUME Core, NEW t \in Tasks, NEW e \in Entries, Own(at[t], cwd[t], e) >= 1
    PROVE  /\ entry[e].refcnt > 0
           /\ entry[e].parent \in Entries /\ entry[entry[e].parent].refcnt > 0
           /\ e \in Slots => entry[e].parent # e
           /\ \A u \in Tasks \ {t} : at[u].pc \in HasNxt =>
                 at[u].nxt # e /\ at[u].nxt # entry[e].parent
<1>1. Typed /\ Balanced(e) /\ entry[e].refcnt \in Nat
  BY FieldTypes DEF Core, Typed
<1>2. entry[e].refcnt > 0
  BY <1>1, ReferredIsUsed
<1>4. /\ entry[e].parent \in Entries /\ entry[entry[e].parent].refcnt > 0
      /\ e \in Slots => entry[e].parent # e
  <2>1. CASE e = Root
    BY <1>2, <2>1, EntryFacts DEF Core, Sound
  <2>2. CASE e # Root
    <3>1. e \in Slots
      BY <2>2, EntryFacts
    <3>2. entry[e].parent \in Entries \ {e} /\ entry[entry[e].parent].refcnt >= 1
      BY <1>2, <3>1, ParentIsUsed
    <3>3. entry[entry[e].parent].refcnt \in Nat
      BY <1>1, <3>2, FieldTypes DEF Typed
    <3>. QED BY <3>2, <3>3
  <2>. QED BY <2>1, <2>2
<1>5. ASSUME NEW u \in Tasks \ {t}, at[u].pc \in HasNxt
      PROVE  at[u].nxt # e /\ at[u].nxt # entry[e].parent
  <2>1. /\ at[u].nxt \in Slots /\ \A c \in Slots : entry[c].refcnt > 0 => entry[c].parent # at[u].nxt
        /\ Own(at[t], cwd[t], at[u].nxt) = 0
    BY <1>5, FreshIsAlone
  <2>2. CASE e \in Slots
    BY <1>2, <2>1, <2>2
  <2>3. CASE e = Root
    BY <2>1, <2>3, EntryFacts DEF Core, Sound
  <2>. QED BY <2>1, <2>2, <2>3, EntryFacts
<1>. QED BY <1>2, <1>4, <1>5

LEMMA SparedBy ==
    ASSUME Core, NEW t \in Tasks, NEW E, NEW e \in Entries, Own(at[t], cwd[t], e) >= 1, Near(t, E),
           \A u \in Tasks \ {t} : at[u].pc \in HasNxt => E[at[u].nxt] = entry[at[u].nxt]
    PROVE  Spared(t, E, e)
BY InCall DEF Spared, Near

LEMMA NearPlus ==
    ASSUME Core, NEW t \in Tasks, NEW e \in Entries
    PROVE  /\ Near(t, Plus(entry, e)) /\ Near(t, entry)
           /\ \A y \in Entries : y # e => Plus(entry, e)[y] = entry[y]
<1>1. ETyped(entry)
  BY DEF Core, Typed
<1>2. \A y \in Entries :
         /\ Plus(entry, e)[y].parent = entry[y].parent /\ Plus(entry, e)[y].dir = entry[y].dir
         /\ Plus(entry, e)[y].uptodate = entry[y].uptodate /\ Plus(entry, e)[y].name = entry[y].name
  BY <1>1 DEF Plus, ETyped, EntryType, EntryRecord
<1>3. \A y \in Entries : y # e => Plus(entry, e)[y] = entry[y]
  BY <1>1 DEF Plus, ETyped
<1>. QED BY <1>2, <1>3, EntryFacts DEF Near, Valid

LEMMA NearUse ==
    ASSUME Core, NEW t \in Tasks, NEW e \in Slots, entry[e].parent \in Entries
    PROVE  /\ Near(t, Use(entry, e))
           /\ \A y \in Entries : y # e /\ y # entry[e].parent => Use(entry, e)[y] = entry[y]
<1>. DEFINE p == entry[e].parent
            F == Plus(Plus(entry, p), e)
<1>0. e \in Entries
  BY EntryFacts
<1>1. CASE entry[e].refcnt # 0
  BY <1>0, <1>1, NearPlus DEF Use
<1>2. CASE entry[e].refcnt = 0
  <2>1. ETyped(entry) /\ ETyped(Plus(entry, p))
    BY PlusTyped DEF Core, Typed
  <2>2. \A y \in Entries :
           /\ Plus(entry, p)[y].parent = entry[y].parent /\ Plus(entry, p)[y].dir = entry[y].dir
           /\ Plus(entry, p)[y].uptodate = entry[y].uptodate /\ Plus(entry, p)[y].name = entry[y].name
           /\ y # p => Plus(entry, p)[y] = entry[y]
    BY <2>1 DEF Plus, ETyped, EntryType, EntryRecord
  <2>. HIDE DEF p
  <2>3. \A y \in Entries :
           /\ F[y].parent = Plus(entry, p)[y].parent /\ F[y].dir = Plus(entry, p)[y].dir
           /\ F[y].uptodate = Plus(entry, p)[y].uptodate /\ F[y].name = Plus(entry, p)[y].name
           /\ y # e => F[y] = Plus(entry, p)[y]
    <3>. DEFINE D == Plus(entry, p)
    <3>1. ETyped(D) /\ F = Plus(D, e)
      BY <2>1
    <3>. HIDE DEF D, F
    <3>2. \A y \in Entries :
             /\ F[y].parent = D[y].parent /\ F[y].dir = D[y].dir
             /\ F[y].uptodate = D[y].uptodate /\ F[y].name = D[y].name
             /\ y # e => F[y] = D[y]
      BY <3>1 DEF Plus, ETyped, EntryType, EntryRecord
    <3>. QED BY <3>2 DEF D
  <2>4. Use(entry, e) = F
    BY <1>2 DEF Use, p
  <2>. HIDE DEF F
  <2>. QED BY <2>2, <2>3, <2>4, EntryFacts DEF Near, Valid, p
<1>. QED BY <1>1, <1>2

\* The call that goes on in the directory y.
LEMMA SteppedIs ==
    ASSUME NEW a \in CallType, Shape(a), a.pc \in {"walk", "search"}, NEW y \in Entries, NEW w
    PROVE  /\ Continues(Stepped(a, y)) /\ Stepped(a, y).pc \in {"walk", "arrived"}
           /\ \A x \in Entries : Own(Stepped(a, y), w, x) + Ind(a.cur = x) + Ind(a.nxt = x)
                                     = Own(a, w, x) + Ind(y = x)
<1>. DEFINE r == Stepped(a, y)
            m == IF Creates(a) THEN 1 ELSE 0
<1>1. /\ r.cur = y /\ r.nxt = NoEntry /\ r.put = a.put /\ r.then = a.then
      /\ r.call = a.call /\ r.rest = Tail(a.rest) /\ r.file = a.file /\ r.fd = a.fd
      /\ r.pc = Onward(a.call, Tail(a.rest))
  BY DEF Stepped, CallType
<1>2. a.put = NoEntry /\ a.then = "user" /\ y # NoEntry
  BY EntryFacts DEF Shape
<1>3. /\ a.rest \in Seq(Name \cup {Dot, DotDot}) /\ Len(a.rest) > m
      /\ Creates(a) => a.rest[Len(a.rest)] \in Name
      /\ m \in {0, 1} /\ (Creates(a) <=> m = 1)
  BY DEF Shape, CallType, Doing, Walking
<1>4. r.pc = IF Len(Tail(a.rest)) = m THEN "arrived" ELSE "walk"
  BY <1>1 DEF Onward, Creates
<1>5. /\ Tail(a.rest) \in Seq(Name \cup {Dot, DotDot}) /\ Len(Tail(a.rest)) = Len(a.rest) - 1
      /\ Len(a.rest) \in Nat
      /\ m = 1 => Tail(a.rest) # <<>> /\ Tail(a.rest)[Len(Tail(a.rest))] \in Name
  <2>. HIDE DEF m
  <2>1. a.rest # <<>> /\ Len(a.rest) \in Nat
    BY <1>3
  <2>2. /\ Tail(a.rest) \in Seq(Name \cup {Dot, DotDot}) /\ Len(Tail(a.rest)) = Len(a.rest) - 1
        /\ \A i \in 1..Len(a.rest) - 1 : Tail(a.rest)[i] = a.rest[i + 1]
    BY <1>3, <2>1, HeadTailProperties
  <2>3. m = 1 => Len(Tail(a.rest)) \in 1..Len(a.rest) - 1 /\ Len(Tail(a.rest)) + 1 = Len(a.rest)
    BY <1>3, <2>1, <2>2
  <2>. QED BY <1>3, <2>1, <2>2, <2>3, SMTT(30)
<1>. HIDE DEF r, m
<1>6. r \in CallType
  <2>1. r = Stepped(a, y) /\ r.pc \in Pcs
    BY <1>4 DEF r, Pcs
  <2>. QED BY <1>1, <1>5, <2>1 DEF Stepped, CallType
<1>7. r.pc \in {"walk", "arrived"} /\ Doing(r) = r.pc
  BY <1>4 DEF Doing
<1>8. Shape(r)
  <2>1. /\ Creates(r) <=> m = 1
        /\ m = (IF Creates(r) THEN 1 ELSE 0)
    BY <1>1, <1>3 DEF Creates
  <2>2. Len(r.rest) >= m /\ Len(r.rest) \in Nat
    BY <1>1, <1>3, <1>5
  <2>. QED BY <1>1, <1>2, <1>3, <1>4, <1>5, <1>7, <2>1, <2>2 DEF Shape, HasCur, HasNxt, Walking
<1>9. ASSUME NEW x \in Entries
      PROVE  Own(r, w, x) + Ind(a.cur = x) + Ind(a.nxt = x) = Own(a, w, x) + Ind(y = x)
  <2>1. x # NoEntry /\ r.pc # "chdir" /\ a.pc # "chdir" /\ r.then = "user"
    BY <1>1, <1>2, <1>7, EntryFacts
  <2>. QED BY <1>1, <1>2, <2>1 DEF Own, Ind
<1>. QED BY <1>1, <1>2, <1>6, <1>7, <1>8, <1>9 DEF Continues, Resumes, r

LEMMA StepsToStep ==
    ASSUME Core, NEW t \in Tasks, at[t].pc \in {"walk", "search"}, NEW y \in Entries,
           holder[at[t].cur] \in {Nobody, t}, NEW E, ETyped(E), Sound(E), StepsTo(t, E, y), Ring(order'),
           UNCHANGED <<disk, cwd, leak>>, Near(t, E),
           \A u \in Tasks \ {t} : at[u].pc \in HasNxt => E[at[u].nxt] = entry[at[u].nxt],
           \A x \in Entries : Owed(E, x) + Ind(at[t].nxt = x) = Owed(entry, x) + Ind(y = x)
    PROVE  CacheStep(t) /\ at'[t].pc # "trunc"
<1>. DEFINE dp == at[t].cur
            r == Stepped(at[t], y)
            h == [holder EXCEPT ![dp] = Nobody]
<1>1. /\ dp \in Entries /\ Own(at[t], cwd[t], dp) >= 1
      /\ at[t] \in CallType /\ Shape(at[t]) /\ Nobody \notin Tasks
      /\ holder \in [Entries -> Tasks \cup {Nobody}]
      /\ disk' \in [Dirs -> [Places -> PlaceType]] /\ ETyped(entry)
  BY TakenByCall, OwnIs, CacheAssumption DEF HasCur, Walking, Core, Typed
<1>2. /\ Continues(r) /\ r.pc \in {"walk", "arrived"}
      /\ \A x \in Entries : Own(r, cwd[t], x) + Ind(dp = x) + Ind(at[t].nxt = x)
                                = Own(at[t], cwd[t], x) + Ind(y = x)
  BY <1>1, SteppedIs
<1>3. LocksFit(t, h, r)
  <2>1. /\ \A x \in Entries : h[x] = IF x = dp THEN Nobody ELSE holder[x]
        /\ h \in [Entries -> Tasks \cup {Nobody}]
    BY <1>1
  <2>2. LocksOf(at[t], entry) \subseteq {dp}
    BY DEF LocksOf, Doing
  <2>3. \A x \in Entries : holder[x] = t => leak[x] > 0 \/ x \in LocksOf(at[t], entry)
    BY DEF Core, LocksExact
  <2>. HIDE DEF h, r
  <2>4. \A x \in Entries : \A u \in Tasks \ {t} : h[x] = u <=> holder[x] = u
    BY <1>1, <2>1
  <2>5. \A x \in Entries : h[x] = t => leak[x] > 0
    BY <1>1, <2>1, <2>2, <2>3
  <2>. QED BY <1>2, <2>1, <2>4, <2>5 DEF LocksFit
<1>4. Spared(t, E, dp)
  BY <1>1, SparedBy
<1>5. Settled(t, E, dp, r)
  <2>1. ASSUME NEW x \in Entries
        PROVE  Owed(E, x) + Own(at[t], cwd[t], x) = Owed(entry, x) + Own(r, cwd[t], x) + Ind(x = dp)
    <3>. DEFINE o == Owed(entry, x)
                q == Owed(E, x)
                a == Own(at[t], cwd[t], x)
                c == Own(r, cwd[t], x)
                i == Ind(x = dp)
                j == Ind(at[t].nxt = x)
                k == Ind(y = x)
    <3>1. c + i + j = a + k /\ q + j = o + k
      BY <1>2 DEF Ind
    <3>2. /\ o \in Int /\ q \in Int /\ a \in Nat /\ c \in Nat
          /\ i \in Nat /\ j \in Nat /\ k \in Nat
      <4>1. entry[x].refcnt \in Nat /\ E[x].refcnt \in Nat
        BY <1>1, FieldTypes
      <4>. QED BY <4>1, FiniteBelow, OwnIs DEF Owed, Ind
    <3>. HIDE DEF o, q, a, c, i, j, k
    <3>3. q + a = o + c + i
      BY <3>1, <3>2
    <3>. QED BY <3>3 DEF o, q, a, c, i
  <2>. QED BY <2>1 DEF Settled
<1>6. Put(t, E, h, dp, r)
  BY DEF StepsTo
<1>. HIDE DEF dp, r, h
<1>. QED BY <1>1, <1>2, <1>3, <1>4, <1>5, <1>6, PutStep

\* The other entries, when an entry is renamed.
LEMMA RenameFrame ==
    ASSUME NEW E, ETyped(E), NEW e \in Slots, NEW dp \in Entries, dp # e, NEW name
    PROVE  /\ Rename(E, e, dp, name)[e] = New(dp, name)
           /\ \A y \in Entries \ {e, dp} : Rename(E, e, dp, name)[y] = E[y]
           /\ \A y \in Entries \ {e} :
                 /\ Rename(E, e, dp, name)[y].parent = E[y].parent
                 /\ Rename(E, e, dp, name)[y].dir = E[y].dir
                 /\ Rename(E, e, dp, name)[y].uptodate = E[y].uptodate
                 /\ Rename(E, e, dp, name)[y].name = E[y].name
<1>. DEFINE F == Rename(E, e, dp, name)
            n == New(dp, name)
<1>1. e \in Entries /\ E[dp] \in EntryType
  BY EntryFacts, FieldTypes
<1>2. F = [[E EXCEPT ![e] = n] EXCEPT ![dp].refcnt = @ + 1]
  BY DEF Rename, Plus
<1>. HIDE DEF n, F
<1>3. F[e] = n /\ F[dp] = [E[dp] EXCEPT !.refcnt = @ + 1] /\ \A y \in Entries \ {e, dp} : F[y] = E[y]
  BY <1>1, <1>2 DEF ETyped
<1>4. \A y \in Entries \ {e} :
         /\ F[y].parent = E[y].parent /\ F[y].dir = E[y].dir
         /\ F[y].uptodate = E[y].uptodate /\ F[y].name = E[y].name
  BY <1>1, <1>3 DEF EntryType, EntryRecord
<1>. QED BY <1>3, <1>4 DEF F, n

LEMMA MissStep ==
    ASSUME Core, NEW t \in Tasks, holder[at[t].cur] = Nobody, entry[at[t].cur].dir,
           Head(at[t].rest) \in Name, NEW pc,
           \/ at[t].pc = "walk" /\ pc = "search"
           \/ at[t].pc = "arrived" /\ Creates(at[t]) /\ pc = "lookup",
           NEW e \in Slots, Misses(t, at[t].cur, Head(at[t].rest), pc, e),
           Ring(order'), UNCHANGED <<disk, cwd, leak>>
    PROVE  CacheStep(t) /\ at'[t].pc # "trunc"
<1>. DEFINE dp == at[t].cur
            name == Head(at[t].rest)
            r == [at[t] EXCEPT !.nxt = e, !.pc = pc]
<1>1. /\ dp \in Entries /\ Own(at[t], cwd[t], dp) >= 1 /\ e \in Entries /\ e # NoEntry
      /\ at[t] \in CallType /\ Shape(at[t]) /\ Nobody \notin Tasks
      /\ ETyped(entry) /\ Sound(entry)
  BY TakenByCall, OwnIs, CacheAssumption, EntryFacts DEF HasCur, Walking, Core, Typed
<1>2. /\ entry[e].refcnt = 0 /\ entry' = Rename(entry, e, dp, name)
      /\ at' = [at EXCEPT ![t].nxt = e, ![t].pc = pc] /\ holder' = [holder EXCEPT ![dp] = t]
      /\ \A y \in Slots : ~Valid(entry, y, dp, name)
  BY CacheIs, CacheFields DEF Misses, Hits, Valid
<1>3. /\ entry[dp].refcnt > 0 /\ dp # e
      /\ \A u \in Tasks \ {t} : at[u].pc \in HasNxt => at[u].nxt # dp
  BY <1>1, <1>2, InCall
<1>4. /\ ETyped(entry') /\ Sound(entry')
      /\ \A x \in Entries : Owed(entry', x) = Owed(entry, x) + Ind(x = e)
  BY <1>1, <1>2, <1>3, OwedRename
<1>5. /\ entry'[e] = New(dp, name)
      /\ \A y \in Entries \ {e, dp} : entry'[y] = entry[y]
      /\ \A y \in Entries \ {e} :
            /\ entry'[y].parent = entry[y].parent /\ entry'[y].dir = entry[y].dir
            /\ entry'[y].uptodate = entry[y].uptodate /\ entry'[y].name = entry[y].name
  BY <1>1, <1>2, <1>3, RenameFrame
<1>6. /\ entry'[e].refcnt = 1 /\ entry'[e].uptodate = FALSE
      /\ entry'[e].parent = dp /\ entry'[e].name = name
  BY <1>1, <1>5, UnusedTyped
<1>7. /\ at' = [at EXCEPT ![t] = r] /\ at'[t] = r /\ \A u \in Tasks \ {t} : at'[u] = at[u]
  BY <1>1, <1>2 DEF Core, Typed
<1>8. /\ r.pc = pc /\ r.nxt = e /\ r.cur = dp /\ r.put = at[t].put /\ r.rest = at[t].rest
      /\ r.call = at[t].call /\ r.then = at[t].then
  BY <1>1 DEF CallType
<1>9. r \in CallType
  BY <1>1 DEF CallType, Pcs
<1>10. /\ at[t].put = NoEntry /\ at[t].then = "user" /\ at[t].nxt = NoEntry
       /\ pc \in {"search", "lookup"} /\ Doing(r) = pc /\ Doing(at[t]) = at[t].pc
  BY <1>1, <1>8 DEF Shape, Doing, HasNxt
<1>. HIDE DEF r, dp, name
<1>11. Shape(r)
  BY <1>1, <1>8, <1>10 DEF Shape, HasCur, HasNxt, Walking, Creates, dp
<1>12. Typed'
  BY <1>1, <1>2, <1>4, <1>7, <1>9, <1>11 DEF Core, Typed
<1>13. Frame(t)
  <2>1. \A u \in Tasks \ {t} : at[u].pc \in HasNxt => entry'[at[u].nxt] = entry[at[u].nxt]
    BY <1>2, <1>3, <1>5, FreshIsAlone
  <2>2. \A y \in Entries : entry[y].refcnt > 0 =>
           entry'[y].parent = entry[y].parent /\ entry'[y].dir = entry[y].dir
    <3>1. ~(entry[e].refcnt > 0)
      BY <1>2
    <3>. QED BY <1>5, <3>1
  <2>3. \A u \in Tasks \ {t} : at'[u] = at[u] /\ cwd'[u] = cwd[u]
    BY <1>7
  <2>. QED BY <2>1, <2>2, <2>3 DEF Frame
<1>14. LockStep(t)
  <2>1. LocksOf(at'[t], entry') = {dp} /\ LocksOf(at[t], entry) = {}
    BY <1>7, <1>8, <1>10 DEF LocksOf
  <2>2. /\ \A x \in Entries : holder'[x] = IF x = dp THEN t ELSE holder[x]
        /\ \A x \in Entries : leak'[x] = leak[x] /\ leak[x] \in Nat
    BY <1>2 DEF Core, Typed
  <2>3. \A x \in Entries : holder[x] = t => leak[x] > 0 \/ x \in LocksOf(at[t], entry)
    BY DEF Core, LocksExact
  <2>. QED BY <1>1, <2>1, <2>2, <2>3 DEF LockStep, dp
<1>15. HitStep(t)
  <2>1. \A y \in Slots : entry'[y].uptodate => y # e
    BY <1>6
  <2>2. \A y \in Slots \ {e} : /\ entry'[y].parent = entry[y].parent /\ entry'[y].name = entry[y].name
                               /\ entry'[y].uptodate = entry[y].uptodate
    BY <1>5, EntryFacts
  <2>3. \A y \in Slots : entry'[y].uptodate =>
           Valid(entry, y, entry'[y].parent, entry'[y].name)
    BY <2>1, <2>2 DEF Valid
  <2>4. \A y \in Slots : ~Valid(entry', y, dp, name)
    <3>1. \A y \in Slots : ~Valid(entry, y, dp, name)
      BY <1>2
    <3>. QED BY <2>1, <2>2, <3>1 DEF Valid
  <2>5. at'[t].cur = dp /\ Head(at'[t].rest) = name
    BY <1>7, <1>8 DEF name
  <2>. QED BY <2>3, <2>4, <2>5 DEF HitStep
<1>16. Working(t)'
  <2>1. entry'[dp].dir = entry[dp].dir
    BY <1>1, <1>3, <1>5
  <2>. QED BY <1>6, <1>7, <1>8, <1>10, <2>1 DEF Working, name, dp
<1>17. ASSUME NEW x \in Entries
       PROVE  Owed(entry', x) + Own(at[t], cwd[t], x) + leak[x]
                  = Owed(entry, x) + Own(at'[t], cwd'[t], x) + leak'[x]
  <2>1. Own(r, cwd[t], x) = Own(at[t], cwd[t], x) + Ind(x = e)
    <3>1. x # NoEntry /\ at[t].pc # "chdir" /\ r.pc # "chdir" /\ r.then = "user"
      BY <1>8, <1>10, EntryFacts
    <3>. QED BY <1>8, <1>10, <3>1 DEF Own, Ind, dp
  <2>2. Owed(entry', x) = Owed(entry, x) + Ind(x = e) /\ cwd' = cwd /\ leak' = leak
    BY <1>4
  <2>3. /\ Owed(entry, x) \in Int /\ Ind(x = e) \in Nat /\ leak[x] \in Nat
        /\ Own(at[t], cwd[t], x) \in Nat
    <3>1. entry[x].refcnt \in Nat /\ leak[x] \in Nat
      BY <1>1, FieldTypes DEF Core, Typed
    <3>. QED BY <3>1, FiniteBelow, OwnIs DEF Owed, Ind
  <2>. QED BY <1>7, <2>1, <2>2, <2>3
<1>. QED BY <1>4, <1>7, <1>8, <1>10, <1>12, <1>13, <1>14, <1>15, <1>16, <1>17 DEF CacheStep, Calm

\* A call that ends gives up its references.
LEMMA UserIs ==
    /\ Continues(User) /\ User.pc = "user" /\ Doing(User) = "user"
    /\ User.cur = NoEntry /\ User.nxt = NoEntry /\ User.put = NoEntry
    /\ \A F : LocksOf(User, F) = {}
<1>1. /\ User.pc = "user" /\ User.call = "none" /\ User.cur = NoEntry /\ User.nxt = NoEntry
      /\ User.put = NoEntry /\ User.rest = <<>> /\ User.then = "user" /\ User.file = -1 /\ User.fd = -1
  BY DEF User
<1>2. User \in CallType
  BY DEF User, CallType, Pcs, Calls
<1>3. Doing(User) = "user"
  BY <1>1 DEF Doing
<1>4. Shape(User)
  BY <1>1, <1>3 DEF Shape, HasCur, HasNxt, Walking, Creates
<1>. QED BY <1>1, <1>2, <1>3, <1>4 DEF Continues, Resumes, LocksOf

LEMMA OwnEnds ==
    ASSUME NEW a, a.put = NoEntry, a.then = "user", a.pc # "chdir", NEW w, NEW x \in Entries
    PROVE  Own(a, w, x) = Own(User, w, x) + Ind(a.cur = x) + Ind(a.nxt = x)
<1>1. x # NoEntry
  BY EntryFacts
<1>2. /\ User.pc = "user" /\ User.cur = NoEntry /\ User.nxt = NoEntry
      /\ User.put = NoEntry /\ User.then = "user"
  BY DEF User
<1>. QED BY <1>1, <1>2 DEF Own, Ind

\* The directory of a lookup counts the call and what it has taken.
LEMMA LookedIn ==
    ASSUME Core, NEW t \in Tasks, at[t].pc \in HasNxt
    PROVE  /\ at[t].cur \in Entries /\ at[t].nxt \in Slots /\ at[t].nxt \in Entries
           /\ at[t].cur # at[t].nxt /\ entry[at[t].nxt].parent = at[t].cur
           /\ entry[at[t].cur].refcnt > 1 /\ entry[at[t].nxt].refcnt = 1
           /\ holder[at[t].cur] = t /\ at[t].put = NoEntry /\ at[t].then = "user"
<1>. DEFINE dp == at[t].cur
            e == at[t].nxt
<1>1. e \in Slots /\ e \in Entries /\ dp # e
  BY FreshIsAlone
<1>2. dp \in Entries /\ dp \in LocksOf(at[t], entry)
  BY TakenByCall DEF HasCur, HasNxt, Walking, LocksOf, Doing
<1>3. entry[e].parent = dp /\ entry[e].refcnt = 1
  BY DEF Core, Working
<1>4. e \in Below(entry, dp)
  BY <1>1, <1>3 DEF Below
<1>5. Cardinality(Below(entry, dp)) >= 1
  BY <1>4, FiniteBelow, CardPositive
<1>6. Own(at[t], cwd[t], dp) >= 1
  BY OwnIs
<1>7. /\ entry[dp].refcnt = Own(at[t], cwd[t], dp) + Besides(t, dp)
      /\ Own(at[t], cwd[t], dp) \in Nat /\ Rest(at, cwd, t, dp) \in Nat /\ leak[dp] \in Nat
      /\ Cardinality(Below(entry, dp)) \in Nat
      /\ Cardinality(FileRefs(file, Opening, dp)) \in Nat
  BY <1>2, CountIs DEF Core
<1>. HIDE DEF dp, e
<1>8. entry[dp].refcnt > 1
  BY <1>5, <1>6, <1>7 DEF Besides
<1>9. holder[dp] = t
  BY <1>2 DEF Core, LocksExact
<1>10. at[t].put = NoEntry /\ at[t].then = "user"
  BY DEF Core, Typed, Shape, HasNxt
<1>. QED BY <1>1, <1>2, <1>3, <1>8, <1>9, <1>10 DEF dp, e

\* What eput() leaves of the entry that a lookup has taken in vain.
LEMMA LoseFresh ==
    ASSUME Core, NEW t \in Tasks, at[t].pc \in HasNxt, NEW F, F = Last_(Nameless(at[t].nxt), at[t].nxt)
    PROVE  /\ ETyped(F) /\ Sound(F) /\ F[at[t].nxt] = Unused
           /\ \A x \in Entries : Owed(entry, x) = Owed(F, x) + Ind(x = at[t].nxt)
           /\ \A y \in Entries \ {at[t].nxt, at[t].cur} : F[y] = entry[y]
           /\ \A y \in Entries \ {at[t].nxt} :
                 /\ F[y].parent = entry[y].parent /\ F[y].dir = entry[y].dir
                 /\ F[y].uptodate = entry[y].uptodate /\ F[y].name = entry[y].name
           /\ F[at[t].cur].refcnt > 0
<1>. DEFINE dp == at[t].cur
            e == at[t].nxt
            E == Nameless(e)
<1>1. /\ dp \in Entries /\ e \in Slots /\ e \in Entries /\ dp # e /\ entry[e].parent = dp
      /\ entry[dp].refcnt > 1 /\ entry[e].refcnt = 1 /\ ETyped(entry) /\ Sound(entry)
  BY LookedIn DEF Core, Typed
<1>2. /\ ETyped(E) /\ E[e].name = NoName
      /\ \A y \in Entries : E[y].refcnt = entry[y].refcnt /\ E[y].parent = entry[y].parent
      /\ \A y \in Entries \ {e} : E[y] = entry[y]
  <2>1. entry[e] \in EntryType
    BY <1>1, FieldTypes
  <2>. QED BY <1>1, <2>1 DEF Nameless, ETyped, EntryType, EntryRecord
<1>. HIDE DEF E
<1>3. /\ Sound(E) /\ \A x \in Entries : Owed(E, x) = Owed(entry, x)
  BY <1>1, <1>2, OwedSame
<1>4. E[e].refcnt = 1 /\ E[E[e].parent].refcnt > 1 /\ E[e].parent = dp
  BY <1>1, <1>2
<1>5. F = Last_(E, e)
  BY DEF E
<1>. HIDE DEF e, dp
<1>6. /\ ETyped(F) /\ Sound(F) /\ \A x \in Entries : Owed(E, x) = Owed(F, x) + Ind(x = e)
      /\ GivenBack(E, F, e)
  BY <1>1, <1>2, <1>3, <1>4, <1>5, OwedLast
<1>7. F[e] = Unused /\ \A y \in Entries \ {e, dp} : F[y] = E[y]
  BY <1>2, <1>4, <1>6 DEF GivenBack
<1>8. \A y \in Entries \ {e} :
         /\ F[y].parent = E[y].parent /\ F[y].dir = E[y].dir
         /\ F[y].uptodate = E[y].uptodate /\ F[y].name = E[y].name
  <2>. SUFFICES ASSUME NEW y \in Entries \ {e}
                PROVE  /\ F[y].parent = E[y].parent /\ F[y].dir = E[y].dir
                       /\ F[y].uptodate = E[y].uptodate /\ F[y].name = E[y].name
    OBVIOUS
  <2>1. PICK n \in Nat : F[y] = [E[y] EXCEPT !.refcnt = n]
    BY <1>6 DEF GivenBack
  <2>2. E[y] \in EntryType
    BY <1>2, FieldTypes
  <2>. QED BY <2>1, <2>2 DEF EntryType, EntryRecord
<1>9. F[dp].refcnt > 0
  <2>1. F[dp].refcnt = E[dp].refcnt - 1
    <3>1. E[dp] \in EntryType
      BY <1>1, <1>2, FieldTypes, Zenon
    <3>2. F = [E EXCEPT ![e] = IF @.name = NoName THEN Unused ELSE [@ EXCEPT !.refcnt = 0],
                        ![dp].refcnt = @ - 1]
      BY <1>4, <1>5, Zenon DEF Last_
    <3>. DEFINE n == IF E[e].name = NoName THEN Unused ELSE [E[e] EXCEPT !.refcnt = 0]
    <3>3. F = [E EXCEPT ![e] = n, ![dp].refcnt = @ - 1]
      BY <3>2
    <3>. HIDE DEF n
    <3>. QED BY <1>1, <1>2, <3>1, <3>3 DEF ETyped, EntryType, EntryRecord
  <2>2. E[dp].refcnt \in Nat
    BY <1>1, <1>2, FieldTypes
  <2>. QED BY <1>1, <1>2, <2>1, <2>2
<1>. QED BY <1>2, <1>3, <1>6, <1>7, <1>8, <1>9 DEF e, dp

\* ename() fails, in a directory or in what is none.
LEMMA FailStep ==
    ASSUME Core, NEW t \in Tasks, FailsIn(t), Ring(order'), UNCHANGED <<disk, cwd>>,
           \/ /\ at[t].pc = "walk" /\ holder[at[t].cur] = Nobody
              /\ holder' = [holder EXCEPT ![at[t].cur] = t] /\ entry' = entry
           \/ /\ at[t].pc = "search" /\ holder' = holder
              /\ entry' = Last_(Nameless(at[t].nxt), at[t].nxt)
    PROVE  CacheStep(t) /\ at'[t].pc # "trunc"
<1>. DEFINE dp == at[t].cur
<1>1. /\ dp \in Entries /\ at[t] \in CallType /\ Shape(at[t]) /\ Nobody \notin Tasks
      /\ ETyped(entry) /\ Sound(entry) /\ at \in [Tasks -> CallType] /\ leak \in [Entries -> Nat]
      /\ holder \in [Entries -> Tasks \cup {Nobody}]
  BY TakenByCall, CacheAssumption DEF HasCur, Walking, Core, Typed
<1>2. /\ at' \in [Tasks -> CallType] /\ at'[t] = User /\ \A u \in Tasks \ {t} : at'[u] = at[u]
  BY <1>1, UserIs DEF FailsIn, Continues
<1>3. /\ leak' \in [Entries -> Nat]
      /\ \A x \in Entries : leak'[x] = leak[x] + Ind(x = dp)
  BY <1>1 DEF FailsIn, Ind
<1>4. /\ at[t].put = NoEntry /\ at[t].then = "user" /\ at[t].pc # "chdir"
      /\ at[t].pc = "walk" => at[t].nxt = NoEntry
  BY <1>1 DEF Shape, Doing, HasNxt
<1>5. /\ ETyped(entry') /\ Sound(entry')
      /\ \A x \in Entries : Owed(entry, x) = Owed(entry', x) + Ind(at[t].nxt = x)
      /\ \A y \in Entries \ {at[t].nxt, dp} : entry'[y] = entry[y]
      /\ at[t].pc = "walk" => entry' = entry
      /\ \A y \in Entries \ {at[t].nxt} :
            /\ entry'[y].parent = entry[y].parent /\ entry'[y].dir = entry[y].dir
            /\ entry'[y].uptodate = entry[y].uptodate /\ entry'[y].name = entry[y].name
      /\ at[t].nxt \in Entries => entry'[at[t].nxt] = Unused
  <2>1. CASE at[t].pc = "walk"
    <3>1. entry' = entry /\ at[t].nxt = NoEntry
      BY <1>4, <2>1
    <3>2. ASSUME NEW x \in Entries PROVE Owed(entry, x) = Owed(entry', x) + Ind(at[t].nxt = x)
      <4>1. Owed(entry, x) \in Int
        BY <1>1, FieldTypes, FiniteBelow DEF Owed
      <4>2. Ind(at[t].nxt = x) = 0
        BY <3>1, EntryFacts DEF Ind
      <4>. QED BY <3>1, <4>1, <4>2
    <3>. QED BY <1>1, <3>1, <3>2, EntryFacts
  <2>2. CASE at[t].pc = "search"
    <3>. DEFINE F == entry'
                e == at[t].nxt
    <3>1. at[t].pc \in HasNxt /\ F = Last_(Nameless(at[t].nxt), at[t].nxt)
      BY <2>2 DEF HasNxt
    <3>. HIDE DEF F
    <3>2. /\ ETyped(F) /\ Sound(F) /\ F[e] = Unused
          /\ \A x \in Entries : Owed(entry, x) = Owed(F, x) + Ind(x = e)
          /\ \A y \in Entries \ {e, dp} : F[y] = entry[y]
          /\ \A y \in Entries \ {e} :
                /\ F[y].parent = entry[y].parent /\ F[y].dir = entry[y].dir
                /\ F[y].uptodate = entry[y].uptodate /\ F[y].name = entry[y].name
      BY <3>1, LoseFresh
    <3>3. \A x \in Entries : Ind(x = e) = Ind(e = x)
      BY DEF Ind
    <3>. QED BY <2>2, <3>2, <3>3 DEF F
  <2>. QED BY <2>1, <2>2
<1>6. /\ holder' \in [Entries -> Tasks \cup {Nobody}]
      /\ \A x \in Entries : \A u \in Tasks \ {t} : holder'[x] = u <=> holder[x] = u
      /\ \A x \in Entries : holder'[x] = t => x = dp \/ leak[x] > 0
  <2>1. \A x \in Entries : holder[x] = t => leak[x] > 0 \/ x \in LocksOf(at[t], entry)
    BY DEF Core, LocksExact
  <2>2. LocksOf(at[t], entry) \subseteq {dp}
    BY DEF LocksOf, Doing
  <2>3. CASE holder' = holder
    BY <1>1, <2>1, <2>2, <2>3
  <2>4. CASE holder[dp] = Nobody /\ holder' = [holder EXCEPT ![dp] = t]
    BY <1>1, <2>1, <2>2, <2>4
  <2>. QED BY <2>3, <2>4
<1>7. Typed'
  <2>1. \A u \in Tasks : Shape(at'[u])
    BY <1>2, UserIs DEF Core, Typed, Continues
  <2>. QED BY <1>2, <1>3, <1>5, <1>6, <2>1 DEF Core, Typed
<1>8. Frame(t)
  <2>1. \A u \in Tasks \ {t} : at[u].pc \in HasNxt => entry'[at[u].nxt] = entry[at[u].nxt]
    <3>. SUFFICES ASSUME NEW u \in Tasks \ {t}, at[u].pc \in HasNxt
                  PROVE  entry'[at[u].nxt] = entry[at[u].nxt]
      OBVIOUS
    <3>1. at[u].nxt \in Entries /\ Own(at[t], cwd[t], at[u].nxt) = 0
      BY FreshIsAlone
    <3>2. at[u].nxt # at[t].nxt /\ at[u].nxt # dp
      BY <3>1, OwnIs
    <3>. QED BY <1>5, <3>1, <3>2
  <2>2. \A y \in Entries : entry'[y].refcnt > 0 =>
           entry'[y].parent = entry[y].parent /\ entry'[y].dir = entry[y].dir
    <3>1. ~(Unused.refcnt > 0)
      BY DEF Unused
    <3>. QED BY <1>5, <3>1
  <2>. QED BY <1>2, <2>1, <2>2 DEF Frame
<1>9. LockStep(t)
  <2>1. \A x \in Entries : leak'[x] >= leak[x] /\ (x = dp \/ leak[x] > 0 => leak'[x] > 0)
    BY <1>1, <1>3 DEF Ind
  <2>2. LocksOf(at'[t], entry') = {}
    BY <1>2, UserIs
  <2>. QED BY <1>6, <2>1, <2>2 DEF LockStep
<1>10. HitStep(t)
  <2>1. at'[t].pc \notin HasNxt
    BY <1>2, UserIs DEF HasNxt
  <2>2. Unused.name = NoName
    BY DEF Unused
  <2>3. \A y \in Slots : entry'[y].uptodate /\ entry'[y].name # NoName
                             => Valid(entry, y, entry'[y].parent, entry'[y].name)
    BY <1>5, <2>2, EntryFacts DEF Valid
  <2>. QED BY <2>1, <2>3 DEF HitStep
<1>11. Working(t)'
  BY <1>2, UserIs DEF Working, HasNxt
<1>12. ASSUME NEW x \in Entries
       PROVE  Owed(entry', x) + Own(at[t], cwd[t], x) + leak[x]
                  = Owed(entry, x) + Own(at'[t], cwd'[t], x) + leak'[x]
  <2>. DEFINE o == Owed(entry, x)
              p == Owed(entry', x)
              a == Own(at[t], cwd[t], x)
              b == Own(User, cwd[t], x)
              i == Ind(at[t].cur = x)
              j == Ind(at[t].nxt = x)
              l == leak[x]
              k == leak'[x]
  <2>1. o = p + j /\ a = b + i + j /\ k = l + i
    BY <1>3, <1>4, <1>5, OwnEnds DEF Ind
  <2>2. /\ o \in Int /\ p \in Int /\ a \in Nat /\ b \in Nat /\ i \in Nat /\ j \in Nat
        /\ l \in Nat /\ k \in Nat
    <3>1. entry[x].refcnt \in Nat /\ entry'[x].refcnt \in Nat /\ l \in Nat /\ k \in Nat
      BY <1>1, <1>3, <1>5, FieldTypes
    <3>. QED BY <3>1, FiniteBelow, OwnIs DEF Owed, Ind
  <2>. HIDE DEF o, p, a, b, i, j, l, k
  <2>3. p + a + l = o + b + k
    BY <2>1, <2>2
  <2>4. Own(at'[t], cwd'[t], x) = b
    BY <1>2 DEF b
  <2>. QED BY <2>3, <2>4 DEF o, p, a, l, k
<1>13. at'[t].pc # "trunc"
  BY <1>2, UserIs
<1>. QED BY <1>5, <1>7, <1>8, <1>9, <1>10, <1>11, <1>12, <1>13 DEF CacheStep, Calm

\* dirlookup() fills in the entry that was taken.
LEMMA FillIs ==
    ASSUME Core, NEW t \in Tasks, at[t].pc \in HasNxt, NEW p \in Places, NEW F,
           F = Fill(entry, at[t].nxt, at[t].cur, p)
    PROVE  /\ ETyped(F) /\ Sound(F) /\ Near(t, F)
           /\ \A x \in Entries : Owed(F, x) = Owed(entry, x)
           /\ \A y \in Entries \ {at[t].nxt} : F[y] = entry[y]
           /\ F[at[t].nxt].refcnt = 1 /\ F[at[t].nxt].parent = at[t].cur
<1>. DEFINE dp == at[t].cur
            e == at[t].nxt
            d == entry[dp].clus
            q == disk[d][p]
<1>1. /\ dp \in Entries /\ e \in Slots /\ e \in Entries /\ ETyped(entry) /\ Sound(entry)
      /\ entry[e].refcnt = 1 /\ entry[e].parent = dp
  BY LookedIn DEF Core, Typed
<1>2. d \in Dirs
  <2>1. entry[dp].dir /\ entry[dp] \in EntryType
    BY <1>1, FieldTypes DEF Core, Working
  <2>. QED BY <2>1 DEF EntryType
<1>3. q \in PlaceType
  BY <1>2 DEF Core, Typed
<1>4. entry[e] \in EntryType /\ entry[e].name = Head(at[t].rest)
  BY <1>1, FieldTypes DEF Core, Working
<1>5. F = [entry EXCEPT ![e] = [@ EXCEPT !.place = p, !.dir = q.dir, !.home = d,
                                         !.clus = q.clus, !.uptodate = TRUE]]
  BY DEF Fill
<1>. HIDE DEF q, d, e, dp
<1>6. q.dir \in BOOLEAN /\ q.clus \in Dirs \cup {0, DataClus} /\ (q.dir <=> q.clus \in Dirs)
  BY <1>3 DEF PlaceType
<1>7. ETyped(F)
  <2>. DEFINE r == entry[e]
              v == [r EXCEPT !.place = p, !.dir = q.dir, !.home = d, !.clus = q.clus, !.uptodate = TRUE]
  <2>1. v \in EntryType
    <3>1. r \in EntryRecord
      BY <1>4 DEF EntryType
    <3>. HIDE DEF r
    <3>2. v \in EntryRecord /\ v.dir = q.dir /\ v.clus = q.clus
      BY <1>2, <1>6, <3>1 DEF EntryRecord
    <3>. QED BY <1>6, <3>2 DEF EntryType
  <2>2. F = [entry EXCEPT ![e] = v]
    BY <1>5
  <2>. HIDE DEF v
  <2>. QED BY <1>1, <2>1, <2>2 DEF ETyped
<1>8. /\ \A y \in Entries \ {e} : F[y] = entry[y]
      /\ F[e].refcnt = entry[e].refcnt /\ F[e].parent = entry[e].parent /\ F[e].name = entry[e].name
  BY <1>1, <1>4, <1>5 DEF ETyped, EntryType, EntryRecord
<1>9. Sound(F) /\ \A x \in Entries : Owed(F, x) = Owed(entry, x)
  <2>1. \A c \in Entries : entry[c].refcnt = F[c].refcnt /\ entry[c].parent = F[c].parent
    BY <1>8, Zenon
  <2>. QED BY <1>1, <2>1, OwedSame
<1>10. Near(t, F)
  BY <1>1, <1>4, <1>8, EntryFacts DEF Near, Valid, e, dp
<1>. QED BY <1>1, <1>7, <1>8, <1>9, <1>10 DEF e, dp

\* A step of ename() to a directory, to its parent or to what it has found there.
LEMMA WalkStep ==
    ASSUME Core, NEW t \in Tasks, Walk(t), kernel' = "running"
    PROVE  CacheStep(t) /\ at[t].pc # "trunc" /\ at'[t].pc # "trunc"
<1>. DEFINE dp == at[t].cur
            name == Head(at[t].rest)
            pp == entry[dp].parent
<1>1. at[t].pc = "walk"
  BY DEF Walk, At
<1>2. /\ dp \in Entries /\ Own(at[t], cwd[t], dp) >= 1 /\ Typed /\ ETyped(entry) /\ Sound(entry)
      /\ at[t].nxt = NoEntry
  BY <1>1, TakenByCall, OwnIs DEF HasCur, Walking, Core, Typed, Shape, Doing, HasNxt
<1>3. /\ entry[dp].refcnt > 0 /\ pp \in Entries /\ entry[pp].refcnt > 0
      /\ dp \in Slots => pp # dp
      /\ \A u \in Tasks \ {t} : at[u].pc \in HasNxt => at[u].nxt # dp /\ at[u].nxt # pp
  BY <1>2, InCall
<1>4. /\ holder[dp] = Nobody /\ UNCHANGED <<disk, cwd>> /\ Ring(order')
      /\ \/ /\ FailsIn(t) /\ holder' = [holder EXCEPT ![dp] = t] /\ entry' = entry
         \/ entry[dp].dir /\ leak' = leak /\ Walks(t)
         \/ /\ entry[dp].dir /\ leak' = leak /\ name \in Name
            /\ \E e \in Slots : Misses(t, dp, name, "search", e)
  BY <1>2, <1>3, WalkIs
<1>. HIDE DEF pp
<1>5. CASE FailsIn(t) /\ holder' = [holder EXCEPT ![dp] = t] /\ entry' = entry
  BY <1>1, <1>4, <1>5, FailStep
<1>6. CASE /\ entry[dp].dir /\ leak' = leak /\ name \in Name
           /\ \E e \in Slots : Misses(t, dp, name, "search", e)
  BY <1>1, <1>4, <1>6, MissStep
<1>7. ASSUME leak' = leak, NEW y \in Entries, y = Root \/ entry[y].refcnt > 0,
             \A u \in Tasks \ {t} : at[u].pc \in HasNxt => at[u].nxt # y,
             StepsTo(t, Plus(entry, y), y)
      PROVE  CacheStep(t) /\ at'[t].pc # "trunc"
  <2>. DEFINE E == Plus(entry, y)
  <2>1. /\ ETyped(E) /\ Sound(E) /\ Near(t, E)
        /\ \A x \in Entries : Owed(E, x) = Owed(entry, x) + Ind(x = y)
        /\ \A x \in Entries : x # y => E[x] = entry[x]
    BY <1>2, <1>7, OwedPlus, NearPlus
  <2>2. \A u \in Tasks \ {t} : at[u].pc \in HasNxt => E[at[u].nxt] = entry[at[u].nxt]
    BY <1>7, <2>1, FreshIsAlone
  <2>3. ASSUME NEW x \in Entries PROVE Owed(E, x) + Ind(at[t].nxt = x) = Owed(entry, x) + Ind(y = x)
    <3>1. Ind(at[t].nxt = x) = 0 /\ Ind(x = y) = Ind(y = x) /\ Ind(x = y) \in Nat
      BY <1>2, EntryFacts DEF Ind
    <3>2. Owed(entry, x) \in Int
      BY <1>2, FieldTypes, FiniteBelow DEF Owed
    <3>. QED BY <2>1, <3>1, <3>2
  <2>4. StepsTo(t, E, y)
    BY <1>7
  <2>. HIDE DEF E
  <2>. QED BY <1>1, <1>4, <1>7, <2>1, <2>2, <2>3, <2>4, StepsToStep
<1>8. ASSUME leak' = leak, NEW y \in Rightful(dp, name), StepsTo(t, Use(entry, y), y)
      PROVE  CacheStep(t) /\ at'[t].pc # "trunc"
  <2>. DEFINE E == Use(entry, y)
  <2>1. y \in Slots /\ y \in Entries /\ entry[y].parent = dp /\ entry[y].uptodate
    BY <1>2, RightfulIs
  <2>2. dp # y
    BY <1>3, <2>1 DEF pp
  <2>3. /\ ETyped(E) /\ Sound(E) /\ Near(t, E)
        /\ \A x \in Entries : Owed(E, x) = Owed(entry, x) + Ind(x = y)
        /\ \A x \in Entries : x # y /\ x # dp => E[x] = entry[x]
    BY <1>2, <1>3, <2>1, <2>2, OwedUse, NearUse
  <2>4. \A u \in Tasks \ {t} : at[u].pc \in HasNxt => E[at[u].nxt] = entry[at[u].nxt]
    BY <1>3, <2>1, <2>3, FreshIsAlone
  <2>5. ASSUME NEW x \in Entries PROVE Owed(E, x) + Ind(at[t].nxt = x) = Owed(entry, x) + Ind(y = x)
    <3>1. Ind(at[t].nxt = x) = 0 /\ Ind(x = y) = Ind(y = x) /\ Ind(x = y) \in Nat
      BY <1>2, EntryFacts DEF Ind
    <3>2. Owed(entry, x) \in Int
      BY <1>2, FieldTypes, FiniteBelow DEF Owed
    <3>. QED BY <2>3, <3>1, <3>2
  <2>6. StepsTo(t, E, y)
    BY <1>8
  <2>. HIDE DEF E
  <2>. QED BY <1>1, <1>4, <1>8, <2>1, <2>3, <2>4, <2>5, <2>6, StepsToStep
<1>9. CASE leak' = leak /\ Walks(t)
  <2>1. ASSUME StepsTo(t, Plus(entry, dp), dp) PROVE CacheStep(t) /\ at'[t].pc # "trunc"
    BY <1>2, <1>3, <1>7, <1>9, <2>1
  <2>2. ASSUME StepsTo(t, Plus(entry, pp), pp) PROVE CacheStep(t) /\ at'[t].pc # "trunc"
    BY <1>2, <1>3, <1>7, <1>9, <2>2
  <2>3. ASSUME NEW y \in Rightful(dp, name), StepsTo(t, Use(entry, y), y)
        PROVE  CacheStep(t) /\ at'[t].pc # "trunc"
    BY <1>8, <1>9, <2>3
  <2>4. \/ StepsTo(t, Plus(entry, dp), dp)
        \/ StepsTo(t, Plus(entry, pp), pp)
        \/ \E y \in Rightful(dp, name) : StepsTo(t, Use(entry, y), y)
    BY <1>9 DEF Walks, pp
  <2>. QED BY <1>1, <2>1, <2>2, <2>3, <2>4
<1>. QED BY <1>1, <1>4, <1>5, <1>6, <1>9

LEMMA SearchStep ==
    ASSUME Core, NEW t \in Tasks, Search(t), kernel' = "running"
    PROVE  CacheStep(t) /\ at[t].pc # "trunc" /\ at'[t].pc # "trunc"
<1>. DEFINE dp == at[t].cur
            e == at[t].nxt
<1>1. at[t].pc = "search" /\ at[t].pc \in HasNxt
  BY DEF Search, At, HasNxt
<1>2. /\ dp \in Entries /\ e \in Slots /\ e \in Entries /\ Typed /\ ETyped(entry) /\ holder[dp] = t
  BY <1>1, LookedIn DEF Core, Typed
<1>3. \A p \in Places : ETyped(Fill(entry, e, dp, p))
  BY <1>1, FillIs
<1>4. /\ UNCHANGED <<disk, cwd>> /\ Ring(order')
      /\ \/ /\ leak' = leak
            /\ \E p \in Matches(dp, Head(at[t].rest)) : StepsTo(t, Fill(entry, e, dp, p), e)
         \/ FailsIn(t) /\ entry' = Last_(Nameless(e), e) /\ holder' = holder
  BY <1>2, <1>3, SearchIs
<1>5. ASSUME leak' = leak, NEW p \in Places, StepsTo(t, Fill(entry, e, dp, p), e)
      PROVE  CacheStep(t) /\ at'[t].pc # "trunc"
  <2>. DEFINE E == Fill(entry, e, dp, p)
  <2>1. /\ ETyped(E) /\ Sound(E) /\ Near(t, E)
        /\ \A x \in Entries : Owed(E, x) = Owed(entry, x)
        /\ \A y \in Entries \ {e} : E[y] = entry[y]
    BY <1>1, FillIs
  <2>2. \A u \in Tasks \ {t} : at[u].pc \in HasNxt => E[at[u].nxt] = entry[at[u].nxt]
    <3>1. \A u \in Tasks \ {t} : at[u].pc \in HasNxt => at[u].nxt \in Entries /\ at[u].nxt # e
      BY FreshIsAlone, OwnIs
    <3>. QED BY <2>1, <3>1
  <2>3. \A x \in Entries : Owed(E, x) + Ind(e = x) = Owed(entry, x) + Ind(e = x)
    BY <2>1
  <2>4. StepsTo(t, E, e)
    BY <1>5
  <2>. HIDE DEF E
  <2>. QED BY <1>1, <1>2, <1>4, <1>5, <2>1, <2>2, <2>3, <2>4, StepsToStep
<1>6. CASE FailsIn(t) /\ entry' = Last_(Nameless(e), e) /\ holder' = holder
  BY <1>1, <1>4, <1>6, FailStep
<1>. QED BY <1>1, <1>4, <1>5, <1>6 DEF Matches

\* A call gives its entry back and ends.
LEMMA EndingStep ==
    ASSUME Core, NEW t \in Tasks, NEW h,
           \/ at[t].pc \in {"drop", "arrived"} /\ h = holder
           \/ at[t].pc = "giveUp" /\ h = [holder EXCEPT ![at[t].cur] = Nobody],
           Put(t, entry, h, at[t].cur, User), Ring(order'), UNCHANGED <<disk, cwd, leak>>
    PROVE  CacheStep(t) /\ at'[t].pc # "trunc"
<1>. DEFINE dp == at[t].cur
<1>1. /\ dp \in Entries /\ Own(at[t], cwd[t], dp) >= 1
      /\ at[t] \in CallType /\ Shape(at[t]) /\ Nobody \notin Tasks
      /\ holder \in [Entries -> Tasks \cup {Nobody}]
      /\ disk' \in [Dirs -> [Places -> PlaceType]] /\ ETyped(entry) /\ Sound(entry)
  BY TakenByCall, OwnIs, CacheAssumption DEF HasCur, Walking, Core, Typed
<1>2. /\ at[t].put = NoEntry /\ at[t].then = "user" /\ at[t].pc # "chdir"
      /\ at[t].nxt = NoEntry
  BY <1>1 DEF Shape, Doing, HasNxt
<1>3. LocksFit(t, h, User)
  <2>1. /\ at[t].pc = "giveUp" => holder[dp] = t
        /\ \A x \in Entries : holder[x] = t => leak[x] > 0 \/ (at[t].pc = "giveUp" /\ x = dp)
    BY <1>1 DEF Core, LocksExact, LocksOf, Doing
  <2>2. /\ h \in [Entries -> Tasks \cup {Nobody}]
        /\ \A x \in Entries : at[t].pc # "giveUp" \/ x # dp => h[x] = holder[x]
        /\ at[t].pc = "giveUp" => h[dp] = Nobody
    BY <1>1
  <2>. HIDE DEF dp
  <2>. QED BY <1>1, <2>1, <2>2, UserIs DEF LocksFit
<1>4. Near(t, entry) /\ Spared(t, entry, dp)
  BY <1>1, NearPlus, SparedBy
<1>5. Settled(t, entry, dp, User)
  <2>1. ASSUME NEW x \in Entries
        PROVE  Owed(entry, x) + Own(at[t], cwd[t], x) = Owed(entry, x) + Own(User, cwd[t], x) + Ind(x = dp)
    <3>. DEFINE o == Owed(entry, x)
                a == Own(at[t], cwd[t], x)
                c == Own(User, cwd[t], x)
                i == Ind(x = dp)
    <3>1. a = c + i + 0
      <4>1. Ind(at[t].cur = x) = i /\ Ind(at[t].nxt = x) = 0
        BY <1>2, EntryFacts DEF Ind
      <4>. QED BY <1>2, <4>1, OwnEnds
    <3>2. o \in Int /\ a \in Nat /\ c \in Nat /\ i \in Nat
      <4>1. entry[x].refcnt \in Nat
        BY <1>1, FieldTypes
      <4>. QED BY <4>1, FiniteBelow, OwnIs DEF Owed, Ind
    <3>. HIDE DEF o, a, c, i
    <3>3. o + a = o + c + i
      BY <3>1, <3>2
    <3>. QED BY <3>3 DEF o, a, c, i
  <2>. QED BY <2>1 DEF Settled
<1>6. Put(t, entry, h, dp, User)
  OBVIOUS
<1>. HIDE DEF dp
<1>. QED BY <1>1, <1>3, <1>4, <1>5, <1>6, UserIs, PutStep

\* ealloc() gives back the entry that has the name already.
LEMMA RefuseStep ==
    ASSUME Core, NEW t \in Tasks, at[t].pc \in {"arrived", "lookup"}, Creates(at[t]),
           NEW h, h \in [Entries -> Tasks \cup {Nobody}], h[at[t].cur] = t,
           \A x \in Entries \ {at[t].cur} : h[x] = holder[x],
           holder[at[t].cur] \in {Nobody, t},
           NEW E, ETyped(E), Sound(E), Near(t, E), NEW e \in Slots, E[e].parent = at[t].cur,
           Put(t, E, h, e, Refusing(at[t])), Ring(order'), UNCHANGED <<disk, cwd, leak>>,
           \A u \in Tasks \ {t} : at[u].pc \in HasNxt =>
               E[at[u].nxt] = entry[at[u].nxt] /\ at[u].nxt # e,
           \A x \in Entries : Owed(E, x) + Ind(at[t].nxt = x) = Owed(entry, x) + Ind(e = x)
    PROVE  CacheStep(t) /\ at'[t].pc # "trunc"
<1>. DEFINE dp == at[t].cur
            r == Refusing(at[t])
<1>1. /\ dp \in Entries /\ Own(at[t], cwd[t], dp) >= 1 /\ e \in Entries
      /\ at[t] \in CallType /\ Shape(at[t]) /\ Nobody \notin Tasks
      /\ disk' \in [Dirs -> [Places -> PlaceType]] /\ ETyped(entry)
  BY TakenByCall, OwnIs, CacheAssumption, EntryFacts DEF HasCur, Walking, Core, Typed
<1>2. at[t].put = NoEntry /\ at[t].then = "user" /\ at[t].pc # "chdir"
  BY <1>1 DEF Shape, Doing
<1>3. /\ r \in CallType /\ r.pc = "giveUp" /\ r.cur = dp /\ r.nxt = NoEntry
      /\ r.put = NoEntry /\ r.then = "user"
  BY <1>1, <1>2 DEF CallType, Refusing, Pcs
<1>4. Continues(r)
  <2>1. Shape(r)
    BY <1>1, <1>3, EntryFacts DEF Shape, Doing, HasCur, HasNxt, Walking
  <2>. QED BY <1>3, <2>1 DEF Continues, Resumes
<1>5. LocksFit(t, h, r)
  <2>1. LocksOf(at[t], entry) \subseteq {dp}
    BY DEF LocksOf, Doing
  <2>2. \A x \in Entries : holder[x] = t => leak[x] > 0 \/ x \in LocksOf(at[t], entry)
    BY DEF Core, LocksExact
  <2>3. \A x \in Entries : \A u \in Tasks \ {t} : h[x] = u <=> holder[x] = u
    BY <1>1
  <2>. HIDE DEF dp, r
  <2>. QED BY <1>3, <2>1, <2>2, <2>3 DEF LocksFit, dp
<1>6. Spared(t, E, e)
  <2>1. \A u \in Tasks \ {t} : at[u].pc \in HasNxt => at[u].nxt # dp
    BY <1>1, InCall
  <2>. QED BY <2>1 DEF Spared
<1>7. Settled(t, E, e, r)
  <2>1. ASSUME NEW x \in Entries
        PROVE  Owed(E, x) + Own(at[t], cwd[t], x) = Owed(entry, x) + Own(r, cwd[t], x) + Ind(x = e)
    <3>. DEFINE o == Owed(entry, x)
                q == Owed(E, x)
                a == Own(at[t], cwd[t], x)
                c == Own(r, cwd[t], x)
                i == Ind(x = e)
                j == Ind(at[t].nxt = x)
    <3>1. a = c + j
      <4>1. r.nxt # x /\ r.put # x /\ at[t].put # x
        BY <1>2, <1>3, EntryFacts
      <4>. DEFINE b == Ind(cwd[t] = x)
                  d == Ind(dp = x)
      <4>2. a = d + j + 0 + b /\ c = d + 0 + 0 + b
        BY <1>2, <1>3, <4>1 DEF Own, Ind
      <4>3. b \in Nat /\ d \in Nat /\ j \in Nat
        BY DEF Ind
      <4>. HIDE DEF a, b, c, d, j
      <4>. QED BY <4>2, <4>3
    <3>2. q + j = o + i
      BY DEF Ind
    <3>3. /\ o \in Int /\ q \in Int /\ a \in Nat /\ c \in Nat
          /\ i \in Nat /\ j \in Nat
      <4>1. entry[x].refcnt \in Nat /\ E[x].refcnt \in Nat
        BY <1>1, FieldTypes
      <4>. QED BY <4>1, FiniteBelow, OwnIs DEF Owed, Ind
    <3>. HIDE DEF o, q, a, c, i, j
    <3>4. q + a = o + c + i
      BY <3>1, <3>2, <3>3
    <3>. QED BY <3>4 DEF o, q, a, c, i
  <2>. QED BY <2>1 DEF Settled
<1>8. Put(t, E, h, e, r)
  OBVIOUS
<1>. HIDE DEF r, dp
<1>. QED BY <1>1, <1>4, <1>5, <1>6, <1>7, <1>8, PutStep

LEMMA LookupStep ==
    ASSUME Core, NEW t \in Tasks, Lookup(t), kernel' = "running"
    PROVE  CacheStep(t) /\ at[t].pc # "trunc" /\ at'[t].pc # "trunc"
<1>. DEFINE dp == at[t].cur
            name == Head(at[t].rest)
            h == [holder EXCEPT ![dp] = t]
<1>1. at[t].pc = "arrived" /\ Creates(at[t])
  BY DEF Lookup, At, Creates
<1>2. /\ dp \in Entries /\ Own(at[t], cwd[t], dp) >= 1 /\ Typed /\ ETyped(entry) /\ Sound(entry)
      /\ at[t] \in CallType /\ Shape(at[t]) /\ at[t].nxt = NoEntry
      /\ holder \in [Entries -> Tasks \cup {Nobody}]
  BY <1>1, TakenByCall, OwnIs DEF HasCur, Walking, Core, Typed, Shape, Doing, HasNxt
<1>3. /\ entry[dp].refcnt > 0
      /\ dp \in Slots => entry[dp].parent # dp
      /\ \A u \in Tasks \ {t} : at[u].pc \in HasNxt => at[u].nxt # dp
  BY <1>2, InCall
<1>4. name \in Name
  <2>1. at[t].rest \in Seq(Name \cup {Dot, DotDot}) /\ Len(at[t].rest) = 1
        /\ at[t].rest[Len(at[t].rest)] \in Name
    BY <1>1, <1>2 DEF Shape, Doing, CallType, Walking
  <2>. QED BY <2>1
<1>5. /\ holder[dp] = Nobody /\ entry[dp].dir /\ UNCHANGED <<disk, cwd, leak>> /\ Ring(order')
      /\ \/ \E e \in Rightful(dp, name) : Put(t, Use(entry, e), h, e, Refusing(at[t]))
         \/ \E e \in Slots : Misses(t, dp, name, "lookup", e)
  BY <1>2, LookupIs
<1>6. CASE \E e \in Slots : Misses(t, dp, name, "lookup", e)
  BY <1>1, <1>4, <1>5, <1>6, MissStep
<1>7. ASSUME NEW e \in Rightful(dp, name), Put(t, Use(entry, e), h, e, Refusing(at[t]))
      PROVE  CacheStep(t) /\ at'[t].pc # "trunc"
  <2>. DEFINE E == Use(entry, e)
  <2>1. e \in Slots /\ e \in Entries /\ entry[e].parent = dp /\ entry[e].uptodate
    BY <1>2, RightfulIs
  <2>2. dp # e
    BY <1>3, <2>1
  <2>3. /\ ETyped(E) /\ Sound(E) /\ Near(t, E)
        /\ \A x \in Entries : Owed(E, x) = Owed(entry, x) + Ind(x = e)
        /\ \A x \in Entries : x # e /\ x # dp => E[x] = entry[x]
    BY <1>2, <1>3, <2>1, <2>2, OwedUse, NearUse
  <2>4. \A u \in Tasks \ {t} : at[u].pc \in HasNxt =>
            E[at[u].nxt] = entry[at[u].nxt] /\ at[u].nxt # e
    BY <1>3, <2>1, <2>3, FreshIsAlone
  <2>5. ASSUME NEW x \in Entries PROVE Owed(E, x) + Ind(at[t].nxt = x) = Owed(entry, x) + Ind(e = x)
    <3>1. Ind(at[t].nxt = x) = 0 /\ Ind(x = e) = Ind(e = x) /\ Ind(x = e) \in Nat
      BY <1>2, EntryFacts DEF Ind
    <3>2. Owed(entry, x) \in Int
      BY <1>2, FieldTypes, FiniteBelow DEF Owed
    <3>. QED BY <2>3, <3>1, <3>2
  <2>6. Put(t, E, h, e, Refusing(at[t]))
    BY <1>7
  <2>7. E[e].parent = dp
    BY <2>1, <2>3 DEF Near
  <2>8. /\ h \in [Entries -> Tasks \cup {Nobody}] /\ h[dp] = t
        /\ \A x \in Entries \ {dp} : h[x] = holder[x]
    BY <1>2
  <2>. HIDE DEF E, h
  <2>. QED BY <1>1, <1>5, <2>1, <2>3, <2>4, <2>5, <2>6, <2>7, <2>8, RefuseStep
<1>. QED BY <1>1, <1>5, <1>6, <1>7

LEMMA GiveUpStep ==
    ASSUME Core, NEW t \in Tasks, GiveUp(t), kernel' = "running"
    PROVE  CacheStep(t) /\ at[t].pc # "trunc" /\ at'[t].pc # "trunc"
<1>1. at[t].pc = "giveUp" /\ Typed /\ at[t].cur \in Entries
  BY TakenByCall DEF GiveUp, At, HasCur, Core
<1>2. /\ UNCHANGED <<disk, cwd, leak>> /\ Ring(order')
      /\ Put(t, entry, [holder EXCEPT ![at[t].cur] = Nobody], at[t].cur, User)
  BY <1>1, GiveUpIs
<1>. QED BY <1>1, <1>2, EndingStep

LEMMA DropStep ==
    ASSUME Core, NEW t \in Tasks, Drop(t), kernel' = "running"
    PROVE  CacheStep(t) /\ at[t].pc # "trunc" /\ at'[t].pc # "trunc"
<1>1. at[t].pc = "drop" /\ Typed /\ at[t].cur \in Entries
  BY TakenByCall DEF Drop, At, HasCur, Core
<1>2. /\ UNCHANGED <<disk, cwd, leak>> /\ Ring(order')
      /\ Put(t, entry, holder, at[t].cur, User)
  BY <1>1, DropIs
<1>. QED BY <1>1, <1>2, EndingStep

\* No other call has the lock of an entry that was taken.
LEMMA FreshIsUnlocked ==
    ASSUME Core, NEW t \in Tasks, at[t].pc \in HasNxt, NEW u \in Tasks \ {t}
    PROVE  holder[at[t].nxt] # u
<1>. DEFINE e == at[t].nxt
<1>1. /\ e \in Slots /\ e \in Entries /\ leak[e] = 0 /\ Own(at[u], cwd[u], e) = 0
      /\ \A c \in Slots : entry[c].refcnt > 0 => entry[c].parent # e
  BY FreshIsAlone
<1>2. e \notin {at[u].cur, at[u].nxt, at[u].put}
  BY <1>1, OwnIs
<1>3. ASSUME Doing(at[u]) = "remove" PROVE entry[at[u].cur].parent # e
  <2>1. at[u] \in CallType /\ Shape(at[u])
    BY DEF Core, Typed
  <2>2. at[u].cur # NoEntry
    BY <1>3, <2>1 DEF Shape, HasCur
  <2>3. at[u].cur \in Entries
    BY <2>1, <2>2 DEF CallType
  <2>4. Own(at[u], cwd[u], at[u].cur) >= 1
    BY OwnIs
  <2>5. entry[at[u].cur].refcnt > 0
    BY <2>3, <2>4, InCall
  <2>6. CASE at[u].cur = Root
    BY <1>1, <2>6, EntryFacts DEF Core, Sound
  <2>7. CASE at[u].cur \in Slots
    BY <1>1, <2>5, <2>7
  <2>. QED BY <2>3, <2>6, <2>7, EntryFacts
<1>4. e \notin LocksOf(at[u], entry)
  <2>. HIDE DEF e
  <2>. QED BY <1>2, <1>3 DEF LocksOf
<1>5. holder[e] = u => leak[e] > 0 \/ e \in LocksOf(at[u], entry)
  BY <1>1, Zenon DEF Core, LocksExact
<1>. QED BY <1>1, <1>4, <1>5

\* ealloc() takes the entry a second time, as that of a new file.
Remade(t, G) ==
    /\ ETyped(G) /\ Sound(G)
    /\ \A x \in Entries : Owed(G, x) = Owed(entry, x)
    /\ \A y \in Entries \ {at[t].nxt, at[t].cur} : G[y] = entry[y]
    /\ \A y \in Entries \ {at[t].nxt} :
          /\ G[y].parent = entry[y].parent /\ G[y].dir = entry[y].dir
          /\ G[y].uptodate = entry[y].uptodate /\ G[y].name = entry[y].name
    /\ G[at[t].nxt].refcnt = 1 /\ G[at[t].nxt].uptodate = FALSE
    /\ G[at[t].nxt].parent = at[t].cur /\ G[at[t].nxt].name = Head(at[t].rest)

LEMMA AfreshIs ==
    ASSUME Core, NEW t \in Tasks, at[t].pc \in HasNxt, NEW p \in Places \cup {Nowhere}, NEW d \in Dirs \cup {0},
           NEW G, G = Afresh(Last_(Nameless(at[t].nxt), at[t].nxt), at[t].nxt, at[t].cur,
                             Head(at[t].rest), p, d)
    PROVE  Remade(t, G)
<1>. DEFINE dp == at[t].cur
            e == at[t].nxt
            name == Head(at[t].rest)
            F == Last_(Nameless(e), e)
            R == Rename(F, e, dp, name)
            c == entry[dp].clus
            b == (d # 0)
            r == New(dp, name)
            v == [r EXCEPT !.place = p, !.dir = b, !.clus = d, !.home = c]
<1>1. /\ dp \in Entries /\ e \in Slots /\ e \in Entries /\ dp # e /\ ETyped(entry)
      /\ name \in Name /\ entry[dp].dir
  BY LookedIn DEF Core, Typed, Working
<1>2. /\ ETyped(F) /\ Sound(F) /\ F[e] = Unused /\ F[dp].refcnt > 0
      /\ \A x \in Entries : Owed(entry, x) = Owed(F, x) + Ind(x = e)
      /\ \A y \in Entries \ {e, dp} : F[y] = entry[y]
      /\ \A y \in Entries \ {e} :
            /\ F[y].parent = entry[y].parent /\ F[y].dir = entry[y].dir
            /\ F[y].uptodate = entry[y].uptodate /\ F[y].name = entry[y].name
  <2>1. F = Last_(Nameless(at[t].nxt), at[t].nxt)
    OBVIOUS
  <2>. HIDE DEF F
  <2>. QED BY <2>1, LoseFresh
<1>3. c \in Dirs
  <2>1. entry[dp] \in EntryType
    BY <1>1, FieldTypes
  <2>. QED BY <1>1, <2>1 DEF EntryType
<1>4. G = [R EXCEPT ![e] = [@ EXCEPT !.place = p, !.dir = (d # 0), !.clus = d, !.home = c]]
  BY DEF Afresh
<1>. HIDE DEF e, dp, name, F
<1>5. F[e].refcnt = 0
  BY <1>2 DEF Unused
<1>6. /\ ETyped(R) /\ Sound(R) /\ R[e] = r
      /\ \A x \in Entries : Owed(R, x) = Owed(F, x) + Ind(x = e)
  BY <1>1, <1>2, <1>5, OwedRename
<1>7. /\ \A y \in Entries \ {e, dp} : R[y] = F[y]
      /\ \A y \in Entries \ {e} :
            /\ R[y].parent = F[y].parent /\ R[y].dir = F[y].dir
            /\ R[y].uptodate = F[y].uptodate /\ R[y].name = F[y].name
  BY <1>1, <1>2, RenameFrame
<1>8. b \in BOOLEAN /\ (b <=> d \in Dirs)
  BY DiskAssumption
<1>9. r \in EntryType /\ r.refcnt = 1 /\ r.uptodate = FALSE /\ r.parent = dp /\ r.name = name
  <2>1. r \in EntryType
    BY <1>1, <1>6, FieldTypes
  <2>. QED BY <2>1 DEF New, Unused
<1>10. G = [R EXCEPT ![e] = v]
  BY <1>4, <1>6
<1>. HIDE DEF R, c, b, r
<1>11. /\ v \in EntryType /\ v.refcnt = 1 /\ v.uptodate = FALSE /\ v.parent = dp /\ v.name = name
  <2>1. r \in EntryRecord
    BY <1>9 DEF EntryType
  <2>2. v \in EntryRecord /\ v.dir = b /\ v.clus = d
    BY <1>3, <1>8, <2>1 DEF EntryRecord
  <2>3. v \in EntryType
    BY <1>8, <2>2 DEF EntryType
  <2>4. v.refcnt = r.refcnt /\ v.uptodate = r.uptodate /\ v.parent = r.parent /\ v.name = r.name
    BY <2>1 DEF EntryRecord
  <2>. QED BY <1>9, <2>3, <2>4
<1>. HIDE DEF v
<1>12. /\ ETyped(G) /\ G[e] = v /\ \A y \in Entries \ {e} : G[y] = R[y]
  BY <1>1, <1>6, <1>10, <1>11 DEF ETyped
<1>13. /\ Sound(G) /\ \A x \in Entries : Owed(R, x) = Owed(G, x)
  <2>1. \A y \in Entries : R[y].refcnt = G[y].refcnt /\ R[y].parent = G[y].parent
    BY <1>6, <1>9, <1>11, <1>12
  <2>. QED BY <1>6, <2>1, OwedSame
<1>14. \A x \in Entries : Owed(G, x) = Owed(entry, x)
  BY <1>2, <1>6, <1>13
<1>15. \A y \in Entries \ {e, dp} : G[y] = entry[y]
  BY <1>2, <1>7, <1>12
<1>16. \A y \in Entries \ {e} :
          /\ G[y].parent = entry[y].parent /\ G[y].dir = entry[y].dir
          /\ G[y].uptodate = entry[y].uptodate /\ G[y].name = entry[y].name
  BY <1>2, <1>7, <1>12
<1>. QED BY <1>11, <1>12, <1>13, <1>14, <1>15, <1>16, Zenon DEF Remade, e, dp, name

\* A directory that has no free place: what CHOOSE then stands for.
LEMMA FirstPlaceIs ==
    ASSUME NEW dp
    PROVE  FirstPlace(dp) \in Places \cup {Nowhere}
<1>1. CASE FreePlaces(dp) = {}
  BY <1>1 DEF FirstPlace, Nowhere
<1>2. CASE FreePlaces(dp) # {}
  <2>1. FreePlaces(dp) \subseteq Nat
    BY DiskAssumption DEF FreePlaces
  <2>2. Lowest(FreePlaces(dp)) \in FreePlaces(dp)
    BY <1>2, <2>1, LowestIn
  <2>3. FirstPlace(dp) \in FreePlaces(dp)
    BY <2>2 DEF FirstPlace, Lowest
  <2>. QED BY <2>3 DEF FreePlaces
<1>. QED BY <1>1, <1>2

LEMMA AllocateStep ==
    ASSUME Core, NEW t \in Tasks, Allocate(t), kernel' = "running"
    PROVE  CacheStep(t) /\ at[t].pc # "trunc" /\ at'[t].pc # "trunc"
<1>. DEFINE dp == at[t].cur
            e == at[t].nxt
            name == Head(at[t].rest)
<1>1. at[t].pc = "lookup" /\ at[t].pc \in HasNxt
  BY DEF Allocate, At, HasNxt
<1>2. /\ dp \in Entries /\ e \in Slots /\ e \in Entries /\ Typed /\ ETyped(entry) /\ holder[dp] = t
      /\ at[t] \in CallType /\ Shape(at[t]) /\ entry[e].parent = dp /\ Nobody \notin Tasks
      /\ holder \in [Entries -> Tasks \cup {Nobody}] /\ entry[dp].refcnt > 1 /\ dp # e
      /\ at[t].put = NoEntry /\ at[t].then = "user"
  BY <1>1, LookedIn, CacheAssumption DEF Core, Typed
<1>3. \A p \in Places : ETyped(Fill(entry, e, dp, p))
  BY <1>1, FillIs
<1>4. /\ UNCHANGED <<disk, cwd, leak>> /\ Ring(order')
      /\ \/ \E p \in Matches(dp, name) : Put(t, Fill(entry, e, dp, p), holder, e, Refusing(at[t]))
         \/ /\ \E d \in Clusters(t) :
                  entry' = Afresh(Last_(Nameless(e), e), e, dp, name, FirstPlace(dp), d)
            /\ holder' = [holder EXCEPT ![e] = t]
            /\ at' = [at EXCEPT ![t].pc = "make"]
  BY <1>2, <1>3, AllocateIs
<1>5. Creates(at[t])
  BY <1>1, <1>2 DEF Shape, Doing
<1>6. \A u \in Tasks \ {t} : at[u].pc \in HasNxt => at[u].nxt \in Entries /\ at[u].nxt # e /\ at[u].nxt # dp
  <2>1. \A u \in Tasks \ {t} : at[u].pc \in HasNxt => at[u].nxt \in Entries /\ at[u].nxt # e
    BY FreshIsAlone, OwnIs
  <2>2. Own(at[t], cwd[t], dp) >= 1
    BY OwnIs
  <2>. QED BY <1>2, <2>1, <2>2, InCall
<1>7. ASSUME NEW p \in Places, Put(t, Fill(entry, e, dp, p), holder, e, Refusing(at[t]))
      PROVE  CacheStep(t) /\ at'[t].pc # "trunc"
  <2>. DEFINE E == Fill(entry, e, dp, p)
  <2>1. /\ ETyped(E) /\ Sound(E) /\ Near(t, E) /\ E[e].parent = dp
        /\ \A x \in Entries : Owed(E, x) = Owed(entry, x)
        /\ \A y \in Entries \ {e} : E[y] = entry[y]
    BY <1>1, FillIs
  <2>2. \A u \in Tasks \ {t} : at[u].pc \in HasNxt => E[at[u].nxt] = entry[at[u].nxt] /\ at[u].nxt # e
    BY <1>6, <2>1
  <2>3. \A x \in Entries : Owed(E, x) + Ind(e = x) = Owed(entry, x) + Ind(e = x)
    BY <2>1
  <2>4. Put(t, E, holder, e, Refusing(at[t]))
    BY <1>7
  <2>. HIDE DEF E
  <2>. QED BY <1>1, <1>2, <1>4, <1>5, <2>1, <2>2, <2>3, <2>4, RefuseStep
<1>8. ASSUME NEW d \in Clusters(t),
             entry' = Afresh(Last_(Nameless(e), e), e, dp, name, FirstPlace(dp), d),
             holder' = [holder EXCEPT ![e] = t], at' = [at EXCEPT ![t].pc = "make"]
      PROVE  CacheStep(t) /\ at'[t].pc # "trunc"
  <2>. DEFINE G == entry'
              p == FirstPlace(dp)
              r == [at[t] EXCEPT !.pc = "make"]
  <2>1. d \in Dirs \cup {0} /\ p \in Places \cup {Nowhere}
    BY FirstPlaceIs DEF Clusters
  <2>2. entry' = Afresh(Last_(Nameless(at[t].nxt), at[t].nxt), at[t].nxt, at[t].cur, Head(at[t].rest), p, d)
    BY <1>8
  <2>. HIDE DEF p
  <2>2a. Remade(t, entry')
    BY <1>1, <2>1, <2>2, AfreshIs
  <2>. HIDE DEF G
  <2>3. /\ ETyped(G) /\ Sound(G)
        /\ \A x \in Entries : Owed(G, x) = Owed(entry, x)
        /\ \A y \in Entries \ {e, dp} : G[y] = entry[y]
        /\ \A y \in Entries \ {e} :
              /\ G[y].parent = entry[y].parent /\ G[y].dir = entry[y].dir
              /\ G[y].uptodate = entry[y].uptodate /\ G[y].name = entry[y].name
        /\ G[e].refcnt = 1 /\ G[e].uptodate = FALSE /\ G[e].parent = dp /\ G[e].name = name
    BY <2>2a DEF Remade, G
  <2>4. /\ at' \in [Tasks -> CallType] /\ at'[t] = r /\ \A u \in Tasks \ {t} : at'[u] = at[u]
        /\ r.pc = "make" /\ r.cur = dp /\ r.nxt = e /\ r.put = at[t].put /\ r.rest = at[t].rest
        /\ r.call = at[t].call /\ r.then = at[t].then
    <3>1. r \in CallType
      BY <1>2 DEF CallType, Pcs
    <3>2. at' = [at EXCEPT ![t] = r]
      BY <1>8
    <3>. HIDE DEF r
    <3>3. /\ at' \in [Tasks -> CallType] /\ at'[t] = r /\ \A u \in Tasks \ {t} : at'[u] = at[u]
      BY <1>2, <3>1, <3>2 DEF Typed
    <3>. QED BY <1>2, <3>3 DEF CallType, r
  <2>. HIDE DEF r, e, dp, name
  <2>5. Shape(r)
    BY <1>1, <1>2, <2>4 DEF Shape, Doing, HasCur, HasNxt, Walking, Creates, e, dp
  <2>6. /\ holder' \in [Entries -> Tasks \cup {Nobody}]
        /\ holder'[e] = t /\ \A x \in Entries \ {e} : holder'[x] = holder[x]
    BY <1>2, <1>8
  <2>7. Typed'
    BY <1>4, <2>3, <2>4, <2>5, <2>6 DEF Core, Typed, G
  <2>8. Frame(t)
    <3>1. \A u \in Tasks \ {t} : at[u].pc \in HasNxt => G[at[u].nxt] = entry[at[u].nxt]
      BY <1>6, <2>3
    <3>2. \A y \in Entries : G[y].parent = entry[y].parent /\ (y # e => G[y].dir = entry[y].dir)
      BY <1>2, <2>3
    <3>. QED BY <1>4, <2>4, <3>1, <3>2 DEF Frame, G, e
  <2>9. LockStep(t)
    <3>1. LocksOf(r, G) = {dp, e} /\ LocksOf(at[t], entry) = {dp}
      BY <1>1, <2>4 DEF LocksOf, Doing, dp
    <3>2. \A x \in Entries : holder[x] = t => leak[x] > 0 \/ x \in LocksOf(at[t], entry)
      BY DEF Core, LocksExact
    <3>3. \A x \in Entries : leak'[x] = leak[x] /\ leak[x] \in Nat
      BY <1>4 DEF Core, Typed
    <3>4. \A u \in Tasks \ {t} : holder[e] # u
      BY <1>1, FreshIsUnlocked DEF e
    <3>5. holder'[dp] = t
      BY <1>2, <2>6
    <3>6. \A x \in Entries : x \in LocksOf(at'[t], entry') => holder'[x] = t
      BY <2>4, <2>6, <3>1, <3>5 DEF G
    <3>7. \A x \in Entries : holder'[x] = t => leak'[x] > 0 \/ x \in LocksOf(at'[t], entry')
      BY <2>4, <2>6, <3>1, <3>2, <3>3 DEF G
    <3>. QED BY <2>6, <3>3, <3>4, <3>6, <3>7 DEF LockStep
  <2>10. HitStep(t)
    <3>1. \A y \in Slots : G[y].uptodate => y # e /\ Valid(entry, y, G[y].parent, G[y].name)
      BY <2>3, EntryFacts DEF Valid
    <3>2. \A y \in Slots : ~Valid(entry, y, dp, name)
      BY <1>1 DEF Core, OneHit, Valid, dp, name
    <3>3. \A y \in Slots : ~Valid(G, y, dp, name)
      BY <3>1, <3>2 DEF Valid
    <3>. QED BY <2>4, <3>1, <3>3 DEF HitStep, G, dp, name
  <2>11. Working(t)'
    <3>1. G[dp].dir = entry[dp].dir /\ entry[dp].dir /\ name \in Name
      BY <1>1, <1>2, <2>3 DEF Core, Working, dp, name
    <3>. QED BY <2>3, <2>4, <3>1 DEF Working, G, name, dp
  <2>12. ASSUME NEW x \in Entries
         PROVE  Owed(entry', x) + Own(at[t], cwd[t], x) + leak[x]
                    = Owed(entry, x) + Own(at'[t], cwd'[t], x) + leak'[x]
    <3>1. Own(r, cwd[t], x) = Own(at[t], cwd[t], x)
      BY <1>1, <2>4 DEF Own, Ind, e, dp
    <3>. QED BY <1>4, <2>3, <2>4, <3>1 DEF G
  <2>. QED BY <2>3, <2>4, <2>7, <2>8, <2>9, <2>10, <2>11, <2>12 DEF CacheStep, Calm, G
<1>. QED BY <1>1, <1>4, <1>7, <1>8 DEF Matches

\* fcreate() gives the directory back, with the new file in the cache and on the disk.
LEMMA MakeStep ==
    ASSUME Core, NEW t \in Tasks, Make(t), kernel' = "running"
    PROVE  CacheStep(t) /\ at[t].pc # "trunc" /\ at'[t].pc # "trunc"
<1>. DEFINE dp == at[t].cur
            e == at[t].nxt
            name == Head(at[t].rest)
            r == Created(at[t])
            E == [entry EXCEPT ![e].uptodate = TRUE]
            h == [holder EXCEPT ![dp] = Nobody, ![e] = Nobody]
            c == entry[dp].clus
            d == entry[e].clus
            b == entry[e].dir
            q == entry[e].place
            new == [name |-> name, dir |-> b, clus |-> d]
            made == [disk EXCEPT ![c][q] = new]
            empty == [p \in Places |-> Free]
<1>1. at[t].pc = "make" /\ at[t].pc \in HasNxt
  BY Zenon DEF Make, At, HasNxt
<1>2. /\ dp \in Entries /\ e \in Slots /\ e \in Entries /\ Typed /\ ETyped(entry) /\ Sound(entry)
      /\ at[t] \in CallType /\ Shape(at[t]) /\ entry[e].parent = dp /\ Nobody \notin Tasks
      /\ holder \in [Entries -> Tasks \cup {Nobody}] /\ dp # e
      /\ at[t].put = NoEntry /\ at[t].then = "user"
      /\ disk \in [Dirs -> [Places -> PlaceType]]
  BY <1>1, LookedIn, CacheAssumption, Zenon DEF Core, Typed
<1>3. /\ UNCHANGED <<cwd, leak>> /\ Ring(order') /\ Put(t, E, h, dp, r)
      /\ disk' = IF b THEN [made EXCEPT ![d] = empty] ELSE made
  BY <1>2, MakeIs, Zenon
<1>4. name \in Name /\ entry[dp].dir /\ entry[e].name = name
  BY <1>1 DEF Core, Working
<1>5. entry[dp] \in EntryType /\ entry[e] \in EntryType
  BY <1>2, FieldTypes
<1>6. disk' \in [Dirs -> [Places -> PlaceType]]
  <2>1. c \in Dirs
    BY <1>4, <1>5 DEF EntryType
  <2>2. d \in Dirs \cup {0, DataClus} /\ b \in BOOLEAN /\ (b <=> d \in Dirs)
    BY <1>5 DEF EntryType, EntryRecord
  <2>. HIDE DEF c, d, b, q, name
  <2>3. new \in PlaceType
    BY <1>4, <2>2 DEF PlaceType
  <2>. HIDE DEF new
  <2>4. made \in [Dirs -> [Places -> PlaceType]]
    BY <1>2, <2>3
  <2>5. empty \in [Places -> PlaceType]
    <3>1. Free \in PlaceType
      BY DiskAssumption DEF Free, PlaceType
    <3>. QED BY <3>1
  <2>. HIDE DEF made, empty
  <2>. QED BY <1>3, <2>4, <2>5
<1>7. /\ \A y \in Entries \ {e} : E[y] = entry[y]
      /\ E[e].uptodate = TRUE /\ E[e].refcnt = entry[e].refcnt /\ E[e].parent = dp
      /\ E[e].name = name /\ E[e].dir = entry[e].dir /\ ETyped(E)
  <2>. DEFINE f == entry[e]
              v == [f EXCEPT !.uptodate = TRUE]
  <2>1. f \in EntryRecord /\ (f.dir <=> f.clus \in Dirs)
    BY <1>5 DEF EntryType
  <2>2. E = [entry EXCEPT ![e] = v] /\ f.parent = dp /\ f.name = name
    BY <1>2, <1>4
  <2>. HIDE DEF f
  <2>3. /\ v \in EntryRecord /\ v.dir = f.dir /\ v.clus = f.clus /\ v.refcnt = f.refcnt
        /\ v.parent = f.parent /\ v.name = f.name /\ v.uptodate = TRUE
    BY <2>1 DEF EntryRecord
  <2>4. v \in EntryType
    BY <2>1, <2>3 DEF EntryType
  <2>. HIDE DEF v
  <2>5. E[e] = v /\ ETyped(E) /\ \A y \in Entries \ {e} : E[y] = entry[y]
    BY <1>2, <2>2, <2>4 DEF ETyped
  <2>. QED BY <2>2, <2>3, <2>5 DEF f
<1>. HIDE DEF E
<1>8. Sound(E) /\ \A x \in Entries : Owed(E, x) = Owed(entry, x)
  <2>1. \A y \in Entries : entry[y].refcnt = E[y].refcnt /\ entry[y].parent = E[y].parent
    BY <1>2, <1>7
  <2>. QED BY <1>2, <2>1, OwedSame
<1>9. Near(t, E)
  <2>1. \A y \in Entries : E[y].parent = entry[y].parent /\ E[y].dir = entry[y].dir
    BY <1>2, <1>7
  <2>2. \A y \in Slots \ {e} : E[y].uptodate => Valid(entry, y, E[y].parent, E[y].name)
    BY <1>7, EntryFacts DEF Valid
  <2>. QED BY <1>1, <1>7, <2>1, <2>2 DEF Near
<1>10. Spared(t, E, dp)
  <2>1. \A u \in Tasks \ {t} : at[u].pc \in HasNxt => at[u].nxt \in Entries /\ at[u].nxt # e
    BY FreshIsAlone, OwnIs
  <2>2. Own(at[t], cwd[t], dp) >= 1
    BY OwnIs
  <2>. QED BY <1>2, <1>7, <1>9, <2>1, <2>2, SparedBy
<1>11. /\ r \in CallType /\ r.pc \in {"arrived", "drop"} /\ r.cur = e /\ r.nxt = NoEntry
       /\ r.put = NoEntry /\ r.then = "user" /\ r.rest = <<>>
       /\ r.pc = "arrived" => r.call = "open"
  <2>. DEFINE n == [at[t] EXCEPT !.cur = e, !.nxt = NoEntry, !.rest = <<>>]
              s == [n EXCEPT !.pc = "arrived", !.call = "open"]
              m == [n EXCEPT !.pc = "drop"]
  <2>1. r = IF at[t].call = "creat" THEN s ELSE m
    BY DEF Created
  <2>2. /\ n \in CallType /\ n.cur = e /\ n.nxt = NoEntry /\ n.put = NoEntry
        /\ n.then = "user" /\ n.rest = <<>>
    <3>1. <<>> \in Seq(Name \cup {Dot, DotDot})
      OBVIOUS
    <3>. QED BY <1>2, <3>1, EntryFacts DEF CallType
  <2>. HIDE DEF r, n, e
  <2>3. /\ s \in CallType /\ s.pc = "arrived" /\ s.call = "open" /\ s.cur = e /\ s.nxt = NoEntry
        /\ s.put = NoEntry /\ s.then = "user" /\ s.rest = <<>>
    BY <2>2 DEF CallType, Pcs, Calls
  <2>4. /\ m \in CallType /\ m.pc = "drop" /\ m.cur = e /\ m.nxt = NoEntry
        /\ m.put = NoEntry /\ m.then = "user" /\ m.rest = <<>>
    BY <2>2 DEF CallType, Pcs
  <2>. HIDE DEF s, m
  <2>. QED BY <2>1, <2>3, <2>4
<1>. HIDE DEF r, h
<1>12. Continues(r)
  <2>1. Len(r.rest) = 0 /\ r.cur # NoEntry
    BY <1>2, <1>11, EntryFacts
  <2>2. Shape(r)
    BY <1>11, <2>1 DEF Shape, Doing, HasCur, HasNxt, Walking, Creates
  <2>. QED BY <1>11, <2>2 DEF Continues, Resumes
<1>13. LocksFit(t, h, r)
  <2>1. LocksOf(at[t], entry) = {dp, e}
    BY <1>1 DEF LocksOf, Doing
  <2>2. \A x \in Entries : holder[x] = t => leak[x] > 0 \/ x \in {dp, e}
    BY <2>1 DEF Core, LocksExact
  <2>3. holder[dp] = t /\ holder[e] = t
    BY <1>2, <2>1 DEF Core, LocksExact
  <2>4. /\ h \in [Entries -> Tasks \cup {Nobody}] /\ h[dp] = Nobody /\ h[e] = Nobody
        /\ \A x \in Entries \ {dp, e} : h[x] = holder[x]
    BY <1>2 DEF h
  <2>. HIDE DEF dp, e
  <2>. QED BY <1>2, <1>11, <2>2, <2>3, <2>4 DEF LocksFit
<1>14. Settled(t, E, dp, r)
  <2>1. ASSUME NEW x \in Entries
        PROVE  Owed(E, x) + Own(at[t], cwd[t], x) = Owed(entry, x) + Own(r, cwd[t], x) + Ind(x = dp)
    <3>. DEFINE o == Owed(entry, x)
                a == Own(at[t], cwd[t], x)
                g == Own(r, cwd[t], x)
                i == Ind(x = dp)
                j == Ind(e = x)
                w == Ind(cwd[t] = x)
    <3>1. a = i + j + 0 + w /\ g = j + 0 + 0 + w
      <4>1. r.nxt # x /\ r.put # x /\ at[t].put # x
        BY <1>2, <1>11, EntryFacts
      <4>. QED BY <1>1, <1>2, <1>11, <4>1 DEF Own, Ind
    <3>2. o \in Int /\ i \in Nat /\ j \in Nat /\ w \in Nat
      <4>1. entry[x].refcnt \in Nat
        BY <1>2, FieldTypes
      <4>. QED BY <4>1, FiniteBelow DEF Owed, Ind
    <3>3. Owed(E, x) = o
      BY <1>8
    <3>. HIDE DEF o, a, g, i, j, w
    <3>4. o + a = o + g + i
      BY <3>1, <3>2, SMTT(30)
    <3>. QED BY <3>3, <3>4 DEF a, g, i, o
  <2>. QED BY <2>1 DEF Settled
<1>. HIDE DEF dp
<1>15. CacheStep(t) /\ at'[t].pc # "trunc"
  BY <1>2, <1>3, <1>6, <1>7, <1>8, <1>9, <1>10, <1>12, <1>13, <1>14, PutStep, Zenon
<1>. QED BY <1>1, <1>15, Zenon

\* rm() ends: the file's place is free and the entry has lost its name.
LEMMA RemoveStep ==
    ASSUME Core, NEW t \in Tasks, RemoveFile(t), kernel' = "running"
    PROVE  CacheStep(t) /\ at[t].pc # "trunc" /\ at'[t].pc # "trunc"
<1>. DEFINE e == at[t].cur
            dp == entry[e].parent
            E == Removed(e)
            h == [holder EXCEPT ![e] = Nobody, ![dp] = Nobody]
            c == entry[dp].clus
            q == entry[e].place
<1>1. at[t].pc = "remove"
  BY Zenon DEF RemoveFile, At
<1>2. /\ e \in Entries /\ Own(at[t], cwd[t], e) >= 1 /\ Typed /\ ETyped(entry) /\ Sound(entry)
      /\ at[t] \in CallType /\ Shape(at[t]) /\ Nobody \notin Tasks
      /\ holder \in [Entries -> Tasks \cup {Nobody}]
      /\ disk \in [Dirs -> [Places -> PlaceType]]
  BY <1>1, TakenByCall, OwnIs, CacheAssumption, Zenon DEF HasCur, Core, Typed
<1>3. /\ UNCHANGED <<cwd, leak>> /\ Ring(order') /\ Put(t, E, h, e, User)
      /\ disk' = [disk EXCEPT ![c][q] = Free]
  BY <1>2, RemoveFileIs, Zenon
<1>4. at[t].nxt = NoEntry /\ at[t].put = NoEntry /\ at[t].then = "user"
  BY <1>1, <1>2 DEF Shape, Doing, HasNxt
<1>5. dp \in Entries /\ \A u \in Tasks \ {t} : at[u].pc \in HasNxt => at[u].nxt # e
  BY <1>2, InCall
<1>6. disk' \in [Dirs -> [Places -> PlaceType]]
  <2>1. Free \in PlaceType
    BY DiskAssumption DEF Free, PlaceType
  <2>. HIDE DEF c, q
  <2>. QED BY <1>2, <1>3, <2>1
<1>7. /\ \A y \in Entries \ {e} : E[y] = entry[y]
      /\ E[e].refcnt = entry[e].refcnt /\ E[e].parent = dp
      /\ E[e].name = NoName /\ E[e].dir = entry[e].dir /\ ETyped(E)
  <2>. DEFINE f == entry[e]
              v == [f EXCEPT !.dirty = FALSE, !.name = NoName]
  <2>1. f \in EntryRecord /\ (f.dir <=> f.clus \in Dirs)
    BY <1>2, FieldTypes DEF EntryType
  <2>2. E = [entry EXCEPT ![e] = v] /\ f.parent = dp
    BY DEF Removed
  <2>. HIDE DEF f, e, dp
  <2>3. /\ v \in EntryRecord /\ v.dir = f.dir /\ v.clus = f.clus /\ v.refcnt = f.refcnt
        /\ v.parent = f.parent /\ v.name = NoName
    BY <2>1 DEF EntryRecord
  <2>4. v \in EntryType
    BY <2>1, <2>3 DEF EntryType
  <2>. HIDE DEF v, E
  <2>5. E[e] = v /\ ETyped(E) /\ \A y \in Entries \ {e} : E[y] = entry[y]
    BY <1>2, <2>2, <2>4 DEF ETyped
  <2>. QED BY <2>2, <2>3, <2>5 DEF f
<1>. HIDE DEF E
<1>8. Sound(E) /\ \A x \in Entries : Owed(E, x) = Owed(entry, x)
  <2>1. \A y \in Entries : entry[y].refcnt = E[y].refcnt /\ entry[y].parent = E[y].parent
    BY <1>2, <1>7
  <2>. QED BY <1>2, <2>1, OwedSame
<1>9. Near(t, E)
  <2>1. \A y \in Entries : E[y].parent = entry[y].parent /\ E[y].dir = entry[y].dir
    BY <1>2, <1>7
  <2>2. \A y \in Slots : E[y].uptodate /\ E[y].name # NoName => Valid(entry, y, E[y].parent, E[y].name)
    BY <1>7, EntryFacts DEF Valid
  <2>. QED BY <2>1, <2>2 DEF Near
<1>10. Spared(t, E, e)
  <2>1. \A u \in Tasks \ {t} : at[u].pc \in HasNxt => at[u].nxt \in Entries /\ at[u].nxt # e
    BY <1>5, FreshIsAlone
  <2>. QED BY <1>2, <1>7, <1>9, <2>1, SparedBy
<1>. HIDE DEF h
<1>11. LocksFit(t, h, User)
  <2>1. LocksOf(at[t], entry) = {e, dp}
    BY <1>1 DEF LocksOf, Doing
  <2>2. \A x \in Entries : holder[x] = t => leak[x] > 0 \/ x \in {e, dp}
    BY <2>1 DEF Core, LocksExact
  <2>3. holder[dp] = t /\ holder[e] = t
    BY <1>2, <1>5, <2>1 DEF Core, LocksExact
  <2>4. /\ h \in [Entries -> Tasks \cup {Nobody}] /\ h[dp] = Nobody /\ h[e] = Nobody
        /\ \A x \in Entries \ {e, dp} : h[x] = holder[x]
    BY <1>2, <1>5 DEF h
  <2>. HIDE DEF dp, e
  <2>. QED BY <1>2, <2>2, <2>3, <2>4, UserIs DEF LocksFit
<1>12. Settled(t, E, e, User)
  <2>1. ASSUME NEW x \in Entries
        PROVE  Owed(E, x) + Own(at[t], cwd[t], x) = Owed(entry, x) + Own(User, cwd[t], x) + Ind(x = e)
    <3>. DEFINE o == Owed(entry, x)
                a == Own(at[t], cwd[t], x)
                g == Own(User, cwd[t], x)
                i == Ind(x = e)
    <3>1. a = g + i + 0
      <4>1. Ind(at[t].cur = x) = i /\ Ind(at[t].nxt = x) = 0 /\ at[t].pc # "chdir"
        BY <1>1, <1>4, EntryFacts DEF Ind
      <4>. QED BY <1>4, <4>1, OwnEnds
    <3>2. o \in Int /\ i \in Nat /\ g \in Nat
      <4>1. entry[x].refcnt \in Nat
        BY <1>2, FieldTypes
      <4>. QED BY <4>1, FiniteBelow, OwnIs DEF Owed, Ind
    <3>3. Owed(E, x) = o
      BY <1>8
    <3>. HIDE DEF o, a, g, i
    <3>4. o + a = o + g + i
      BY <3>1, <3>2
    <3>. QED BY <3>3, <3>4 DEF a, g, i, o
  <2>. QED BY <2>1 DEF Settled
<1>. HIDE DEF e
<1>13. CacheStep(t) /\ at'[t].pc # "trunc"
  BY <1>2, <1>3, <1>6, <1>7, <1>8, <1>9, <1>10, <1>11, <1>12, UserIs, PutStep
<1>. QED BY <1>1, <1>13, Zenon

\* cd() gives the old directory back, or what is no directory.
LEMMA ChdirStep ==
    ASSUME Core, NEW t \in Tasks, Chdir(t), kernel' = "running"
    PROVE  CacheStep(t) /\ at[t].pc # "trunc" /\ at'[t].pc # "trunc"
<1>. DEFINE e == cwd[t]
            r == [at[t] EXCEPT !.pc = "chdir"]
<1>1. at[t].pc = "arrived" /\ at[t].call = "chdir"
  BY DEF Chdir, At
<1>2. /\ at[t].cur \in Entries /\ Typed /\ ETyped(entry) /\ Sound(entry)
      /\ at[t] \in CallType /\ Shape(at[t]) /\ Nobody \notin Tasks
      /\ holder \in [Entries -> Tasks \cup {Nobody}]
      /\ disk \in [Dirs -> [Places -> PlaceType]] /\ e \in Entries
  BY <1>1, TakenByCall, CacheAssumption DEF HasCur, Walking, Core, Typed
<1>3. /\ UNCHANGED <<disk, cwd, leak>> /\ Ring(order')
      /\ \/ Put(t, entry, holder, e, r)
         \/ Put(t, entry, holder, at[t].cur, User)
  BY <1>2, ChdirIs
<1>4. CASE Put(t, entry, holder, at[t].cur, User)
  BY <1>1, <1>3, <1>4, EndingStep
<1>5. CASE Put(t, entry, holder, e, r)
  <2>1. at[t].nxt = NoEntry /\ at[t].put = NoEntry /\ at[t].then = "user" /\ at[t].cur # NoEntry
    BY <1>1, <1>2 DEF Shape, Doing, HasNxt, HasCur, Walking
  <2>2. /\ r \in CallType /\ r.pc = "chdir" /\ r.cur = at[t].cur /\ r.nxt = NoEntry
        /\ r.put = NoEntry /\ r.then = "user" /\ r.call = "chdir"
    BY <1>1, <1>2, <2>1 DEF CallType, Pcs
  <2>. HIDE DEF r
  <2>3. Continues(r)
    <3>1. Shape(r)
      BY <2>1, <2>2 DEF Shape, Doing, HasCur, HasNxt, Walking, Creates
    <3>. QED BY <2>2, <3>1 DEF Continues, Resumes
  <2>4. LocksFit(t, holder, r)
    <3>1. LocksOf(at[t], entry) = {}
      BY <1>1 DEF LocksOf, Doing
    <3>2. \A x \in Entries : holder[x] = t => leak[x] > 0
      BY <3>1 DEF Core, LocksExact
    <3>. QED BY <1>2, <2>2, <3>2 DEF LocksFit
  <2>5. Near(t, entry) /\ Spared(t, entry, e)
    <3>1. Own(at[t], cwd[t], e) >= 1
      BY <1>1, <2>1, OwnIs
    <3>. QED BY <1>2, <3>1, NearPlus, SparedBy
  <2>6. Settled(t, entry, e, r)
    <3>1. ASSUME NEW x \in Entries
          PROVE  Owed(entry, x) + Own(at[t], cwd[t], x) = Owed(entry, x) + Own(r, cwd[t], x) + Ind(x = e)
      <4>. DEFINE o == Owed(entry, x)
                  a == Own(at[t], cwd[t], x)
                  g == Own(r, cwd[t], x)
                  i == Ind(x = e)
                  j == Ind(at[t].cur = x)
      <4>1. a = j + 0 + 0 + i /\ g = j + 0 + 0 + 0
        <5>1. NoEntry # x
          BY EntryFacts
        <5>. QED BY <1>1, <2>1, <2>2, <5>1 DEF Own, Ind
      <4>2. o \in Int /\ i \in Nat /\ j \in Nat
        <5>1. entry[x].refcnt \in Nat
          BY <1>2, FieldTypes
        <5>. QED BY <5>1, FiniteBelow DEF Owed, Ind
      <4>. HIDE DEF o, a, g, i, j
      <4>3. o + a = o + g + i
        BY <4>1, <4>2
      <4>. QED BY <4>3 DEF a, g, i, o
    <3>. QED BY <3>1 DEF Settled
  <2>7. disk' \in [Dirs -> [Places -> PlaceType]]
    BY <1>2, <1>3
  <2>. HIDE DEF e
  <2>8. CacheStep(t) /\ at'[t].pc # "trunc"
    BY <1>2, <1>3, <1>5, <2>3, <2>4, <2>5, <2>6, <2>7, PutStep
  <2>. QED BY <1>1, <2>8
<1>. QED BY <1>3, <1>4, <1>5

\* eput() has written the entry and gives it back.
LEMMA FlushStep ==
    ASSUME Core, NEW t \in Tasks, Flush(t), kernel' = "running"
    PROVE  CacheStep(t) /\ at[t].pc # "trunc" /\ at'[t].pc # "trunc"
<1>. DEFINE e == at[t].put
            dp == entry[e].parent
            E == Clean(e)
            F == entry'
            r == Resumed(at[t])
            c == entry[dp].clus
            q == entry[e].place
<1>1. at[t].pc = "flush"
  BY DEF Flush, At
<1>2. /\ e \in Slots /\ e \in Entries /\ Own(at[t], cwd[t], e) >= 1 /\ Typed
      /\ ETyped(entry) /\ Sound(entry) /\ at \in [Tasks -> CallType]
      /\ at[t] \in CallType /\ Shape(at[t]) /\ Nobody \notin Tasks
      /\ holder \in [Entries -> Tasks \cup {Nobody}]
      /\ disk \in [Dirs -> [Places -> PlaceType]]
  BY <1>1, TakenByCall, OwnIs, CacheAssumption, EntryFacts DEF Core, Typed
<1>3. /\ UNCHANGED <<cwd, leak>> /\ Ring(order') /\ disk' = Updated(e)
      /\ entry[e].refcnt = 1 /\ entry[dp].refcnt > 1 /\ F = Last_(E, e)
      /\ holder' = [holder EXCEPT ![e] = Nobody] /\ at' = [at EXCEPT ![t] = r]
  BY <1>2, FlushIs
<1>4. /\ dp \in Entries /\ dp # e
      /\ \A u \in Tasks \ {t} : at[u].pc \in HasNxt => at[u].nxt # e /\ at[u].nxt # dp
  BY <1>2, InCall
<1>5. Own(at[t], cwd[t], e) = 1
  BY <1>2, <1>3, OnlyReference DEF Core
<1>6. at[t].cur # e
  <2>1. at[t].cur = e => Own(at[t], cwd[t], e) >= 2
    BY DEF Own, Ind
  <2>. QED BY <1>5, <2>1
<1>7. entry[e] \in EntryType
  BY <1>2, FieldTypes
<1>8. disk' \in [Dirs -> [Places -> PlaceType]]
  <2>. DEFINE b == entry[e].dir
              d == entry[e].clus
  <2>1. disk' = [disk EXCEPT ![c][q] = [@ EXCEPT !.dir = b, !.clus = d]]
    BY <1>3, Zenon DEF Updated
  <2>2. b \in BOOLEAN /\ d \in Dirs \cup {0, DataClus} /\ (b <=> d \in Dirs)
    BY <1>7 DEF EntryType, EntryRecord
  <2>. DEFINE v == [disk[c][q] EXCEPT !.dir = b, !.clus = d]
  <2>3. c \in Dirs /\ q \in Places => v \in PlaceType
    <3>. HIDE DEF b, c, d, q
    <3>1. ASSUME c \in Dirs, q \in Places PROVE v \in PlaceType
      <4>1. disk[c][q] \in PlaceType
        BY <1>2, <3>1
      <4>. QED BY <2>2, <4>1, Zenon DEF PlaceType
    <3>. QED BY <3>1
  <2>4. disk' = [disk EXCEPT ![c][q] = v]
    BY <2>1, Zenon
  <2>. HIDE DEF b, c, d, q, v
  <2>. QED BY <1>2, <2>3, <2>4
<1>9. /\ \A y \in Entries \ {e} : E[y] = entry[y]
      /\ E[e].refcnt = entry[e].refcnt /\ E[e].parent = dp /\ E[e].uptodate = entry[e].uptodate
      /\ E[e].name = entry[e].name /\ E[e].dir = entry[e].dir /\ ETyped(E)
  <2>. DEFINE f == entry[e]
              v == [f EXCEPT !.dirty = FALSE]
  <2>1. f \in EntryRecord /\ (f.dir <=> f.clus \in Dirs)
    BY <1>7 DEF EntryType
  <2>2. E = [entry EXCEPT ![e] = v] /\ f.parent = dp
    BY DEF Clean
  <2>. HIDE DEF f, e, dp
  <2>3. /\ v \in EntryRecord /\ v.dir = f.dir /\ v.clus = f.clus /\ v.refcnt = f.refcnt
        /\ v.parent = f.parent /\ v.name = f.name /\ v.uptodate = f.uptodate
    BY <2>1 DEF EntryRecord
  <2>4. v \in EntryType
    BY <2>1, <2>3 DEF EntryType
  <2>. HIDE DEF v, E
  <2>5. E[e] = v /\ ETyped(E) /\ \A y \in Entries \ {e} : E[y] = entry[y]
    BY <1>2, <2>2, <2>4 DEF ETyped
  <2>. QED BY <2>2, <2>3, <2>5 DEF f
<1>. HIDE DEF E
<1>10. Sound(E) /\ \A x \in Entries : Owed(E, x) = Owed(entry, x)
  <2>1. \A y \in Entries : entry[y].refcnt = E[y].refcnt /\ entry[y].parent = E[y].parent
    BY <1>2, <1>9
  <2>. QED BY <1>2, <2>1, OwedSame
<1>. HIDE DEF F
<1>11. /\ ETyped(F) /\ Sound(F) /\ GivenBack(E, F, e)
       /\ \A x \in Entries : Owed(E, x) = Owed(F, x) + Ind(x = e)
  BY <1>2, <1>3, <1>4, <1>9, <1>10, OwedLast
<1>12. Slight(E, F)
  BY <1>2, <1>9, <1>11, SlightLast
<1>13. \A y \in Entries \ {e, dp} : F[y] = entry[y]
  BY <1>9, <1>11 DEF GivenBack
<1>14. /\ r \in CallType /\ r.pc = at[t].then /\ r.cur = at[t].cur /\ r.nxt = at[t].nxt
       /\ r.put = NoEntry /\ r.then = "user" /\ r.rest = at[t].rest /\ r.call = at[t].call
       /\ at[t].then \in Resumes
  <2>1. at[t].then \in Resumes /\ at[t].then \in Pcs
    BY <1>1, <1>2 DEF Shape, CallType
  <2>. QED BY <1>2, <2>1 DEF Resumed, CallType, Pcs
<1>. HIDE DEF r
<1>15. Shape(r)
  <2>1. Doing(r) = Doing(at[t])
    BY <1>1, <1>14 DEF Doing, Resumes
  <2>. QED BY <1>1, <1>2, <1>14, <2>1 DEF Shape, Resumes, Creates
<1>16. /\ at' \in [Tasks -> CallType] /\ at'[t] = r /\ \A u \in Tasks \ {t} : at'[u] = at[u]
  BY <1>2, <1>3, <1>14
<1>17. /\ holder' \in [Entries -> Tasks \cup {Nobody}]
       /\ holder'[e] = Nobody /\ \A x \in Entries \ {e} : holder'[x] = holder[x]
  BY <1>2, <1>3
<1>18. Typed'
  BY <1>3, <1>8, <1>11, <1>15, <1>16, <1>17 DEF Core, Typed, F
<1>19. Frame(t)
  <2>1. \A u \in Tasks \ {t} : at[u].pc \in HasNxt => F[at[u].nxt] = entry[at[u].nxt]
    <3>1. \A u \in Tasks \ {t} : at[u].pc \in HasNxt => at[u].nxt \in Entries
      BY FreshIsAlone
    <3>. QED BY <1>4, <1>13, <3>1
  <2>2. \A y \in Entries : E[y].parent = entry[y].parent /\ E[y].dir = entry[y].dir
    BY <1>9
  <2>3. \A y \in Entries : F[y].refcnt > 0 => F[y].parent = entry[y].parent /\ F[y].dir = entry[y].dir
    BY <1>12, <2>2 DEF Slight
  <2>. QED BY <1>3, <1>16, <2>1, <2>3 DEF Frame, F
<1>20. LockStep(t)
  <2>. DEFINE p == at[t].then
              l == IF p = "giveUp" THEN {at[t].cur} ELSE {}
  <2>1. p \in Resumes
    BY <1>14
  <2>2. LocksOf(at[t], entry) = l \cup {e} /\ LocksOf(r, F) = l
    BY <1>1, <1>14, <2>1 DEF LocksOf, Doing, Resumes
  <2>3. \A x \in Entries : /\ x \in LocksOf(at[t], entry) => holder[x] = t
                           /\ holder[x] = t => leak[x] > 0 \/ x \in LocksOf(at[t], entry)
    BY DEF Core, LocksExact
  <2>4. e \notin l /\ holder[e] = t
    BY <1>2, <1>6, <2>2, <2>3
  <2>5. \A x \in Entries : leak'[x] = leak[x] /\ leak[x] \in Nat
    BY <1>3 DEF Core, Typed
  <2>. HIDE DEF l, e
  <2>6. \A x \in Entries : \A u \in Tasks \ {t} : holder'[x] = u <=> holder[x] = u
    BY <1>2, <1>17, <2>4
  <2>7. \A x \in Entries : x \in LocksOf(at'[t], entry') => holder'[x] = t
    BY <1>16, <1>17, <2>2, <2>3, <2>4 DEF F
  <2>8. \A x \in Entries : holder'[x] = t => leak'[x] > 0 \/ x \in LocksOf(at'[t], entry')
    BY <1>2, <1>16, <1>17, <2>2, <2>3, <2>5 DEF F
  <2>. QED BY <2>5, <2>6, <2>7, <2>8 DEF LockStep
<1>21. HitStep(t)
  <2>1. at'[t].pc \notin HasNxt
    BY <1>14, <1>16 DEF Resumes, HasNxt
  <2>2. \A y \in Entries : /\ E[y].parent = entry[y].parent /\ E[y].name = entry[y].name
                           /\ E[y].uptodate = entry[y].uptodate
    BY <1>9
  <2>3. \A y \in Slots : F[y].uptodate /\ F[y].name # NoName
                             => Valid(entry, y, F[y].parent, F[y].name)
    BY <1>12, <2>2, EntryFacts DEF Slight, Valid
  <2>. QED BY <2>1, <2>3 DEF HitStep, F
<1>22. Working(t)' /\ r.pc # "trunc"
  BY <1>14, <1>16 DEF Working, HasNxt, Resumes
<1>23. ASSUME NEW x \in Entries
       PROVE  Owed(F, x) + Own(at[t], cwd[t], x) + leak[x]
                  = Owed(entry, x) + Own(r, cwd[t], x) + leak[x]
  <2>. DEFINE o == Owed(entry, x)
              a == Own(at[t], cwd[t], x)
              g == Own(r, cwd[t], x)
              i == Ind(x = e)
              p == Owed(F, x)
              l == leak[x]
  <2>1. a = g + i
    <3>. DEFINE j == Ind(at[t].cur = x)
                k == Ind(at[t].nxt = x)
                m == Ind(cwd[t] = x /\ at[t].then # "chdir")
    <3>1. a = j + k + i + m /\ g = j + k + 0 + m
      BY <1>1, <1>14, EntryFacts DEF Own, Ind
    <3>2. j \in Nat /\ k \in Nat /\ i \in Nat /\ m \in Nat
      BY DEF Ind
    <3>. HIDE DEF a, g, i, j, k, m
    <3>. QED BY <3>1, <3>2
  <2>2. o = p + i
    BY <1>10, <1>11
  <2>3. p \in Int /\ i \in Nat /\ g \in Nat /\ l \in Nat
    <3>1. F[x].refcnt \in Nat /\ l \in Nat
      BY <1>11, FieldTypes DEF Core, Typed
    <3>. QED BY <3>1, FiniteBelow, OwnIs DEF Owed, Ind
  <2>. HIDE DEF o, a, g, i, p, l
  <2>4. p + a + l = o + g + l
    BY <2>1, <2>2, <2>3
  <2>. QED BY <2>4 DEF o, a, g, p, l
<1>24. \A x \in Entries : Owed(entry', x) + Own(at[t], cwd[t], x) + leak[x]
                              = Owed(entry, x) + Own(at'[t], cwd'[t], x) + leak'[x]
  BY <1>3, <1>16, <1>23 DEF F
<1>. QED BY <1>1, <1>11, <1>16, <1>18, <1>19, <1>20, <1>21, <1>22, <1>24 DEF CacheStep, Calm, F

-----------------------------------------------------------------------------
(* Steps without eget() and eput().                                        *)

\* The entries F differ from E in nothing that says which file each of them is.
SameFiles(E, F) ==
    \A y \in Entries : /\ F[y].parent = E[y].parent /\ F[y].dir = E[y].dir
                       /\ F[y].uptodate = E[y].uptodate /\ F[y].name = E[y].name

\* The locks of the call r are those that t holds, and no other task's change.
LocksKeep(t, r) ==
    /\ holder' \in [Entries -> Tasks \cup {Nobody}]
    /\ \A x \in Entries : \A u \in Tasks \ {t} : holder'[x] = u <=> holder[x] = u
    /\ \A x \in Entries : /\ x \in LocksOf(r, entry') => holder'[x] = t
                          /\ holder'[x] = t => leak'[x] > 0 \/ x \in LocksOf(r, entry')

LEMMA PlainCalm ==
    ASSUME Core, NEW t \in Tasks, NEW r \in CallType, Shape(r), at' = [at EXCEPT ![t] = r],
           r.pc \notin HasNxt, r.pc \in {"trunc", "empty"} => ~entry[r.cur].dir, r.pc \in HasCur => r.cur \in Entries,
           ETyped(entry'), Sound(entry'), SameFiles(entry, entry'),
           \A u \in Tasks \ {t} : at[u].pc \in HasNxt => entry'[at[u].nxt] = entry[at[u].nxt],
           Ring(order'), disk' = disk, cwd' \in [Tasks -> Entries],
           \A u \in Tasks \ {t} : cwd'[u] = cwd[u],
           leak' \in [Entries -> Nat], \A x \in Entries : leak'[x] >= leak[x], LocksKeep(t, r)
    PROVE  Calm(t) /\ at'[t] = r
<1>1. at' \in [Tasks -> CallType] /\ at'[t] = r /\ \A u \in Tasks \ {t} : at'[u] = at[u]
  BY DEF Core, Typed
<1>2. Typed'
  BY <1>1 DEF Core, Typed, LocksKeep
<1>3. Frame(t)
  BY <1>1 DEF Frame, SameFiles
<1>4. LockStep(t)
  BY <1>1 DEF LockStep, LocksKeep
<1>5. HitStep(t)
  BY <1>1, EntryFacts DEF HitStep, Valid, SameFiles
<1>6. Working(t)'
  BY <1>1 DEF Working, SameFiles, HasCur
<1>. QED BY <1>1, <1>2, <1>3, <1>4, <1>5, <1>6 DEF Calm

\* The content of a file changes, and with it what its entry says.
Content(e, c) == [entry EXCEPT ![e].clus = c, ![e].dirty = TRUE]

LEMMA ContentIs ==
    ASSUME ETyped(entry), Sound(entry), NEW e \in Entries, ~entry[e].dir, NEW c \in {0, DataClus},
           NEW F, F = Content(e, c)
    PROVE  /\ ETyped(F) /\ Sound(F) /\ SameFiles(entry, F)
           /\ \A x \in Entries : Owed(F, x) = Owed(entry, x)
           /\ \A y \in Entries \ {e} : F[y] = entry[y]
<1>. DEFINE f == entry[e]
            v == [f EXCEPT !.clus = c, !.dirty = TRUE]
<1>1. f \in EntryRecord /\ ~f.dir
  BY FieldTypes DEF EntryType
<1>2. F = [entry EXCEPT ![e] = v]
  BY DEF Content
<1>. HIDE DEF f
<1>3. /\ v \in EntryRecord /\ v.dir = f.dir /\ v.clus = c /\ v.refcnt = f.refcnt
      /\ v.parent = f.parent /\ v.name = f.name /\ v.uptodate = f.uptodate
  BY <1>1 DEF EntryRecord
<1>4. v \in EntryType
  BY <1>1, <1>3, DiskAssumption DEF EntryType
<1>. HIDE DEF v
<1>5. ETyped(F) /\ F[e] = v /\ \A y \in Entries \ {e} : F[y] = entry[y]
  BY <1>2, <1>4 DEF ETyped
<1>6. SameFiles(entry, F) /\ \A y \in Entries : entry[y].refcnt = F[y].refcnt /\ entry[y].parent = F[y].parent
  BY <1>3, <1>5 DEF SameFiles, f
<1>7. Sound(F) /\ \A x \in Entries : Owed(entry, x) = Owed(F, x)
  <2>1. \A y \in Entries : entry[y].refcnt = F[y].refcnt /\ entry[y].parent = F[y].parent
    BY <1>6
  <2>. QED BY <2>1, OwedSame
<1>. QED BY <1>5, <1>6, <1>7

\* rm() goes on to its next step.
LEMMA MovesOn ==
    ASSUME NEW a \in CallType, Shape(a), a.pc \in {"arrived", "empty", "lockParent"},
           NEW p \in {"empty", "lockParent", "remove"}, NEW r, r = [a EXCEPT !.pc = p]
    PROVE  /\ r \in CallType /\ Shape(r) /\ r.pc = p /\ r.cur = a.cur /\ Doing(r) = p
           /\ \A w, x : Own(r, w, x) = Own(a, w, x)
<1>1. /\ a.nxt = NoEntry /\ a.put = NoEntry /\ a.then = "user" /\ a.cur # NoEntry
  BY DEF Shape, Doing, HasNxt, HasCur, Walking
<1>2. /\ r \in CallType /\ r.pc = p /\ r.cur = a.cur /\ r.nxt = a.nxt /\ r.put = a.put
      /\ r.then = a.then /\ r.rest = a.rest /\ r.call = a.call
  BY DEF CallType, Pcs
<1>3. Doing(r) = p
  BY <1>2 DEF Doing
<1>4. Shape(r)
  BY <1>1, <1>2, <1>3 DEF Shape, HasCur, HasNxt, Walking, Creates
<1>5. \A w, x : Own(r, w, x) = Own(a, w, x)
  BY <1>2 DEF Own
<1>. QED BY <1>2, <1>3, <1>4, <1>5

\* When nothing but the call changes, what it holds stays what the others see.
LEMMA PlainStep ==
    ASSUME Core, NEW t \in Tasks, Calm(t), at[t].pc # "trunc", at'[t].pc # "trunc",
           \A x \in Entries : Owed(entry', x) = Owed(entry, x),
           \A x \in Entries : Own(at[t], cwd[t], x) + leak[x] = Own(at'[t], cwd'[t], x) + leak'[x]
    PROVE  CacheStep(t)
<1>1. ASSUME NEW x \in Entries
      PROVE  Owed(entry', x) + Own(at[t], cwd[t], x) + leak[x]
                 = Owed(entry, x) + Own(at'[t], cwd'[t], x) + leak'[x]
  <2>. DEFINE o == Owed(entry, x)
              a == Own(at[t], cwd[t], x)
              b == Own(at'[t], cwd'[t], x)
              l == leak[x]
              k == leak'[x]
  <2>1. a + l = b + k
    OBVIOUS
  <2>2. o \in Int /\ a \in Nat /\ b \in Nat /\ l \in Nat /\ k \in Nat
    <3>1. entry[x].refcnt \in Nat /\ l \in Nat /\ k \in Nat
      BY FieldTypes DEF Core, Calm, Typed
    <3>. QED BY <3>1, FiniteBelow, OwnIs DEF Owed
  <2>. HIDE DEF o, a, b, l, k
  <2>3. o + a + l = o + b + k
    BY <2>1, <2>2
  <2>. QED BY <2>3 DEF o, a, b, l, k
<1>. QED BY <1>1 DEF CacheStep

LEMMA UnlinkStep ==
    ASSUME Core, NEW t \in Tasks, Unlink(t), kernel' = "running"
    PROVE  CacheStep(t) /\ at[t].pc # "trunc" /\ at'[t].pc # "trunc"
<1>. DEFINE e == at[t].cur
            s == [at[t] EXCEPT !.pc = "empty"]
<1>1. /\ at[t].pc = "arrived" /\ holder[e] = Nobody /\ holder' = [holder EXCEPT ![e] = t]
      /\ UNCHANGED <<entry, order, disk, cwd>>
      /\ \/ at' = [at EXCEPT ![t] = User] /\ leak' = [leak EXCEPT ![e] = @ + 1]
         \/ ~entry[e].dir /\ at' = [at EXCEPT ![t].pc = "empty"] /\ leak' = leak
  BY DEF Unlink, At
<1>2. /\ e \in Entries /\ ETyped(entry) /\ Sound(entry) /\ at \in [Tasks -> CallType]
      /\ at[t] \in CallType /\ Shape(at[t]) /\ Nobody \notin Tasks /\ Ring(order)
      /\ holder \in [Entries -> Tasks \cup {Nobody}] /\ leak \in [Entries -> Nat]
      /\ cwd \in [Tasks -> Entries]
  BY <1>1, TakenByCall, CacheAssumption DEF HasCur, Walking, Core, Typed
<1>3. /\ \A x \in Entries : holder[x] = t => leak[x] > 0
      /\ holder' \in [Entries -> Tasks \cup {Nobody}]
      /\ holder'[e] = t /\ \A x \in Entries \ {e} : holder'[x] = holder[x]
      /\ \A x \in Entries : \A u \in Tasks \ {t} : holder'[x] = u <=> holder[x] = u
  <2>1. LocksOf(at[t], entry) = {}
    BY <1>1 DEF LocksOf, Doing
  <2>2. \A x \in Entries : holder[x] = t => leak[x] > 0
    BY <2>1 DEF Core, LocksExact
  <2>. QED BY <1>1, <1>2, <2>2
<1>4. /\ ETyped(entry') /\ Sound(entry') /\ SameFiles(entry, entry') /\ Ring(order') /\ disk' = disk
      /\ cwd' \in [Tasks -> Entries] /\ cwd' = cwd /\ entry' = entry
  BY <1>1, <1>2 DEF SameFiles
<1>5. CASE at' = [at EXCEPT ![t] = User] /\ leak' = [leak EXCEPT ![e] = @ + 1]
  <2>1. /\ leak' \in [Entries -> Nat]
        /\ \A x \in Entries : leak'[x] = leak[x] + Ind(e = x) /\ leak'[x] >= leak[x]
        /\ leak'[e] > 0
    BY <1>2, <1>5 DEF Ind
  <2>2. LocksKeep(t, User)
    <3>1. \A x \in Entries : holder'[x] = t => leak'[x] > 0
      <4>1. \A x \in Entries : leak[x] \in Nat /\ leak'[x] \in Nat
        BY <1>2, <2>1
      <4>. HIDE DEF e
      <4>. QED BY <1>3, <2>1, <4>1
    <3>2. LocksOf(User, entry') = {}
      BY UserIs
    <3>. QED BY <1>3, <3>1, <3>2 DEF LocksKeep
  <2>3. /\ User \in CallType /\ Shape(User) /\ User.pc \notin HasNxt \cup HasCur
        /\ User.pc \notin {"trunc", "empty"}
    BY UserIs DEF Continues, HasNxt, HasCur, Walking
  <2>4. Calm(t) /\ at'[t] = User
    BY <1>4, <1>5, <2>1, <2>2, <2>3, PlainCalm
  <2>5. ASSUME NEW x \in Entries
        PROVE  Own(at[t], cwd[t], x) + leak[x] = Own(User, cwd[t], x) + leak'[x]
    <3>. DEFINE a == Own(at[t], cwd[t], x)
                b == Own(User, cwd[t], x)
                i == Ind(e = x)
                l == leak[x]
                k == leak'[x]
    <3>1. a = b + i + 0
      <4>1. /\ at[t].nxt = NoEntry /\ at[t].put = NoEntry /\ at[t].then = "user" /\ at[t].pc # "chdir"
        BY <1>1, <1>2 DEF Shape, Doing, HasNxt
      <4>2. Ind(at[t].nxt = x) = 0
        BY <4>1, EntryFacts DEF Ind
      <4>. QED BY <4>1, <4>2, OwnEnds
    <3>2. k = l + i /\ i \in Nat /\ b \in Nat /\ l \in Nat
      BY <1>2, <2>1, OwnIs DEF Ind
    <3>. HIDE DEF a, b, i, l, k
    <3>3. a + l = b + k
      BY <3>1, <3>2
    <3>. QED BY <3>3 DEF a, b, l, k
  <2>6. User.pc # "trunc"
    BY <2>3
  <2>. QED BY <1>1, <1>4, <2>4, <2>5, <2>6, PlainStep
<1>6. CASE ~entry[e].dir /\ at' = [at EXCEPT ![t].pc = "empty"] /\ leak' = leak
  <2>1. /\ s \in CallType /\ Shape(s) /\ s.pc = "empty" /\ s.cur = e /\ Doing(s) = "empty"
        /\ \A w, x : Own(s, w, x) = Own(at[t], w, x)
    BY <1>1, <1>2, MovesOn
  <2>2. at' = [at EXCEPT ![t] = s]
    BY <1>2, <1>6
  <2>. HIDE DEF s
  <2>3. LocksOf(s, entry') = {e}
    BY <2>1 DEF LocksOf
  <2>4. LocksKeep(t, s)
    BY <1>2, <1>3, <1>6, <2>3 DEF LocksKeep
  <2>5. s.pc \notin HasNxt /\ \A x \in Entries : leak'[x] >= leak[x]
    BY <1>2, <1>6, <2>1 DEF HasNxt
  <2>6. Calm(t) /\ at'[t] = s
    BY <1>2, <1>4, <1>6, <2>1, <2>2, <2>4, <2>5, PlainCalm
  <2>. QED BY <1>1, <1>4, <1>6, <2>1, <2>6, PlainStep
<1>. QED BY <1>1, <1>5, <1>6

\* etrunc() has freed the clusters of the file that rm() removes.
LEMMA EmptyStep ==
    ASSUME Core, NEW t \in Tasks, Empty(t)
    PROVE  CacheStep(t) /\ at[t].pc # "trunc" /\ at'[t].pc # "trunc"
<1>. DEFINE e == at[t].cur
            s == [at[t] EXCEPT !.pc = "lockParent"]
            F == entry'
<1>1. /\ at[t].pc = "empty" /\ F = Content(e, 0)
      /\ UNCHANGED <<order, holder, disk, cwd, leak>> /\ at' = [at EXCEPT ![t].pc = "lockParent"]
  BY DEF Empty, At, Truncated, Content
<1>2. /\ e \in Entries /\ ETyped(entry) /\ Sound(entry) /\ at \in [Tasks -> CallType]
      /\ at[t] \in CallType /\ Shape(at[t]) /\ Ring(order)
      /\ holder \in [Entries -> Tasks \cup {Nobody}] /\ leak \in [Entries -> Nat]
      /\ cwd \in [Tasks -> Entries] /\ ~entry[e].dir
  BY <1>1, TakenByCall DEF HasCur, Core, Typed, Working
<1>. HIDE DEF F
<1>3. /\ ETyped(F) /\ Sound(F) /\ SameFiles(entry, F)
      /\ \A x \in Entries : Owed(F, x) = Owed(entry, x)
      /\ \A y \in Entries \ {e} : F[y] = entry[y]
  BY <1>1, <1>2, ContentIs
<1>4. /\ s \in CallType /\ Shape(s) /\ s.pc = "lockParent" /\ s.cur = e /\ Doing(s) = "lockParent"
      /\ \A w, x : Own(s, w, x) = Own(at[t], w, x)
  BY <1>1, <1>2, MovesOn
<1>5. at' = [at EXCEPT ![t] = s]
  BY <1>1, <1>2
<1>. HIDE DEF s
<1>6. LocksKeep(t, s)
  <2>1. LocksOf(s, F) = {e} /\ LocksOf(at[t], entry) = {e}
    BY <1>1, <1>4 DEF LocksOf, Doing
  <2>2. \A x \in Entries : /\ x \in LocksOf(at[t], entry) => holder[x] = t
                           /\ holder[x] = t => leak[x] > 0 \/ x \in LocksOf(at[t], entry)
    BY DEF Core, LocksExact
  <2>. QED BY <1>1, <1>2, <2>1, <2>2 DEF LocksKeep, F
<1>7. \A u \in Tasks \ {t} : at[u].pc \in HasNxt => F[at[u].nxt] = entry[at[u].nxt]
  <2>1. Own(at[t], cwd[t], e) >= 1
    BY OwnIs
  <2>2. \A u \in Tasks \ {t} : at[u].pc \in HasNxt => at[u].nxt \in Entries /\ at[u].nxt # e
    BY <1>2, <2>1, InCall, FreshIsAlone
  <2>. QED BY <1>3, <2>2
<1>8. s.pc \notin HasNxt /\ s.pc \notin {"trunc", "empty"} /\ \A x \in Entries : leak'[x] >= leak[x]
  BY <1>1, <1>2, <1>4 DEF HasNxt
<1>9. Calm(t) /\ at'[t] = s
  BY <1>1, <1>2, <1>3, <1>4, <1>5, <1>6, <1>7, <1>8, PlainCalm DEF F
<1>. QED BY <1>1, <1>3, <1>4, <1>9, PlainStep DEF F

LEMMA LockParentStep ==
    ASSUME Core, NEW t \in Tasks, LockParent(t)
    PROVE  CacheStep(t) /\ at[t].pc # "trunc" /\ at'[t].pc # "trunc"
<1>. DEFINE e == at[t].cur
            dp == entry[e].parent
            s == [at[t] EXCEPT !.pc = "remove"]
<1>1. /\ at[t].pc = "lockParent" /\ holder[dp] = Nobody /\ holder' = [holder EXCEPT ![dp] = t]
      /\ UNCHANGED <<entry, order, disk, cwd, leak>> /\ at' = [at EXCEPT ![t].pc = "remove"]
  BY DEF LockParent, At
<1>2. /\ e \in Entries /\ ETyped(entry) /\ Sound(entry) /\ at \in [Tasks -> CallType]
      /\ at[t] \in CallType /\ Shape(at[t]) /\ Ring(order) /\ Nobody \notin Tasks
      /\ holder \in [Entries -> Tasks \cup {Nobody}] /\ leak \in [Entries -> Nat]
      /\ cwd \in [Tasks -> Entries]
  BY <1>1, TakenByCall, CacheAssumption DEF HasCur, Core, Typed
<1>3. dp \in Entries
  <2>1. Own(at[t], cwd[t], e) >= 1
    BY OwnIs
  <2>. QED BY <1>2, <2>1, InCall
<1>4. /\ s \in CallType /\ Shape(s) /\ s.pc = "remove" /\ s.cur = e /\ Doing(s) = "remove"
      /\ \A w, x : Own(s, w, x) = Own(at[t], w, x)
  BY <1>1, <1>2, MovesOn
<1>5. at' = [at EXCEPT ![t] = s]
  BY <1>1, <1>2
<1>. HIDE DEF s
<1>6. LocksKeep(t, s)
  <2>1. LocksOf(s, entry') = {e, dp} /\ LocksOf(at[t], entry) = {e}
    BY <1>1, <1>4 DEF LocksOf, Doing
  <2>2. \A x \in Entries : /\ x \in LocksOf(at[t], entry) => holder[x] = t
                           /\ holder[x] = t => leak[x] > 0 \/ x \in LocksOf(at[t], entry)
    BY DEF Core, LocksExact
  <2>3. /\ holder' \in [Entries -> Tasks \cup {Nobody}]
        /\ holder'[dp] = t /\ \A x \in Entries \ {dp} : holder'[x] = holder[x]
    BY <1>1, <1>2, <1>3
  <2>. HIDE DEF e, dp
  <2>. QED BY <1>1, <1>2, <1>3, <2>1, <2>2, <2>3 DEF LocksKeep
<1>7. s.pc \notin HasNxt /\ s.pc \notin {"trunc", "empty"} /\ \A x \in Entries : leak'[x] >= leak[x]
  BY <1>1, <1>2, <1>4 DEF HasNxt
<1>8. SameFiles(entry, entry') /\ ETyped(entry') /\ Sound(entry')
  BY <1>1, <1>2 DEF SameFiles
<1>9. Calm(t) /\ at'[t] = s
  BY <1>1, <1>2, <1>4, <1>5, <1>6, <1>7, <1>8, PlainCalm
<1>. QED BY <1>1, <1>4, <1>9, PlainStep

\* cd() has its new directory.
LEMMA ChdirEndsStep ==
    ASSUME Core, NEW t \in Tasks, ChdirEnds(t)
    PROVE  CacheStep(t) /\ at[t].pc # "trunc" /\ at'[t].pc # "trunc"
<1>. DEFINE e == at[t].cur
<1>1. /\ at[t].pc = "chdir" /\ at' = [at EXCEPT ![t] = User] /\ cwd' = [cwd EXCEPT ![t] = e]
      /\ UNCHANGED <<entry, order, holder, disk, leak>>
  BY DEF ChdirEnds, At
<1>2. /\ e \in Entries /\ ETyped(entry) /\ Sound(entry) /\ at \in [Tasks -> CallType]
      /\ at[t] \in CallType /\ Shape(at[t]) /\ Ring(order)
      /\ holder \in [Entries -> Tasks \cup {Nobody}] /\ leak \in [Entries -> Nat]
      /\ cwd \in [Tasks -> Entries]
  BY <1>1, TakenByCall DEF HasCur, Core, Typed
<1>3. LocksKeep(t, User)
  <2>1. LocksOf(User, entry') = {} /\ LocksOf(at[t], entry) = {}
    BY <1>1, UserIs DEF LocksOf, Doing
  <2>2. \A x \in Entries : holder[x] = t => leak[x] > 0 \/ x \in LocksOf(at[t], entry)
    BY DEF Core, LocksExact
  <2>. QED BY <1>1, <1>2, <2>1, <2>2 DEF LocksKeep
<1>4. /\ User \in CallType /\ Shape(User) /\ User.pc \notin HasNxt \cup HasCur
      /\ User.pc \notin {"trunc", "empty"}
  BY UserIs DEF Continues, HasNxt, HasCur, Walking
<1>5. /\ SameFiles(entry, entry') /\ ETyped(entry') /\ Sound(entry') /\ cwd' \in [Tasks -> Entries]
      /\ cwd'[t] = e /\ \A u \in Tasks \ {t} : cwd'[u] = cwd[u]
  BY <1>1, <1>2 DEF SameFiles
<1>6. \A x \in Entries : leak'[x] = leak[x] /\ leak'[x] >= leak[x]
  BY <1>1, <1>2
<1>7. Calm(t) /\ at'[t] = User
  BY <1>1, <1>2, <1>3, <1>4, <1>5, <1>6, PlainCalm
<1>8. \A x \in Entries : Own(at[t], cwd[t], x) = Own(User, e, x)
  <2>1. at[t].nxt = NoEntry /\ at[t].put = NoEntry /\ at[t].then = "user"
    BY <1>1, <1>2 DEF Shape, Doing, HasNxt
  <2>. QED BY <1>1, <2>1, EntryFacts, UserIs DEF Own, Ind, Continues
<1>9. \A x \in Entries : Own(at[t], cwd[t], x) + leak[x] = Own(at'[t], cwd'[t], x) + leak'[x]
  BY <1>5, <1>6, <1>7, <1>8
<1>. QED BY <1>1, <1>4, <1>7, <1>9, PlainStep

\* frelease() after an eput() that slept.
LEMMA UnlockStep ==
    ASSUME Core, NEW t \in Tasks, Unlock(t)
    PROVE  CacheStep(t) /\ at[t].pc # "trunc" /\ at'[t].pc # "trunc"
<1>1. /\ at[t].pc = "unlock" /\ at' = [at EXCEPT ![t] = User]
      /\ UNCHANGED <<entry, order, holder, disk, cwd, leak>>
  BY DEF Unlock, At
<1>2. /\ ETyped(entry) /\ Sound(entry) /\ at \in [Tasks -> CallType]
      /\ at[t] \in CallType /\ Shape(at[t]) /\ Ring(order)
      /\ holder \in [Entries -> Tasks \cup {Nobody}] /\ leak \in [Entries -> Nat]
      /\ cwd \in [Tasks -> Entries]
  BY DEF Core, Typed
<1>3. LocksKeep(t, User)
  <2>1. LocksOf(User, entry') = {} /\ LocksOf(at[t], entry) = {}
    BY <1>1, UserIs DEF LocksOf, Doing
  <2>2. \A x \in Entries : holder[x] = t => leak[x] > 0 \/ x \in LocksOf(at[t], entry)
    BY DEF Core, LocksExact
  <2>. QED BY <1>1, <1>2, <2>1, <2>2 DEF LocksKeep
<1>4. /\ User \in CallType /\ Shape(User) /\ User.pc \notin HasNxt \cup HasCur
      /\ User.pc \notin {"trunc", "empty"}
  BY UserIs DEF Continues, HasNxt, HasCur, Walking
<1>5. SameFiles(entry, entry') /\ ETyped(entry') /\ Sound(entry')
  BY <1>1, <1>2 DEF SameFiles
<1>6. \A x \in Entries : leak'[x] = leak[x] /\ leak'[x] >= leak[x]
  BY <1>1, <1>2
<1>7. Calm(t) /\ at'[t] = User
  BY <1>1, <1>2, <1>3, <1>4, <1>5, <1>6, PlainCalm
<1>8. \A w : \A x \in Entries : Own(at[t], w, x) = Own(User, w, x)
  <2>1. at[t].cur = NoEntry /\ at[t].nxt = NoEntry /\ at[t].put = NoEntry /\ at[t].then = "user"
    BY <1>1, <1>2 DEF Shape, Doing, HasNxt, HasCur, Walking
  <2>. QED BY <1>1, <2>1, UserIs DEF Own, Continues
<1>9. \A x \in Entries : Own(at[t], cwd[t], x) + leak[x] = Own(at'[t], cwd'[t], x) + leak'[x]
  BY <1>1, <1>6, <1>7, <1>8
<1>. QED BY <1>1, <1>4, <1>5, <1>7, <1>9, PlainStep

\* The start of a walk.
Started(c, y) == [User EXCEPT !.call = c.call, !.cur = y, !.rest = c.names,
                              !.pc = Onward(c.call, c.names)]

LEMMA BeginIs ==
    ASSUME NEW t \in Tasks, NEW c \in Program[t], NEW y \in Entries, NEW r, r = Started(c, y)
    PROVE  /\ r \in CallType /\ Shape(r) /\ r.pc \in {"walk", "arrived"} /\ Doing(r) = r.pc
           /\ r.cur = y /\ r.nxt = NoEntry /\ r.put = NoEntry /\ r.then = "user"
<1>. DEFINE m == IF c.call \in {"creat", "mkdir"} THEN 1 ELSE 0
            p == Onward(c.call, c.names)
<1>1. /\ c.call \in Calls \ {"none"} /\ c.names \in Seq(Name \cup {Dot, DotDot})
      /\ c.call \in {"creat", "mkdir"} => c.names # <<>> /\ c.names[Len(c.names)] \in Name
  BY CallAssumption DEF Last
<1>2. /\ p = (IF Len(c.names) = m THEN "arrived" ELSE "walk") /\ m \in {0, 1}
      /\ m = 1 => c.names # <<>>
  BY <1>1 DEF Onward
<1>3. Len(c.names) \in Nat /\ Len(c.names) >= m
  BY <1>1, <1>2
<1>. HIDE DEF p
<1>4. /\ r \in CallType /\ r.pc = p /\ r.cur = y /\ r.nxt = NoEntry /\ r.put = NoEntry
      /\ r.then = "user" /\ r.rest = c.names /\ r.call = c.call
  <2>1. p \in Pcs
    BY <1>2 DEF Pcs
  <2>2. User \in CallType
    BY UserIs DEF Continues
  <2>3. r = [User EXCEPT !.call = c.call, !.cur = y, !.rest = c.names, !.pc = p]
    BY DEF p, Started
  <2>4. r \in CallType
    BY <1>1, <2>1, <2>2, <2>3 DEF CallType
  <2>5. /\ r.pc = p /\ r.cur = y /\ r.nxt = User.nxt /\ r.put = User.put
        /\ r.then = User.then /\ r.rest = c.names /\ r.call = c.call
    BY <2>2, <2>3 DEF CallType
  <2>. QED BY <2>4, <2>5, UserIs DEF Continues
<1>5. Doing(r) = p /\ p \in {"walk", "arrived"}
  BY <1>2, <1>4 DEF Doing
<1>6. Shape(r)
  <2>1. (Creates(r) <=> m = 1) /\ m = (IF Creates(r) THEN 1 ELSE 0)
    BY <1>4 DEF Creates
  <2>2. y # NoEntry
    BY EntryFacts
  <2>3. /\ Creates(r) => r.rest # <<>> /\ r.rest[Len(r.rest)] \in Name
        /\ Doing(r) = "walk" => Len(r.rest) > m
        /\ Doing(r) = "arrived" => Len(r.rest) = m
    BY <1>1, <1>2, <1>3, <1>4, <1>5 DEF Creates
  <2>. HIDE DEF m
  <2>. QED BY <1>4, <1>5, <2>1, <2>2, <2>3 DEF Shape, HasCur, HasNxt, Walking
<1>. QED BY <1>4, <1>5, <1>6

LEMMA BeginStep ==
    ASSUME Core, NEW t \in Tasks, NEW c \in Program[t], Begin(t, c)
    PROVE  CacheStep(t) /\ at[t].pc # "trunc" /\ at'[t].pc # "trunc"
<1>. DEFINE y == IF c.root THEN Root ELSE cwd[t]
            r == Started(c, y)
            F == entry'
<1>1. /\ at[t].pc = "user" /\ at' = [at EXCEPT ![t] = r] /\ F = Plus(entry, y) /\ order' = order
      /\ UNCHANGED <<holder, disk, cwd, leak>>
  <2>1. at[t].pc = "user" /\ at' = [at EXCEPT ![t] = r] /\ UNCHANGED <<holder, disk, cwd, leak>>
    BY DEF Begin, InUser, At, Started
  <2>2. Becomes(edup(C(entry, order), y))
    BY CacheIs DEF Begin
  <2>3. edup(C(entry, order), y) = C(Plus(entry, y), order)
    BY edupIs
  <2>4. Becomes(C(Plus(entry, y), order))
    BY <2>2, <2>3
  <2>. QED BY <2>1, <2>4 DEF Becomes, C
<1>2. /\ ETyped(entry) /\ Sound(entry) /\ at \in [Tasks -> CallType]
      /\ at[t] \in CallType /\ Shape(at[t]) /\ Ring(order)
      /\ holder \in [Entries -> Tasks \cup {Nobody}] /\ leak \in [Entries -> Nat]
      /\ cwd \in [Tasks -> Entries]
  BY DEF Core, Typed
<1>3. at[t].cur = NoEntry /\ at[t].nxt = NoEntry /\ at[t].put = NoEntry /\ at[t].then = "user"
  BY <1>1, <1>2 DEF Shape, Doing, HasNxt, HasCur, Walking
<1>4. y \in Entries /\ (y = Root \/ (Own(at[t], cwd[t], y) >= 1 /\ entry[y].refcnt > 0))
  <2>1. CASE c.root
    BY <2>1, EntryFacts
  <2>2. CASE ~c.root
    <3>1. y = cwd[t] /\ y \in Entries
      BY <1>2, <2>2
    <3>2. Own(at[t], cwd[t], y) >= 1
      BY <1>1, <1>3, <3>1, OwnIs
    <3>. QED BY <3>1, <3>2, InCall
  <2>. QED BY <2>1, <2>2
<1>5. \A u \in Tasks \ {t} : at[u].pc \in HasNxt => at[u].nxt \in Entries /\ at[u].nxt # y
  <2>1. \A u \in Tasks \ {t} : at[u].pc \in HasNxt => at[u].nxt \in Slots /\ at[u].nxt \in Entries
    BY FreshIsAlone
  <2>2. CASE y = Root
    BY <2>1, <2>2, EntryFacts
  <2>3. CASE Own(at[t], cwd[t], y) >= 1
    BY <1>4, <2>1, <2>3, InCall
  <2>. QED BY <1>4, <2>2, <2>3
<1>. HIDE DEF y, F
<1>6. /\ ETyped(F) /\ Sound(F) /\ \A x \in Entries : Owed(F, x) = Owed(entry, x) + Ind(x = y)
      /\ \A z \in Entries : z # y => F[z] = entry[z]
  BY <1>1, <1>2, <1>4, OwedPlus, NearPlus
<1>7. SameFiles(entry, F)
  BY <1>1, <1>2 DEF SameFiles, Plus, ETyped, EntryType, EntryRecord
<1>8. /\ r \in CallType /\ Shape(r) /\ r.pc \in {"walk", "arrived"} /\ Doing(r) = r.pc
      /\ r.cur = y /\ r.nxt = NoEntry /\ r.put = NoEntry /\ r.then = "user"
  BY <1>4, BeginIs
<1>. HIDE DEF r
<1>9. LocksKeep(t, r)
  <2>1. LocksOf(r, F) = {} /\ LocksOf(at[t], entry) = {}
    BY <1>1, <1>8 DEF LocksOf, Doing
  <2>2. \A x \in Entries : holder[x] = t => leak[x] > 0 \/ x \in LocksOf(at[t], entry)
    BY DEF Core, LocksExact
  <2>. QED BY <1>1, <1>2, <2>1, <2>2 DEF LocksKeep, F
<1>10. /\ r.pc \notin HasNxt /\ r.pc \notin {"trunc", "empty"}
       /\ \A x \in Entries : leak'[x] = leak[x] /\ leak'[x] >= leak[x]
       /\ \A u \in Tasks \ {t} : at[u].pc \in HasNxt => F[at[u].nxt] = entry[at[u].nxt]
       /\ cwd' \in [Tasks -> Entries] /\ \A u \in Tasks \ {t} : cwd'[u] = cwd[u]
  BY <1>1, <1>2, <1>5, <1>6, <1>8 DEF HasNxt
<1>11. Calm(t) /\ at'[t] = r
  BY <1>1, <1>2, <1>4, <1>6, <1>7, <1>8, <1>9, <1>10, PlainCalm DEF F
<1>12. ASSUME NEW x \in Entries
       PROVE  Owed(F, x) + Own(at[t], cwd[t], x) + leak[x]
                  = Owed(entry, x) + Own(r, cwd[t], x) + leak[x]
  <2>. DEFINE o == Owed(entry, x)
              p == Owed(F, x)
              a == Own(at[t], cwd[t], x)
              b == Own(r, cwd[t], x)
              i == Ind(x = y)
              j == Ind(cwd[t] = x)
              l == leak[x]
  <2>1. p = o + i /\ a = 0 + 0 + 0 + j /\ b = i + 0 + 0 + j
    <3>1. NoEntry # x /\ r.pc # "chdir" /\ at[t].pc # "chdir"
      BY <1>1, <1>8, EntryFacts
    <3>. QED BY <1>3, <1>6, <1>8, <3>1 DEF Own, Ind
  <2>2. o \in Int /\ i \in Nat /\ j \in Nat /\ l \in Nat
    <3>1. entry[x].refcnt \in Nat
      BY <1>2, FieldTypes
    <3>. QED BY <1>2, <3>1, FiniteBelow DEF Owed, Ind
  <2>. HIDE DEF o, p, a, b, i, j, l
  <2>3. p + a + l = o + b + l
    BY <2>1, <2>2
  <2>. QED BY <2>3 DEF o, p, a, b, l
<1>13. \A x \in Entries : Owed(entry', x) + Own(at[t], cwd[t], x) + leak[x]
                              = Owed(entry, x) + Own(at'[t], cwd'[t], x) + leak'[x]
  BY <1>1, <1>11, <1>12 DEF F
<1>. QED BY <1>1, <1>8, <1>11, <1>13 DEF CacheStep

-----------------------------------------------------------------------------
(* Steps that change the file table.                                       *)

\* The file s keeps its kind and its entry, and is not opened.
Kept(s) ==
    /\ file'[s].type = file[s].type /\ file'[s].entry = file[s].entry
    /\ file'[s].count > 0 /\ file[s].type \in {"reg", "dir"} /\ s \notin Opening'
           => file[s].count > 0 /\ s \notin Opening

LEMMA TableStepKeeps ==
    ASSUME Core, NEW t \in Tasks, Calm(t), \A x \in Entries : Booked(t, x), TableTyped',
           \A s \in Sfds : HasEntry(s)' \/ Kept(s)
    PROVE  Core'
<1>1. Typed' /\ Frame(t) /\ LockStep(t) /\ HitStep(t) /\ Sound(entry') /\ Working(t)'
  BY DEF Calm
<1>2. \A x \in Entries : Balanced(x)'
  BY <1>1, BalanceKept
<1>3. \A u \in Tasks : Working(u)'
  BY <1>1, <1>2, WorkingKept
<1>4. LocksExact' /\ OneHit'
  BY <1>1, <1>2, LocksKept, HitsKept
<1>5. ASSUME NEW s \in Sfds PROVE HasEntry(s)'
  <2>1. CASE Kept(s)
    BY <1>1, <1>2, <2>1, HasEntryKept DEF Kept
  <2>. QED BY <2>1
<1>. QED BY <1>1, <1>2, <1>3, <1>4, <1>5 DEF Core

Install(T, t, fd, v) == [T EXCEPT ![t][fd] = v]
Tables == [Tasks -> [Fds -> Sfds \cup {NULL, Marked}]]

\* A descriptor leads elsewhere.
LEMMA LeadsSet ==
    ASSUME NEW T \in Tables, NEW t \in Tasks, NEW fd \in Fds, NEW v \in Sfds \cup {NULL, Marked},
           NEW U, U = Install(T, t, fd, v)
    PROVE  /\ U \in Tables /\ U[t][fd] = v
           /\ \A u \in Tasks : \A d \in Fds : u # t \/ d # fd => U[u][d] = T[u][d]
           /\ \A s \in Sfds : /\ Cardinality(Leads(T, s)) \in Nat /\ Cardinality(Leads(U, s)) \in Nat
                              /\ Cardinality(Leads(U, s)) + Ind(T[t][fd] = s)
                                     = Cardinality(Leads(T, s)) + Ind(v = s)
<1>1. /\ U \in Tables /\ U[t][fd] = v
      /\ \A u \in Tasks : \A d \in Fds : u # t \/ d # fd => U[u][d] = T[u][d]
  BY DEF Install, Tables
<1>2. ASSUME NEW s \in Sfds
      PROVE  /\ Cardinality(Leads(T, s)) \in Nat /\ Cardinality(Leads(U, s)) \in Nat
             /\ Cardinality(Leads(U, s)) + Ind(T[t][fd] = s) = Cardinality(Leads(T, s)) + Ind(v = s)
  <2>. DEFINE A == Leads(T, s)
              B == Leads(U, s)
              x == <<t, fd>>
  <2>1. IsFiniteSet(A)
    <3>1. IsFiniteSet(Tasks \X Fds)
      BY FiniteFds, CacheAssumption, FS_Product
    <3>. QED BY <3>1, FS_Subset DEF Leads
  <2>2. A \ {x} = B \ {x}
    BY <1>1 DEF Leads
  <2>3. (x \in A <=> T[t][fd] = s) /\ (x \in B <=> v = s)
    BY <1>1 DEF Leads
  <2>. HIDE DEF A, B, x
  <2>4. /\ Cardinality(A) \in Nat /\ Cardinality(B) \in Nat
        /\ Cardinality(A) + Ind(x \in B) = Cardinality(B) + Ind(x \in A)
    BY <2>1, <2>2, CardDelta
  <2>5. Ind(x \in A) = Ind(T[t][fd] = s) /\ Ind(x \in B) = Ind(v = s)
    BY <2>3 DEF Ind
  <2>. QED BY <2>4, <2>5 DEF A, B
<1>. QED BY <1>1, <1>2

\* What the books say of a file.
LEMMA FileIs ==
    ASSUME Core, NEW s \in Sfds
    PROVE  /\ file[s].count \in Nat /\ lost[s] \in Nat /\ Cardinality(Leads(FTable, s)) \in Nat
           /\ \A t \in Tasks : \A fd \in Fds : FTable[t][fd] = s => file[s].count >= 1 /\ s \notin Opening
           /\ file[s].count = 0 => s \notin Opening
<1>. DEFINE c == file[s].count
            n == Cardinality(Leads(FTable, s))
            i == Ind(s \in Opening)
            j == Ind(s < Std)
            l == lost[s]
<1>1. IsFiniteSet(Leads(FTable, s))
  <2>1. IsFiniteSet(Tasks \X Fds)
    BY FiniteFds, CacheAssumption, FS_Product
  <2>. QED BY <2>1, FS_Subset DEF Leads
<1>2. c \in Nat /\ l \in Nat /\ n \in Nat /\ i \in Nat /\ j \in Nat
  BY <1>1, FS_CardinalityType DEF Core, TableTyped, FileType, Ind
<1>3. c = n + i + l + j
  BY DEF Core, TableTyped, FileBalanced
<1>4. s \in Opening => c = 1 /\ i = 1
  BY DEF Core, TableTyped, Reserved, Opening, Ind
<1>5. ASSUME NEW t \in Tasks, NEW fd \in Fds, FTable[t][fd] = s
      PROVE  n >= 1
  <2>1. <<t, fd>> \in Leads(FTable, s)
    BY <1>5 DEF Leads
  <2>. QED BY <1>1, <2>1, CardPositive
<1>. HIDE DEF c, n, i, j, l
<1>6. n >= 1 => c >= 1 /\ s \notin Opening
  BY <1>2, <1>3, <1>4
<1>7. c = 0 => s \notin Opening
  BY <1>4
<1>. QED BY <1>2, <1>5, <1>6, <1>7 DEF c, n, l

\* A task in a call that does not touch the cache.
LEMMA IdleCalm ==
    ASSUME Core, NEW t \in Tasks, at[t].pc = "user",
           UNCHANGED <<entry, order, holder, disk, cwd, at, leak>>
    PROVE  Calm(t) /\ at'[t] = at[t]
<1>1. /\ ETyped(entry) /\ Sound(entry) /\ at \in [Tasks -> CallType]
      /\ at[t] \in CallType /\ Shape(at[t]) /\ Ring(order)
      /\ holder \in [Entries -> Tasks \cup {Nobody}] /\ leak \in [Entries -> Nat]
      /\ cwd \in [Tasks -> Entries]
  BY DEF Core, Typed
<1>2. at' = [at EXCEPT ![t] = at[t]]
  BY <1>1
<1>3. LocksKeep(t, at[t])
  <2>1. \A x \in Entries : /\ x \in LocksOf(at[t], entry) => holder[x] = t
                           /\ holder[x] = t => leak[x] > 0 \/ x \in LocksOf(at[t], entry)
    BY DEF Core, LocksExact
  <2>. QED BY <1>1, <2>1 DEF LocksKeep
<1>4. at[t].pc \notin HasNxt \cup HasCur \cup {"trunc", "empty"}
  BY DEF HasNxt, HasCur, Walking
<1>5. /\ SameFiles(entry, entry') /\ \A x \in Entries : leak'[x] >= leak[x]
  BY <1>1 DEF SameFiles
<1>. QED BY <1>1, <1>2, <1>3, <1>4, <1>5, PlainCalm

\* A step that changes one file, or none if s is none, and one descriptor.
LEMMA OneFileKeeps ==
    ASSUME Core, NEW t \in Tasks, Calm(t), NEW s, NEW fd \in Fds, NEW v \in Sfds \cup {NULL, Marked},
           FTable' = Install(FTable, t, fd, v), FTable[t][fd] \notin Sfds \ {s}, v \notin Sfds \ {s},
           file' \in [Sfds -> FileType], \A z \in Sfds \ {s} : file'[z] = file[z],
           lost' \in [Sfds -> Nat], \A z \in Sfds \ {s} : lost'[z] = lost[z],
           s \in Opening => at[t].pc = "trunc",
           at[t].pc = "trunc" => at[t].file = s,
           at'[t].pc = "trunc" => /\ at'[t].file = s /\ s \in Sfds /\ at'[t].fd = fd /\ v = Marked
                                  /\ file'[s].count = 1,
           s \in Sfds => file'[s].count + Ind(FTable[t][fd] = s) + Ind(at[t].pc = "trunc") + lost[s]
                             = file[s].count + Ind(v = s) + Ind(at'[t].pc = "trunc") + lost'[s],
           \A x \in Entries : Owed(entry', x) + Own(at[t], cwd[t], x) + leak[x] + Ind(s \in FileRefs(file, Opening, x))
                                  = Owed(entry, x) + Own(at'[t], cwd'[t], x) + leak'[x]
                                        + Ind(s \in FileRefs(file', Opening', x)),
           s \in Sfds => HasEntry(s)' \/ Kept(s)
    PROVE  Core'
<1>1. Typed' /\ Frame(t)
  BY DEF Calm
<1>2. \A u \in Tasks \ {t} : at'[u] = at[u]
  BY <1>1 DEF Frame
<1>3. \A u \in Tasks \ {t} : at[u].pc = "trunc" => at[u].file # s /\ at[u].file \in Sfds
  BY DEF Core, TableTyped, Reserved, Opening
<1>4. /\ s \in Opening <=> at[t].pc = "trunc"
      /\ s \in Opening' <=> at'[t].pc = "trunc"
      /\ Opening \ {s} = Opening' \ {s}
  BY <1>2, <1>3 DEF Opening
<1>5. /\ FTable \in Tables /\ file \in [Sfds -> FileType] /\ lost \in [Sfds -> Nat]
  BY DEF Core, TableTyped, Tables
<1>6. /\ FTable' \in Tables /\ FTable'[t][fd] = v
      /\ \A u \in Tasks : \A d \in Fds : u # t \/ d # fd => FTable'[u][d] = FTable[u][d]
      /\ \A z \in Sfds : /\ Cardinality(Leads(FTable, z)) \in Nat /\ Cardinality(Leads(FTable', z)) \in Nat
                         /\ Cardinality(Leads(FTable', z)) + Ind(FTable[t][fd] = z)
                                = Cardinality(Leads(FTable, z)) + Ind(v = z)
  <2>. DEFINE U == FTable'
  <2>1. U = Install(FTable, t, fd, v)
    OBVIOUS
  <2>. HIDE DEF U
  <2>2. /\ U \in Tables /\ U[t][fd] = v
        /\ \A u \in Tasks : \A d \in Fds : u # t \/ d # fd => U[u][d] = FTable[u][d]
        /\ \A z \in Sfds : /\ Cardinality(Leads(FTable, z)) \in Nat /\ Cardinality(Leads(U, z)) \in Nat
                           /\ Cardinality(Leads(U, z)) + Ind(FTable[t][fd] = z)
                                  = Cardinality(Leads(FTable, z)) + Ind(v = z)
    BY <1>5, <2>1, LeadsSet
  <2>. QED BY <2>2 DEF U
<1>7. ASSUME NEW z \in Sfds PROVE FileBalanced(z)'
  <2>. DEFINE c == file[z].count
              k == file'[z].count
              n == Cardinality(Leads(FTable, z))
              m == Cardinality(Leads(FTable', z))
              i == Ind(z \in Opening)
              j == Ind(z \in Opening')
              l == lost[z]
              o == lost'[z]
              g == Ind(FTable[t][fd] = z)
              h == Ind(v = z)
              w == Ind(z < Std)
  <2>1. /\ c \in Nat /\ k \in Nat /\ l \in Nat /\ o \in Nat /\ n \in Nat /\ m \in Nat
        /\ m + g = n + h
    BY <1>5, <1>6 DEF FileType
  <2>2. c = n + i + l + w
    BY DEF Core, TableTyped, FileBalanced
  <2>3. i \in Nat /\ j \in Nat /\ g \in Nat /\ h \in Nat /\ w \in Nat
    BY DEF Ind
  <2>4. k + g + i + l = c + h + j + o
    <3>1. CASE z = s
      BY <1>4, <3>1 DEF Ind
    <3>2. CASE z # s
      <4>1. i = j /\ k = c /\ o = l /\ g = 0 /\ h = 0
        BY <1>4, <3>2 DEF Ind
      <4>. HIDE DEF c, k, n, m, i, j, l, o, g, h, w
      <4>. QED BY <2>1, <2>3, <4>1
    <3>. QED BY <3>1, <3>2
  <2>. HIDE DEF c, k, n, m, i, j, l, o, g, h, w
  <2>5. k = m + j + o + w
    BY <2>1, <2>2, <2>3, <2>4
  <2>. QED BY <2>5 DEF FileBalanced, k, m, j, o, w
<1>8. TableTyped'
  <2>1. \A u \in Tasks : Reserved(u)'
    <3>1. ASSUME NEW u \in Tasks \ {t}, at[u].pc = "trunc"
          PROVE  /\ at[u].file \in Sfds /\ at[u].fd \in Fds
                 /\ FTable'[u][at[u].fd] = Marked /\ file'[at[u].file].count = 1
      <4>1. /\ at[u].file \in Sfds \ {s} /\ at[u].fd \in Fds
            /\ FTable[u][at[u].fd] = Marked /\ file[at[u].file].count = 1
        BY <1>3, <3>1 DEF Core, TableTyped, Reserved
      <4>. QED BY <1>6, <4>1
    <3>. QED BY <1>2, <1>6, <3>1 DEF Reserved
  <2>2. \A a, b \in Tasks : at'[a].pc = "trunc" /\ at'[b].pc = "trunc"
                               /\ at'[a].file = at'[b].file => a = b
    BY <1>2, <1>3 DEF Core, TableTyped
  <2>. QED BY <1>6, <1>7, <2>1, <2>2 DEF TableTyped, Tables
<1>9. ASSUME NEW x \in Entries PROVE Booked(t, x)
  <2>. DEFINE A == FileRefs(file, Opening, x)
              B == FileRefs(file', Opening', x)
              f == Cardinality(A)
              g == Cardinality(B)
              i == Ind(s \in A)
              j == Ind(s \in B)
              o == Owed(entry, x)
              p == Owed(entry', x)
              a == Own(at[t], cwd[t], x)
              b == Own(at'[t], cwd'[t], x)
              l == leak[x]
              k == leak'[x]
  <2>1. p + a + l + i = o + b + k + j
    OBVIOUS
  <2>2. A \ {s} = B \ {s}
    BY <1>4 DEF FileRefs
  <2>3. IsFiniteSet(A)
    BY FiniteFileRefs
  <2>. HIDE DEF A, B
  <2>4. f \in Nat /\ g \in Nat /\ f + j = g + i
    BY <2>2, <2>3, CardDelta
  <2>5. /\ o \in Int /\ p \in Int /\ a \in Nat /\ b \in Nat /\ i \in Nat /\ j \in Nat
        /\ l \in Nat /\ k \in Nat
    <3>1. entry[x].refcnt \in Nat /\ entry'[x].refcnt \in Nat /\ l \in Nat /\ k \in Nat
      BY <1>1, FieldTypes DEF Core, Typed
    <3>. QED BY <3>1, FiniteBelow, OwnIs DEF Owed, Ind
  <2>. HIDE DEF f, g, i, j, o, p, a, b, l, k
  <2>6. p + a + l + f = o + b + k + g
    BY <2>1, <2>4, <2>5
  <2>. QED BY <2>6 DEF Booked, f, g, o, p, a, b, l, k, A, B
<1>10. \A z \in Sfds : HasEntry(z)' \/ Kept(z)
  <2>1. \A z \in Sfds \ {s} : Kept(z)
    BY <1>4 DEF Kept
  <2>. QED BY <2>1
<1>. QED BY <1>8, <1>9, <1>10, TableStepKeeps

\* What an open file refers to.
LEMMA InFile ==
    ASSUME Core, NEW t \in Tasks, NEW fd \in Fds, NEW s \in Sfds, FTable[t][fd] = s,
           file[s].type \in {"reg", "dir"}
    PROVE  /\ file[s].entry \in Entries /\ s \notin Opening /\ file[s].count >= 1
           /\ file[s].type = "reg" => ~entry[file[s].entry].dir
           /\ \A x : s \in FileRefs(file, Opening, x) <=> x = file[s].entry
           /\ Spared(t, entry, file[s].entry)
           /\ \A u \in Tasks : at[u].pc \in HasNxt =>
                 at[u].nxt \in Entries /\ at[u].nxt # file[s].entry
<1>. DEFINE e == file[s].entry
<1>1. s \notin Opening /\ file[s].count \in Nat /\ file[s].count >= 1
  BY FileIs
<1>2. file[s].count > 0
  BY <1>1
<1>3. e \in Entries /\ (file[s].type = "reg" => ~entry[e].dir)
  BY <1>1, <1>2 DEF Core, HasEntry
<1>4. \A x : s \in FileRefs(file, Opening, x) <=> x = e
  BY <1>1, <1>2 DEF FileRefs
<1>5. ASSUME NEW u \in Tasks, at[u].pc \in HasNxt
      PROVE  /\ at[u].nxt \in Entries /\ at[u].nxt # e
             /\ e \in Slots /\ entry[e].refcnt = 1 => entry[e].parent # at[u].nxt
  <2>1. /\ at[u].nxt \in Entries /\ s \notin FileRefs(file, Opening, at[u].nxt)
        /\ \A c \in Slots : entry[c].refcnt > 0 => entry[c].parent # at[u].nxt
    BY <1>5, FreshIsAlone
  <2>2. e \in Slots /\ entry[e].refcnt = 1 => entry[e].refcnt > 0
    OBVIOUS
  <2>. QED BY <1>4, <2>1, <2>2
<1>. QED BY <1>1, <1>3, <1>4, <1>5 DEF Spared

\* fwrite() changes what the file's entry says.
LEMMA WriteStep ==
    ASSUME Core, NEW t \in Tasks, NEW fd \in Fds, Write(t, fd), kernel' = "running"
    PROVE  CacheStep(t) /\ at[t].pc # "trunc" /\ at'[t].pc # "trunc"
<1>. DEFINE s == FTable[t][fd]
            e == file[s].entry
            F == entry'
<1>1. /\ at[t].pc = "user" /\ s \in Sfds /\ file[s].type = "reg" /\ F = Content(e, DataClus)
      /\ UNCHANGED <<order, holder, disk, cwd, at, leak>>
  BY DEF Write, InUser, At, End, Content
<1>2. /\ ETyped(entry) /\ Sound(entry) /\ at \in [Tasks -> CallType]
      /\ at[t] \in CallType /\ Shape(at[t]) /\ Ring(order)
      /\ holder \in [Entries -> Tasks \cup {Nobody}] /\ leak \in [Entries -> Nat]
      /\ cwd \in [Tasks -> Entries]
  BY DEF Core, Typed
<1>3. /\ e \in Entries /\ ~entry[e].dir
      /\ \A u \in Tasks : at[u].pc \in HasNxt => at[u].nxt \in Entries /\ at[u].nxt # e
  BY <1>1, InFile
<1>. HIDE DEF F, e
<1>4. /\ ETyped(F) /\ Sound(F) /\ SameFiles(entry, F)
      /\ \A x \in Entries : Owed(F, x) = Owed(entry, x)
      /\ \A y \in Entries \ {e} : F[y] = entry[y]
  BY <1>1, <1>2, <1>3, ContentIs
<1>5. LocksKeep(t, at[t])
  <2>1. LocksOf(at[t], F) = {} /\ LocksOf(at[t], entry) = {}
    BY <1>1 DEF LocksOf, Doing
  <2>2. \A x \in Entries : holder[x] = t => leak[x] > 0 \/ x \in LocksOf(at[t], entry)
    BY DEF Core, LocksExact
  <2>. QED BY <1>1, <1>2, <2>1, <2>2 DEF LocksKeep, F
<1>6. /\ at[t].pc \notin HasNxt \cup HasCur \cup {"trunc", "empty"} /\ at' = [at EXCEPT ![t] = at[t]]
      /\ \A x \in Entries : leak'[x] = leak[x] /\ leak'[x] >= leak[x]
      /\ \A u \in Tasks \ {t} : at[u].pc \in HasNxt => F[at[u].nxt] = entry[at[u].nxt]
  BY <1>1, <1>2, <1>3, <1>4 DEF HasNxt, HasCur, Walking
<1>7. Calm(t) /\ at'[t] = at[t]
  BY <1>1, <1>2, <1>4, <1>5, <1>6, PlainCalm DEF F
<1>. QED BY <1>1, <1>4, <1>6, <1>7, PlainStep, Zenon DEF F

\* A file gets one more reference, of a descriptor or of none.
LEMMA CountUp ==
    ASSUME Core, NEW s \in Sfds, NEW G, G = Counted(s)
    PROVE  /\ G \in [Sfds -> FileType] /\ G[s].count = file[s].count + 1
           /\ G[s].type = file[s].type /\ G[s].entry = file[s].entry
           /\ \A z \in Sfds \ {s} : G[z] = file[z]
<1>1. file \in [Sfds -> FileType]
  BY DEF Core, TableTyped
<1>2. file[s] \in FileType /\ file[s].count \in Nat
  BY <1>1 DEF FileType
<1>. DEFINE f == file[s]
            v == [f EXCEPT !.count = f.count + 1]
<1>3. v \in FileType /\ v.count = f.count + 1 /\ v.type = f.type /\ v.entry = f.entry
  BY <1>2 DEF FileType
<1>4. G = [file EXCEPT ![s] = v]
  BY DEF Counted
<1>. HIDE DEF v
<1>. QED BY <1>1, <1>3, <1>4

\* A step of the file table alone, on one file, or none, and one descriptor.
LEMMA IdleKeeps ==
    ASSUME Core, NEW t \in Tasks, at[t].pc = "user",
           UNCHANGED <<entry, order, holder, disk, cwd, at, leak>>,
           NEW s, s \notin Opening, NEW fd \in Fds, NEW v \in Sfds \cup {NULL, Marked},
           FTable' = Install(FTable, t, fd, v), FTable[t][fd] \notin Sfds \ {s}, v \notin Sfds \ {s},
           file' \in [Sfds -> FileType], \A z \in Sfds \ {s} : file'[z] = file[z],
           lost' \in [Sfds -> Nat], \A z \in Sfds \ {s} : lost'[z] = lost[z],
           s \in Sfds =>
              /\ file'[s].count + Ind(FTable[t][fd] = s) + lost[s]
                     = file[s].count + Ind(v = s) + lost'[s]
              /\ file'[s].type = file[s].type /\ file'[s].entry = file[s].entry
              /\ file[s].type \in {"reg", "dir"} => file[s].count > 0 /\ file'[s].count > 0
    PROVE  Core'
<1>1. Calm(t) /\ at'[t] = at[t] /\ at'[t].pc # "trunc"
  BY IdleCalm
<1>2. Opening' = Opening
  BY DEF Opening
<1>3. \A x : s \in FileRefs(file', Opening', x) <=> s \in FileRefs(file, Opening, x)
  BY <1>2 DEF FileRefs
<1>4. ASSUME NEW x \in Entries
      PROVE  Owed(entry', x) + Own(at[t], cwd[t], x) + leak[x] + Ind(s \in FileRefs(file, Opening, x))
                 = Owed(entry, x) + Own(at'[t], cwd'[t], x) + leak'[x]
                       + Ind(s \in FileRefs(file', Opening', x))
  <2>1. Ind(s \in FileRefs(file', Opening', x)) = Ind(s \in FileRefs(file, Opening, x))
    BY <1>3 DEF Ind
  <2>2. entry' = entry /\ at' = at /\ cwd' = cwd /\ leak' = leak
    OBVIOUS
  <2>. QED BY <2>1, <2>2
<1>5. s \in Sfds => Kept(s)
  BY <1>2 DEF Kept
<1>6. s \in Sfds => file'[s].count + Ind(FTable[t][fd] = s) + Ind(at[t].pc = "trunc") + lost[s]
                        = file[s].count + Ind(v = s) + Ind(at'[t].pc = "trunc") + lost'[s]
  <2>1. Ind(at[t].pc = "trunc") = 0 /\ Ind(at'[t].pc = "trunc") = 0
    BY <1>1 DEF Ind
  <2>2. ASSUME s \in Sfds
        PROVE  file'[s].count + Ind(FTable[t][fd] = s) + 0 + lost[s]
                   = file[s].count + Ind(v = s) + 0 + lost'[s]
    <3>1. file'[s].count \in Nat /\ file[s].count \in Nat
      BY <2>2, FileIs DEF FileType
    <3>2. Ind(FTable[t][fd] = s) \in Nat /\ Ind(v = s) \in Nat
      BY DEF Ind
    <3>. DEFINE c == file[s].count
                k == file'[s].count
                g == Ind(FTable[t][fd] = s)
                h == Ind(v = s)
                l == lost[s]
                o == lost'[s]
    <3>3. k + g + l = c + h + o
      BY <2>2
    <3>. HIDE DEF c, k, g, h, l, o
    <3>4. k + g + 0 + l = c + h + 0 + o
      BY <3>1, <3>2, <3>3 DEF c, k, g, h
    <3>. QED BY <3>4 DEF c, k, g, h, l, o
  <2>. QED BY <2>1, <2>2
<1>7. at[t].pc # "trunc"
  OBVIOUS
<1>. QED BY <1>1, <1>4, <1>5, <1>6, <1>7, OneFileKeeps

\* dup() marks a descriptor and counts a reference that no descriptor has.
LEMMA DupStep ==
    ASSUME Core, NEW t \in Tasks, NEW fd \in Fds, Dup(t, fd), kernel' = "running"
    PROVE  Core'
<1>. DEFINE nfd == Lowest(FreeFds(t))
            s == [FTable EXCEPT ![t][nfd] = Marked][t][fd]
<1>1. /\ at[t].pc = "user" /\ FreeFds(t) # {} /\ FTable' = Install(FTable, t, nfd, Marked)
      /\ UNCHANGED <<entry, order, holder, disk, cwd, at, leak>>
      /\ \/ s = NULL /\ UNCHANGED <<file, lost>>
         \/ s \in Sfds /\ file' = Counted(s) /\ lost' = [lost EXCEPT ![s] = @ + 1]
  BY DEF Dup, InUser, At, End, Install
<1>2. nfd \in Fds /\ FTable[t][nfd] = NULL
  <2>1. FreeFds(t) \subseteq Nat
    BY Descriptors DEF FreeFds
  <2>. QED BY <1>1, <2>1, LowestIn DEF FreeFds
<1>3. /\ FTable \in [Tasks -> [Fds -> Sfds \cup {NULL, Marked}]] /\ file \in [Sfds -> FileType]
      /\ lost \in [Sfds -> Nat] /\ Opening \subseteq Sfds
  BY DEF Core, TableTyped, Opening, Reserved
<1>4. CASE s = NULL /\ UNCHANGED <<file, lost>>
  <2>1. /\ NULL \notin Sfds /\ NULL \notin Opening /\ Marked \notin Sfds \ {NULL}
        /\ FTable[t][nfd] \notin Sfds \ {NULL} /\ Marked \in Sfds \cup {NULL, Marked}
    BY <1>2, <1>3, Descriptors
  <2>2. /\ file' \in [Sfds -> FileType] /\ lost' \in [Sfds -> Nat]
        /\ \A z \in Sfds \ {NULL} : file'[z] = file[z] /\ lost'[z] = lost[z]
    BY <1>3, <1>4
  <2>. HIDE DEF nfd, s
  <2>. QED BY <1>1, <1>2, <2>1, <2>2, IdleKeeps
<1>5. CASE s \in Sfds /\ file' = Counted(s) /\ lost' = [lost EXCEPT ![s] = @ + 1]
  <2>1. s = FTable[t][fd]
    BY <1>2, <1>3, <1>5, Descriptors
  <2>2. file[s].count >= 1 /\ file[s].count \in Nat /\ s \notin Opening /\ lost[s] \in Nat
    BY <1>5, <2>1, FileIs
  <2>. DEFINE G == file'
              L == lost'
  <2>3. G = Counted(s) /\ L = [lost EXCEPT ![s] = lost[s] + 1]
    BY <1>5
  <2>. HIDE DEF G, L, nfd, s
  <2>4. /\ G \in [Sfds -> FileType] /\ G[s].count = file[s].count + 1
        /\ G[s].type = file[s].type /\ G[s].entry = file[s].entry
        /\ \A z \in Sfds \ {s} : G[z] = file[z]
    BY <1>5, <2>3, CountUp
  <2>5. L \in [Sfds -> Nat] /\ L[s] = lost[s] + 1 /\ \A z \in Sfds \ {s} : L[z] = lost[z]
    BY <1>3, <1>5, <2>2, <2>3
  <2>6. G[s].count + Ind(FTable[t][nfd] = s) + lost[s] = file[s].count + Ind(Marked = s) + L[s]
    <3>1. Ind(FTable[t][nfd] = s) = 0 /\ Ind(Marked = s) = 0
      BY <1>2, <1>5, Descriptors DEF Ind
    <3>. QED BY <2>2, <2>4, <2>5, <3>1
  <2>7. /\ FTable[t][nfd] \notin Sfds \ {s} /\ Marked \notin Sfds \ {s} /\ Marked \in Sfds \cup {NULL, Marked}
    BY <1>2, Descriptors
  <2>8. file[s].count > 0 /\ G[s].count > 0
    BY <2>2, <2>4
  <2>. QED BY <1>1, <1>2, <2>2, <2>4, <2>5, <2>6, <2>7, <2>8, IdleKeeps DEF G, L
<1>. QED BY <1>1, <1>4, <1>5

\* dup3() installs a descriptor for the same file.
LEMMA Dup3Step ==
    ASSUME Core, NEW t \in Tasks, NEW old \in Fds, NEW new \in Fds, dup3(t, old, new), kernel' = "running"
    PROVE  Core'
<1>. DEFINE s == FTable[t][old]
            G == file'
<1>1. /\ at[t].pc = "user" /\ FTable[t][new] = NULL /\ s \in Sfds /\ G = Counted(s)
      /\ FTable' = Install(FTable, t, new, s) /\ lost' = lost
      /\ UNCHANGED <<entry, order, holder, disk, cwd, at, leak>>
  BY DEF dup3, InUser, At, End, Spins, Install, cacheVars
<1>2. file[s].count >= 1 /\ file[s].count \in Nat /\ s \notin Opening /\ lost[s] \in Nat
  BY <1>1, FileIs
<1>3. lost' \in [Sfds -> Nat]
  BY <1>1 DEF Core, TableTyped
<1>. HIDE DEF G, s
<1>4. /\ G \in [Sfds -> FileType] /\ G[s].count = file[s].count + 1
      /\ G[s].type = file[s].type /\ G[s].entry = file[s].entry
      /\ \A z \in Sfds \ {s} : G[z] = file[z]
  BY <1>1, CountUp
<1>5. G[s].count + Ind(FTable[t][new] = s) + lost[s] = file[s].count + Ind(s = s) + lost'[s]
  <2>1. Ind(FTable[t][new] = s) = 0 /\ Ind(s = s) = 1
    BY <1>1, Descriptors DEF Ind
  <2>. QED BY <1>1, <1>2, <1>4, <2>1
<1>6. /\ FTable[t][new] \notin Sfds \ {s} /\ s \notin Sfds \ {s} /\ s \in Sfds \cup {NULL, Marked}
      /\ file[s].count > 0 /\ G[s].count > 0 /\ \A z \in Sfds \ {s} : lost'[z] = lost[z]
  BY <1>1, <1>2, <1>4, Descriptors
<1>. QED BY <1>1, <1>2, <1>3, <1>4, <1>5, <1>6, IdleKeeps DEF G

\* frelease() of a file that has references.
Uncounted(s) == [file EXCEPT ![s].count = @ - 1, ![s].entry = IF LastOf(s) THEN NoEntry ELSE @]

LEMMA CountDown ==
    ASSUME Core, NEW s \in Sfds, file[s].count >= 1, NEW G, G = Uncounted(s)
    PROVE  /\ G \in [Sfds -> FileType] /\ G[s].count = file[s].count - 1
           /\ G[s].type = file[s].type /\ G[s].entry = (IF LastOf(s) THEN NoEntry ELSE file[s].entry)
           /\ \A z \in Sfds \ {s} : G[z] = file[z]
<1>. DEFINE f == file[s]
            y == IF LastOf(s) THEN NoEntry ELSE f.entry
            v == [f EXCEPT !.count = f.count - 1, !.entry = y]
<1>1. file \in [Sfds -> FileType] /\ f \in FileType /\ f.count \in Nat /\ f.count >= 1
  BY DEF Core, TableTyped, FileType
<1>2. y \in Entries \cup {NoEntry} /\ f.count - 1 \in Nat
  BY <1>1 DEF FileType
<1>3. G = [file EXCEPT ![s] = v]
  BY <1>1 DEF Uncounted, FileType
<1>. HIDE DEF y
<1>4. v \in FileType /\ v.count = f.count - 1 /\ v.type = f.type /\ v.entry = y
  BY <1>1, <1>2 DEF FileType
<1>. HIDE DEF v
<1>. QED BY <1>1, <1>3, <1>4 DEF y

\* The end of a close(), or its frelease() that has to let SysFLock go afterwards.
LEMMA ClosingIs ==
    ASSUME NEW p \in {"unlock", "user"}, NEW r, r = [User EXCEPT !.pc = p]
    PROVE  /\ Continues(r) /\ r.pc = p
           /\ r.cur = NoEntry /\ r.nxt = NoEntry /\ r.put = NoEntry /\ r.then = "user"
<1>1. User \in CallType /\ User.cur = NoEntry /\ User.nxt = NoEntry /\ User.put = NoEntry /\ User.then = "user"
  BY UserIs DEF Continues
<1>2. /\ r \in CallType /\ r.pc = p /\ r.call = User.call
      /\ r.cur = NoEntry /\ r.nxt = NoEntry /\ r.put = NoEntry /\ r.then = "user"
  BY <1>1 DEF CallType, Pcs
<1>3. User.call = "none"
  BY DEF User
<1>4. Doing(r) = p
  BY <1>2 DEF Doing
<1>5. Shape(r)
  BY <1>2, <1>3, <1>4 DEF Shape, HasCur, HasNxt, Walking, Creates
<1>. QED BY <1>2, <1>5 DEF Continues, Resumes

\* close(), and with the last reference of a file the eput() of its entry.
LEMMA CloseStep ==
    ASSUME Core, NEW t \in Tasks, NEW fd \in Fds, Close(t, fd), kernel' = "running"
    PROVE  Core'
<1>1. \A s \in Sfds : LastOf(s) /\ FTable[t][fd] = s => file[s].entry \in Entries
  BY InFile DEF LastOf
<1>2. Typed
  BY DEF Core
<1>3. /\ at[t].pc = "user" /\ UNCHANGED <<disk, cwd, leak, lost>> /\ Ring(order')
      /\ \E s \in Sfds :
           /\ FTable[t][fd] = s /\ file[s].count >= 1
           /\ FTable' = Install(FTable, t, fd, NULL) /\ file' = Uncounted(s)
           /\ \/ /\ LastOf(s)
                 /\ \E p \in {"unlock", "user"} :
                       Put(t, entry, holder, file[s].entry, [User EXCEPT !.pc = p])
              \/ ~LastOf(s) /\ UNCHANGED <<entry, order, holder, at>>
  <2>1. /\ at[t].pc = "user" /\ UNCHANGED <<disk, cwd, leak, lost>> /\ Ring(order')
        /\ \E s \in Sfds :
             /\ FTable[t][fd] = s /\ file[s].count >= 1
             /\ FTable' = [FTable EXCEPT ![t][fd] = NULL]
             /\ file' = [file EXCEPT ![s].count = @ - 1, ![s].entry = IF LastOf(s) THEN NoEntry ELSE @]
             /\ \/ /\ LastOf(s)
                   /\ \E p \in {"unlock", "user"} :
                         Put(t, entry, holder, file[s].entry, [User EXCEPT !.pc = p])
                \/ ~LastOf(s) /\ UNCHANGED <<entry, order, holder, at, kernel, sysf>>
    BY <1>1, <1>2, CloseIs
  <2>2. PICK s \in Sfds :
             /\ FTable[t][fd] = s /\ file[s].count >= 1
             /\ FTable' = [FTable EXCEPT ![t][fd] = NULL]
             /\ file' = [file EXCEPT ![s].count = @ - 1, ![s].entry = IF LastOf(s) THEN NoEntry ELSE @]
             /\ \/ /\ LastOf(s)
                   /\ \E p \in {"unlock", "user"} :
                         Put(t, entry, holder, file[s].entry, [User EXCEPT !.pc = p])
                \/ ~LastOf(s) /\ UNCHANGED <<entry, order, holder, at, kernel, sysf>>
    BY <2>1
  <2>3. FTable' = Install(FTable, t, fd, NULL) /\ file' = Uncounted(s)
    BY <2>2 DEF Install, Uncounted
  <2>4. UNCHANGED <<entry, order, holder, at, kernel, sysf>> => UNCHANGED <<entry, order, holder, at>>
    OBVIOUS
  <2>. QED BY <2>1, <2>2, <2>3, <2>4
<1>4. PICK s \in Sfds :
           /\ FTable[t][fd] = s /\ file[s].count >= 1
           /\ FTable' = Install(FTable, t, fd, NULL) /\ file' = Uncounted(s)
           /\ \/ /\ LastOf(s)
                 /\ \E p \in {"unlock", "user"} :
                       Put(t, entry, holder, file[s].entry, [User EXCEPT !.pc = p])
              \/ ~LastOf(s) /\ UNCHANGED <<entry, order, holder, at>>
  BY <1>3
<1>. DEFINE G == file'
<1>5. G = Uncounted(s)
  BY <1>4
<1>. HIDE DEF G
<1>6. /\ G \in [Sfds -> FileType] /\ G[s].count = file[s].count - 1
      /\ G[s].type = file[s].type /\ G[s].entry = (IF LastOf(s) THEN NoEntry ELSE file[s].entry)
      /\ \A z \in Sfds \ {s} : G[z] = file[z]
  BY <1>4, <1>5, CountDown
<1>7. file[s].count \in Nat /\ file[s].count >= 1 /\ s \notin Opening /\ lost[s] \in Nat
  BY <1>4, FileIs
<1>8. lost' \in [Sfds -> Nat] /\ lost' = lost
  BY <1>3 DEF Core, TableTyped
<1>9. /\ NULL \in Sfds \cup {NULL, Marked} /\ FTable[t][fd] \notin Sfds \ {s} /\ NULL \notin Sfds \ {s}
      /\ Ind(FTable[t][fd] = s) = 1 /\ Ind(NULL = s) = 0
  BY <1>4, Descriptors DEF Ind
<1>10. CASE ~LastOf(s)
  <2>1. UNCHANGED <<entry, order, holder, disk, cwd, at, leak>>
    BY <1>3, <1>4, <1>10
  <2>2. file[s].type \in {"reg", "dir"} => file[s].count > 0 /\ G[s].count > 0
    BY <1>6, <1>7, <1>10 DEF LastOf
  <2>3. G[s].entry = file[s].entry
    BY <1>6, <1>10
  <2>4. G[s].count + 1 + lost[s] = file[s].count + 0 + lost'[s]
    BY <1>6, <1>7, <1>8
  <2>5. \A z \in Sfds \ {s} : lost'[z] = lost[z]
    BY <1>8
  <2>. QED BY <1>3, <1>4, <1>6, <1>7, <1>8, <1>9, <2>1, <2>2, <2>3, <2>4, <2>5, IdleKeeps DEF G
<1>11. CASE LastOf(s)
  <2>. DEFINE e == file[s].entry
  <2>1. PICK p \in {"unlock", "user"} : Put(t, entry, holder, e, [User EXCEPT !.pc = p])
    BY <1>4, <1>11
  <2>. DEFINE r == [User EXCEPT !.pc = p]
  <2>2. /\ e \in Entries /\ Spared(t, entry, e)
        /\ \A x : s \in FileRefs(file, Opening, x) <=> x = e
    BY <1>4, <1>11, InFile DEF LastOf
  <2>3. /\ Continues(r) /\ r.pc = p
        /\ r.cur = NoEntry /\ r.nxt = NoEntry /\ r.put = NoEntry /\ r.then = "user"
    BY ClosingIs
  <2>4. Put(t, entry, holder, e, r)
    BY <2>1
  <2>. HIDE DEF r, e
  <2>5. /\ ETyped(entry) /\ Sound(entry) /\ at[t] \in CallType /\ Shape(at[t])
        /\ holder \in [Entries -> Tasks \cup {Nobody}]
        /\ disk' \in [Dirs -> [Places -> PlaceType]] /\ cwd \in [Tasks -> Entries]
    BY <1>3 DEF Core, Typed
  <2>6. LocksFit(t, holder, r)
    <3>1. LocksOf(at[t], entry) = {}
      BY <1>3 DEF LocksOf, Doing
    <3>2. \A x \in Entries : holder[x] = t => leak[x] > 0
      BY <3>1 DEF Core, LocksExact
    <3>. QED BY <2>3, <2>5, <3>2 DEF LocksFit
  <2>7. Near(t, entry)
    BY <2>2, NearPlus
  <2>8. /\ Calm(t) /\ at'[t].pc # "trunc"
        /\ \A x \in Entries : Owed(entry', x) + Own(r, cwd[t], x) + Ind(x = e)
                                  = Owed(entry, x) + Own(at'[t], cwd[t], x)
    BY <1>3, <2>2, <2>3, <2>4, <2>5, <2>6, <2>7, PutCalm
  <2>9. ASSUME NEW x \in Entries
        PROVE  Owed(entry', x) + Own(at[t], cwd[t], x) + leak[x] + Ind(s \in FileRefs(file, Opening, x))
                   = Owed(entry, x) + Own(at'[t], cwd'[t], x) + leak'[x]
                         + Ind(s \in FileRefs(file', Opening', x))
    <3>. DEFINE o == Owed(entry, x)
                q == Owed(entry', x)
                a == Own(at[t], cwd[t], x)
                b == Own(at'[t], cwd[t], x)
                i == Ind(x = e)
                l == leak[x]
    <3>1. a = Own(r, cwd[t], x)
      <4>1. /\ at[t].cur = NoEntry /\ at[t].nxt = NoEntry /\ at[t].put = NoEntry /\ at[t].then = "user"
        BY <1>3, <2>5 DEF Shape, Doing, HasNxt, HasCur, Walking
      <4>2. r.pc # "chdir" /\ at[t].pc # "chdir"
        BY <1>3, <2>3
      <4>. QED BY <2>3, <4>1, <4>2 DEF Own
    <3>2. Ind(s \in FileRefs(file, Opening, x)) = i
      BY <2>2 DEF Ind
    <3>3. Ind(s \in FileRefs(file', Opening', x)) = 0
      <4>1. file'[s].count = 0
        BY <1>6, <1>7, <1>11 DEF G, LastOf
      <4>. QED BY <4>1 DEF FileRefs, Ind
    <3>4. q + a + i = o + b
      BY <2>8, <3>1
    <3>5. /\ q \in Int /\ o \in Int /\ a \in Nat /\ b \in Nat /\ i \in Nat /\ l \in Nat
      <4>1. Typed'
        BY <2>8 DEF Calm
      <4>2. entry[x].refcnt \in Nat /\ entry'[x].refcnt \in Nat /\ l \in Nat
        BY <4>1, FieldTypes DEF Core, Typed
      <4>. QED BY <4>2, FiniteBelow, OwnIs DEF Owed, Ind
    <3>6. leak'[x] = l /\ cwd'[t] = cwd[t]
      BY <1>3
    <3>. HIDE DEF o, q, a, b, i, l
    <3>7. q + a + l + i = o + b + l + 0
      BY <3>4, <3>5
    <3>. QED BY <3>2, <3>3, <3>6, <3>7 DEF o, q, a, b, l
  <2>10. at[t].pc # "trunc"
    BY <1>3
  <2>11. G[s].count + 1 + Ind(at[t].pc = "trunc") + lost[s]
             = file[s].count + 0 + Ind(at'[t].pc = "trunc") + lost'[s]
    <3>1. Ind(at[t].pc = "trunc") = 0 /\ Ind(at'[t].pc = "trunc") = 0
      BY <2>8, <2>10 DEF Ind
    <3>2. G[s].count + 1 + 0 + lost[s] = file[s].count + 0 + 0 + lost'[s]
      BY <1>6, <1>7, <1>8
    <3>. QED BY <3>1, <3>2
  <2>12. HasEntry(s)'
    <3>1. file'[s].count = 0
      BY <1>6, <1>7, <1>11 DEF G, LastOf
    <3>. QED BY <3>1 DEF HasEntry
  <2>13. \A z \in Sfds \ {s} : lost'[z] = lost[z]
    BY <1>8
  <2>. QED BY <1>4, <1>6, <1>7, <1>8, <1>9, <2>8, <2>9, <2>10, <2>11, <2>12, <2>13, OneFileKeeps DEF G
<1>. QED BY <1>10, <1>11

\* open() has the descriptor and the file: the call's reference becomes the file's.
LEMMA OpenedKeeps ==
    ASSUME Core, NEW t \in Tasks, at[t].pc \in {"arrived", "trunc"}, Calm(t), at'[t] = User,
           NEW s \in Sfds, NEW fd \in Fds, FTable[t][fd] \in {NULL, Marked},
           FTable' = Install(FTable, t, fd, s), Opened(s, at[t].cur), UNCHANGED <<cwd, leak, lost>>,
           s \in Opening <=> at[t].pc = "trunc", at[t].pc = "trunc" => at[t].file = s,
           file[s].count = Ind(at[t].pc = "trunc"),
           entry'[at[t].cur].dir = entry[at[t].cur].dir,
           \A x \in Entries : Owed(entry', x) = Owed(entry, x)
    PROVE  Core'
<1>. DEFINE e == at[t].cur
            v == [type |-> IF entry[e].dir THEN "dir" ELSE "reg", count |-> 1, entry |-> e]
<1>1. e \in Entries
  BY TakenByCall DEF HasCur, Walking
<1>2. v \in FileType /\ v.count = 1 /\ v.entry = e /\ v.type \in {"reg", "dir"}
      /\ (v.type = "reg" => ~entry[e].dir)
  BY <1>1 DEF FileType, FileTypes
<1>3. file' = [file EXCEPT ![s] = v]
  BY DEF Opened
<1>. HIDE DEF v
<1>4. file \in [Sfds -> FileType] /\ lost \in [Sfds -> Nat] /\ lost' = lost
  BY DEF Core, TableTyped
<1>5. /\ file' \in [Sfds -> FileType] /\ file'[s] = v /\ \A z \in Sfds \ {s} : file'[z] = file[z]
      /\ lost' \in [Sfds -> Nat] /\ \A z \in Sfds \ {s} : lost'[z] = lost[z]
  BY <1>2, <1>3, <1>4
<1>6. at'[t].pc # "trunc"
  BY UserIs
<1>7. s \notin Opening'
  <2>1. \A u \in Tasks \ {t} : at'[u] = at[u]
    BY DEF Calm, Frame
  <2>2. \A u \in Tasks \ {t} : at[u].pc = "trunc" => at[u].file # s
    <3>1. CASE at[t].pc = "trunc"
      BY <3>1 DEF Core, TableTyped
    <3>2. CASE at[t].pc # "trunc"
      BY <3>2 DEF Opening
    <3>. QED BY <3>1, <3>2
  <2>. QED BY <1>6, <2>1, <2>2 DEF Opening
<1>8. /\ \A x : s \in FileRefs(file', Opening', x) <=> x = e
      /\ \A x : s \notin FileRefs(file, Opening, x)
  <2>1. 1 > 0
    OBVIOUS
  <2>2. \A x : s \in FileRefs(file', Opening', x) <=> x = e
    BY <1>2, <1>5, <1>7, <2>1 DEF FileRefs
  <2>3. at[t].pc # "trunc" => ~(file[s].count > 0)
    BY DEF Ind
  <2>4. \A x : s \notin FileRefs(file, Opening, x)
    BY <2>3 DEF FileRefs
  <2>. QED BY <2>2, <2>4
<1>9. HasEntry(s)'
  BY <1>1, <1>2, <1>5 DEF HasEntry
<1>10. FTable[t][fd] \notin Sfds \ {s} /\ s \notin Sfds \ {s} /\ s \in Sfds \cup {NULL, Marked}
  BY Descriptors
<1>11. file'[s].count + Ind(FTable[t][fd] = s) + Ind(at[t].pc = "trunc") + lost[s]
           = file[s].count + Ind(s = s) + Ind(at'[t].pc = "trunc") + lost'[s]
  <2>. DEFINE i == Ind(at[t].pc = "trunc")
              l == lost[s]
  <2>1. /\ Ind(FTable[t][fd] = s) = 0 /\ Ind(s = s) = 1 /\ Ind(at'[t].pc = "trunc") = 0
        /\ i \in Nat /\ l \in Nat /\ lost'[s] = l
    BY <1>4, <1>6, Descriptors DEF Ind
  <2>2. file'[s].count = 1 /\ file[s].count = i
    BY <1>2, <1>5
  <2>. HIDE DEF i, l
  <2>3. 1 + 0 + i + l = i + 1 + 0 + l
    BY <2>1
  <2>. QED BY <2>1, <2>2, <2>3 DEF i, l
<1>12. ASSUME NEW x \in Entries
       PROVE  Owed(entry', x) + Own(at[t], cwd[t], x) + leak[x] + Ind(s \in FileRefs(file, Opening, x))
                  = Owed(entry, x) + Own(at'[t], cwd'[t], x) + leak'[x]
                        + Ind(s \in FileRefs(file', Opening', x))
  <2>. DEFINE o == Owed(entry, x)
              a == Own(at[t], cwd[t], x)
              b == Own(User, cwd[t], x)
              i == Ind(e = x)
              l == leak[x]
  <2>1. a = b + i
    <3>1. at[t].nxt = NoEntry /\ at[t].put = NoEntry /\ at[t].then = "user" /\ at[t].pc # "chdir"
      BY DEF Core, Typed, Shape, Doing, HasNxt
    <3>2. Ind(at[t].nxt = x) = 0
      BY <3>1, EntryFacts DEF Ind
    <3>3. a = b + i + 0 /\ b \in Nat /\ i \in Nat
      BY <3>1, <3>2, OwnEnds, OwnIs DEF Ind
    <3>. HIDE DEF a, b, i
    <3>. QED BY <3>3
  <2>2. Ind(s \in FileRefs(file, Opening, x)) = 0 /\ Ind(s \in FileRefs(file', Opening', x)) = i
    BY <1>8 DEF Ind
  <2>3. Owed(entry', x) = o /\ Own(at'[t], cwd'[t], x) = b /\ leak'[x] = l
    OBVIOUS
  <2>4. o \in Int /\ b \in Nat /\ i \in Nat /\ l \in Nat
    <3>1. entry[x].refcnt \in Nat /\ l \in Nat
      BY FieldTypes DEF Core, Typed
    <3>. QED BY <3>1, FiniteBelow, OwnIs DEF Owed, Ind
  <2>. HIDE DEF o, a, b, i, l
  <2>5. o + a + l + 0 = o + b + l + i
    BY <2>1, <2>4
  <2>. QED BY <2>2, <2>3, <2>5 DEF o, a, b, i, l
<1>. QED BY <1>5, <1>6, <1>9, <1>10, <1>11, <1>12, OneFileKeeps

\* open() after etrunc().
LEMMA TruncStep ==
    ASSUME Core, NEW t \in Tasks, Trunc(t), kernel' = "running"
    PROVE  Core'
<1>. DEFINE e == at[t].cur
            s == at[t].file
            fd == at[t].fd
            F == entry'
<1>1. /\ at[t].pc = "trunc" /\ F = Content(e, 0) /\ holder' = [holder EXCEPT ![e] = Nobody]
      /\ Opened(s, e) /\ FTable' = Install(FTable, t, fd, s) /\ at' = [at EXCEPT ![t] = User]
      /\ UNCHANGED <<order, disk, cwd, leak, lost>>
  BY DEF Trunc, Spins, End, At, Truncated, Content, Install
<1>2. /\ e \in Entries /\ ETyped(entry) /\ Sound(entry) /\ at \in [Tasks -> CallType]
      /\ at[t] \in CallType /\ Shape(at[t]) /\ Ring(order) /\ Nobody \notin Tasks
      /\ holder \in [Entries -> Tasks \cup {Nobody}] /\ leak \in [Entries -> Nat]
      /\ cwd \in [Tasks -> Entries] /\ ~entry[e].dir
  BY <1>1, TakenByCall, CacheAssumption DEF HasCur, Core, Typed, Working
<1>3. /\ s \in Sfds /\ fd \in Fds /\ FTable[t][fd] = Marked /\ file[s].count = 1
      /\ s \in Opening
  BY <1>1 DEF Core, TableTyped, Reserved, Opening
<1>. HIDE DEF F
<1>4. /\ ETyped(F) /\ Sound(F) /\ SameFiles(entry, F)
      /\ \A x \in Entries : Owed(F, x) = Owed(entry, x)
      /\ \A y \in Entries \ {e} : F[y] = entry[y]
  BY <1>1, <1>2, ContentIs
<1>5. LocksKeep(t, User)
  <2>1. LocksOf(User, F) = {} /\ LocksOf(at[t], entry) = {e}
    BY <1>1, UserIs DEF LocksOf, Doing
  <2>2. \A x \in Entries : /\ x \in LocksOf(at[t], entry) => holder[x] = t
                           /\ holder[x] = t => leak[x] > 0 \/ x \in LocksOf(at[t], entry)
    BY DEF Core, LocksExact
  <2>3. /\ holder' \in [Entries -> Tasks \cup {Nobody}] /\ holder[e] = t
        /\ holder'[e] = Nobody /\ \A x \in Entries \ {e} : holder'[x] = holder[x]
    BY <1>1, <1>2, <2>1, <2>2
  <2>. HIDE DEF e
  <2>. QED BY <1>1, <1>2, <2>1, <2>2, <2>3 DEF LocksKeep, F
<1>6. \A u \in Tasks \ {t} : at[u].pc \in HasNxt => F[at[u].nxt] = entry[at[u].nxt]
  <2>1. Own(at[t], cwd[t], e) >= 1
    BY OwnIs
  <2>2. \A u \in Tasks \ {t} : at[u].pc \in HasNxt => at[u].nxt \in Entries /\ at[u].nxt # e
    BY <1>2, <2>1, InCall, FreshIsAlone
  <2>. QED BY <1>4, <2>2
<1>7. /\ User \in CallType /\ Shape(User) /\ User.pc \notin HasNxt \cup HasCur
      /\ User.pc \notin {"trunc", "empty"}
  BY UserIs DEF Continues, HasNxt, HasCur, Walking
<1>8. \A x \in Entries : leak'[x] >= leak[x]
  BY <1>1, <1>2
<1>9. Calm(t) /\ at'[t] = User
  BY <1>1, <1>2, <1>4, <1>5, <1>6, <1>7, <1>8, PlainCalm DEF F
<1>10. entry'[e].dir = entry[e].dir /\ file[s].count = Ind(at[t].pc = "trunc")
  BY <1>1, <1>2, <1>3, <1>4 DEF SameFiles, F, Ind
<1>. HIDE DEF s, fd
<1>11. at[t].file = s
  BY DEF s
<1>12. UNCHANGED <<cwd, leak, lost>> /\ FTable[t][fd] \in {NULL, Marked}
       /\ (s \in Opening <=> at[t].pc = "trunc") /\ at[t].pc \in {"arrived", "trunc"}
       /\ \A x \in Entries : Owed(entry', x) = Owed(entry, x)
  BY <1>1, <1>3, <1>4 DEF F
<1>. QED BY <1>1, <1>3, <1>9, <1>10, <1>11, <1>12, OpenedKeeps

\* open() of a file that it empties.
Emptying(a, s, fd) == [a EXCEPT !.pc = "trunc", !.file = s, !.fd = fd]

LEMMA EmptyingIs ==
    ASSUME NEW a \in CallType, Shape(a), a.pc = "arrived", NEW s \in Sfds, NEW fd \in Fds,
           NEW r, r = Emptying(a, s, fd)
    PROVE  /\ r \in CallType /\ Shape(r) /\ r.pc = "trunc" /\ Doing(r) = "trunc"
           /\ r.cur = a.cur /\ r.file = s /\ r.fd = fd
           /\ \A w, x : Own(r, w, x) = Own(a, w, x)
<1>1. /\ r \in CallType /\ r.pc = "trunc" /\ r.file = s /\ r.fd = fd
      /\ r.cur = a.cur /\ r.nxt = a.nxt /\ r.put = a.put /\ r.then = a.then
      /\ r.rest = a.rest /\ r.call = a.call
  BY DEF Emptying, CallType, Pcs
<1>2. Doing(r) = "trunc" /\ Doing(a) = "arrived"
  BY <1>1 DEF Doing
<1>3. Shape(r)
  BY <1>1, <1>2 DEF Shape, HasCur, HasNxt, Walking, Creates
<1>4. \A w, x : Own(r, w, x) = Own(a, w, x)
  BY <1>1 DEF Own
<1>. QED BY <1>1, <1>2, <1>3, <1>4

LEMMA EmptiesKeeps ==
    ASSUME Core, NEW t \in Tasks, at[t].pc = "arrived", holder[at[t].cur] = Nobody,
           NEW s \in FreeSfds, NEW fd \in FreeFds(t), OpenEmpties(t, s, fd),
           UNCHANGED <<disk, cwd, leak, lost>>
    PROVE  Core'
<1>. DEFINE e == at[t].cur
            r == Emptying(at[t], s, fd)
<1>1. /\ file' = [file EXCEPT ![s].count = 1] /\ FTable' = Install(FTable, t, fd, Marked)
      /\ holder' = [holder EXCEPT ![e] = t] /\ ~entry[e].dir
      /\ at' = [at EXCEPT ![t].pc = "trunc", ![t].file = s, ![t].fd = fd]
      /\ UNCHANGED <<entry, order, disk, cwd, leak>>
  BY DEF OpenEmpties, Install
<1>2. /\ e \in Entries /\ ETyped(entry) /\ Sound(entry) /\ at \in [Tasks -> CallType]
      /\ at[t] \in CallType /\ Shape(at[t]) /\ Ring(order) /\ Nobody \notin Tasks
      /\ holder \in [Entries -> Tasks \cup {Nobody}] /\ leak \in [Entries -> Nat]
      /\ cwd \in [Tasks -> Entries]
  BY TakenByCall, CacheAssumption DEF HasCur, Walking, Core, Typed
<1>3. /\ s \in Sfds /\ fd \in Fds /\ FTable[t][fd] = NULL /\ file[s].count = 0
      /\ s \notin Opening /\ lost[s] \in Nat
  BY FileIs DEF FreeSfds, FreeFds
<1>4. at' = [at EXCEPT ![t] = r]
  BY <1>1, <1>2 DEF Emptying
<1>5. /\ r \in CallType /\ Shape(r) /\ r.pc = "trunc" /\ Doing(r) = "trunc"
      /\ r.cur = e /\ r.file = s /\ r.fd = fd
      /\ \A w, x : Own(r, w, x) = Own(at[t], w, x)
  BY <1>2, <1>3, EmptyingIs
<1>. HIDE DEF r
<1>6. LocksKeep(t, r)
  <2>1. LocksOf(r, entry') = {e} /\ LocksOf(at[t], entry) = {}
    BY <1>5 DEF LocksOf, Doing
  <2>2. \A x \in Entries : holder[x] = t => leak[x] > 0 \/ x \in LocksOf(at[t], entry)
    BY DEF Core, LocksExact
  <2>3. /\ holder' \in [Entries -> Tasks \cup {Nobody}] /\ holder[e] = Nobody
        /\ holder'[e] = t /\ \A x \in Entries \ {e} : holder'[x] = holder[x]
    BY <1>1, <1>2
  <2>. HIDE DEF e
  <2>. QED BY <1>1, <1>2, <2>1, <2>2, <2>3 DEF LocksKeep
<1>7. /\ SameFiles(entry, entry') /\ ETyped(entry') /\ Sound(entry') /\ Ring(order')
      /\ \A x \in Entries : leak'[x] = leak[x] /\ leak'[x] >= leak[x]
      /\ r.pc \notin HasNxt /\ ~entry[r.cur].dir /\ r.cur \in Entries
      /\ \A u \in Tasks \ {t} : at[u].pc \in HasNxt => entry'[at[u].nxt] = entry[at[u].nxt]
      /\ cwd' \in [Tasks -> Entries] /\ \A u \in Tasks \ {t} : cwd'[u] = cwd[u]
      /\ disk' = disk /\ leak' \in [Entries -> Nat]
  BY <1>1, <1>2, <1>5 DEF SameFiles, HasNxt
<1>8. Calm(t) /\ at'[t] = r
  BY <1>4, <1>5, <1>6, <1>7, PlainCalm
<1>9. /\ file \in [Sfds -> FileType] /\ lost \in [Sfds -> Nat] /\ lost' = lost
  BY DEF Core, TableTyped
<1>10. /\ file' \in [Sfds -> FileType] /\ file'[s].count = 1
       /\ \A z \in Sfds \ {s} : file'[z] = file[z]
       /\ lost' \in [Sfds -> Nat] /\ \A z \in Sfds \ {s} : lost'[z] = lost[z]
  BY <1>1, <1>3, <1>9 DEF FileType
<1>11. s \in Opening'
  BY <1>5, <1>8 DEF Opening
<1>12. HasEntry(s)'
  BY <1>11 DEF HasEntry
<1>13. /\ FTable[t][fd] \notin Sfds \ {s} /\ Marked \notin Sfds \ {s} /\ Marked \in Sfds \cup {NULL, Marked}
  BY <1>3, Descriptors
<1>14. file'[s].count + Ind(FTable[t][fd] = s) + Ind(at[t].pc = "trunc") + lost[s]
           = file[s].count + Ind(Marked = s) + Ind(at'[t].pc = "trunc") + lost'[s]
  <2>1. /\ Ind(FTable[t][fd] = s) = 0 /\ Ind(at[t].pc = "trunc") = 0 /\ Ind(Marked = s) = 0
        /\ Ind(at'[t].pc = "trunc") = 1
    BY <1>3, <1>5, <1>8, Descriptors DEF Ind
  <2>2. 1 + 0 + 0 + lost[s] = 0 + 0 + 1 + lost'[s]
    BY <1>3, <1>9
  <2>. QED BY <1>3, <1>10, <2>1, <2>2
<1>15. ASSUME NEW x \in Entries
       PROVE  Owed(entry', x) + Own(at[t], cwd[t], x) + leak[x] + Ind(s \in FileRefs(file, Opening, x))
                  = Owed(entry, x) + Own(at'[t], cwd'[t], x) + leak'[x]
                        + Ind(s \in FileRefs(file', Opening', x))
  <2>1. Ind(s \in FileRefs(file, Opening, x)) = 0
    <3>1. ~(file[s].count > 0)
      BY <1>3
    <3>. QED BY <3>1 DEF FileRefs, Ind
  <2>2. Ind(s \in FileRefs(file', Opening', x)) = 0
    BY <1>11 DEF FileRefs, Ind
  <2>3. entry' = entry /\ Own(at'[t], cwd'[t], x) = Own(at[t], cwd[t], x) /\ leak'[x] = leak[x]
    BY <1>1, <1>5, <1>7, <1>8
  <2>. QED BY <2>1, <2>2, <2>3
<1>16. /\ s \notin Opening /\ at[t].pc # "trunc" /\ at'[t].file = s /\ at'[t].fd = fd /\ s \in Sfds
       /\ Calm(t) /\ fd \in Fds /\ FTable' = Install(FTable, t, fd, Marked)
  BY <1>1, <1>3, <1>5, <1>8
<1>. QED BY <1>10, <1>12, <1>13, <1>14, <1>15, <1>16, OneFileKeeps

LEMMA OpenStep ==
    ASSUME Core, NEW t \in Tasks, Open(t), kernel' = "running"
    PROVE  Core'
<1>1. at[t].pc = "arrived"
  BY DEF Open, At
<1>2. Typed /\ at[t].cur \in Entries
  BY <1>1, TakenByCall DEF HasCur, Walking, Core
<1>3. /\ holder[at[t].cur] = Nobody /\ UNCHANGED <<disk, cwd, leak, sysf, lost>> /\ Ring(order')
      /\ \/ OpenFails(t)
         \/ \E s \in FreeSfds, fd \in FreeFds(t) : OpenEmpties(t, s, fd) \/ OpenEnds(t, s, fd)
  BY <1>2, OpenIs
<1>4. CASE OpenFails(t)
  <2>1. Put(t, entry, holder, at[t].cur, User) /\ UNCHANGED <<file, FTable, lost>>
    BY <1>3, <1>4 DEF OpenFails
  <2>2. CacheStep(t) /\ at'[t].pc # "trunc"
    BY <1>1, <1>3, <2>1, EndingStep
  <2>. QED BY <1>1, <2>1, <2>2, CacheStepKeeps
<1>5. ASSUME NEW s \in FreeSfds, NEW fd \in FreeFds(t), OpenEmpties(t, s, fd)
      PROVE  Core'
  BY <1>1, <1>3, <1>5, EmptiesKeeps
<1>6. ASSUME NEW s \in FreeSfds, NEW fd \in FreeFds(t), OpenEnds(t, s, fd)
      PROVE  Core'
  <2>1. /\ Opened(s, at[t].cur) /\ FTable' = Install(FTable, t, fd, s) /\ at' = [at EXCEPT ![t] = User]
        /\ UNCHANGED <<entry, order, holder>>
    BY <1>6 DEF OpenEnds, Install
  <2>2. /\ s \in Sfds /\ fd \in Fds /\ FTable[t][fd] = NULL /\ file[s].count = 0 /\ s \notin Opening
    BY FileIs DEF FreeSfds, FreeFds
  <2>3. /\ ETyped(entry) /\ Sound(entry) /\ at \in [Tasks -> CallType]
        /\ at[t] \in CallType /\ Shape(at[t]) /\ Ring(order)
        /\ holder \in [Entries -> Tasks \cup {Nobody}] /\ leak \in [Entries -> Nat]
        /\ cwd \in [Tasks -> Entries]
    BY DEF Core, Typed
  <2>4. LocksKeep(t, User)
    <3>1. LocksOf(User, entry') = {} /\ LocksOf(at[t], entry) = {}
      BY <1>1, UserIs DEF LocksOf, Doing
    <3>2. \A x \in Entries : holder[x] = t => leak[x] > 0 \/ x \in LocksOf(at[t], entry)
      BY DEF Core, LocksExact
    <3>. QED BY <1>3, <2>1, <2>3, <3>1, <3>2 DEF LocksKeep
  <2>5. /\ User \in CallType /\ Shape(User) /\ User.pc \notin HasNxt \cup HasCur
        /\ User.pc \notin {"trunc", "empty"}
    BY UserIs DEF Continues, HasNxt, HasCur, Walking
  <2>6. /\ SameFiles(entry, entry') /\ ETyped(entry') /\ Sound(entry')
        /\ \A x \in Entries : leak'[x] >= leak[x]
        /\ \A u \in Tasks \ {t} : at[u].pc \in HasNxt => entry'[at[u].nxt] = entry[at[u].nxt]
        /\ cwd' \in [Tasks -> Entries] /\ \A u \in Tasks \ {t} : cwd'[u] = cwd[u]
        /\ disk' = disk /\ leak' \in [Entries -> Nat] /\ UNCHANGED <<cwd, leak, lost>>
    BY <1>3, <2>1, <2>3 DEF SameFiles
  <2>7. Calm(t) /\ at'[t] = User
    BY <1>3, <2>1, <2>3, <2>4, <2>5, <2>6, PlainCalm
  <2>8. /\ file[s].count = Ind(at[t].pc = "trunc") /\ FTable[t][fd] \in {NULL, Marked}
        /\ entry'[at[t].cur].dir = entry[at[t].cur].dir
        /\ \A x \in Entries : Owed(entry', x) = Owed(entry, x)
        /\ at[t].pc # "trunc" /\ at[t].pc \in {"arrived", "trunc"}
    BY <1>1, <2>1, <2>2 DEF Ind
  <2>. QED BY <2>1, <2>2, <2>6, <2>7, <2>8, OpenedKeeps
<1>. QED BY <1>3, <1>4, <1>5, <1>6

\* pipe2() takes two files for which there are no descriptors.
LEMMA Pipe2Step ==
    ASSUME Core, NEW t \in Tasks, Pipe2(t), kernel' = "running"
    PROVE  Core'
<1>. DEFINE s == Lowest(FreeSfds)
            r == Lowest(FreeSfds \ {s})
            fifo == [type |-> "fifo", count |-> 1, entry |-> NoEntry]
<1>1. /\ at[t].pc = "user" /\ Cardinality(FreeSfds) >= 2
      /\ file' = [file EXCEPT ![s] = fifo, ![r] = fifo]
      /\ lost' = [lost EXCEPT ![s] = @ + 1, ![r] = @ + 1]
      /\ UNCHANGED <<entry, order, holder, disk, cwd, at, leak, FTable>>
  BY DEF Pipe2, InUser, At, End, Spins, cacheVars
<1>2. FreeSfds \subseteq Nat /\ FreeSfds \subseteq Sfds
  BY Descriptors DEF FreeSfds
<1>3. s \in FreeSfds
  <2>1. FreeSfds # {}
    BY <1>1, FS_EmptySet
  <2>. QED BY <1>2, <2>1, LowestIn
<1>4. r \in FreeSfds \ {s}
  <2>. HIDE DEF s
  <2>1. FreeSfds \ {s} # {}
    <3>1. SUFFICES ASSUME FreeSfds \ {s} = {} PROVE FALSE
      OBVIOUS
    <3>2. FreeSfds = {s}
      BY <1>3, <3>1
    <3>3. Cardinality({s}) = 1
      BY FS_Singleton
    <3>. QED BY <1>1, <3>2, <3>3
  <2>2. FreeSfds \ {s} \subseteq Nat
    BY <1>2
  <2>. QED BY <2>1, <2>2, LowestIn
<1>5. /\ s \in Sfds /\ r \in Sfds /\ s # r /\ file[s].count = 0 /\ file[r].count = 0
      /\ s \notin Opening /\ r \notin Opening
  BY <1>2, <1>3, <1>4, FileIs DEF FreeSfds
<1>6. /\ file \in [Sfds -> FileType] /\ lost \in [Sfds -> Nat]
      /\ FTable \in [Tasks -> [Fds -> Sfds \cup {NULL, Marked}]]
  BY DEF Core, TableTyped
<1>7. fifo \in FileType /\ fifo.type = "fifo" /\ fifo.count = 1
  BY DEF FileType, FileTypes
<1>. HIDE DEF s, r, fifo
<1>8. /\ file' \in [Sfds -> FileType] /\ file'[s] = fifo /\ file'[r] = fifo
      /\ \A z \in Sfds \ {s, r} : file'[z] = file[z]
      /\ lost' \in [Sfds -> Nat] /\ lost'[s] = lost[s] + 1 /\ lost'[r] = lost[r] + 1
      /\ \A z \in Sfds \ {s, r} : lost'[z] = lost[z]
  BY <1>1, <1>5, <1>6, <1>7
<1>9. Calm(t) /\ at' = at /\ FTable' = FTable /\ Opening' = Opening
  BY <1>1, IdleCalm DEF Opening
<1>10. ASSUME NEW z \in Sfds PROVE FileBalanced(z)'
  <2>. DEFINE n == Cardinality(Leads(FTable, z))
              i == Ind(z \in Opening)
              w == Ind(z < Std)
              c == file[z].count
              l == lost[z]
  <2>1. c = n + i + l + w
    BY DEF Core, TableTyped, FileBalanced
  <2>2. c \in Nat /\ n \in Nat /\ l \in Nat /\ i \in Nat /\ w \in Nat
    BY FileIs DEF Ind
  <2>3. Leads(FTable', z) = Leads(FTable, z) /\ Ind(z \in Opening') = i
    BY <1>9
  <2>4. CASE z \in {s, r}
    <3>1. c = 0 /\ file'[z].count = 1 /\ lost'[z] = l + 1
      BY <1>5, <1>7, <1>8, <2>4
    <3>. HIDE DEF n, i, w, c, l
    <3>2. 1 = n + i + (l + 1) + w
      BY <2>1, <2>2, <3>1
    <3>. QED BY <2>3, <3>1, <3>2 DEF FileBalanced, n, i, w
  <2>5. CASE z \notin {s, r}
    <3>1. file'[z].count = c /\ lost'[z] = l
      BY <1>8, <2>5
    <3>. HIDE DEF n, i, w, c, l
    <3>. QED BY <2>1, <2>3, <3>1 DEF FileBalanced, n, i, w
  <2>. QED BY <2>4, <2>5
<1>11. \A u \in Tasks : Reserved(u)'
  <2>1. ASSUME NEW u \in Tasks, at[u].pc = "trunc"
        PROVE  /\ at[u].file \in Sfds /\ at[u].fd \in Fds
               /\ FTable[u][at[u].fd] = Marked /\ file'[at[u].file].count = 1
    <3>1. at[u].file \in Opening
      BY <2>1 DEF Opening
    <3>2. /\ at[u].file \in Sfds \ {s, r} /\ at[u].fd \in Fds
          /\ FTable[u][at[u].fd] = Marked /\ file[at[u].file].count = 1
      BY <1>5, <2>1, <3>1 DEF Core, TableTyped, Reserved
    <3>. QED BY <1>8, <3>2
  <2>. QED BY <1>9, <2>1 DEF Reserved
<1>12. TableTyped'
  <2>1. \A a, b \in Tasks : at'[a].pc = "trunc" /\ at'[b].pc = "trunc"
                               /\ at'[a].file = at'[b].file => a = b
    BY <1>9 DEF Core, TableTyped
  <2>. QED BY <1>6, <1>8, <1>9, <1>10, <1>11, <2>1 DEF TableTyped
<1>13. ASSUME NEW x \in Entries PROVE Booked(t, x)
  <2>1. ASSUME NEW z \in Sfds
        PROVE  z \in FileRefs(file', Opening', x) <=> z \in FileRefs(file, Opening, x)
    <3>1. CASE z \in {s, r}
      <4>1. ~(file[z].count > 0) /\ file'[z].type = "fifo"
        BY <1>5, <1>7, <1>8, <3>1
      <4>. QED BY <4>1 DEF FileRefs
    <3>2. CASE z \notin {s, r}
      BY <1>8, <1>9, <3>2 DEF FileRefs
    <3>. QED BY <3>1, <3>2
  <2>2. FileRefs(file', Opening', x) = FileRefs(file, Opening, x)
    BY <2>1 DEF FileRefs
  <2>3. entry' = entry /\ cwd' = cwd /\ leak' = leak
    BY <1>1
  <2>. QED BY <1>9, <2>2, <2>3 DEF Booked
<1>14. \A z \in Sfds : HasEntry(z)' \/ Kept(z)
  <2>1. \A z \in {s, r} : file'[z].type \notin {"reg", "dir"}
    BY <1>7, <1>8
  <2>2. \A z \in {s, r} : HasEntry(z)'
    BY <2>1 DEF HasEntry
  <2>3. \A z \in Sfds \ {s, r} : Kept(z)
    BY <1>8, <1>9 DEF Kept
  <2>. QED BY <2>2, <2>3
<1>. QED BY <1>9, <1>12, <1>13, <1>14, TableStepKeeps

-----------------------------------------------------------------------------
(* The invariant holds at the start and is kept.                           *)

LEMMA InitTyped ==
    ASSUME Init
    PROVE  /\ Typed /\ entry[Root].refcnt = Cardinality(Tasks) /\ entry[Root].parent = Root
           /\ \A e \in Slots : entry[e] = Unused
           /\ \A t \in Tasks : at[t] = User /\ cwd[t] = Root
           /\ \A e \in Entries : holder[e] = Nobody /\ leak[e] = 0
<1>1. /\ entry = [e \in Entries |->
                  IF e = Root
                    THEN [Unused EXCEPT !.parent = Root, !.refcnt = 1 + Cardinality(Tasks \ {InitTask}),
                             !.uptodate = TRUE, !.dir = TRUE, !.clus = RootClus]
                    ELSE Unused]
      /\ cwd = [t \in Tasks |-> Root] /\ at = [t \in Tasks |-> User]
      /\ order = [i \in 1..ENTRY_CACHE_NUM |-> ENTRY_CACHE_NUM + 1 - i]
      /\ holder = [e \in Entries |-> Nobody] /\ disk = Mounted
      /\ leak = [e \in Entries |-> 0]
  BY DEF Init, CacheInit, Entries
<1>2. /\ Cardinality(Tasks) \in Nat /\ Cardinality(Tasks \ {InitTask}) \in Nat
      /\ 1 + Cardinality(Tasks \ {InitTask}) = Cardinality(Tasks)
  <2>1. Cardinality(Tasks \ {InitTask}) = Cardinality(Tasks) - 1
    BY CacheAssumption, FS_RemoveElement
  <2>2. Cardinality(Tasks) \in Nat /\ Cardinality(Tasks \ {InitTask}) \in Nat
    BY CacheAssumption, FS_Subset, FS_CardinalityType
  <2>. QED BY <2>1, <2>2
<1>. DEFINE v == [Unused EXCEPT !.parent = Root, !.refcnt = 1 + Cardinality(Tasks \ {InitTask}),
                             !.uptodate = TRUE, !.dir = TRUE, !.clus = RootClus]
            n == 1 + Cardinality(Tasks \ {InitTask})
<1>3. v \in EntryType /\ v.refcnt = n /\ v.parent = Root
  <2>1. n \in Nat
    BY <1>2
  <2>2. v = [Unused EXCEPT !.parent = Root, !.refcnt = n, !.uptodate = TRUE, !.dir = TRUE, !.clus = RootClus]
    OBVIOUS
  <2>. HIDE DEF n
  <2>. QED BY <2>1, <2>2, EntryFacts, DiskAssumption DEF EntryType, EntryRecord, Unused
<1>4. ETyped(entry) /\ entry[Root] = v /\ \A e \in Slots : entry[e] = Unused
  <2>1. entry = [e \in Entries |-> IF e = Root THEN v ELSE Unused]
    BY <1>1
  <2>. HIDE DEF v
  <2>. QED BY <1>3, <2>1, UnusedTyped, EntryFacts DEF ETyped
<1>5. Ring(order)
  <2>1. N \in Nat \ {0} /\ N = ENTRY_CACHE_NUM /\ Slots = 1..N
    BY EntryFacts DEF N
  <2>. HIDE DEF N
  <2>2. order = [i \in 1..N |-> N + 1 - i] /\ \A i \in 1..N : N + 1 - i \in 1..N
    BY <1>1, <2>1
  <2>3. order \in Seq(Slots) /\ Len(order) = N
    BY <2>1, <2>2
  <2>4. \A i \in 1..N : order[i] = N + 1 - i
    BY <2>2
  <2>5. ASSUME NEW e \in Slots PROVE \E i \in 1..N : order[i] = e
    <3>1. N + 1 - e \in 1..N /\ N + 1 - (N + 1 - e) = e
      BY <2>1
    <3>. QED BY <2>4, <3>1
  <2>6. \A i, j \in 1..N : order[i] = order[j] => i = j
    BY <2>1, <2>4
  <2>. QED BY <2>1, <2>3, <2>5, <2>6 DEF Ring
<1>6. /\ holder \in [Entries -> Tasks \cup {Nobody}] /\ cwd \in [Tasks -> Entries]
      /\ at \in [Tasks -> CallType] /\ leak \in [Entries -> Nat]
      /\ disk \in [Dirs -> [Places -> PlaceType]]
      /\ \A t \in Tasks : Shape(at[t])
  BY <1>1, EntryFacts, UserIs, MountAssumption DEF Continues
<1>. QED BY <1>1, <1>2, <1>3, <1>4, <1>5, <1>6 DEF Typed

LEMMA InitBalanced ==
    ASSUME Init
    PROVE  TableTyped /\ (\A s \in Sfds : HasEntry(s)) /\ (\A x \in Entries : Balanced(x))
<1>1. /\ file = [s \in Sfds |-> IF s < Std
                   THEN [type |-> "chr", count |-> 1 + Cardinality(Tasks), entry |-> NoEntry]
                   ELSE [type |-> "none", count |-> 0, entry |-> NoEntry]]
      /\ FTable = [t \in Tasks |-> [fd \in Fds |-> IF fd < Std THEN fd ELSE NULL]]
      /\ lost = [s \in Sfds |-> 0]
  BY DEF Init
<1>2. /\ \A t \in Tasks : at[t] = User /\ cwd[t] = Root
      /\ \A e \in Slots : entry[e] = Unused
      /\ \A e \in Entries : leak[e] = 0
      /\ entry[Root].refcnt = Cardinality(Tasks)
  BY InitTyped
<1>3. Cardinality(Tasks) \in Nat /\ IsFiniteSet(Tasks)
  BY CacheAssumption, FS_CardinalityType
<1>4. /\ User.pc = "user" /\ User.then = "user" /\ User.cur = NoEntry /\ User.nxt = NoEntry
      /\ User.put = NoEntry
  BY UserIs DEF Continues
<1>5. Opening = {}
  BY <1>2, <1>4 DEF Opening
<1>6. Std \in Nat /\ SYSOFILENUM \in Nat /\ PROCOFILENUM \in Nat /\ Std <= SYSOFILENUM /\ Std <= PROCOFILENUM
  BY TableAssumption
<1>. DEFINE n == Cardinality(Tasks)
            k == 1 + n
<1>7. /\ file \in [Sfds -> FileType] /\ lost \in [Sfds -> Nat]
      /\ \A s \in Sfds : /\ file[s].type \in {"chr", "none"} /\ lost[s] = 0
                         /\ s < Std => file[s].count = k
                         /\ ~(s < Std) => file[s].count = 0
  <2>1. k \in Nat
    BY <1>3
  <2>2. file = [s \in Sfds |-> IF s < Std THEN [type |-> "chr", count |-> k, entry |-> NoEntry]
                               ELSE [type |-> "none", count |-> 0, entry |-> NoEntry]]
    BY <1>1
  <2>. HIDE DEF k
  <2>. QED BY <1>1, <2>1, <2>2 DEF FileType, FileTypes
<1>8. /\ FTable \in [Tasks -> [Fds -> Sfds \cup {NULL, Marked}]]
      /\ \A t \in Tasks : \A fd \in Fds : FTable[t][fd] = (IF fd < Std THEN fd ELSE NULL)
  <2>1. \A fd \in Fds : fd < Std => fd \in Sfds
    BY <1>6 DEF Fds, Sfds
  <2>. QED BY <1>1, <2>1
<1>9. ASSUME NEW s \in Sfds PROVE FileBalanced(s)
  <2>1. s # NULL /\ (s < Std => s \in Fds)
    BY <1>6, Descriptors DEF Fds, Sfds
  <2>2. CASE s < Std
    <3>1. Leads(FTable, s) = Tasks \X {s}
      BY <1>8, <2>1, <2>2 DEF Leads
    <3>2. IsFiniteSet({s}) /\ Cardinality({s}) = 1
      BY FS_Singleton
    <3>3. Cardinality(Tasks \X {s}) = n * 1
      BY <1>3, <3>2, FS_Product
    <3>4. Ind(s \in Opening) = 0 /\ Ind(s < Std) = 1
      BY <1>5, <2>2 DEF Ind
    <3>5. n * 1 = n /\ 1 + n = n + 0 + 0 + 1
      BY <1>3
    <3>. HIDE DEF n
    <3>. QED BY <1>7, <2>2, <3>1, <3>3, <3>4, <3>5 DEF FileBalanced
  <2>3. CASE ~(s < Std)
    <3>1. Leads(FTable, s) = {}
      BY <1>8, <2>1, <2>3 DEF Leads
    <3>2. Cardinality(Leads(FTable, s)) = 0
      BY <3>1, FS_EmptySet
    <3>3. Ind(s \in Opening) = 0 /\ Ind(s < Std) = 0
      BY <1>5, <2>3 DEF Ind
    <3>. QED BY <1>7, <2>3, <3>2, <3>3 DEF FileBalanced
  <2>. QED BY <2>2, <2>3
<1>10. TableTyped
  BY <1>2, <1>4, <1>7, <1>8, <1>9 DEF TableTyped, Reserved
<1>11. \A s \in Sfds : HasEntry(s)
  BY <1>7 DEF HasEntry
<1>12. ASSUME NEW x \in Entries PROVE Balanced(x)
  <2>1. Below(entry, x) = {}
    BY <1>2, UnusedTyped DEF Below
  <2>2. CallRefs(at, x) = {}
    <3>1. \A t \in Tasks : \A w \in Variables3 : at[t][w] = NoEntry
      BY <1>2, <1>4 DEF Variables3
    <3>. QED BY <3>1, EntryFacts DEF CallRefs
  <2>3. FileRefs(file, Opening, x) = {}
    BY <1>7 DEF FileRefs
  <2>4. CwdRefs(at, cwd, x) = IF x = Root THEN Tasks ELSE {}
    BY <1>2, <1>4 DEF CwdRefs
  <2>5. /\ Cardinality(Below(entry, x)) = 0 /\ Cardinality(CallRefs(at, x)) = 0
        /\ Cardinality(FileRefs(file, Opening, x)) = 0 /\ leak[x] = 0
    BY <1>2, <2>1, <2>2, <2>3, FS_EmptySet
  <2>6. CASE x = Root
    <3>1. Cardinality(CwdRefs(at, cwd, x)) = n /\ entry[x].refcnt = n
      BY <1>2, <2>4, <2>6
    <3>2. n - 0 = (0 + n) + 0 + 0
      BY <1>3
    <3>. HIDE DEF n
    <3>. QED BY <2>5, <3>1, <3>2 DEF Balanced, Owed, Held
  <2>7. CASE x # Root
    <3>1. x \in Slots /\ Cardinality(CwdRefs(at, cwd, x)) = 0
      BY <2>4, <2>7, EntryFacts, FS_EmptySet
    <3>2. entry[x].refcnt = 0
      BY <1>2, <3>1, UnusedTyped
    <3>. QED BY <2>5, <3>1, <3>2 DEF Balanced, Owed, Held
  <2>. QED BY <2>6, <2>7
<1>. QED BY <1>10, <1>11, <1>12

LEMMA InitCore == Init => IInv
<1>. SUFFICES ASSUME Init PROVE Core
  BY DEF IInv
<1>1. /\ Typed /\ entry[Root].parent = Root
      /\ \A e \in Slots : entry[e] = Unused
      /\ \A t \in Tasks : at[t] = User
      /\ \A e \in Entries : holder[e] = Nobody
  BY InitTyped
<1>2. User.pc = "user" /\ \A F : LocksOf(User, F) = {}
  BY UserIs
<1>3. Sound(entry)
  BY <1>1, UnusedTyped DEF Sound
<1>4. \A t \in Tasks : Working(t)
  BY <1>1, <1>2 DEF Working, HasNxt
<1>5. LocksExact
  BY <1>1, <1>2, CacheAssumption DEF LocksExact
<1>6. OneHit
  <2>1. \A e \in Slots : ~entry[e].uptodate
    BY <1>1 DEF Unused
  <2>. QED BY <1>1, <1>2, <2>1 DEF OneHit, HasNxt
<1>. QED BY <1>1, <1>3, <1>4, <1>5, <1>6, InitBalanced DEF Core

LEMMA Stutter == Core /\ UNCHANGED vars => Core'
<1>. SUFFICES ASSUME Core, UNCHANGED vars PROVE Core'
  OBVIOUS
<1>1. UNCHANGED <<entry, order, holder, disk, cwd, at, kernel, leak, file, FTable, sysf, lost>>
  BY DEF vars, cacheVars
<1>2. Opening' = Opening
  BY <1>1 DEF Opening
<1>3. Typed'
  BY <1>1 DEF Core, Typed
<1>4. TableTyped'
  BY <1>1, <1>2 DEF Core, TableTyped, Reserved, FileBalanced
<1>5. \A s \in Sfds : HasEntry(s)'
  BY <1>1, <1>2 DEF Core, HasEntry
<1>6. \A x \in Entries : Balanced(x)'
  BY <1>1, <1>2 DEF Core, Balanced
<1>7. Sound(entry') /\ LocksExact' /\ OneHit' /\ \A t \in Tasks : Working(t)'
  BY <1>1 DEF Core, LocksExact, OneHit, Working
<1>. QED BY <1>3, <1>4, <1>5, <1>6, <1>7 DEF Core

\* A step of the cache alone, of any call.
LEMMA CacheNext ==
    ASSUME Core, NEW t \in Tasks, kernel' = "running",
           \/ /\ \/ Walk(t) \/ Search(t) \/ Lookup(t) \/ Allocate(t) \/ Make(t) \/ GiveUp(t)
                 \/ Drop(t) \/ Flush(t) \/ Unlink(t) \/ Empty(t) \/ LockParent(t) \/ RemoveFile(t)
              /\ UNCHANGED tableVars
           \/ \E c \in Program[t] : Begin(t, c)
           \/ Chdir(t) \/ ChdirEnds(t) \/ Unlock(t)
           \/ \E fd \in Fds : Write(t, fd)
    PROVE  Core'
<1>1. UNCHANGED <<file, FTable, lost>>
  BY Zenon DEF tableVars, Begin, Chdir, ChdirEnds, Unlock, Write
<1>2. CacheStep(t) /\ at[t].pc # "trunc" /\ at'[t].pc # "trunc"
  <2>1. CASE Walk(t)
    BY <2>1, WalkStep
  <2>2. CASE Search(t)
    BY <2>2, SearchStep
  <2>3. CASE Lookup(t)
    BY <2>3, LookupStep
  <2>4. CASE Allocate(t)
    BY <2>4, AllocateStep
  <2>5. CASE Make(t)
    BY <2>5, MakeStep
  <2>6. CASE GiveUp(t)
    BY <2>6, GiveUpStep
  <2>7. CASE Drop(t)
    BY <2>7, DropStep
  <2>8. CASE Flush(t)
    BY <2>8, FlushStep
  <2>9. CASE Unlink(t)
    BY <2>9, UnlinkStep
  <2>10. CASE Empty(t)
    BY <2>10, EmptyStep
  <2>11. CASE LockParent(t)
    BY <2>11, LockParentStep
  <2>12. CASE RemoveFile(t)
    BY <2>12, RemoveStep
  <2>13. ASSUME NEW c \in Program[t], Begin(t, c)
         PROVE  CacheStep(t) /\ at[t].pc # "trunc" /\ at'[t].pc # "trunc"
    BY <2>13, BeginStep
  <2>14. CASE Chdir(t)
    BY <2>14, ChdirStep
  <2>15. CASE ChdirEnds(t)
    BY <2>15, ChdirEndsStep
  <2>16. CASE Unlock(t)
    BY <2>16, UnlockStep
  <2>17. ASSUME NEW fd \in Fds, Write(t, fd)
         PROVE  CacheStep(t) /\ at[t].pc # "trunc" /\ at'[t].pc # "trunc"
    BY <2>17, WriteStep, Zenon
  <2>. QED BY <2>1, <2>2, <2>3, <2>4, <2>5, <2>6, <2>7, <2>8, <2>9, <2>10, <2>11, <2>12, <2>13,
              <2>14, <2>15, <2>16, <2>17
<1>. QED BY <1>1, <1>2, CacheStepKeeps, Zenon

\* No step is taken once the model has ended.
LEMMA StepRuns == Next => Running
<1>. SUFFICES ASSUME NEW t \in Tasks,
                     \/ Walk(t) \/ Search(t) \/ Lookup(t) \/ Allocate(t) \/ Make(t) \/ GiveUp(t)
                     \/ Drop(t) \/ Flush(t) \/ Unlink(t) \/ Empty(t) \/ LockParent(t) \/ RemoveFile(t)
                     \/ \E c \in Program[t] : Begin(t, c)
                     \/ Open(t) \/ Trunc(t) \/ Chdir(t) \/ ChdirEnds(t) \/ Unlock(t) \/ Pipe2(t)
                     \/ \E fd \in Fds : Close(t, fd) \/ Dup(t, fd) \/ Write(t, fd)
                     \/ \E old, new \in Fds : dup3(t, old, new)
              PROVE  kernel = "running"
  BY DEF Next, Running
<1>. QED BY Zenon DEF Walk, Search, Lookup, Allocate, Make, GiveUp, Drop, Flush, Unlink, Empty, LockParent,
                RemoveFile, Begin, Open, Trunc, Chdir, ChdirEnds, Unlock, Pipe2, Close, Dup, Write,
                dup3, At, InUser

LEMMA NextKeeps == IInv /\ [Next]_vars => IInv'
<1>. SUFFICES ASSUME IInv, [Next]_vars, Running' PROVE Core'
  BY DEF IInv
<1>1. CASE UNCHANGED vars
  <2>1. Running
    BY <1>1 DEF Running, vars, cacheVars
  <2>. QED BY <1>1, <2>1, Stutter DEF IInv
<1>2. CASE Next
  <2>1. Core /\ kernel' = "running"
    BY <1>2, StepRuns DEF IInv, Running
  <2>2. PICK t \in Tasks :
           \/ /\ \/ Walk(t) \/ Search(t) \/ Lookup(t) \/ Allocate(t) \/ Make(t) \/ GiveUp(t)
                 \/ Drop(t) \/ Flush(t) \/ Unlink(t) \/ Empty(t) \/ LockParent(t) \/ RemoveFile(t)
              /\ UNCHANGED tableVars
           \/ \E c \in Program[t] : Begin(t, c)
           \/ Open(t) \/ Trunc(t) \/ Chdir(t) \/ ChdirEnds(t) \/ Unlock(t) \/ Pipe2(t)
           \/ \E fd \in Fds : Close(t, fd) \/ Dup(t, fd) \/ Write(t, fd)
           \/ \E old, new \in Fds : dup3(t, old, new)
    BY <1>2 DEF Next
  <2>3. CASE \/ /\ \/ Walk(t) \/ Search(t) \/ Lookup(t) \/ Allocate(t) \/ Make(t) \/ GiveUp(t)
                   \/ Drop(t) \/ Flush(t) \/ Unlink(t) \/ Empty(t) \/ LockParent(t) \/ RemoveFile(t)
                /\ UNCHANGED tableVars
             \/ \E c \in Program[t] : Begin(t, c)
             \/ Chdir(t) \/ ChdirEnds(t) \/ Unlock(t)
             \/ \E fd \in Fds : Write(t, fd)
    BY <2>1, <2>3, CacheNext
  <2>4. CASE Open(t)
    BY <2>1, <2>4, OpenStep
  <2>5. CASE Trunc(t)
    BY <2>1, <2>5, TruncStep
  <2>6. CASE Pipe2(t)
    BY <2>1, <2>6, Pipe2Step
  <2>7. ASSUME NEW fd \in Fds, Close(t, fd) PROVE Core'
    BY <2>1, <2>7, CloseStep
  <2>8. ASSUME NEW fd \in Fds, Dup(t, fd) PROVE Core'
    BY <2>1, <2>8, DupStep
  <2>9. ASSUME NEW old \in Fds, NEW new \in Fds, dup3(t, old, new) PROVE Core'
    BY <2>1, <2>9, Dup3Step
  <2>. QED BY <2>2, <2>3, <2>4, <2>5, <2>6, <2>7, <2>8, <2>9
<1>. QED BY <1>1, <1>2

\* While the kernel runs on, every counter of an entry and of a file equals the
\* number of references that the tasks, the descriptors, the open files, the
\* entries below and the calls that failed make up, and the locks of entries are
\* those that the calls are keeping (eget(), edup(), eput(), fdup(), frelease()).
THEOREM FileTableInvariance == Spec => []IInv
<1>. QED BY InitCore, NextKeeps, PTL DEF Spec

\* A file's count is the descriptors that lead to it, the open() that fills it in,
\* what dup() and pipe2() hand to no one and the console's own: frelease() finds
\* the last reference exactly when there is no other.
THEOREM FileCountsTheorem == Spec => []FileCounts
<1>1. IInv => FileCounts
  BY DEF IInv, Core, TableTyped, FileBalanced, FileCounts, Leads, Ind
<1>. QED BY <1>1, FileTableInvariance, PTL

\* An entry's count is its references, so that eget() takes a slot for another
\* file only when nothing leads to it, and eput() writes it exactly at the last.
THEOREM CountsExactTheorem == Spec => []CountsExact
<1>1. IInv => CountsExact
  <2>. SUFFICES ASSUME Core, NEW e \in Entries PROVE entry[e].refcnt = Refs(e)
    BY DEF IInv, CountsExact, Entries
  <2>. DEFINE a == Cardinality(CallRefs(at, e))
              b == Cardinality(CwdRefs(at, cwd, e))
              c == Cardinality(FileRefs(file, Opening, e))
              d == Cardinality(Below(entry, e))
              l == leak[e]
              n == entry[e].refcnt
  <2>1. Refs(e) = a + b + c + d + l
    <3>1. CallRefs(at, e) = {v \in Tasks \X {"cur", "nxt", "put"} : at[v[1]][v[2]] = e}
      BY DEF CallRefs, Variables3
    <3>2. FileRefs(file, Opening, e)
             = {s \in Sfds : /\ file[s].count > 0 /\ file[s].entry = e
                             /\ file[s].type \in {"reg", "dir"} /\ s \notin Opening}
      BY DEF FileRefs
    <3>. QED BY <3>1, <3>2 DEF Refs, CwdRefs, Below
  <2>2. n - d = (a + b) + c + l
    BY DEF Core, Balanced, Owed, Held
  <2>3. a \in Nat /\ b \in Nat /\ c \in Nat /\ d \in Nat /\ l \in Nat /\ n \in Nat
    <3>1. n \in Nat /\ l \in Nat
      BY FieldTypes DEF Core, Typed
    <3>2. a \in Nat /\ b \in Nat
      BY FiniteRefs, FS_CardinalityType
    <3>. QED BY <3>1, <3>2, FiniteFileRefs, FiniteBelow
  <2>. HIDE DEF a, b, c, d, l, n
  <2>3a. n = a + b + c + d + l
    BY <2>2, <2>3
  <2>. QED BY <2>1, <2>3a DEF n
<1>. QED BY <1>1, FileTableInvariance, PTL

\* Whoever holds an entry's lock counts in it, or has failed and keeps both: so an
\* eput() that finds one reference, its caller's, never waits for the lock.
THEOREM LockedIsCountedTheorem == Spec => []LockedIsCounted
<1>1. IInv => LockedIsCounted
  <2>. SUFFICES ASSUME Core, NEW e \in Entries, holder[e] # Nobody, ~(leak[e] > 0)
                PROVE  /\ at[holder[e]].pc # "user"
                       /\ \/ e \in {at[holder[e]].cur, at[holder[e]].nxt, at[holder[e]].put}
                          \/ at[holder[e]].pc = "remove" /\ e = entry[at[holder[e]].cur].parent
    BY DEF IInv, LockedIsCounted, Entries
  <2>1. PICK t \in Tasks : holder[e] = t
    BY DEF Core, Typed
  <2>2. e \in LocksOf(at[t], entry)
    BY <2>1 DEF Core, LocksExact
  <2>3. Shape(at[t])
    BY DEF Core, Typed
  <2>4. Doing(at[t]) = "remove" => at[t].pc = "remove"
    BY <2>3 DEF Shape, Doing, Resumes
  <2>5. at[t].pc # "user"
    BY <2>2 DEF LocksOf, Doing
  <2>6. \/ e \in {at[t].cur, at[t].nxt, at[t].put}
        \/ Doing(at[t]) = "remove" /\ e = entry[at[t].cur].parent
    BY <2>2 DEF LocksOf
  <2>. QED BY <2>1, <2>4, <2>5, <2>6
<1>. QED BY <1>1, FileTableInvariance, PTL

\* A file has one valid entry: lookups and creations in one directory, which hold
\* its lock while they read it, never leave two with the same name.
THEOREM OneEntryPerNameTheorem == Spec => []OneEntryPerName
<1>1. IInv => OneEntryPerName
  BY DEF IInv, Core, OneHit, OneEntryPerName
<1>. QED BY <1>1, FileTableInvariance, PTL

-----------------------------------------------------------------------------
(* The tree of directories: what the entries in use say of the disk.       *)

DiskType == [Dirs -> [Places -> PlaceType]]

\* With the entries E and the disk D: the place of e's file.
PlaceIn(E, D, e) == D[E[E[e].parent].clus][E[e].place]

\* The place that ealloc() has found for a new file is still free, the name is that
\* of no file of the directory, the cluster of a new directory that of no other.
Pending(E, D, e) ==
    /\ E[e].place \in Places /\ PlaceIn(E, D, e) = Free
    /\ \A p \in Places : D[E[E[e].parent].clus][p].name # E[e].name
    /\ E[e].dir => /\ E[e].clus # RootClus
                   /\ \A d \in Dirs : \A p \in Places : D[d][p].clus # E[e].clus

\* A valid entry is that of the file in its place, and if it is not dirty it says the
\* same; another is being looked up, or its file is being made.
Says(E, D, e) ==
    IF E[e].uptodate
      THEN E[e].name # NoName =>
              /\ PlaceIn(E, D, e).name = E[e].name
              /\ ~E[e].dirty => PlaceIn(E, D, e) = [name |-> E[e].name, dir |-> E[e].dir,
                                                    clus |-> E[e].clus]
      ELSE /\ E[e].name # NoName /\ ~E[e].dirty
           /\ IF E[e].place = 0 THEN ~E[e].dir ELSE Pending(E, D, e)

\* Only files are ever dirty or removed, and a place becomes valid with its entry.
Plain(r) ==
    /\ r.uptodate => r.place \in Places
    /\ r.dirty => ~r.dir
    /\ r.refcnt > 0 /\ r.name = NoName => ~r.dir

\* No two directories in use have the same cluster. The root is one of them for good,
\* whatever its count.
Used(E, e) == e = Root \/ E[e].refcnt > 0
Apart(E) ==
    \A a, b \in Entries :
       Used(E, a) /\ Used(E, b) /\ E[a].dir /\ E[b].dir /\ E[a].clus = E[b].clus => a = b

InTree(E, D) ==
    /\ InOrder(D) /\ E[Root].dir /\ E[Root].clus = RootClus
    /\ \A e \in Slots : Plain(E[e])
    /\ \A e \in Slots : E[e].refcnt > 0 => E[E[e].parent].dir /\ Says(E, D, e)
    /\ Apart(E)

\* Entries that are not valid yet are those that calls have taken; a call makes a
\* file where it has found a place, and removes what is no directory.
Taking(t) == at[t].pc \in HasNxt
Awaited == \A e \in Slots : entry[e].refcnt > 0 /\ ~entry[e].uptodate =>
               \E t \in Tasks : Taking(t) /\ at[t].nxt = e
Placed(t) ==
    /\ at[t].pc = "make" => entry[at[t].nxt].place # 0
    /\ at[t].pc \in {"lockParent", "remove"} => ~entry[at[t].cur].dir

Tree == InTree(entry, disk) /\ Awaited /\ \A t \in Tasks : Placed(t)

\* Where there are references there is a directory.
Rooted(E) ==
    \A e \in Slots : E[e].refcnt > 0 =>
       E[e].parent \in Entries \ {e} /\ E[E[e].parent].refcnt > 0

\* The entry s says what r says; it is not in use if r is not.
Same(r, s) ==
    /\ s.parent = r.parent /\ s.name = r.name /\ s.place = r.place /\ s.dir = r.dir
    /\ s.clus = r.clus /\ s.uptodate = r.uptodate /\ s.dirty = r.dirty
Alike(r, s) == Same(r, s) /\ (s.refcnt > 0 => r.refcnt > 0)

LEMMA CoreRooted == Core /\ Tasks # {} => Rooted(entry)
<1>. SUFFICES ASSUME Core, NEW t \in Tasks PROVE Rooted(entry)
  OBVIOUS
<1>1. ASSUME NEW e \in Slots, entry[e].refcnt > 0
      PROVE  entry[e].parent \in Entries \ {e} /\ entry[entry[e].parent].refcnt > 0
  <2>1. entry[e].parent \in Entries \ {e} /\ entry[entry[e].parent].refcnt >= 1
    BY <1>1, ParentIsUsed
  <2>2. entry[entry[e].parent].refcnt \in Nat
    BY <2>1, FieldTypes DEF Core, Typed
  <2>. QED BY <2>1, <2>2
<1>. QED BY <1>1 DEF Rooted

LEMMA RootedAfter == Core' /\ Tasks # {} => Rooted(entry')
<1>1. (Core /\ Tasks # {} => Rooted(entry))'
  BY CoreRooted, PTL
<1>. QED BY <1>1

\* One entry changes at most, and the disk does not change what others say. What the
\* root counts does not matter.
LEMMA OneChangedOrRoot ==
    ASSUME NEW E, ETyped(E), NEW F, ETyped(F), NEW D \in DiskType, NEW G \in DiskType,
           NEW e, e # Root, InTree(E, D), InOrder(G), Rooted(F),
           \A y \in Slots \ {e} : Alike(E[y], F[y]), Same(E[Root], F[Root]),
           \A y \in Slots \ {e} : E[y].refcnt > 0 => Says(E, G, y),
           \A y \in Slots \ {e} : F[y].refcnt > 0 /\ F[y].parent = e
                                     => F[e].dir = E[e].dir /\ F[e].clus = E[e].clus,
           e \in Slots => Plain(F[e]),
           e \in Slots /\ F[e].refcnt > 0 =>
               /\ F[F[e].parent].dir /\ Says(F, G, e)
               /\ F[e].dir => \A b \in Entries \ {e} : Used(E, b) /\ E[b].dir => E[b].clus # F[e].clus
    PROVE  InTree(F, G)
<1>. USE EntryFacts DEF ETyped
<1>0. \A y \in Entries \ {e} : Same(E[y], F[y])
  BY DEF Alike
<1>1. F[Root].dir /\ F[Root].clus = RootClus
  BY DEF InTree, Same
<1>2. \A y \in Slots : Plain(F[y])
  <2>1. ASSUME NEW y \in Slots \ {e} PROVE Plain(F[y])
    BY DEF InTree, Plain, Alike, Same
  <2>. QED BY <2>1
<1>3. ASSUME NEW y \in Slots \ {e}, F[y].refcnt > 0
      PROVE  F[F[y].parent].dir /\ Says(F, G, y)
  <2>1. /\ y \in Entries /\ E[y].refcnt > 0 /\ Alike(E[y], F[y])
        /\ E[E[y].parent].dir /\ Says(E, G, y) /\ F[y].parent = E[y].parent
    BY <1>3 DEF InTree, Alike, Same
  <2>2. E[y].parent \in Entries
    BY <1>3, <2>1 DEF Rooted
  <2>3. F[E[y].parent].dir = E[E[y].parent].dir /\ F[E[y].parent].clus = E[E[y].parent].clus
    <3>1. CASE E[y].parent = e
      BY <1>3, <2>1, <3>1
    <3>2. CASE E[y].parent # e
      BY <1>0, <2>2, <3>2 DEF Same
    <3>. QED BY <3>1, <3>2
  <2>4. PlaceIn(F, G, y) = PlaceIn(E, G, y)
    BY <2>1, <2>3 DEF PlaceIn, Alike, Same
  <2>5. F[F[y].parent].dir /\ F[F[y].parent].clus = E[E[y].parent].clus
    BY <2>1, <2>3, Zenon
  <2>6. Pending(E, G, y) => Pending(F, G, y)
    <3>1. /\ F[y].place = E[y].place /\ F[y].name = E[y].name /\ F[y].dir = E[y].dir
          /\ F[y].clus = E[y].clus
      BY <2>1 DEF Alike, Same
    <3>2. G[F[F[y].parent].clus] = G[E[E[y].parent].clus]
      BY <2>5
    <3>. QED BY <2>4, <3>1, <3>2, ZenonT(30) DEF Pending
  <2>. QED BY <2>1, <2>4, <2>5, <2>6 DEF Says, Alike, Same
<1>4. Apart(F)
  <2>. SUFFICES ASSUME NEW a \in Entries, NEW b \in Entries, Used(F, a), Used(F, b),
                       F[a].dir, F[b].dir, F[a].clus = F[b].clus, a # b
                PROVE  FALSE
    BY DEF Apart
  <2>0. \A y \in Entries \ {e} : Used(F, y) => Used(E, y) /\ E[y].dir = F[y].dir /\ E[y].clus = F[y].clus
    BY <1>0 DEF Used, Alike, Same
  <2>1. CASE a # e /\ b # e
    BY <2>0, <2>1 DEF InTree, Apart
  <2>2. CASE a = e
    <3>1. e \in Slots /\ F[e].refcnt > 0 /\ b # e /\ Used(E, b) /\ E[b].dir /\ E[b].clus = F[b].clus
      BY <2>0, <2>2 DEF Used
    <3>. QED BY <2>2, <3>1
  <2>3. CASE b = e
    <3>1. e \in Slots /\ F[e].refcnt > 0 /\ a # e /\ Used(E, a) /\ E[a].dir /\ E[a].clus = F[a].clus
      BY <2>0, <2>3 DEF Used
    <3>. QED BY <2>3, <3>1
  <2>. QED BY <2>1, <2>2, <2>3
<1>5. \A y \in Slots : F[y].refcnt > 0 => F[F[y].parent].dir /\ Says(F, G, y)
  BY <1>3
<1>. QED BY <1>1, <1>2, <1>4, <1>5 DEF InTree

LEMMA OneChanged ==
    ASSUME NEW E, ETyped(E), NEW F, ETyped(F), NEW D \in DiskType, NEW G \in DiskType,
           NEW e, e # Root, InTree(E, D), InOrder(G), Rooted(F),
           \A y \in Entries \ {e} : Alike(E[y], F[y]),
           \A y \in Slots \ {e} : E[y].refcnt > 0 => Says(E, G, y),
           \A y \in Slots \ {e} : F[y].refcnt > 0 /\ F[y].parent = e
                                     => F[e].dir = E[e].dir /\ F[e].clus = E[e].clus,
           e \in Slots => Plain(F[e]),
           e \in Slots /\ F[e].refcnt > 0 =>
               /\ F[F[e].parent].dir /\ Says(F, G, e)
               /\ F[e].dir => \A b \in Entries \ {e} : Used(E, b) /\ E[b].dir => E[b].clus # F[e].clus
    PROVE  InTree(F, G)
<1>1. \A y \in Slots \ {e} : Alike(E[y], F[y])
  BY EntryFacts
<1>2. Same(E[Root], F[Root])
  BY EntryFacts DEF Alike
<1>. QED BY <1>1, <1>2, OneChangedOrRoot

\* What eput() does to the entries E and the disk D.
LEMMA PutTree ==
    ASSUME NEW t, NEW E, ETyped(E), Sound(E), NEW D \in DiskType, InTree(E, D), NEW h, NEW e \in Entries, NEW r,
           Put(t, E, h, e, r), ETyped(entry'), Rooted(entry')
    PROVE  /\ InTree(entry', D)
           /\ \A y \in Entries : entry'[y].refcnt > 0 => Alike(E[y], entry'[y])
<1>. DEFINE F == entry'
<1>0. InOrder(D) /\ \A y \in Slots : E[y].refcnt > 0 => Says(E, D, y)
  BY DEF InTree
<1>1. ASSUME F = E \/ (E[e].refcnt > 0 /\ F = [E EXCEPT ![e].refcnt = @ - 1])
      PROVE  InTree(F, D) /\ \A y \in Entries : Alike(E[y], F[y])
  <2>1. \A y \in Entries : Alike(E[y], F[y])
    BY <1>1, FieldTypes DEF Alike, Same, ETyped, EntryType, EntryRecord
  <2>2. NoEntry \notin Slots /\ NoEntry # Root /\ ETyped(F) /\ Rooted(F)
    BY EntryFacts
  <2>3. \A y \in Slots : F[y].refcnt > 0 => F[y].parent # NoEntry
    BY <2>2, EntryFacts DEF Rooted
  <2>. HIDE DEF F
  <2>4. InTree(F, D)
    BY <1>0, <2>1, <2>2, <2>3, OneChanged
  <2>. QED BY <2>1, <2>4
<1>2. ASSUME e \in Slots, E[e].refcnt = 1, E[E[e].parent].refcnt > 1, F = Last_(E, e)
      PROVE  InTree(F, D) /\ \A y \in Entries : F[y].refcnt > 0 => Alike(E[y], F[y])
  <2>1. ETyped(Last_(E, e)) /\ GivenBack(E, Last_(E, e), e)
    BY <1>2, OwedLast
  <2>2. ETyped(F) /\ GivenBack(E, F, e) /\ Rooted(F)
    BY <1>2, <2>1
  <2>. HIDE DEF F
  <2>3. E[e].parent \in Entries \ {e} /\ E[E[e].parent].refcnt > 0
    <3>1. E[e].refcnt > 0 /\ E[e].parent \in Entries \ {e}
      BY <1>2 DEF Sound
    <3>2. E[E[e].parent].refcnt \in Nat
      BY <3>1, FieldTypes
    <3>. QED BY <1>2, <3>1, <3>2
  <2>4. ASSUME NEW y \in Entries \ {e} PROVE Alike(E[y], F[y])
    <3>1. PICK n \in Nat : F[y] = [E[y] EXCEPT !.refcnt = n]
      BY <2>2 DEF GivenBack
    <3>2. E[y] \in EntryType
      BY FieldTypes
    <3>3. F[y].refcnt > 0 => E[y].refcnt > 0
      BY <2>2, <2>3, <3>1 DEF GivenBack
    <3>. QED BY <3>1, <3>2, <3>3 DEF Alike, Same, EntryType, EntryRecord
  <2>5. /\ F[e].refcnt = 0 /\ Plain(F[e])
    <3>1. E[e] \in EntryType /\ Plain(E[e])
      BY <1>2, FieldTypes DEF InTree
    <3>2. CASE E[e].name = NoName
      <4>1. F[e] = Unused
        BY <2>2, <3>2 DEF GivenBack
      <4>. QED BY <4>1 DEF Unused, Plain
    <3>3. CASE E[e].name # NoName
      <4>1. F[e] = [E[e] EXCEPT !.refcnt = 0]
        BY <2>2, <3>3 DEF GivenBack
      <4>. QED BY <3>1, <4>1 DEF Plain, EntryType, EntryRecord
    <3>. QED BY <3>2, <3>3
  <2>6. \A y \in Slots : F[y].refcnt > 0 => F[y].parent # e
    BY <2>2, <2>5 DEF Rooted
  <2>7. e # Root /\ \A y \in Slots \ {e} : E[y].refcnt > 0 => Says(E, D, y)
    BY <1>0, <1>2, EntryFacts
  <2>8. InTree(F, D)
    BY <1>0, <2>2, <2>4, <2>5, <2>6, <2>7, OneChanged
  <2>. QED BY <2>4, <2>5, <2>8
<1>. QED BY <1>1, <1>2 DEF Put, PutSome, PutEnds, PutWaits

\* What is in the same place of the same directory is the same entry.
Named(E, e) == e \in Slots /\ E[e].refcnt > 0 /\ E[e].uptodate /\ E[e].name # NoName

LEMMA NamedIs ==
    ASSUME Core, Tree, NEW t \in Tasks, NEW e \in Slots, Named(entry, e)
    PROVE  /\ e \in Entries /\ entry[e] \in EntryType /\ entry[e].place \in Places
           /\ entry[e].parent \in Entries \ {e} /\ entry[entry[e].parent] \in EntryType
           /\ entry[entry[e].parent].refcnt > 0 /\ entry[entry[e].parent].dir
           /\ entry[entry[e].parent].clus \in Dirs
           /\ PlaceIn(entry, disk, e).name = entry[e].name
           /\ ~entry[e].dirty => PlaceIn(entry, disk, e)
                                    = [name |-> entry[e].name, dir |-> entry[e].dir, clus |-> entry[e].clus]
<1>1. Rooted(entry) /\ ETyped(entry)
  BY CoreRooted DEF Core, Typed
<1>2. /\ e \in Entries /\ entry[e].parent \in Entries \ {e} /\ entry[entry[e].parent].refcnt > 0
      /\ entry[e] \in EntryType /\ entry[entry[e].parent] \in EntryType
  BY <1>1, FieldTypes, EntryFacts DEF Named, Rooted
<1>3. entry[e].place \in Places /\ entry[entry[e].parent].dir /\ Says(entry, disk, e)
  BY DEF Tree, InTree, Plain, Named
<1>. QED BY <1>2, <1>3 DEF Named, Says, EntryType

LEMMA OnePlace ==
    ASSUME Core, Tree, NEW t \in Tasks, NEW a \in Slots, NEW b \in Slots, Named(entry, a), Named(entry, b),
           entry[entry[a].parent].clus = entry[entry[b].parent].clus, entry[a].place = entry[b].place
    PROVE  a = b
<1>1. /\ entry[a].parent \in Entries /\ entry[entry[a].parent].refcnt > 0 /\ entry[entry[a].parent].dir
      /\ PlaceIn(entry, disk, a).name = entry[a].name
  BY NamedIs
<1>2. /\ entry[b].parent \in Entries /\ entry[entry[b].parent].refcnt > 0 /\ entry[entry[b].parent].dir
      /\ PlaceIn(entry, disk, b).name = entry[b].name
  BY NamedIs
<1>3. entry[a].parent = entry[b].parent
  BY <1>1, <1>2 DEF Tree, InTree, Apart, Used
<1>4. entry[a].name = entry[b].name
  BY <1>1, <1>2 DEF PlaceIn
<1>. QED BY <1>3, <1>4 DEF Named, Core, OneHit

\* A directory on the disk, or that of the place p of dp, has one entry in use: the
\* one with this name.
LEMMA OneDirectory ==
    ASSUME Core, Tree, NEW t \in Tasks, NEW dp \in Entries, entry[dp].refcnt > 0, entry[dp].dir,
           NEW p \in Places, disk[entry[dp].clus][p].dir,
           NEW b \in Entries, Used(entry, b), entry[b].dir, entry[b].clus = disk[entry[dp].clus][p].clus
    PROVE  Named(entry, b) /\ entry[b].parent = dp /\ entry[b].name = disk[entry[dp].clus][p].name
<1>. DEFINE c == entry[dp].clus
<1>1. /\ Rooted(entry) /\ ETyped(entry) /\ disk \in DiskType /\ InOrder(disk)
      /\ entry[Root].clus = RootClus
  BY CoreRooted DEF Core, Typed, DiskType, Tree, InTree
<1>2. entry[dp] \in EntryType /\ entry[b] \in EntryType /\ c \in Dirs /\ entry[b].clus \in Dirs
  BY <1>1, FieldTypes DEF EntryType
<1>3. disk[c][p].clus # RootClus
  BY <1>1, <1>2 DEF InOrder
<1>4. b \in Slots /\ entry[b].refcnt > 0
  BY <1>1, <1>3, EntryFacts DEF Used
<1>5. Says(entry, disk, b) /\ Plain(entry[b])
  BY <1>4 DEF Tree, InTree
<1>6. entry[b].uptodate
  <2>. SUFFICES ASSUME ~entry[b].uptodate PROVE FALSE
    OBVIOUS
  <2>1. entry[b].place # 0 /\ Pending(entry, disk, b)
    BY <1>5 DEF Says
  <2>. QED BY <1>2, <2>1 DEF Pending
<1>7. Named(entry, b)
  BY <1>4, <1>5, <1>6 DEF Named, Plain
<1>8. ~entry[b].dirty
  BY <1>5 DEF Plain
<1>9. /\ entry[b].place \in Places /\ entry[b].parent \in Entries /\ entry[entry[b].parent].refcnt > 0
      /\ entry[entry[b].parent].dir /\ entry[entry[b].parent].clus \in Dirs
      /\ PlaceIn(entry, disk, b) = [name |-> entry[b].name, dir |-> entry[b].dir, clus |-> entry[b].clus]
  BY <1>4, <1>7, <1>8, NamedIs
<1>. DEFINE q == entry[b].place
            k == entry[entry[b].parent].clus
<1>10. disk[k][q].dir /\ disk[k][q].clus = disk[c][p].clus /\ disk[k][q].name = entry[b].name
  BY <1>9 DEF PlaceIn
<1>11. k = c /\ q = p
  <2>1. \A x, y \in Dirs : \A i, j \in Places :
           disk[x][i].dir /\ disk[x][i].clus = disk[y][j].clus => x = y /\ i = j
    BY <1>1 DEF InOrder
  <2>2. k \in Dirs /\ c \in Dirs /\ q \in Places
    BY <1>2, <1>9
  <2>. HIDE DEF k, c, q
  <2>. QED BY <1>10, <2>1, <2>2
<1>12. entry[b].parent = dp
  BY <1>9, <1>11 DEF Tree, InTree, Apart, Used
<1>. QED BY <1>7, <1>10, <1>11, <1>12

-----------------------------------------------------------------------------
(* What the steps do to the entries before an eput().                      *)

LEMMA PlusSame ==
    ASSUME NEW E, ETyped(E), NEW e \in Entries, NEW F, F = Plus(E, e)
    PROVE  \A y \in Entries : Same(E[y], F[y]) /\ F[y].refcnt = E[y].refcnt + Ind(y = e)
<1>. SUFFICES ASSUME NEW y \in Entries
              PROVE  Same(E[y], F[y]) /\ F[y].refcnt = E[y].refcnt + Ind(y = e)
  OBVIOUS
<1>1. E[y] \in EntryType /\ E[y].refcnt \in Nat
  BY FieldTypes
<1>. QED BY <1>1 DEF Plus, Same, Ind, ETyped, EntryType, EntryRecord

LEMMA UseSame ==
    ASSUME NEW E, ETyped(E), NEW e \in Slots, E[e].parent \in Entries \ {e}, E[E[e].parent].refcnt > 0,
           NEW F, F = Use(E, e)
    PROVE  /\ \A y \in Entries : Same(E[y], F[y])
           /\ \A y \in Entries \ {e} : F[y].refcnt > 0 <=> E[y].refcnt > 0
           /\ F[e].refcnt > 0
<1>. DEFINE dp == E[e].parent
            G == Plus(E, dp)
<1>1. e \in Entries /\ dp \in Entries /\ dp # e /\ \A y \in Entries : E[y].refcnt \in Nat
  BY FieldTypes, EntryFacts
<1>2. \A y \in Entries : Same(E[y], G[y]) /\ G[y].refcnt = E[y].refcnt + Ind(y = dp)
  BY <1>1, PlusSame
<1>3. ETyped(G)
  BY <1>1, PlusTyped
<1>4. CASE E[e].refcnt = 0
  <2>1. F = Plus(G, e)
    BY <1>4 DEF Use
  <2>. HIDE DEF G
  <2>2. \A y \in Entries : Same(G[y], F[y]) /\ F[y].refcnt = G[y].refcnt + Ind(y = e)
    BY <1>1, <1>3, <2>1, PlusSame
  <2>. HIDE DEF dp
  <2>3. \A y \in Entries : F[y].refcnt = E[y].refcnt + Ind(y = dp) + Ind(y = e)
    BY <1>2, <2>2
  <2>4. \A y \in Entries : Same(E[y], F[y])
    BY <1>2, <2>2 DEF Same
  <2>5. \A y \in Entries \ {e} : F[y].refcnt > 0 <=> E[y].refcnt > 0
    BY <1>1, <2>3 DEF Ind, dp
  <2>. QED BY <1>1, <2>3, <2>4, <2>5 DEF Ind
<1>5. CASE E[e].refcnt # 0
  <2>1. F = Plus(E, e)
    BY <1>5 DEF Use
  <2>2. \A y \in Entries : Same(E[y], F[y]) /\ F[y].refcnt = E[y].refcnt + Ind(y = e)
    BY <1>1, <2>1, PlusSame
  <2>. QED BY <1>1, <2>2 DEF Ind
<1>. QED BY <1>4, <1>5

LEMMA RootedKept ==
    ASSUME NEW E, Rooted(E), NEW F, NEW e \in Slots,
           \A y \in Entries \ {e} : /\ F[y].parent = E[y].parent
                                    /\ F[y].refcnt > 0 <=> E[y].refcnt > 0,
           E[e].refcnt > 0 => F[e].refcnt > 0,
           F[e].refcnt > 0 => F[e].parent \in Entries \ {e} /\ E[F[e].parent].refcnt > 0
    PROVE  Rooted(F)
<1>1. Slots \subseteq Entries
  BY EntryFacts
<1>2. ASSUME NEW y \in Slots, F[y].refcnt > 0
      PROVE  F[y].parent \in Entries \ {y} /\ F[F[y].parent].refcnt > 0
  BY <1>1, <1>2 DEF Rooted
<1>. QED BY <1>2 DEF Rooted

\* The same with the entries E, before the eput() of e.
LEMMA PlusTree ==
    ASSUME Core, Tree, NEW t \in Tasks, NEW e \in Entries, Used(entry, e), NEW F, F = Plus(entry, e)
    PROVE  /\ ETyped(F) /\ Sound(F) /\ InTree(F, disk)
           /\ \A y \in Slots : Alike(entry[y], F[y])
           /\ entry[e].refcnt > 0 => Alike(entry[Root], F[Root])
<1>1. ETyped(entry) /\ Rooted(entry) /\ disk \in DiskType /\ InTree(entry, disk) /\ Sound(entry)
  BY CoreRooted DEF Core, Typed, DiskType, Tree
<1>2. ETyped(F) /\ Sound(F)
  BY <1>1, OwedPlus DEF Used
<1>3. \A y \in Entries : Same(entry[y], F[y]) /\ F[y].refcnt = entry[y].refcnt + Ind(y = e)
  BY <1>1, PlusSame
<1>4. \A y \in Entries : entry[y].refcnt \in Nat
  BY <1>1, FieldTypes
<1>5. /\ \A y \in Entries : Same(entry[y], F[y]) /\ (entry[y].refcnt > 0 => F[y].refcnt > 0)
      /\ \A y \in Entries : (y # Root \/ entry[e].refcnt > 0) /\ F[y].refcnt > 0 => entry[y].refcnt > 0
  BY <1>3, <1>4 DEF Ind, Used
<1>6. Rooted(F)
  BY <1>1, <1>5, EntryFacts DEF Rooted, Same
<1>7. NoEntry # Root /\ NoEntry \notin Slots /\ \A y \in Slots : F[y].refcnt > 0 => F[y].parent # NoEntry
  BY <1>6, EntryFacts DEF Rooted
<1>8. InOrder(disk) /\ \A y \in Slots : entry[y].refcnt > 0 => Says(entry, disk, y)
  BY DEF Tree, InTree
<1>9. /\ \A y \in Slots : Alike(entry[y], F[y])
      /\ entry[e].refcnt > 0 => Alike(entry[Root], F[Root])
      /\ Same(entry[Root], F[Root])
  BY <1>5, EntryFacts DEF Alike
<1>10. InTree(F, disk)
  BY <1>1, <1>2, <1>6, <1>7, <1>8, <1>9, OneChangedOrRoot
<1>. QED BY <1>2, <1>9, <1>10

\* eget() takes a valid entry; if no one has, it still is what the disk says.
LEMMA UseTree ==
    ASSUME Core, Tree, NEW t \in Tasks, NEW dp \in Entries, entry[dp].refcnt > 0, entry[dp].dir,
           NEW name \in Name, NEW e \in Rightful(dp, name), NEW F, F = Use(entry, e)
    PROVE  /\ ETyped(F) /\ Sound(F) /\ InTree(F, disk)
           /\ \A y \in Entries : Same(entry[y], F[y])
           /\ \A y \in Entries \ {e} : F[y].refcnt > 0 => entry[y].refcnt > 0
           /\ e \in Slots /\ entry[e].uptodate /\ entry[e].name = name /\ entry[e].parent = dp
<1>1. ETyped(entry) /\ Rooted(entry) /\ disk \in DiskType /\ InTree(entry, disk) /\ Sound(entry) /\ Typed
  BY CoreRooted DEF Core, Typed, DiskType, Tree
<1>2. /\ e \in Slots /\ e \in Entries /\ entry[e].uptodate /\ entry[e].parent = dp /\ entry[e].name = name
      /\ entry[e].refcnt > 0 \/ OnDisk(e)
  BY EntryFacts DEF Rightful, Hits, Cache
<1>3. name # NoName /\ entry[e].refcnt \in Nat /\ entry[e].place \in Places /\ Plain(entry[e])
  BY <1>1, <1>2, CacheAssumption, FieldTypes DEF InTree, Plain
<1>4. dp # e
  <2>1. CASE entry[e].refcnt > 0
    BY <1>1, <1>2, <2>1 DEF Rooted
  <2>2. CASE entry[e].refcnt = 0
    BY <2>2
  <2>. QED BY <1>3, <2>1, <2>2
<1>5. ETyped(F) /\ Sound(F)
  BY <1>1, <1>2, <1>4, OwedUse
<1>6. /\ \A y \in Entries : Same(entry[y], F[y])
      /\ \A y \in Entries \ {e} : F[y].refcnt > 0 <=> entry[y].refcnt > 0
      /\ F[e].refcnt > 0
  BY <1>1, <1>2, <1>4, UseSame
<1>7. Rooted(F)
  BY <1>1, <1>2, <1>4, <1>6, RootedKept DEF Same
<1>8. ASSUME entry[e].refcnt = 0
      PROVE  /\ Says(F, disk, e)
             /\ F[e].dir => \A b \in Entries \ {e} :
                               Used(entry, b) /\ entry[b].dir => entry[b].clus # F[e].clus
  <2>1. OnDisk(e)
    BY <1>2, <1>8
  <2>2. /\ PlaceIn(entry, disk, e) = [name |-> name, dir |-> entry[e].dir, clus |-> entry[e].clus]
    BY <1>2, <2>1 DEF OnDisk, PlaceOf, PlaceIn
  <2>3. PlaceIn(F, disk, e) = PlaceIn(entry, disk, e)
    BY <1>2, <1>6 DEF PlaceIn, Same
  <2>4. Says(F, disk, e)
    <3>1. /\ F[e].uptodate /\ F[e].name = name /\ F[e].dir = entry[e].dir /\ F[e].clus = entry[e].clus
      BY <1>2, <1>6 DEF Same
    <3>. QED BY <2>2, <2>3, <3>1 DEF Says
  <2>5. ASSUME F[e].dir, NEW b \in Entries \ {e}, Used(entry, b), entry[b].dir, entry[b].clus = F[e].clus
        PROVE  FALSE
    <3>. DEFINE p == entry[e].place
    <3>1. disk[entry[dp].clus][p].dir /\ entry[b].clus = disk[entry[dp].clus][p].clus
             /\ disk[entry[dp].clus][p].name = name
      BY <1>2, <1>6, <2>2, <2>5, SMTT(30) DEF PlaceIn, Same
    <3>2. p \in Places /\ disk[entry[dp].clus][p].dir
      BY <1>3, <3>1
    <3>3. entry[b].clus = disk[entry[dp].clus][p].clus /\ disk[entry[dp].clus][p].name = name
      BY <3>1
    <3>. HIDE DEF p
    <3>4. Named(entry, b) /\ entry[b].parent = dp /\ entry[b].name = disk[entry[dp].clus][p].name
      BY <2>5, <3>2, <3>3, OneDirectory
    <3>5. entry[b].name = name
      BY <3>3, <3>4
    <3>. QED BY <1>2, <1>3, <2>5, <3>4, <3>5 DEF Named, Core, OneHit
  <2>. QED BY <2>4, <2>5
<1>9. ASSUME entry[e].refcnt > 0
      PROVE  /\ Says(F, disk, e)
             /\ F[e].dir => \A b \in Entries \ {e} :
                               Used(entry, b) /\ entry[b].dir => entry[b].clus # F[e].clus
  <2>1. Says(entry, disk, e)
    BY <1>1, <1>2, <1>9 DEF InTree
  <2>2. PlaceIn(F, disk, e) = PlaceIn(entry, disk, e)
    BY <1>2, <1>6 DEF PlaceIn, Same
  <2>3. Says(F, disk, e)
    <3>1. /\ F[e].uptodate /\ F[e].name = name /\ F[e].dir = entry[e].dir /\ F[e].clus = entry[e].clus
          /\ F[e].dirty = entry[e].dirty
      BY <1>2, <1>6 DEF Same
    <3>. QED BY <1>2, <2>1, <2>2, <3>1 DEF Says
  <2>4. F[e].dir = entry[e].dir /\ F[e].clus = entry[e].clus
    BY <1>2, <1>6 DEF Same
  <2>. QED BY <1>1, <1>2, <1>9, <2>3, <2>4 DEF InTree, Apart, Used
<1>10. InTree(F, disk)
  <2>1. Plain(F[e]) /\ F[F[e].parent].dir
    BY <1>2, <1>3, <1>4, <1>6 DEF Plain, Same
  <2>2. /\ e # Root /\ \A y \in Entries \ {e} : Alike(entry[y], F[y])
        /\ F[e].dir = entry[e].dir /\ F[e].clus = entry[e].clus
    BY <1>2, <1>6, EntryFacts DEF Alike, Same
  <2>3. InOrder(disk) /\ \A y \in Slots : entry[y].refcnt > 0 => Says(entry, disk, y)
    BY DEF Tree, InTree
  <2>4. /\ Says(F, disk, e)
        /\ F[e].dir => \A b \in Entries \ {e} :
                          Used(entry, b) /\ entry[b].dir => entry[b].clus # F[e].clus
    BY <1>3, <1>8, <1>9
  <2>. QED BY <1>1, <1>5, <1>7, <2>1, <2>2, <2>3, <2>4, OneChanged
<1>. QED BY <1>2, <1>5, <1>6, <1>10

\* dirlookup() fills the entry that its task alone has in from the place it found.
LEMMA FillTree ==
    ASSUME Core, Tree, NEW t \in Tasks, at[t].pc \in HasNxt,
           NEW p \in Matches(at[t].cur, Head(at[t].rest)),
           NEW F, F = Fill(entry, at[t].nxt, at[t].cur, p)
    PROVE  /\ ETyped(F) /\ Sound(F) /\ InTree(F, disk)
           /\ \A y \in Entries \ {at[t].nxt} : F[y] = entry[y]
           /\ F[at[t].nxt].uptodate
<1>. DEFINE dp == at[t].cur
            e == at[t].nxt
            name == Head(at[t].rest)
            r == disk[entry[dp].clus][p]
<1>1. /\ ETyped(entry) /\ Rooted(entry) /\ disk \in DiskType /\ InTree(entry, disk) /\ Typed
      /\ InOrder(disk)
  BY CoreRooted DEF Core, Typed, DiskType, Tree, InTree
<1>2. /\ dp \in Entries /\ e \in Slots /\ e \in Entries /\ dp # e /\ entry[e].parent = dp
      /\ entry[dp].refcnt > 0 /\ entry[dp] \in EntryType /\ entry[e] \in EntryType
  BY <1>1, LookedIn, FieldTypes
<1>3. /\ entry[e].refcnt = 1 /\ ~entry[e].uptodate /\ entry[e].name = name /\ name \in Name /\ entry[dp].dir
      /\ name # NoName
  BY CacheAssumption DEF Core, Working
<1>4. /\ p \in Places /\ r.name = name /\ entry[dp].clus \in Dirs /\ r \in PlaceType
  BY <1>1, <1>2, <1>3 DEF Matches, EntryType, DiskType
<1>5. ETyped(F) /\ Sound(F) /\ \A y \in Entries \ {e} : F[y] = entry[y]
  BY <1>4, FillIs
<1>6. /\ F[e].uptodate /\ F[e].place = p /\ F[e].dir = r.dir /\ F[e].clus = r.clus /\ F[e].name = name
      /\ F[e].parent = dp /\ F[e].dirty = entry[e].dirty /\ F[e].refcnt = 1
  <2>1. F[e] = [entry[e] EXCEPT !.place = p, !.dir = r.dir, !.home = entry[dp].clus,
                                !.clus = r.clus, !.uptodate = TRUE]
    BY <1>1, <1>2 DEF Fill, ETyped
  <2>. HIDE DEF r
  <2>. QED BY <1>2, <1>3, <2>1 DEF EntryType, EntryRecord
<1>. HIDE DEF e, dp, name
<1>7. Says(entry, disk, e) /\ ~entry[e].dirty
  BY <1>1, <1>2, <1>3 DEF InTree, Says
<1>8. \A c \in Slots : entry[c].refcnt > 0 => entry[c].parent # e
  BY FreshIsAlone DEF e
<1>9. Rooted(F)
  BY <1>1, <1>2, <1>3, <1>5, <1>6, RootedKept
<1>10. /\ Plain(F[e]) /\ F[F[e].parent].dir /\ Says(F, disk, e)
  <2>1. PlaceIn(F, disk, e) = r
    BY <1>2, <1>5, <1>6 DEF PlaceIn
  <2>2. r = [name |-> r.name, dir |-> r.dir, clus |-> r.clus]
    BY <1>4 DEF PlaceType
  <2>. QED BY <1>2, <1>3, <1>4, <1>5, <1>6, <1>7, <2>1, <2>2 DEF Plain, Says
<1>11. ASSUME F[e].dir, NEW b \in Entries \ {e}, Used(entry, b), entry[b].dir, entry[b].clus = F[e].clus
       PROVE  FALSE
  <2>1. Named(entry, b) /\ entry[b].parent = dp /\ entry[b].name = name
    <3>1. disk[entry[dp].clus][p].dir /\ entry[b].clus = disk[entry[dp].clus][p].clus
      BY <1>6, <1>11
    <3>2. disk[entry[dp].clus][p].name = name
      BY <1>4
    <3>. HIDE DEF r
    <3>. QED BY <1>2, <1>3, <1>4, <1>11, <3>1, <3>2, OneDirectory
  <2>. QED BY <2>1 DEF Named, Core, OneHit, dp, name
<1>12. e # Root /\ \A y \in Entries \ {e} : Alike(entry[y], F[y])
  BY <1>2, <1>5, EntryFacts DEF Alike, Same
<1>13. /\ \A y \in Slots \ {e} : F[y].refcnt > 0 => F[y].parent # e
       /\ \A y \in Slots \ {e} : entry[y].refcnt > 0 => Says(entry, disk, y)
  BY <1>1, <1>5, <1>8, EntryFacts DEF InTree
<1>14. InTree(F, disk)
  BY <1>1, <1>5, <1>9, <1>10, <1>11, <1>12, <1>13, OneChanged
<1>. QED BY <1>5, <1>6, <1>14 DEF e

\* The entries E and a new one at e, for name in dp.
LEMMA RenameSame ==
    ASSUME NEW E, ETyped(E), NEW e \in Slots, NEW dp \in Entries \ {e}, NEW name \in Name,
           NEW F, F = Rename(E, e, dp, name)
    PROVE  /\ F[e] = New(dp, name)
           /\ \A y \in Entries \ {e} : Same(E[y], F[y]) /\ F[y].refcnt = E[y].refcnt + Ind(y = dp)
<1>. DEFINE G == [E EXCEPT ![e] = New(dp, name)]
<1>1. e \in Entries /\ New(dp, name) \in EntryType
  BY UnusedTyped, EntryFacts
<1>2. /\ ETyped(G) /\ G[e] = New(dp, name) /\ \A y \in Entries \ {e} : G[y] = E[y]
  BY <1>1 DEF ETyped
<1>3. F = Plus(G, dp)
  BY DEF Rename
<1>. HIDE DEF G
<1>4. \A y \in Entries : Same(G[y], F[y]) /\ F[y].refcnt = G[y].refcnt + Ind(y = dp)
  BY <1>2, <1>3, PlusSame
<1>5. F[e] = New(dp, name)
  BY <1>2, <1>3 DEF Plus, ETyped
<1>. QED BY <1>2, <1>4, <1>5 DEF Same

\* eget() takes an unused entry for a name that it has not found.
LEMMA RenameTree ==
    ASSUME Core, Tree, NEW t \in Tasks, NEW dp \in Entries, entry[dp].refcnt > 0, entry[dp].dir,
           NEW name \in Name, NEW e \in Slots, entry[e].refcnt = 0, NEW F, F = Rename(entry, e, dp, name)
    PROVE  /\ ETyped(F) /\ Sound(F) /\ InTree(F, disk) /\ Rooted(F)
           /\ \A y \in Entries \ {e} : Alike(entry[y], F[y])
<1>1. /\ ETyped(entry) /\ Rooted(entry) /\ disk \in DiskType /\ InTree(entry, disk) /\ Sound(entry)
      /\ InOrder(disk)
  BY CoreRooted DEF Core, Typed, DiskType, Tree, InTree
<1>2. dp # e /\ name # NoName /\ e \in Entries /\ e # Root
  BY CacheAssumption, EntryFacts
<1>3. ETyped(F) /\ Sound(F)
  BY <1>1, OwedRename
<1>4. /\ F[e] = New(dp, name)
      /\ \A y \in Entries \ {e} : Same(entry[y], F[y]) /\ F[y].refcnt = entry[y].refcnt + Ind(y = dp)
  BY <1>1, <1>2, RenameSame
<1>5. /\ F[e].refcnt = 1 /\ F[e].parent = dp /\ F[e].name = name /\ F[e].place = 0 /\ F[e].dir = FALSE
      /\ F[e].uptodate = FALSE /\ F[e].dirty = FALSE
  BY <1>4 DEF New, Unused
<1>6. \A y \in Entries : entry[y].refcnt \in Nat
  BY <1>1, FieldTypes
<1>7. \A y \in Entries \ {e} : Alike(entry[y], F[y]) /\ (entry[y].refcnt > 0 => F[y].refcnt > 0)
  BY <1>4, <1>6 DEF Ind, Alike
<1>8. Rooted(F)
  BY <1>1, <1>2, <1>5, <1>7, RootedKept DEF Alike, Same
<1>9. Plain(F[e]) /\ F[F[e].parent].dir /\ Says(F, disk, e) /\ ~F[e].dir
  BY <1>2, <1>4, <1>5 DEF Plain, Says, Same
<1>10. \A y \in Slots \ {e} : F[y].refcnt > 0 => F[y].parent # e
  BY <1>1, <1>7, EntryFacts DEF Rooted, Alike, Same
<1>11. \A y \in Slots : entry[y].refcnt > 0 => Says(entry, disk, y)
  BY <1>1 DEF InTree
<1>12. InTree(F, disk)
  BY <1>1, <1>2, <1>3, <1>7, <1>8, <1>9, <1>10, <1>11, OneChanged
<1>. QED BY <1>3, <1>7, <1>8, <1>12

\* A directory that has no file of this name has a free place.
LEMMA FreeFound ==
    ASSUME disk \in DiskType, InOrder(disk), NEW dp, entry[dp].clus \in Dirs, NEW name \in Name,
           Matches(dp, name) = {}
    PROVE  FirstPlace(dp) \in FreePlaces(dp)
<1>. DEFINE d == disk[entry[dp].clus]
            f == [p \in Places |-> d[p].name]
            rest == Name \ {name}
<1>1. d \in [Places -> PlaceType] /\ \A p \in Places : d[p].name # name
  BY DEF DiskType, Matches
<1>2. \A p, q \in Places : d[p].name = d[q].name => p = q \/ d[p].name = NoName
  BY DEF InOrder
<1>3. \A p \in Places : d[p].name = NoName => d[p] = Free
  BY DEF InOrder
<1>4. ASSUME FreePlaces(dp) = {} PROVE FALSE
  <2>1. \A p \in Places : d[p].name # NoName
    BY <1>3, <1>4 DEF FreePlaces
  <2>2. f \in [Places -> rest]
    BY <1>1, <2>1 DEF PlaceType
  <2>3. \A p, q \in Places : f[p] = f[q] => p = q
    BY <1>2, <2>1
  <2>4. IsFiniteSet(rest) /\ Cardinality(rest) = Cardinality(Name) - 1
    BY FS_RemoveElement, DiskAssumption
  <2>5. Cardinality(Name) \in Nat /\ Cardinality(Places) \in Nat /\ Cardinality(rest) < Cardinality(Places)
    BY <2>4, FS_CardinalityType, DiskAssumption
  <2>. HIDE DEF f, rest
  <2>6. \E p, q \in Places : p # q /\ f[p] = f[q]
    <3>1. IsFiniteSet(Places)
      BY DiskAssumption
    <3>2. \A g \in [Places -> rest] : \E p, q \in Places : p # q /\ g[p] = g[q]
      BY <2>4, <2>5, <3>1, FS_PigeonHole
    <3>. QED BY <2>2, <3>2
  <2>. QED BY <2>3, <2>6
<1>5. FreePlaces(dp) \subseteq Nat
  BY DiskAssumption DEF FreePlaces
<1>6. Lowest(FreePlaces(dp)) \in FreePlaces(dp)
  BY <1>4, <1>5, LowestIn
<1>. QED BY <1>6 DEF Lowest, FirstPlace

\* What the entry of a lookup in vain leaves of the others.
LEMMA LostSame ==
    ASSUME Core, NEW t \in Tasks, at[t].pc \in HasNxt, NEW F, F = Last_(Nameless(at[t].nxt), at[t].nxt)
    PROVE  \A y \in Entries \ {at[t].nxt} : /\ Alike(entry[y], F[y])
                                            /\ entry[y].refcnt > 0 => F[y].refcnt > 0
<1>. DEFINE dp == at[t].cur
            e == at[t].nxt
            E == Nameless(e)
<1>1. /\ dp \in Entries /\ e \in Slots /\ e \in Entries /\ dp # e /\ entry[e].parent = dp
      /\ entry[dp].refcnt > 1 /\ entry[e].refcnt = 1 /\ ETyped(entry) /\ Sound(entry)
  BY LookedIn DEF Core, Typed
<1>2. /\ ETyped(E) /\ \A y \in Entries : E[y].refcnt = entry[y].refcnt /\ E[y].parent = entry[y].parent
      /\ \A y \in Entries \ {e} : E[y] = entry[y]
  <2>1. entry[e] \in EntryType
    BY <1>1, FieldTypes
  <2>. QED BY <1>1, <2>1 DEF Nameless, ETyped, EntryType, EntryRecord
<1>. HIDE DEF E
<1>3. Sound(E)
  BY <1>2, OwedSame, <1>1
<1>4. E[e].refcnt = 1 /\ E[E[e].parent].refcnt > 1 /\ E[e].parent = dp
  BY <1>1, <1>2
<1>5. F = Last_(E, e)
  BY DEF E
<1>6. GivenBack(E, F, e)
  BY <1>1, <1>2, <1>3, <1>4, <1>5, OwedLast
<1>7. F[dp].refcnt > 0
  BY LoseFresh
<1>. HIDE DEF e, dp
<1>8. ASSUME NEW y \in Entries \ {e}
      PROVE  Alike(entry[y], F[y]) /\ (entry[y].refcnt > 0 => F[y].refcnt > 0)
  <2>1. PICK n \in Nat : F[y] = [E[y] EXCEPT !.refcnt = n]
    BY <1>6 DEF GivenBack
  <2>2. E[y] \in EntryType /\ E[y] = entry[y]
    BY <1>2, FieldTypes
  <2>3. Same(entry[y], F[y])
    BY <2>1, <2>2 DEF Same, EntryType, EntryRecord
  <2>4. CASE y = dp
    <3>1. entry[y].refcnt > 0
      BY <1>1, <2>2, <2>4 DEF EntryType, EntryRecord
    <3>. QED BY <1>7, <2>3, <2>4, <3>1 DEF Alike
  <2>5. CASE y # dp
    <3>1. F[y] = entry[y]
      BY <1>4, <1>6, <2>2, <2>5, ZenonT(30) DEF GivenBack
    <3>. QED BY <2>3, <3>1 DEF Alike
  <2>. QED BY <2>4, <2>5
<1>. QED BY <1>8 DEF e

\* ealloc() takes the entry again for a new file, in the first free place.
LEMMA AfreshTree ==
    ASSUME Core, Tree, NEW t \in Tasks, at[t].pc = "lookup", Matches(at[t].cur, Head(at[t].rest)) = {},
           NEW d \in Clusters(t),
           NEW G, G = Afresh(Last_(Nameless(at[t].nxt), at[t].nxt), at[t].nxt, at[t].cur,
                             Head(at[t].rest), FirstPlace(at[t].cur), d)
    PROVE  /\ InTree(G, disk) /\ G[at[t].nxt].place # 0
           /\ \A y \in Entries \ {at[t].nxt} : Alike(entry[y], G[y])
<1>. DEFINE dp == at[t].cur
            e == at[t].nxt
            name == Head(at[t].rest)
            p == FirstPlace(dp)
            L == Last_(Nameless(e), e)
            R == Rename(L, e, dp, name)
<1>1. /\ ETyped(entry) /\ Rooted(entry) /\ disk \in DiskType /\ InTree(entry, disk) /\ Typed
      /\ InOrder(disk) /\ at[t].pc \in HasNxt
  BY CoreRooted DEF Core, Typed, DiskType, Tree, InTree, HasNxt
<1>2. /\ dp \in Entries /\ e \in Slots /\ e \in Entries /\ dp # e /\ entry[e].parent = dp
      /\ entry[dp].refcnt > 0 /\ entry[dp] \in EntryType /\ entry[e] \in EntryType /\ entry[e].refcnt = 1
  BY <1>1, LookedIn, FieldTypes
<1>3. /\ name \in Name /\ entry[dp].dir /\ name # NoName
  BY <1>1, CacheAssumption DEF Core, Working
<1>4. entry[dp].clus \in Dirs
  BY <1>2, <1>3 DEF EntryType
<1>5. /\ p \in Places /\ disk[entry[dp].clus][p] = Free /\ p # 0
  <2>1. p \in FreePlaces(dp)
    BY <1>1, <1>3, <1>4, FreeFound
  <2>. QED BY <2>1, DiskAssumption DEF FreePlaces
<1>6. /\ d \in Dirs \cup {0} /\ 0 \notin Dirs
      /\ d # 0 => d \in Dirs \ DirsInUse
  BY DiskAssumption DEF Clusters
<1>. HIDE DEF p
<1>7. Remade(t, G)
  BY <1>1, <1>5, <1>6, AfreshIs DEF p
<1>8. /\ ETyped(L) /\ Sound(L) /\ L[e].refcnt = 0 /\ L[dp].refcnt > 0
      /\ \A y \in Entries \ {e} : Alike(entry[y], L[y]) /\ (entry[y].refcnt > 0 => L[y].refcnt > 0)
  BY <1>1, LoseFresh, LostSame, UnusedTyped
<1>9. G = [R EXCEPT ![e] = [@ EXCEPT !.place = p, !.dir = (d # 0), !.clus = d, !.home = entry[dp].clus]]
  BY DEF Afresh, p
<1>. HIDE DEF e, dp, name, L
<1>10. /\ R[e] = New(dp, name) /\ ETyped(R)
       /\ \A y \in Entries \ {e} : Same(L[y], R[y]) /\ R[y].refcnt = L[y].refcnt + Ind(y = dp)
  BY <1>2, <1>3, <1>8, RenameSame, OwedRename
<1>. HIDE DEF R
<1>11. \A y \in Entries \ {e} : /\ Alike(entry[y], G[y])
                                /\ entry[y].refcnt > 0 => G[y].refcnt > 0
  <2>. SUFFICES ASSUME NEW y \in Entries \ {e}
                PROVE  Alike(entry[y], G[y]) /\ (entry[y].refcnt > 0 => G[y].refcnt > 0)
    OBVIOUS
  <2>1. G[y] = R[y] /\ L[y].refcnt \in Nat
    BY <1>8, <1>9, <1>10, FieldTypes DEF ETyped
  <2>2. Alike(entry[y], L[y]) /\ (entry[y].refcnt > 0 => L[y].refcnt > 0)
    BY <1>8
  <2>3. Same(L[y], G[y]) /\ G[y].refcnt = L[y].refcnt + Ind(y = dp)
    BY <1>10, <2>1
  <2>4. Same(entry[y], G[y])
    BY <2>2, <2>3 DEF Alike, Same
  <2>5. y = dp => entry[y].refcnt > 0
    BY <1>2
  <2>. QED BY <2>1, <2>2, <2>3, <2>4, <2>5 DEF Alike, Ind
<1>12. /\ G[e].place = p /\ G[e].dir = (d # 0) /\ G[e].clus = d /\ G[e].parent = dp /\ G[e].name = name
       /\ G[e].refcnt = 1 /\ G[e].uptodate = FALSE /\ G[e].dirty = FALSE
  <2>1. G[e] = [New(dp, name) EXCEPT !.place = p, !.dir = (d # 0), !.clus = d, !.home = entry[dp].clus]
    BY <1>2, <1>9, <1>10 DEF ETyped
  <2>. QED BY <2>1 DEF New, Unused
<1>13. ETyped(G)
  BY <1>7, Zenon DEF Remade
<1>14. Rooted(G)
  <2>1. \A y \in Entries \ {e} : G[y].parent = entry[y].parent /\ (G[y].refcnt > 0 <=> entry[y].refcnt > 0)
    BY <1>11 DEF Alike, Same
  <2>2. G[e].refcnt > 0 /\ G[e].parent \in Entries \ {e} /\ entry[G[e].parent].refcnt > 0
    BY <1>2, <1>12
  <2>3. Rooted(entry) /\ e \in Slots
    BY <1>1, <1>2
  <2>. QED BY <2>1, <2>2, <2>3, RootedKept
<1>15. ASSUME d # 0
       PROVE  /\ d # RootClus /\ \A y \in Slots : entry[y].clus # d
              /\ \A c \in Dirs : \A q \in Places : disk[c][q].clus # d
  BY <1>6, <1>15, SMTT(30) DEF DirsInUse
<1>16. Pending(G, disk, e)
  <2>1. G[dp].clus = entry[dp].clus
    BY <1>2, <1>11, Zenon DEF Alike, Same
  <2>2. PlaceIn(G, disk, e) = Free
    BY <1>5, <1>12, <2>1, Zenon DEF PlaceIn
  <2>3. \A q \in Places : disk[entry[dp].clus][q].name # name
    BY Zenon DEF Matches, dp, name
  <2>. QED BY <1>5, <1>12, <1>15, <2>1, <2>2, <2>3, ZenonT(30) DEF Pending
<1>17. Plain(G[e]) /\ G[G[e].parent].dir /\ Says(G, disk, e)
  <2>1. G[dp].dir
    BY <1>2, <1>3, <1>11 DEF Alike, Same
  <2>2. Plain(G[e])
    BY <1>3, <1>12, ZenonT(30) DEF Plain
  <2>3. Says(G, disk, e)
    BY <1>3, <1>5, <1>12, <1>16 DEF Says
  <2>. QED BY <1>12, <2>1, <2>2, <2>3, Zenon
<1>18. G[e].dir => \A b \in Entries \ {e} : Used(entry, b) /\ entry[b].dir => entry[b].clus # G[e].clus
  <2>1. entry[Root].clus = RootClus
    BY <1>1 DEF InTree
  <2>. QED BY <1>12, <1>15, <2>1, EntryFacts
<1>19. \A c \in Slots : entry[c].refcnt > 0 => entry[c].parent # e
  BY <1>1, FreshIsAlone, Zenon DEF e
<1>20. /\ e # Root /\ \A y \in Slots \ {e} : G[y].refcnt > 0 => G[y].parent # e
       /\ \A y \in Slots \ {e} : entry[y].refcnt > 0 => Says(entry, disk, y)
  BY <1>1, <1>2, <1>11, <1>19, EntryFacts, ZenonT(30) DEF InTree, Alike, Same
<1>21. InTree(G, disk)
  BY <1>1, <1>11, <1>13, <1>14, <1>17, <1>18, <1>20, OneChanged, Zenon
<1>. QED BY <1>5, <1>11, <1>12, <1>21 DEF e

\* etrunc() and fwrite() change what a file's entry says, and mark it.
LEMMA ContentTree ==
    ASSUME Core, Tree, NEW t \in Tasks, NEW e \in Entries, ~entry[e].dir,
           entry[e].refcnt > 0, entry[e].uptodate, NEW c \in {0, DataClus}, NEW F, F = Content(e, c)
    PROVE  InTree(F, disk)
<1>1. /\ ETyped(entry) /\ Rooted(entry) /\ disk \in DiskType /\ InTree(entry, disk) /\ Sound(entry)
      /\ InOrder(disk)
  BY CoreRooted DEF Core, Typed, DiskType, Tree, InTree
<1>2. e # Root /\ e \in Slots /\ Plain(entry[e])
  BY <1>1, EntryFacts DEF InTree
<1>3. /\ ETyped(F) /\ SameFiles(entry, F) /\ \A y \in Entries \ {e} : F[y] = entry[y]
  BY <1>1, ContentIs
<1>4. /\ F[e].place = entry[e].place /\ F[e].name = entry[e].name /\ F[e].parent = entry[e].parent
      /\ F[e].dir = entry[e].dir /\ F[e].uptodate = entry[e].uptodate /\ F[e].dirty = TRUE
      /\ F[e].refcnt = entry[e].refcnt
  <2>1. entry[e] \in EntryType
    BY <1>1, FieldTypes
  <2>. QED BY <1>1, <2>1 DEF Content, ETyped, EntryType, EntryRecord
<1>5. /\ entry[e].parent \in Entries \ {e} /\ entry[entry[e].parent].refcnt > 0
      /\ entry[entry[e].parent].dir /\ Says(entry, disk, e)
  BY <1>1, <1>2 DEF Rooted, InTree
<1>6. Rooted(F)
  BY <1>1, <1>2, <1>3, <1>4, <1>5, RootedKept
<1>7. Plain(F[e]) /\ F[F[e].parent].dir
  BY <1>2, <1>3, <1>4, <1>5 DEF Plain
<1>8. Says(F, disk, e)
  <2>1. PlaceIn(F, disk, e) = PlaceIn(entry, disk, e)
    BY <1>3, <1>4, <1>5 DEF PlaceIn
  <2>. QED BY <1>4, <1>5, <2>1 DEF Says
<1>9. ASSUME NEW y \in Slots \ {e}, F[y].refcnt > 0 PROVE F[y].parent # e
  <2>1. entry[entry[y].parent].dir /\ F[y] = entry[y]
    BY <1>1, <1>3, <1>9, EntryFacts DEF InTree
  <2>. QED BY <2>1
<1>10. /\ \A y \in Entries \ {e} : Alike(entry[y], F[y])
       /\ \A y \in Slots \ {e} : entry[y].refcnt > 0 => Says(entry, disk, y)
  BY <1>1, <1>3 DEF Alike, Same, InTree
<1>11. ~F[e].dir
  BY <1>4
<1>. QED BY <1>1, <1>2, <1>3, <1>6, <1>7, <1>8, <1>9, <1>10, <1>11, OneChanged

-----------------------------------------------------------------------------
(* What the steps do to the disk.                                          *)

\* A file system stays in order when one place is written or given up.
LEMMA OrderKept ==
    ASSUME NEW A \in DiskType, NEW D \in DiskType, InOrder(A), NEW c \in Dirs, NEW p \in Places, NEW name,
           A[c][p].name = name, name # NoName, RootClus \in Dirs,
           D[c][p].clus \notin Dirs, ~D[c][p].dir, D[c][p].name \in {name, NoName},
           D[c][p].name = NoName => D[c][p] = Free,
           \A a \in Dirs : \A q \in Places : a # c \/ q # p => D[a][q] = A[a][q]
    PROVE  InOrder(D)
<1>1. /\ \A a \in Dirs : \A q, s \in Places :
             A[a][q].name = A[a][s].name => q = s \/ A[a][q].name = NoName
      /\ \A a \in Dirs : \A q \in Places :
             (A[a][q].name = NoName => A[a][q] = Free) /\ A[a][q].clus # RootClus
  BY DEF InOrder
<1>2. \A a, b \in Dirs : \A q, s \in Places :
         A[a][q].dir /\ A[a][q].clus = A[b][s].clus => a = b /\ q = s
  BY DEF InOrder
<1>3. ASSUME NEW a \in Dirs, NEW q \in Places, NEW s \in Places, D[a][q].name = D[a][s].name,
             D[a][q].name # NoName
      PROVE  q = s
  <2>1. D[a][q].name = A[a][q].name
    BY <1>3
  <2>2. D[a][s].name = A[a][s].name
    BY <1>3
  <2>3. A[a][q].name = A[a][s].name /\ A[a][q].name # NoName
    BY <1>3, <2>1, <2>2
  <2>. QED BY <1>1, <2>3
<1>4. ASSUME NEW a \in Dirs, NEW q \in Places
      PROVE  (D[a][q].name = NoName => D[a][q] = Free) /\ D[a][q].clus # RootClus
  BY <1>1
<1>5. ASSUME NEW a \in Dirs, NEW b \in Dirs, NEW q \in Places, NEW s \in Places,
             D[a][q].dir, D[a][q].clus = D[b][s].clus
      PROVE  a = b /\ q = s
  <2>1. D[a][q] = A[a][q]
    BY <1>5
  <2>2. D[a][q].clus \in Dirs
    <3>1. D[a][q] \in PlaceType
      BY DEF DiskType
    <3>. QED BY <1>5, <3>1 DEF PlaceType
  <2>3. D[b][s] = A[b][s]
    BY <1>5, <2>2
  <2>. QED BY <1>2, <1>5, <2>1, <2>3
<1>6. \A a \in Dirs : \A q, s \in Places : D[a][q].name = D[a][s].name => q = s \/ D[a][q].name = NoName
  BY <1>3
<1>7. \A a, b \in Dirs : \A q, s \in Places : D[a][q].dir /\ D[a][q].clus = D[b][s].clus => a = b /\ q = s
  BY <1>5
<1>8. \A a \in Dirs : \A q \in Places :
          (D[a][q].name = NoName => D[a][q] = Free) /\ D[a][q].clus # RootClus
  BY <1>4, Zenon
<1>. QED BY <1>6, <1>7, <1>8 DEF InOrder

\* The place of e's file is written or given up.
LEMMA PlaceWritten ==
    ASSUME Core, Tree, NEW t \in Tasks, NEW e \in Slots, Named(entry, e), NEW r \in PlaceType, ~r.dir,
           r = Free \/ r.name = entry[e].name,
           NEW D, D = [disk EXCEPT ![entry[entry[e].parent].clus][entry[e].place] = r]
    PROVE  /\ D \in DiskType /\ InOrder(D)
           /\ \A y \in Slots \ {e} : entry[y].refcnt > 0 => Says(entry, D, y)
<1>. DEFINE c == entry[entry[e].parent].clus
            p == entry[e].place
            name == entry[e].name
<1>1. /\ ETyped(entry) /\ Rooted(entry) /\ disk \in DiskType /\ InTree(entry, disk) /\ InOrder(disk)
  BY CoreRooted, ZenonT(30) DEF Core, Typed, DiskType, Tree, InTree
<1>2. /\ p \in Places /\ c \in Dirs /\ disk[c][p].name = name /\ name # NoName
      /\ RootClus \in Dirs
  BY NamedIs, DiskAssumption DEF PlaceIn, Named
<1>. HIDE DEF c, p, name
<1>3. D = [disk EXCEPT ![c][p] = r]
  BY DEF c, p
<1>4. /\ D \in DiskType /\ D[c][p] = r
      /\ \A a \in Dirs : \A q \in Places : a # c \/ q # p => D[a][q] = disk[a][q]
  <2>1. disk \in [Dirs -> [Places -> PlaceType]]
    BY <1>1 DEF DiskType
  <2>2. [disk[c] EXCEPT ![p] = r] \in [Places -> PlaceType]
    BY <1>2, <2>1
  <2>3. D = [disk EXCEPT ![c] = [disk[c] EXCEPT ![p] = r]]
    BY <1>3
  <2>4. D \in DiskType /\ D[c] = [disk[c] EXCEPT ![p] = r] /\ \A a \in Dirs \ {c} : D[a] = disk[a]
    BY <1>2, <2>1, <2>2, <2>3, Zenon DEF DiskType
  <2>5. \A q \in Places \ {p} : D[c][q] = disk[c][q]
    BY <1>2, <2>1, <2>4, ZenonT(30)
  <2>6. D[c][p] = r
    BY <1>2, <2>1, <2>4, Zenon
  <2>. QED BY <2>4, <2>5, <2>6, Zenon
<1>5. r.clus \notin Dirs
  BY DEF PlaceType
<1>6. r.name \in {name, NoName} /\ (r.name = NoName => r = Free)
  BY <1>2 DEF Free, name
<1>7. InOrder(D)
  BY ONLY <1>1, <1>2, <1>4, <1>5, <1>6, r \in PlaceType, ~r.dir, OrderKept
<1>8. ASSUME NEW y \in Slots \ {e}, entry[y].refcnt > 0 PROVE Says(entry, D, y)
  <2>1. /\ Says(entry, disk, y) /\ Plain(entry[y]) /\ entry[y] \in EntryType
        /\ entry[y].parent \in Entries /\ entry[entry[y].parent].dir
        /\ entry[entry[y].parent] \in EntryType
    BY <1>1, <1>8, FieldTypes, EntryFacts DEF InTree, Rooted
  <2>. DEFINE k == entry[entry[y].parent].clus
              q == entry[y].place
  <2>2. k \in Dirs
    BY <2>1 DEF EntryType
  <2>3. CASE Named(entry, y)
    <3>1. q \in Places /\ ~(k = c /\ q = p)
      BY <1>8, <2>1, <2>3, OnePlace, Zenon DEF Plain, Named, c, p
    <3>2. PlaceIn(entry, D, y) = PlaceIn(entry, disk, y)
      BY <1>4, <2>2, <3>1, Zenon DEF PlaceIn
    <3>. QED BY <2>1, <2>3, <3>2 DEF Says, Named
  <2>4. CASE ~entry[y].uptodate
    <3>1. /\ entry[y].name # NoName /\ ~entry[y].dirty
          /\ entry[y].place = 0 => ~entry[y].dir
          /\ entry[y].place # 0 => Pending(entry, disk, y)
      BY <2>1, <2>4, Zenon DEF Says
    <3>2. ASSUME entry[y].place # 0 PROVE Pending(entry, D, y)
      <4>1. /\ q \in Places /\ disk[k][q] = Free
            /\ \A s \in Places : disk[k][s].name # entry[y].name
            /\ entry[y].dir => /\ entry[y].clus # RootClus /\ entry[y].clus \in Dirs
                               /\ \A a \in Dirs : \A s \in Places : disk[a][s].clus # entry[y].clus
        BY <2>1, <3>1, <3>2, Zenon DEF Pending, PlaceIn, EntryType
      <4>2. D[k][q] = Free
        <5>1. ~(k = c /\ q = p)
          BY <1>2, <4>1, SMTT(30) DEF Free
        <5>. QED BY <1>4, <2>2, <4>1, <5>1, Zenon
      <4>3. \A s \in Places : D[k][s].name # entry[y].name
        <5>. SUFFICES ASSUME NEW s \in Places PROVE D[k][s].name # entry[y].name
          BY Zenon
        <5>1. CASE k # c \/ s # p
          BY <1>4, <2>2, <4>1, <5>1, ZenonT(30)
        <5>2. CASE k = c /\ s = p
          <6>1. disk[c][p].name # entry[y].name
            BY <1>2, <4>1, <5>2
          <6>. QED BY <1>2, <1>4, <1>6, <3>1, <5>2, <6>1, ZenonT(30)
        <5>. QED BY <5>1, <5>2, ZenonT(30)
      <4>4. entry[y].dir => \A a \in Dirs : \A s \in Places : D[a][s].clus # entry[y].clus
        <5>. SUFFICES ASSUME entry[y].dir, NEW a \in Dirs, NEW s \in Places
                      PROVE  D[a][s].clus # entry[y].clus
          OBVIOUS
        <5>1. entry[y].clus \in Dirs /\ disk[a][s].clus # entry[y].clus
          BY <4>1, Zenon
        <5>2. D[a][s] \in {r, disk[a][s]}
          BY <1>4, Zenon
        <5>. QED BY <1>5, <5>1, <5>2
      <4>. QED BY <4>1, <4>2, <4>3, <4>4, Zenon DEF Pending, PlaceIn
    <3>. QED BY <2>4, <3>1, <3>2 DEF Says
  <2>5. CASE entry[y].uptodate /\ entry[y].name = NoName
    BY <2>5 DEF Says
  <2>. QED BY <1>8, <2>3, <2>4, <2>5 DEF Named
<1>. QED BY <1>4, <1>7, <1>8, Zenon
-----------------------------------------------------------------------------
(* The calls, after a step of t that changes no entry but x.               *)

\* Whoever is not t neither looks x up nor removes it as a directory.
Unminded(t, x) ==
    /\ at[t].pc \in HasNxt => at[t].nxt = x
    /\ \A u \in Tasks \ {t} :
          /\ at[u].pc \in HasNxt => at[u].nxt # x
          /\ at[u].pc \in {"lockParent", "remove"} /\ at[u].cur = x => ~entry'[x].dir

\* What a call refers to is in use.
LEMMA CurStays ==
    ASSUME Core', NEW u \in Tasks, NEW c \in Entries, at'[u].cur = c
    PROVE  entry'[c].refcnt > 0
<1>1. Own(at'[u], cwd'[u], c) >= 1
  BY OwnIs
<1>2. Typed' /\ Balanced(c)'
  BY DEF Core
<1>. HIDE DEF Own, Balanced
<1>. QED BY <1>1, <1>2, UsedAfter

LEMMA CallsKept ==
    ASSUME Core, Core', Tree, NEW t \in Tasks, \A u \in Tasks \ {t} : at'[u] = at[u],
           NEW x, \A y \in Entries \ {x} : entry'[y].refcnt > 0 => Alike(entry[y], entry'[y]),
           x \in Slots /\ entry'[x].refcnt > 0 /\ ~entry'[x].uptodate
               => at'[t].pc \in HasNxt /\ at'[t].nxt = x,
           Unminded(t, x), Placed(t)', InTree(entry', disk')
    PROVE  Tree'
<1>1. ASSUME NEW y \in Slots, entry'[y].refcnt > 0, ~entry'[y].uptodate
      PROVE  \E u \in Tasks : at'[u].pc \in HasNxt /\ at'[u].nxt = y
  <2>1. CASE y = x
    BY <1>1, <2>1
  <2>2. CASE y # x
    <3>1. y \in Entries /\ Alike(entry[y], entry'[y])
      BY <1>1, <2>2, EntryFacts
    <3>2. entry[y].refcnt > 0 /\ ~entry[y].uptodate
      BY <1>1, <3>1 DEF Alike, Same
    <3>3. PICK u \in Tasks : at[u].pc \in HasNxt /\ at[u].nxt = y
      BY <3>2 DEF Tree, Awaited, Taking
    <3>4. u # t
      BY <2>2, <3>3 DEF Unminded
    <3>. QED BY <3>3, <3>4
  <2>. QED BY <2>1, <2>2
<1>2. ASSUME NEW u \in Tasks PROVE Placed(u)'
  <2>1. CASE u = t
    BY <2>1
  <2>2. CASE u # t
    <3>1. at'[u] = at[u] /\ Placed(u)
      BY <2>2 DEF Tree
    <3>2. at[u].pc = "make" => entry'[at[u].nxt].place # 0
      <4>. SUFFICES ASSUME at[u].pc = "make" PROVE entry'[at[u].nxt].place # 0
        OBVIOUS
      <4>1. at[u].pc \in HasNxt /\ at[u].nxt # x
        BY <2>2 DEF Unminded, HasNxt
      <4>2. at[u].nxt \in Entries
        BY <4>1, TakenByCall
      <4>3. entry'[at[u].nxt].refcnt = 1
        <5>1. Working(u)'
          BY DEF Core
        <5>. QED BY <3>1, <4>1, <5>1 DEF Working
      <4>4. Alike(entry[at[u].nxt], entry'[at[u].nxt])
        BY <4>1, <4>2, <4>3
      <4>. QED BY <3>1, <4>4 DEF Placed, Alike, Same
    <3>3. at[u].pc \in {"lockParent", "remove"} => ~entry'[at[u].cur].dir
      <4>. SUFFICES ASSUME at[u].pc \in {"lockParent", "remove"} PROVE ~entry'[at[u].cur].dir
        OBVIOUS
      <4>1. CASE at[u].cur = x
        BY <2>2, <4>1 DEF Unminded
      <4>2. CASE at[u].cur # x
        <5>1. at[u].cur \in Entries
          BY TakenByCall DEF HasCur
        <5>2. entry'[at[u].cur].refcnt > 0
          BY <3>1, <5>1, CurStays
        <5>3. Alike(entry[at[u].cur], entry'[at[u].cur])
          BY <4>2, <5>1, <5>2
        <5>. QED BY <3>1, <5>3 DEF Placed, Alike, Same
      <4>. QED BY <4>1, <4>2
    <3>. QED BY <3>1, <3>2, <3>3 DEF Placed
  <2>. QED BY <2>1, <2>2
<1>. QED BY <1>1, <1>2 DEF Tree, Awaited, Taking

\* The entries E differ from what they were in x at most.
ButFor(E, x) == \A y \in Entries \ {x} : E[y].refcnt > 0 => Alike(entry[y], E[y])

\* A step that ends in eput(e), from the entries E.
LEMMA PutTreeStep ==
    ASSUME Core, Core', Tree, NEW t \in Tasks, NEW E, ETyped(E), Sound(E), InTree(E, disk'),
           NEW h, NEW e \in Entries, NEW r \in CallType, r.pc \in Resumes, Put(t, E, h, e, r),
           NEW x, ButFor(E, x),
           x \in Slots => E[x].uptodate,
           at[t].pc \in HasNxt => at[t].nxt = x,
           \A u \in Tasks \ {t} :
              /\ at[u].pc \in HasNxt => at[u].nxt # x
              /\ at[u].pc \in {"lockParent", "remove"} /\ at[u].cur = x => ~E[x].dir
    PROVE  Tree'
<1>1. ETyped(entry') /\ Rooted(entry') /\ disk' \in DiskType
  BY RootedAfter DEF Core, Typed, DiskType
<1>2. /\ InTree(entry', disk')
      /\ \A y \in Entries : entry'[y].refcnt > 0 => Alike(E[y], entry'[y])
  BY <1>1, PutTree
<1>3. at'[t] \in {r, Waiting(r, e)} /\ \A u \in Tasks \ {t} : at'[u] = at[u]
  BY DEF Put, PutSome, PutEnds, PutWaits, Core, Typed
<1>4. Placed(t)'
  <2>1. Waiting(r, e).pc = "flush" \/ Waiting(r, e).pc \notin {"make", "lockParent", "remove"}
    BY DEF Waiting
  <2>2. at'[t].pc \notin {"make", "lockParent", "remove"}
    BY <1>3, <2>1 DEF Resumes
  <2>. QED BY <2>2 DEF Placed
<1>5. \A y \in Entries \ {x} : entry'[y].refcnt > 0 => Alike(entry[y], entry'[y])
  BY <1>2 DEF Alike, Same, ButFor
<1>6. x \in Slots /\ entry'[x].refcnt > 0 => entry'[x].uptodate
  BY <1>2, EntryFacts DEF Alike, Same
<1>7. ASSUME NEW u \in Tasks \ {t}, at[u].pc \in {"lockParent", "remove"}, at[u].cur = x
      PROVE  ~entry'[x].dir
  <2>1. x \in Entries
    BY <1>7, TakenByCall DEF HasCur
  <2>2. entry'[x].refcnt > 0
    BY <1>3, <1>7, <2>1, CurStays
  <2>. QED BY <1>2, <1>7, <2>1, <2>2 DEF Alike, Same
<1>8. Unminded(t, x)
  BY <1>7 DEF Unminded
<1>. QED BY <1>2, <1>3, <1>4, <1>5, <1>6, <1>8, CallsKept
LEMMA PlainPut ==
    ASSUME Core, Core', Tree, NEW t \in Tasks, at[t].pc \notin HasNxt, disk' = disk,
           NEW E, ETyped(E), Sound(E), InTree(E, disk), \A y \in Entries : Alike(entry[y], E[y]),
           NEW h, NEW e \in Entries, NEW r \in CallType, r.pc \in Resumes, Put(t, E, h, e, r)
    PROVE  Tree'
<1>1. NoEntry \notin Slots /\ NoEntry \notin Entries
  BY EntryFacts
<1>2. \A u \in Tasks \ {t} : /\ at[u].pc \in HasNxt => at[u].nxt # NoEntry
                             /\ at[u].pc \in {"lockParent", "remove"} => at[u].cur # NoEntry
  BY <1>1, TakenByCall DEF HasCur
<1>3. ButFor(E, NoEntry)
  BY DEF ButFor
<1>. QED BY <1>1, <1>2, <1>3, PutTreeStep

\* A lookup ends with a valid entry.
LEMMA UsePut ==
    ASSUME Core, Core', Tree, NEW t \in Tasks, at[t].pc \notin HasNxt, disk' = disk,
           NEW dp \in Entries, entry[dp].refcnt > 0, entry[dp].dir,
           NEW name \in Name, NEW e \in Rightful(dp, name),
           NEW h, NEW f \in Entries, NEW r \in CallType, r.pc \in Resumes, Put(t, Use(entry, e), h, f, r)
    PROVE  Tree'
<1>. DEFINE E == Use(entry, e)
<1>1. /\ ETyped(E) /\ Sound(E) /\ InTree(E, disk)
      /\ \A y \in Entries : Same(entry[y], E[y])
      /\ \A y \in Entries \ {e} : E[y].refcnt > 0 => entry[y].refcnt > 0
      /\ e \in Slots /\ entry[e].uptodate
  BY UseTree
<1>. HIDE DEF E
<1>2. e \in Entries /\ E[e].uptodate /\ E[e].dir = entry[e].dir
  BY <1>1, EntryFacts DEF Same
<1>3. ButFor(E, e)
  BY <1>1 DEF Alike, ButFor
<1>4. \A u \in Tasks \ {t} :
         /\ at[u].pc \in HasNxt => at[u].nxt # e
         /\ at[u].pc \in {"lockParent", "remove"} /\ at[u].cur = e => ~E[e].dir
  BY <1>1, <1>2, FreshIsAlone DEF Tree, Placed
<1>5. Put(t, E, h, f, r) /\ InTree(E, disk')
  BY <1>1 DEF E
<1>. QED BY <1>1, <1>2, <1>3, <1>4, <1>5, PutTreeStep

\* An entry is taken for a name that has none.
LEMMA MissTree ==
    ASSUME Core, Core', Tree, NEW t \in Tasks, at[t].pc \notin HasNxt, disk' = disk,
           NEW dp \in Entries, entry[dp].refcnt > 0, entry[dp].dir, NEW name \in Name,
           NEW pc \in {"search", "lookup"}, NEW e \in Slots, Misses(t, dp, name, pc, e)
    PROVE  Tree'
<1>1. /\ entry[e].refcnt = 0 /\ entry' = Rename(entry, e, dp, name)
      /\ at' = [at EXCEPT ![t].nxt = e, ![t].pc = pc]
  BY DEF Misses
<1>2. InTree(entry', disk) /\ \A y \in Entries \ {e} : Alike(entry[y], entry'[y])
  BY <1>1, RenameTree
<1>3. /\ at'[t].nxt = e /\ at'[t].pc = pc /\ \A u \in Tasks \ {t} : at'[u] = at[u]
  BY <1>1 DEF Core, Typed, CallType
<1>4. \A u \in Tasks \ {t} :
         /\ at[u].pc \in HasNxt => at[u].nxt # e
         /\ at[u].pc \in {"lockParent", "remove"} => at[u].cur # e
  <2>1. ASSUME NEW u \in Tasks \ {t}, at[u].pc \in {"lockParent", "remove"}, at[u].cur = e PROVE FALSE
    <3>1. e \in Entries /\ Own(at[u], cwd[u], e) >= 1
      BY <2>1, OwnIs, EntryFacts
    <3>. QED BY <1>1, <3>1, InCall
  <2>2. ASSUME NEW u \in Tasks \ {t}, at[u].pc \in HasNxt, at[u].nxt = e PROVE FALSE
    <3>1. entry[e].refcnt = 1
      BY <2>2, FreshIsAlone
    <3>. QED BY <1>1, <3>1
  <2>. QED BY <2>1, <2>2
<1>5. Placed(t)' /\ at'[t].pc \in HasNxt
  BY <1>3 DEF Placed, HasNxt
<1>6. Unminded(t, e)
  BY <1>4 DEF Unminded
<1>. QED BY <1>2, <1>3, <1>5, <1>6, CallsKept

\* The entry of a lookup is filled in from the disk.
LEMMA FillPut ==
    ASSUME Core, Core', Tree, NEW t \in Tasks, at[t].pc \in HasNxt, disk' = disk,
           NEW p \in Matches(at[t].cur, Head(at[t].rest)), NEW h, NEW f \in Entries,
           NEW r \in CallType, r.pc \in Resumes, Put(t, Fill(entry, at[t].nxt, at[t].cur, p), h, f, r)
    PROVE  Tree'
<1>. DEFINE e == at[t].nxt
            E == Fill(entry, e, at[t].cur, p)
<1>1. /\ ETyped(E) /\ Sound(E) /\ InTree(E, disk)
      /\ \A y \in Entries \ {e} : E[y] = entry[y]
      /\ E[e].uptodate
  BY FillTree
<1>2. Put(t, E, h, f, r)
  OBVIOUS
<1>. HIDE DEF E
<1>3. ButFor(E, e)
  BY <1>1 DEF Alike, Same, ButFor
<1>4. e \in Entries /\ \A u \in Tasks \ {t} : at[u].nxt # e /\ at[u].cur # e
  BY FreshIsAlone, OwnIs
<1>. QED BY <1>1, <1>2, <1>3, <1>4, PutTreeStep

\* The entry of a lookup in vain goes back to the unused ones.
LEMMA LostTree ==
    ASSUME Core, Core', Tree, NEW t \in Tasks, at[t].pc \in HasNxt, disk' = disk,
           entry' = Last_(Nameless(at[t].nxt), at[t].nxt), at' = [at EXCEPT ![t] = User]
    PROVE  Tree'
<1>. DEFINE e == at[t].nxt
<1>1. /\ e \in Slots /\ e \in Entries /\ e # Root /\ \A u \in Tasks \ {t} : at[u].nxt # e /\ at[u].cur # e
      /\ \A c \in Slots : entry[c].refcnt > 0 => entry[c].parent # e
  BY FreshIsAlone, OwnIs, EntryFacts
<1>2. \A y \in Entries \ {e} : Alike(entry[y], entry'[y])
  BY LostSame
<1>3. entry'[e] = Unused
  BY LoseFresh
<1>4. /\ ETyped(entry) /\ ETyped(entry') /\ Rooted(entry') /\ disk \in DiskType /\ InTree(entry, disk)
      /\ InOrder(disk) /\ \A y \in Slots : entry[y].refcnt > 0 => Says(entry, disk, y)
  BY RootedAfter DEF Core, Typed, DiskType, Tree, InTree
<1>5. Unused.refcnt = 0 /\ Plain(Unused)
  BY DEF Unused, Plain
<1>6. \A y \in Slots \ {e} : entry'[y].refcnt > 0 => entry'[y].parent # e
  BY <1>1, <1>2, EntryFacts DEF Alike, Same
<1>. HIDE DEF e
<1>7. InTree(entry', disk)
  BY <1>1, <1>2, <1>3, <1>4, <1>5, <1>6, OneChanged
<1>8. at'[t] = User /\ \A u \in Tasks \ {t} : at'[u] = at[u]
  BY DEF Core, Typed
<1>9. Placed(t)'
  BY <1>8, UserIs DEF Placed
<1>10. Unminded(t, e)
  BY <1>1 DEF Unminded, e
<1>. QED BY <1>2, <1>3, <1>5, <1>7, <1>8, <1>9, <1>10, CallsKept
\* Nothing that entries say changes, and the call goes on elsewhere.
LEMMA StillTree ==
    ASSUME Core, Core', Tree, NEW t \in Tasks, at[t].pc \notin HasNxt, disk' = disk, entry' = entry,
           \A u \in Tasks \ {t} : at'[u] = at[u], Placed(t)'
    PROVE  Tree'
<1>1. \A y \in Entries : Alike(entry[y], entry'[y])
  BY DEF Alike, Same
<1>2. NoEntry \notin Slots /\ NoEntry \notin Entries
  BY EntryFacts
<1>3. Unminded(t, NoEntry)
  <2>1. \A u \in Tasks : /\ at[u].pc \in HasNxt => at[u].nxt # NoEntry
                         /\ at[u].pc \in {"lockParent", "remove"} => at[u].cur # NoEntry
    BY <1>2, TakenByCall DEF HasCur
  <2>. QED BY <2>1 DEF Unminded
<1>4. InTree(entry', disk')
  BY DEF Tree
<1>. QED BY <1>1, <1>2, <1>3, <1>4, CallsKept

LEMMA WalkTree ==
    ASSUME Core, Core', Tree, NEW t \in Tasks, Walk(t), kernel' = "running"
    PROVE  Tree'
<1>. DEFINE dp == at[t].cur
            name == Head(at[t].rest)
            pp == entry[dp].parent
<1>1. at[t].pc = "walk" /\ at[t].pc \notin HasNxt
  BY DEF Walk, At, HasNxt
<1>2. /\ dp \in Entries /\ Own(at[t], cwd[t], dp) >= 1 /\ Typed /\ at[t] \in CallType /\ Shape(at[t])
      /\ ETyped(entry) /\ Sound(entry)
  BY <1>1, TakenByCall, OwnIs DEF HasCur, Walking, Core, Typed
<1>3. entry[dp].refcnt > 0 /\ pp \in Entries /\ entry[pp].refcnt > 0
  BY <1>2, InCall
<1>4. /\ disk' = disk
      /\ \/ FailsIn(t) /\ entry' = entry
         \/ entry[dp].dir /\ Walks(t)
         \/ entry[dp].dir /\ name \in Name /\ \E e \in Slots : Misses(t, dp, name, "search", e)
  BY <1>2, <1>3, WalkIs
<1>5. CASE FailsIn(t) /\ entry' = entry
  <2>1. at'[t] = User /\ \A u \in Tasks \ {t} : at'[u] = at[u]
    BY <1>5 DEF FailsIn, Core, Typed
  <2>2. Placed(t)'
    BY <2>1, UserIs DEF Placed
  <2>. QED BY <1>1, <1>4, <1>5, <2>1, <2>2, StillTree
<1>6. CASE entry[dp].dir /\ name \in Name /\ \E e \in Slots : Misses(t, dp, name, "search", e)
  BY <1>1, <1>2, <1>3, <1>4, <1>6, MissTree
<1>7. ASSUME NEW y \in Entries
      PROVE  Stepped(at[t], y) \in CallType /\ Stepped(at[t], y).pc \in Resumes
  BY <1>1, <1>2, SteppedIs DEF Continues
<1>8. ASSUME NEW y \in Entries, entry[y].refcnt > 0, StepsTo(t, Plus(entry, y), y)
      PROVE  Tree'
  <2>. DEFINE E == Plus(entry, y)
              r == Stepped(at[t], y)
              h == [holder EXCEPT ![dp] = Nobody]
  <2>1. ETyped(E) /\ Sound(E) /\ InTree(E, disk) /\ \A z \in Entries : Alike(entry[z], E[z])
    BY <1>8, PlusTree, EntryFacts DEF Used
  <2>2. Put(t, E, h, dp, r)
    BY <1>8 DEF StepsTo
  <2>3. r \in CallType /\ r.pc \in Resumes
    BY <1>7
  <2>. HIDE DEF E, r, h
  <2>. QED BY <1>1, <1>2, <1>4, <2>1, <2>2, <2>3, PlainPut
<1>9. ASSUME entry[dp].dir, name \in Name, NEW e \in Rightful(dp, name), StepsTo(t, Use(entry, e), e)
      PROVE  Tree'
  <2>. DEFINE r == Stepped(at[t], e)
              h == [holder EXCEPT ![dp] = Nobody]
  <2>1. Put(t, Use(entry, e), h, dp, r)
    BY <1>9 DEF StepsTo
  <2>2. e \in Entries
    BY <1>2, RightfulIs
  <2>3. r \in CallType /\ r.pc \in Resumes
    BY <1>7, <2>2
  <2>. HIDE DEF r, h
  <2>. QED BY <1>1, <1>2, <1>3, <1>4, <1>9, <2>1, <2>3, UsePut
<1>10. CASE entry[dp].dir /\ Walks(t)
  <2>1. \/ StepsTo(t, Plus(entry, dp), dp)
        \/ StepsTo(t, Plus(entry, pp), pp)
        \/ name \in Name /\ \E y \in Rightful(dp, name) : StepsTo(t, Use(entry, y), y)
    BY <1>10 DEF Walks
  <2>2. CASE StepsTo(t, Plus(entry, dp), dp)
    BY <1>2, <1>3, <1>8, <2>2
  <2>3. CASE StepsTo(t, Plus(entry, pp), pp)
    BY <1>3, <1>8, <2>3
  <2>4. CASE name \in Name /\ \E y \in Rightful(dp, name) : StepsTo(t, Use(entry, y), y)
    BY <1>9, <1>10, <2>4
  <2>. QED BY <2>1, <2>2, <2>3, <2>4
<1>. QED BY <1>4, <1>5, <1>6, <1>10

LEMMA SearchTree ==
    ASSUME Core, Core', Tree, NEW t \in Tasks, Search(t), kernel' = "running"
    PROVE  Tree'
<1>. DEFINE dp == at[t].cur
            e == at[t].nxt
            found == Matches(dp, Head(at[t].rest))
<1>1. at[t].pc = "search" /\ at[t].pc \in HasNxt
  BY DEF Search, At, HasNxt
<1>2. dp \in Entries /\ e \in Slots /\ e \in Entries /\ Typed /\ at[t] \in CallType /\ Shape(at[t])
  BY <1>1, LookedIn DEF Core, Typed
<1>3. \A p \in Places : ETyped(Fill(entry, e, dp, p))
  BY <1>1, FillIs
<1>4. /\ disk' = disk
      /\ \/ \E p \in found : StepsTo(t, Fill(entry, e, dp, p), e)
         \/ FailsIn(t) /\ entry' = Last_(Nameless(e), e)
  BY <1>2, <1>3, SearchIs
<1>5. CASE FailsIn(t) /\ entry' = Last_(Nameless(e), e)
  BY <1>1, <1>4, <1>5, LostTree DEF FailsIn
<1>6. ASSUME NEW p \in found, StepsTo(t, Fill(entry, e, dp, p), e) PROVE Tree'
  <2>. DEFINE r == Stepped(at[t], e)
              h == [holder EXCEPT ![dp] = Nobody]
  <2>1. Put(t, Fill(entry, e, dp, p), h, dp, r)
    BY <1>6 DEF StepsTo
  <2>2. r \in CallType /\ r.pc \in Resumes
    BY <1>1, <1>2, SteppedIs DEF Continues
  <2>. HIDE DEF r, h
  <2>. QED BY <1>1, <1>2, <1>4, <2>1, <2>2, FillPut
<1>. QED BY <1>4, <1>5, <1>6

LEMMA RefusingIs ==
    ASSUME NEW a \in CallType
    PROVE  Refusing(a) \in CallType /\ Refusing(a).pc \in Resumes
BY DEF Refusing, CallType, Pcs, Resumes

LEMMA LookupTree ==
    ASSUME Core, Core', Tree, NEW t \in Tasks, Lookup(t), kernel' = "running"
    PROVE  Tree'
<1>. DEFINE dp == at[t].cur
            name == Head(at[t].rest)
            r == Refusing(at[t])
            h == [holder EXCEPT ![dp] = t]
<1>1. at[t].pc = "arrived" /\ at[t].pc \notin HasNxt
  BY DEF Lookup, At, HasNxt
<1>2. /\ dp \in Entries /\ Own(at[t], cwd[t], dp) >= 1 /\ Typed /\ at[t] \in CallType /\ Shape(at[t])
  BY <1>1, TakenByCall, OwnIs DEF HasCur, Walking, Core, Typed
<1>3. entry[dp].refcnt > 0
  BY <1>2, InCall
<1>4. /\ disk' = disk /\ entry[dp].dir /\ Creates(at[t])
      /\ \/ \E e \in Rightful(dp, name) : Put(t, Use(entry, e), h, e, r)
         \/ \E e \in Slots : Misses(t, dp, name, "lookup", e)
  BY <1>2, LookupIs
<1>5. name \in Name
  BY <1>1, <1>2, <1>4 DEF Shape, Doing, Walking
<1>6. r \in CallType /\ r.pc \in Resumes
  BY <1>2, RefusingIs
<1>7. \A e \in Rightful(dp, name) : e \in Entries
  BY <1>2, RightfulIs
<1>. HIDE DEF r, h
<1>8. ASSUME NEW e \in Rightful(dp, name), Put(t, Use(entry, e), h, e, r) PROVE Tree'
  BY <1>1, <1>2, <1>3, <1>4, <1>5, <1>6, <1>7, <1>8, UsePut
<1>9. ASSUME NEW e \in Slots, Misses(t, dp, name, "lookup", e) PROVE Tree'
  BY <1>1, <1>2, <1>3, <1>4, <1>5, <1>9, MissTree
<1>. QED BY <1>4, <1>8, <1>9

LEMMA AllocateTree ==
    ASSUME Core, Core', Tree, NEW t \in Tasks, Allocate(t), kernel' = "running"
    PROVE  Tree'
<1>. DEFINE dp == at[t].cur
            e == at[t].nxt
            name == Head(at[t].rest)
            r == Refusing(at[t])
<1>1. at[t].pc = "lookup" /\ at[t].pc \in HasNxt
  BY DEF Allocate, At, HasNxt
<1>2. dp \in Entries /\ e \in Slots /\ e \in Entries /\ Typed /\ at[t] \in CallType /\ Shape(at[t])
  BY <1>1, LookedIn DEF Core, Typed
<1>3. \A p \in Places : ETyped(Fill(entry, e, dp, p))
  BY <1>1, FillIs
<1>4. /\ disk' = disk
      /\ \/ \E p \in Matches(dp, name) : Put(t, Fill(entry, e, dp, p), holder, e, r)
         \/ /\ Matches(dp, name) = {}
            /\ \E d \in Clusters(t) :
                  entry' = Afresh(Last_(Nameless(e), e), e, dp, name, FirstPlace(dp), d)
            /\ at' = [at EXCEPT ![t].pc = "make"]
  BY <1>2, <1>3, AllocateIs
<1>5. r \in CallType /\ r.pc \in Resumes
  BY <1>2, RefusingIs
<1>6. ASSUME NEW p \in Matches(dp, name), Put(t, Fill(entry, e, dp, p), holder, e, r) PROVE Tree'
  <2>. HIDE DEF r
  <2>. QED BY <1>1, <1>2, <1>4, <1>5, <1>6, FillPut
<1>7. ASSUME Matches(dp, name) = {}, NEW d \in Clusters(t),
             entry' = Afresh(Last_(Nameless(e), e), e, dp, name, FirstPlace(dp), d),
             at' = [at EXCEPT ![t].pc = "make"]
      PROVE  Tree'
  <2>1. /\ InTree(entry', disk) /\ entry'[e].place # 0
        /\ \A y \in Entries \ {e} : Alike(entry[y], entry'[y])
    BY <1>1, <1>7, AfreshTree
  <2>2. /\ at'[t].pc = "make" /\ at'[t].nxt = e /\ at'[t].cur = dp
        /\ \A u \in Tasks \ {t} : at'[u] = at[u]
    BY <1>2, <1>7 DEF Typed, CallType
  <2>3. Placed(t)' /\ at'[t].pc \in HasNxt
    BY <2>1, <2>2 DEF Placed, HasNxt
  <2>4. Unminded(t, e)
    <3>1. \A u \in Tasks \ {t} : at[u].nxt # e /\ at[u].cur # e
      BY <1>1, FreshIsAlone, OwnIs
    <3>. QED BY <3>1 DEF Unminded
  <2>. QED BY <1>4, <2>1, <2>2, <2>3, <2>4, CallsKept
<1>. QED BY <1>4, <1>6, <1>7
\* The steps that give a reference back and do nothing else.
LEMMA GiveBackTree ==
    ASSUME Core, Core', Tree, NEW t \in Tasks, at[t].pc \notin HasNxt, disk' = disk,
           NEW h, NEW e \in Entries, NEW r \in CallType, r.pc \in Resumes, Put(t, entry, h, e, r)
    PROVE  Tree'
<1>1. ETyped(entry) /\ Sound(entry) /\ InTree(entry, disk)
  BY DEF Core, Typed, Tree
<1>2. \A y \in Entries : Alike(entry[y], entry[y])
  BY DEF Alike, Same
<1>. QED BY <1>1, <1>2, PlainPut

LEMMA LeaveTree ==
    ASSUME Core, Core', Tree, NEW t \in Tasks, kernel' = "running", GiveUp(t) \/ Drop(t) \/ Chdir(t)
    PROVE  Tree'
<1>1. at[t].pc \in {"giveUp", "drop", "arrived"} /\ at[t].pc \notin HasNxt
  BY DEF GiveUp, Drop, Chdir, At, HasNxt
<1>2. /\ at[t].cur \in Entries /\ cwd[t] \in Entries /\ Typed /\ at[t] \in CallType
  BY <1>1, TakenByCall DEF HasCur, Walking, Core, Typed
<1>3. User \in CallType /\ User.pc \in Resumes
  BY UserIs DEF Continues
<1>4. CASE GiveUp(t)
  <2>1. disk' = disk /\ Put(t, entry, [holder EXCEPT ![at[t].cur] = Nobody], at[t].cur, User)
    BY <1>2, <1>4, GiveUpIs
  <2>. QED BY <1>1, <1>2, <1>3, <2>1, GiveBackTree
<1>5. CASE Drop(t)
  <2>1. disk' = disk /\ Put(t, entry, holder, at[t].cur, User)
    BY <1>2, <1>5, DropIs
  <2>. QED BY <1>1, <1>2, <1>3, <2>1, GiveBackTree
<1>6. CASE Chdir(t)
  <2>. DEFINE r == [at[t] EXCEPT !.pc = "chdir"]
  <2>1. disk' = disk /\ (Put(t, entry, holder, cwd[t], r) \/ Put(t, entry, holder, at[t].cur, User))
    BY <1>2, <1>6, ChdirIs
  <2>2. r \in CallType /\ r.pc \in Resumes
    BY <1>2 DEF CallType, Pcs, Resumes
  <2>. HIDE DEF r
  <2>3. CASE Put(t, entry, holder, cwd[t], r)
    BY <1>1, <1>2, <2>1, <2>2, <2>3, GiveBackTree
  <2>4. CASE Put(t, entry, holder, at[t].cur, User)
    BY <1>1, <1>2, <1>3, <2>1, <2>4, GiveBackTree
  <2>. QED BY <2>1, <2>3, <2>4
<1>. QED BY <1>4, <1>5, <1>6

\* A call begins: one more reference to where it starts.
LEMMA BeginTree ==
    ASSUME Core, Core', Tree, NEW t \in Tasks, NEW c \in Program[t], Begin(t, c)
    PROVE  Tree'
<1>. DEFINE y == IF c.root THEN Root ELSE cwd[t]
<1>1. /\ at[t].pc = "user" /\ at[t].pc \notin HasNxt /\ disk' = disk
      /\ Becomes(edup(Cache, y)) /\ at' = [at EXCEPT ![t] = Started(c, y)]
  BY DEF Begin, InUser, At, HasNxt, Started
<1>2. y \in Entries /\ at[t].then = "user"
  BY <1>1, EntryFacts DEF Core, Typed, Shape
<1>3. Used(entry, y)
  <2>. SUFFICES ASSUME y # Root PROVE entry[y].refcnt > 0
    BY DEF Used
  <2>1. Own(at[t], cwd[t], y) >= 1
    BY <1>1, <1>2, OwnIs
  <2>. QED BY <1>2, <2>1, InCall
<1>4. entry' = Plus(entry, y)
  <2>1. edup(Cache, y) = C(Plus(entry, y), order)
    BY CacheIs, edupIs
  <2>. QED BY <1>1, <2>1, CacheFields DEF Becomes
<1>. HIDE DEF y
<1>5. InTree(entry', disk') /\ \A z \in Entries \ {Root} : Alike(entry[z], entry'[z])
  BY <1>1, <1>2, <1>3, <1>4, PlusTree, EntryFacts
<1>6. /\ at'[t] = Started(c, y) /\ \A u \in Tasks \ {t} : at'[u] = at[u]
      /\ Started(c, y).pc \in {"walk", "arrived"}
  BY <1>1, <1>2, BeginIs DEF Core, Typed
<1>7. Placed(t)'
  BY <1>6 DEF Placed
<1>8. Root \notin Slots /\ Unminded(t, Root)
  <2>1. Root \notin Slots /\ \A u \in Tasks : at[u].pc \in HasNxt => at[u].nxt # Root
    BY EntryFacts, TakenByCall
  <2>2. \A u \in Tasks : at[u].pc \in {"lockParent", "remove"} => at[u].cur # Root
    BY DEF Tree, Placed, InTree
  <2>. QED BY <1>1, <2>1, <2>2 DEF Unminded
<1>. QED BY <1>5, <1>6, <1>7, <1>8, CallsKept

\* The steps that change neither entries nor the disk.
LEMMA IdleTree ==
    ASSUME Core, Core', Tree, NEW t \in Tasks, kernel' = "running",
           \/ Unlink(t) \/ LockParent(t) \/ ChdirEnds(t) \/ Unlock(t) \/ Pipe2(t)
           \/ \E fd \in Fds : Dup(t, fd)
           \/ \E old, new \in Fds : dup3(t, old, new)
    PROVE  Tree'
<1>1. ~End("fault") /\ ~End("spin") /\ ~End("undercount")
  BY DEF End
<1>2. /\ entry' = entry /\ disk' = disk
      /\ at[t].pc \in {"arrived", "lockParent", "chdir", "unlock", "user"}
      /\ \/ at' = at /\ at[t].pc = "user"
         \/ at' = [at EXCEPT ![t] = User]
         \/ at' = [at EXCEPT ![t].pc = "empty"]
         \/ at' = [at EXCEPT ![t].pc = "remove"] /\ at[t].pc = "lockParent"
  BY <1>1 DEF Unlink, LockParent, ChdirEnds, Unlock, Pipe2, Dup, dup3, Spins, At, InUser, cacheVars
<1>3. at \in [Tasks -> CallType] /\ at[t].pc \notin HasNxt
  BY <1>2 DEF Core, Typed, HasNxt
<1>4. /\ \A u \in Tasks \ {t} : at'[u] = at[u]
      /\ \/ at'[t].pc \in {"user", "empty"}
         \/ at'[t].pc = "remove" /\ at[t].pc = "lockParent" /\ at'[t].cur = at[t].cur
  BY <1>2, <1>3, UserIs DEF CallType
<1>5. Placed(t)'
  BY <1>2, <1>4 DEF Placed, Tree
<1>. QED BY <1>2, <1>3, <1>4, <1>5, StillTree

\* What a call or a file refers to is valid, but for what is being looked up.
LEMMA ValidOf ==
    ASSUME Core, Tree, NEW e \in Entries, entry[e].refcnt > 0,
           \A u \in Tasks : at[u].pc \in HasNxt => at[u].nxt # e
    PROVE  e \in Slots => entry[e].uptodate
BY DEF Tree, Awaited, Taking

\* A file's content changes.
LEMMA ChangeTree ==
    ASSUME Core, Core', Tree, NEW t \in Tasks, disk' = disk, at[t].pc \notin HasNxt,
           NEW e \in Entries, entry[e].refcnt > 0, ~entry[e].dir,
           \A u \in Tasks : at[u].pc \in HasNxt => at[u].nxt # e,
           NEW c \in {0, DataClus}, entry' = Content(e, c),
           \A u \in Tasks \ {t} : at'[u] = at[u],
           at'[t].pc # "make", at'[t].pc \in {"lockParent", "remove"} => at'[t].cur = e
    PROVE  Tree'
<1>1. e \in Slots /\ entry[e].uptodate
  BY ValidOf, EntryFacts DEF Tree, InTree
<1>2. InTree(entry', disk')
  BY <1>1, ContentTree
<1>3. SameFiles(entry, entry') /\ \A y \in Entries \ {e} : entry'[y] = entry[y]
  BY ContentIs DEF Core, Typed
<1>4. entry'[e].dir = entry[e].dir /\ entry'[e].uptodate
  BY <1>1, <1>3 DEF SameFiles
<1>5. \A y \in Entries \ {e} : Alike(entry[y], entry'[y])
  BY <1>3 DEF Alike, Same
<1>6. Unminded(t, e) /\ Placed(t)'
  BY <1>4 DEF Unminded, Placed
<1>. QED BY <1>2, <1>4, <1>5, <1>6, CallsKept
LEMMA WriteTree ==
    ASSUME Core, Core', Tree, NEW t \in Tasks, kernel' = "running",
           Empty(t) \/ Trunc(t) \/ \E fd \in Fds : Write(t, fd)
    PROVE  Tree'
<1>1. ASSUME at[t].pc \in {"empty", "trunc"}
      PROVE  /\ at[t].cur \in Entries /\ entry[at[t].cur].refcnt > 0 /\ ~entry[at[t].cur].dir
             /\ \A u \in Tasks : at[u].pc \in HasNxt => at[u].nxt # at[t].cur
             /\ at[t].pc \notin HasNxt /\ at \in [Tasks -> CallType]
  <2>1. at[t].cur \in Entries /\ Own(at[t], cwd[t], at[t].cur) >= 1 /\ at[t].pc \notin HasNxt
    BY <1>1, TakenByCall, OwnIs DEF HasCur, HasNxt
  <2>2. /\ entry[at[t].cur].refcnt > 0
        /\ \A u \in Tasks \ {t} : at[u].pc \in HasNxt => at[u].nxt # at[t].cur
    BY <2>1, InCall
  <2>. QED BY <1>1, <2>1, <2>2 DEF Core, Working, Typed
<1>2. CASE Empty(t)
  <2>1. /\ at[t].pc = "empty" /\ entry' = Content(at[t].cur, 0) /\ disk' = disk
        /\ at' = [at EXCEPT ![t].pc = "lockParent"]
    BY <1>2 DEF Empty, At, Truncated, Content
  <2>2. /\ at'[t].pc = "lockParent" /\ at'[t].cur = at[t].cur /\ \A u \in Tasks \ {t} : at'[u] = at[u]
    BY <1>1, <2>1 DEF CallType
  <2>. QED BY <1>1, <2>1, <2>2, ChangeTree
<1>3. CASE Trunc(t)
  <2>1. /\ at[t].pc = "trunc" /\ entry' = Content(at[t].cur, 0) /\ disk' = disk
        /\ at' = [at EXCEPT ![t] = User]
    BY <1>3 DEF Trunc, At, Truncated, Content, Spins, End
  <2>2. /\ at'[t].pc = "user" /\ \A u \in Tasks \ {t} : at'[u] = at[u]
    BY <1>1, <2>1, UserIs
  <2>. QED BY <1>1, <2>1, <2>2, ChangeTree
<1>4. ASSUME NEW fd \in Fds, Write(t, fd) PROVE Tree'
  <2>. DEFINE s == FTable[t][fd]
              e == file[s].entry
  <2>1. /\ at[t].pc = "user" /\ at[t].pc \notin HasNxt /\ s \in Sfds /\ file[s].type = "reg"
        /\ entry' = Content(e, DataClus) /\ UNCHANGED <<disk, at>>
    BY <1>4, Zenon DEF Write, InUser, At, End, Content, HasNxt
  <2>2. /\ e \in Entries /\ ~entry[e].dir /\ s \in FileRefs(file, Opening, e)
        /\ \A u \in Tasks : at[u].pc \in HasNxt => at[u].nxt # e
    BY <2>1, InFile
  <2>. HIDE DEF e
  <2>3. entry[e].refcnt > 0
    <3>1. Typed /\ Balanced(e)
      BY <2>2 DEF Core
    <3>2. entry[e].refcnt \in Nat /\ entry[e].refcnt >= 1
      BY <2>1, <2>2, <3>1, ReferredIsUsed, FieldTypes DEF Typed
    <3>. QED BY <3>2
  <2>4. \A u \in Tasks : at'[u] = at[u]
    BY <2>1
  <2>. QED BY <2>1, <2>2, <2>3, <2>4, ChangeTree, Zenon
<1>. QED BY <1>2, <1>3, <1>4

LEMMA OpenTree ==
    ASSUME Core, Core', Tree, NEW t \in Tasks, Open(t), kernel' = "running"
    PROVE  Tree'
<1>1. at[t].pc = "arrived" /\ at[t].pc \notin HasNxt
  BY DEF Open, At, HasNxt
<1>2. at[t].cur \in Entries /\ Typed /\ at \in [Tasks -> CallType]
  BY <1>1, TakenByCall DEF HasCur, Walking, Core, Typed
<1>3. /\ disk' = disk
      /\ \/ OpenFails(t)
         \/ \E s \in FreeSfds, fd \in FreeFds(t) : OpenEmpties(t, s, fd) \/ OpenEnds(t, s, fd)
  BY <1>2, OpenIs
<1>4. CASE OpenFails(t)
  <2>1. Put(t, entry, holder, at[t].cur, User)
    BY <1>4 DEF OpenFails
  <2>2. User \in CallType /\ User.pc \in Resumes
    BY UserIs DEF Continues
  <2>. QED BY <1>1, <1>2, <1>3, <2>1, <2>2, GiveBackTree
<1>5. ASSUME NEW s \in FreeSfds, NEW fd \in FreeFds(t), OpenEmpties(t, s, fd) \/ OpenEnds(t, s, fd)
      PROVE  Tree'
  <2>1. /\ entry' = entry
        /\ \/ at' = [at EXCEPT ![t].pc = "trunc", ![t].file = s, ![t].fd = fd]
           \/ at' = [at EXCEPT ![t] = User]
    BY <1>5 DEF OpenEmpties, OpenEnds
  <2>2. at'[t].pc \in {"trunc", "user"} /\ \A u \in Tasks \ {t} : at'[u] = at[u]
    BY <1>2, <2>1, UserIs DEF CallType
  <2>3. Placed(t)'
    BY <2>2 DEF Placed
  <2>. QED BY <1>1, <1>3, <2>1, <2>2, <2>3, StillTree
<1>. QED BY <1>3, <1>4, <1>5

LEMMA CloseTree ==
    ASSUME Core, Core', Tree, NEW t \in Tasks, NEW fd \in Fds, Close(t, fd), kernel' = "running"
    PROVE  Tree'
<1>1. \A s \in Sfds : LastOf(s) /\ FTable[t][fd] = s => file[s].entry \in Entries
  BY InFile DEF LastOf
<1>2. /\ at[t].pc = "user" /\ disk' = disk
      /\ \E s \in Sfds :
            /\ FTable[t][fd] = s
            /\ \/ /\ LastOf(s)
                  /\ \E p \in {"unlock", "user"} :
                        Put(t, entry, holder, file[s].entry, [User EXCEPT !.pc = p])
               \/ entry' = entry /\ at' = at
  <2>1. Typed
    BY DEF Core
  <2>2. PICK s \in Sfds :
            /\ FTable[t][fd] = s
            /\ \/ /\ LastOf(s)
                  /\ \E p \in {"unlock", "user"} :
                        Put(t, entry, holder, file[s].entry, [User EXCEPT !.pc = p])
               \/ UNCHANGED <<entry, order, holder, at, kernel, sysf>>
    BY <1>1, <2>1, CloseIs
  <2>3. at[t].pc = "user" /\ disk' = disk
    BY <1>1, <2>1, CloseIs
  <2>4. UNCHANGED <<entry, order, holder, at, kernel, sysf>> => entry' = entry /\ at' = at
    OBVIOUS
  <2>. QED BY <2>2, <2>3, <2>4
<1>3. at[t].pc \notin HasNxt
  BY <1>2 DEF HasNxt
<1>4. ASSUME NEW s \in Sfds, FTable[t][fd] = s, LastOf(s), NEW p \in {"unlock", "user"},
             Put(t, entry, holder, file[s].entry, [User EXCEPT !.pc = p])
      PROVE  Tree'
  <2>. DEFINE r == [User EXCEPT !.pc = p]
  <2>1. User \in CallType
    BY UserIs DEF Continues
  <2>2. r \in CallType /\ r.pc \in Resumes
    BY <2>1 DEF CallType, Pcs, Resumes
  <2>. HIDE DEF r
  <2>. QED BY <1>1, <1>2, <1>3, <1>4, <2>2, GiveBackTree DEF r
<1>5. CASE entry' = entry /\ at' = at
  <2>1. Placed(t)' /\ \A u \in Tasks : at'[u] = at[u]
    BY <1>2, <1>5 DEF Placed
  <2>. QED BY <1>2, <1>3, <1>5, <2>1, StillTree
<1>. QED BY <1>2, <1>4, <1>5
-----------------------------------------------------------------------------
(* The steps that write to the disk.                                       *)

\* The entry that eput() writes is that of a file.
LEMMA FlushTree ==
    ASSUME Core, Core', Tree, NEW t \in Tasks, Flush(t), kernel' = "running"
    PROVE  Tree'
<1>. DEFINE e == at[t].put
            r == [name |-> entry[e].name, dir |-> entry[e].dir, clus |-> entry[e].clus]
            c == entry[entry[e].parent].clus
            p == entry[e].place
            E == Clean(e)
<1>1. at[t].pc = "flush" /\ at[t].pc \notin HasNxt
  BY DEF Flush, At, HasNxt
<1>2. e \in Slots /\ e \in Entries /\ Typed /\ at[t] \in CallType /\ Shape(at[t]) /\ e # Root
  BY <1>1, TakenByCall, EntryFacts DEF Core, Typed
<1>3. /\ OwnsPlace(e) /\ disk' = Updated(e) /\ entry[e].refcnt = 1
      /\ entry' = Last_(Clean(e), e) /\ at' = [at EXCEPT ![t] = Resumed(at[t])]
      /\ entry[entry[e].parent].refcnt > 1
  BY <1>2, FlushIs
<1>4. Own(at[t], cwd[t], e) >= 1 /\ entry[e].refcnt > 0 /\ at[t].nxt # e
  BY <1>1, <1>2, <1>3, OwnIs, TakenByCall
<1>5. \A u \in Tasks : at[u].pc \in HasNxt => at[u].nxt # e
  BY <1>1, <1>2, <1>4, InCall
<1>6. Named(entry, e)
  BY <1>2, <1>3, <1>4, <1>5, ValidOf, Zenon DEF Named, OwnsPlace
<1>7. /\ entry[e].place \in Places /\ entry[e] \in EntryType /\ entry[e].parent \in Entries \ {e}
      /\ c \in Dirs /\ disk[c][p].name = entry[e].name
      /\ ~entry[e].dirty => disk[c][p] = r
  BY <1>2, <1>6, NamedIs, Zenon DEF PlaceIn
<1>8. /\ ETyped(entry) /\ InTree(entry, disk) /\ disk \in DiskType /\ InOrder(disk)
      /\ ETyped(entry') /\ Rooted(entry') /\ Sound(entry)
  BY RootedAfter, Zenon DEF Core, Typed, DiskType, Tree, InTree
<1>9. disk' = [disk EXCEPT ![c][p] = r]
  <2>1. disk[c] \in [Places -> PlaceType] /\ disk[c][p] \in PlaceType
    BY <1>7, <1>8, Zenon DEF DiskType
  <2>2. [disk[c][p] EXCEPT !.dir = entry[e].dir, !.clus = entry[e].clus] = r
    <3>. DEFINE w == disk[c][p]
                n == entry[e]
    <3>1. w \in PlaceType /\ w.name = n.name
      BY <1>7, <2>1, Zenon
    <3>. HIDE DEF w, n
    <3>2. [w EXCEPT !.dir = n.dir, !.clus = n.clus] = [name |-> n.name, dir |-> n.dir, clus |-> n.clus]
      <4>. DEFINE A == Name \cup {NoName}
                  B == Dirs \cup {0, DataClus}
                  v == [w EXCEPT !.dir = n.dir, !.clus = n.clus]
      <4>1. w \in [name : A, dir : BOOLEAN, clus : B]
        BY <3>1 DEF PlaceType
      <4>. HIDE DEF A, B
      <4>2. DOMAIN w = {"name", "dir", "clus"}
        BY <4>1
      <4>3. v.name = n.name /\ v.dir = n.dir /\ v.clus = n.clus /\ DOMAIN v = {"name", "dir", "clus"}
        BY <3>1, <4>2
      <4>4. v = [x \in {"name", "dir", "clus"} |-> v[x]]
        BY <4>3
      <4>. HIDE DEF v
      <4>5. v = [name |-> n.name, dir |-> n.dir, clus |-> n.clus]
        BY <4>3, <4>4
      <4>. QED BY <4>5 DEF v
    <3>. QED BY <3>2, Zenon DEF w, n
  <2>. QED BY <1>3, <2>2, ZenonT(30) DEF Updated
<1>. HIDE DEF c, p
<1>10. /\ disk' \in DiskType /\ InOrder(disk')
       /\ \A y \in Slots \ {e} : entry[y].refcnt > 0 => Says(entry, disk', y)
  <2>1. CASE entry[e].dirty
    <3>1. ~entry[e].dir
      BY <1>2, <2>1 DEF Tree, InTree, Plain
    <3>2. r \in PlaceType /\ ~r.dir /\ r.name = entry[e].name
      BY <1>7, <3>1 DEF PlaceType, EntryType, EntryRecord
    <3>. HIDE DEF r
    <3>. QED BY <1>2, <1>6, <1>9, <3>2, PlaceWritten, Zenon DEF c, p
  <2>2. CASE ~entry[e].dirty
    <3>1. disk' = disk
      BY <1>7, <1>8, <1>9, <2>2 DEF DiskType
    <3>. QED BY <1>8, <3>1 DEF InTree
  <2>. QED BY <2>1, <2>2
<1>11. /\ ETyped(E) /\ Sound(E) /\ \A y \in Entries \ {e} : E[y] = entry[y]
       /\ E[e] = [entry[e] EXCEPT !.dirty = FALSE]
  <2>1. E[e] = [entry[e] EXCEPT !.dirty = FALSE] /\ \A y \in Entries \ {e} : E[y] = entry[y]
    BY <1>2, <1>8 DEF Clean, ETyped
  <2>2. ETyped(E)
    BY <1>2, <1>7, <1>8 DEF Clean, ETyped, EntryType, EntryRecord
  <2>3. \A y \in Entries : entry[y].refcnt = E[y].refcnt /\ entry[y].parent = E[y].parent
    BY <1>7, <2>1 DEF EntryType, EntryRecord
  <2>. QED BY <1>8, <2>1, <2>2, <2>3, OwedSame
<1>. HIDE DEF E
<1>12. /\ E[e].refcnt = 1 /\ E[E[e].parent].refcnt > 1 /\ E[e].parent = entry[e].parent
  BY <1>3, <1>7, <1>11 DEF EntryType, EntryRecord
<1>13. GivenBack(E, entry', e)
  BY <1>2, <1>3, <1>11, <1>12, OwedLast DEF E
<1>14. \A y \in Entries \ {e} : Alike(entry[y], entry'[y])
  <2>1. ASSUME NEW y \in Entries \ {e} PROVE Alike(entry[y], entry'[y])
    <3>1. PICK n \in Nat : entry'[y] = [entry[y] EXCEPT !.refcnt = n]
      BY <1>11, <1>13 DEF GivenBack
    <3>2. entry[y] \in EntryType
      BY <1>8, FieldTypes
    <3>3. entry'[y].refcnt > 0 => entry[y].refcnt > 0
      <4>1. CASE y = entry[e].parent
        <5>1. entry[y].refcnt \in Nat
          BY <1>7, <1>8, FieldTypes
        <5>. QED BY <1>3, <4>1, <5>1
      <4>2. CASE y # entry[e].parent
        BY <1>11, <1>12, <1>13, <4>2 DEF GivenBack
      <4>. QED BY <4>1, <4>2
    <3>. QED BY <3>1, <3>2, <3>3 DEF Alike, Same, EntryType, EntryRecord
  <2>. QED BY <2>1
<1>15. entry'[e] = [entry[e] EXCEPT !.dirty = FALSE, !.refcnt = 0]
  <2>1. E[e].name # NoName
    BY <1>6, <1>7, <1>11 DEF Named, EntryType, EntryRecord
  <2>. QED BY <1>7, <1>11, <1>13, <2>1 DEF GivenBack, EntryType, EntryRecord
<1>16. entry'[e].refcnt = 0 /\ Plain(entry'[e])
  <2>1. Plain(entry[e])
    BY <1>2, <1>8 DEF InTree
  <2>. QED BY <1>7, <1>15, <2>1 DEF Plain, EntryType, EntryRecord
<1>17. \A y \in Slots : entry'[y].refcnt > 0 => entry'[y].parent # e
  BY <1>8, <1>16 DEF Rooted
<1>. HIDE DEF e
<1>18. InTree(entry', disk')
  BY <1>2, <1>8, <1>10, <1>14, <1>16, <1>17, OneChanged
<1>19. /\ at'[t].pc = at[t].then /\ \A u \in Tasks \ {t} : at'[u] = at[u]
  BY <1>2, <1>3 DEF Resumed, CallType, Typed
<1>20. Placed(t)'
  BY <1>1, <1>2, <1>19 DEF Placed, Shape, Resumes
<1>21. \A y \in Entries \ {NoEntry} : entry'[y].refcnt > 0 => Alike(entry[y], entry'[y])
  BY <1>14, <1>16
<1>22. NoEntry \notin Slots /\ Unminded(t, NoEntry)
  <2>1. NoEntry \notin Slots /\ NoEntry \notin Entries
    BY EntryFacts
  <2>2. \A u \in Tasks : /\ at[u].pc \in HasNxt => at[u].nxt # NoEntry
                         /\ at[u].pc \in {"lockParent", "remove"} => at[u].cur # NoEntry
    BY <2>1, TakenByCall DEF HasCur
  <2>. QED BY <1>1, <2>1, <2>2 DEF Unminded
<1>. QED BY <1>18, <1>19, <1>20, <1>21, <1>22, CallsKept
LEMMA RemoveTree ==
    ASSUME Core, Core', Tree, NEW t \in Tasks, RemoveFile(t), kernel' = "running"
    PROVE  Tree'
<1>. DEFINE e == at[t].cur
            E == Removed(e)
            h == [holder EXCEPT ![e] = Nobody, ![entry[e].parent] = Nobody]
<1>1. at[t].pc = "remove" /\ at[t].pc \notin HasNxt
  BY Zenon DEF RemoveFile, At, HasNxt
<1>2. e \in Entries /\ Typed /\ Own(at[t], cwd[t], e) >= 1 /\ ~entry[e].dir
  BY <1>1, TakenByCall, OwnIs DEF HasCur, Core, Tree, Placed
<1>3. e \in Slots /\ e # Root
  BY <1>2, EntryFacts, Zenon DEF Tree, InTree
<1>4. /\ OwnsPlace(e) /\ Put(t, E, h, e, User)
      /\ disk' = [disk EXCEPT ![entry[entry[e].parent].clus][entry[e].place] = Free]
  BY <1>1, <1>2, RemoveFileIs, Zenon
<1>5. /\ entry[e].refcnt > 0
      /\ \A u \in Tasks : at[u].pc \in HasNxt => at[u].nxt # e
  BY <1>1, <1>2, InCall, Zenon
<1>6. Named(entry, e)
  BY <1>2, <1>3, <1>4, <1>5, ValidOf, Zenon DEF Named, OwnsPlace
<1>7. Free \in PlaceType /\ ~Free.dir
  BY DiskAssumption, Zenon DEF Free, PlaceType
<1>8. /\ disk' \in DiskType /\ InOrder(disk')
      /\ \A y \in Slots \ {e} : entry[y].refcnt > 0 => Says(entry, disk', y)
  BY <1>3, <1>4, <1>6, <1>7, PlaceWritten, Zenon
<1>9. /\ ETyped(entry) /\ InTree(entry, disk) /\ disk \in DiskType /\ Rooted(entry) /\ Sound(entry)
  BY CoreRooted DEF Core, Typed, DiskType, Tree
<1>10. entry[e] \in EntryType /\ entry[e].parent \in Entries \ {e} /\ entry[entry[e].parent].refcnt > 0
       /\ entry[entry[e].parent].dir
  BY <1>3, <1>6, NamedIs
<1>11. /\ E[e] = [entry[e] EXCEPT !.dirty = FALSE, !.name = NoName]
       /\ \A y \in Entries \ {e} : E[y] = entry[y]
  BY <1>2, <1>9 DEF Removed, ETyped
<1>12. ETyped(E)
  BY <1>2, <1>9, <1>10 DEF Removed, ETyped, EntryType, EntryRecord
<1>. HIDE DEF E, h
<1>13. /\ E[e].refcnt = entry[e].refcnt /\ E[e].parent = entry[e].parent /\ E[e].dir = entry[e].dir
       /\ E[e].clus = entry[e].clus /\ E[e].place = entry[e].place /\ E[e].uptodate = entry[e].uptodate
       /\ E[e].name = NoName /\ ~E[e].dirty
  BY <1>10, <1>11 DEF EntryType, EntryRecord
<1>14. Sound(E) /\ Rooted(E)
  <2>1. \A y \in Entries : entry[y].refcnt = E[y].refcnt /\ entry[y].parent = E[y].parent
    BY <1>11, <1>13
  <2>2. Sound(E)
    BY <1>9, <1>12, <2>1, OwedSame
  <2>3. Rooted(E)
    BY <1>9, <2>1, EntryFacts DEF Rooted
  <2>. QED BY <2>2, <2>3
<1>15. \A y \in Entries \ {e} : Alike(entry[y], E[y])
  BY <1>11 DEF Alike, Same
<1>16. Plain(E[e]) /\ E[E[e].parent].dir /\ Says(E, disk', e) /\ ~E[e].dir
  BY <1>2, <1>3, <1>6, <1>9, <1>10, <1>11, <1>13 DEF Plain, Says, Named, InTree
<1>. HIDE DEF e
<1>17. InTree(E, disk')
  BY <1>3, <1>8, <1>9, <1>12, <1>13, <1>14, <1>15, <1>16, OneChanged
<1>18. User \in CallType /\ User.pc \in Resumes
  BY UserIs DEF Continues
<1>19. E[e].uptodate
  BY <1>6, <1>13 DEF Named
<1>20. \A u \in Tasks \ {t} :
          /\ at[u].pc \in HasNxt => at[u].nxt # e
          /\ at[u].pc \in {"lockParent", "remove"} /\ at[u].cur = e => ~E[e].dir
  BY <1>5, <1>16
<1>21. ButFor(E, e)
  BY <1>15 DEF ButFor
<1>22. ETyped(E) /\ Sound(E) /\ e \in Entries /\ Put(t, E, h, e, User)
  BY <1>2, <1>4, <1>12, <1>14
<1>. QED BY <1>1, <1>17, <1>18, <1>19, <1>20, <1>21, <1>22, PutTreeStep, Zenon

\* The disk D is A with the new file n in the place q of the directory c; if it is a
\* directory, its own cluster is empty.
MadeOf(A, D, c, q, n) ==
    \A a \in Dirs : \A p \in Places :
        D[a][p] = IF a = c /\ p = q THEN n ELSE IF n.dir /\ a = n.clus THEN Free ELSE A[a][p]

LEMMA MadeOrder ==
    ASSUME NEW A \in DiskType, NEW D \in DiskType, InOrder(A), NEW c \in Dirs, NEW q \in Places,
           NEW n \in PlaceType, n.name # NoName, \A p \in Places : A[c][p].name # n.name,
           n.dir => n.clus # RootClus /\ \A a \in Dirs : \A p \in Places : A[a][p].clus # n.clus,
           MadeOf(A, D, c, q, n), n.dir => n.clus # c
    PROVE  InOrder(D)
<1>1. /\ \A a \in Dirs : \A p, s \in Places :
             A[a][p].name = A[a][s].name => p = s \/ A[a][p].name = NoName
      /\ \A a \in Dirs : \A p \in Places :
             (A[a][p].name = NoName => A[a][p] = Free) /\ A[a][p].clus # RootClus
  BY DEF InOrder
<1>2. \A a, b \in Dirs : \A p, s \in Places :
         A[a][p].dir /\ A[a][p].clus = A[b][s].clus => a = b /\ p = s
  BY DEF InOrder
<1>3. /\ Free.name = NoName /\ Free.clus = 0 /\ ~Free.dir /\ 0 \notin Dirs /\ RootClus \in Dirs
      /\ n.dir <=> n.clus \in Dirs
  BY DiskAssumption DEF Free, PlaceType
<1>4. \A a \in Dirs : \A p \in Places : D[a][p].dir <=> D[a][p].clus \in Dirs
  BY DEF DiskType, PlaceType
<1>5. ASSUME NEW a \in Dirs, NEW p \in Places
      PROVE  \/ a = c /\ p = q /\ D[a][p] = n
             \/ ~(a = c /\ p = q) /\ D[a][p] = Free
             \/ ~(a = c /\ p = q) /\ ~(n.dir /\ a = n.clus) /\ D[a][p] = A[a][p]
  BY DEF MadeOf
<1>6. ASSUME NEW a \in Dirs, NEW p \in Places, NEW s \in Places, D[a][p].name = D[a][s].name,
             D[a][p].name # NoName
      PROVE  p = s
  BY <1>1, <1>3, <1>5, <1>6
<1>7. ASSUME NEW a \in Dirs, NEW p \in Places
      PROVE  (D[a][p].name = NoName => D[a][p] = Free) /\ D[a][p].clus # RootClus
  BY <1>1, <1>3, <1>5
<1>8. ASSUME NEW a \in Dirs, NEW b \in Dirs, NEW p \in Places, NEW s \in Places,
             D[a][p].dir, D[a][p].clus = D[b][s].clus
      PROVE  a = b /\ p = s
  <2>1. D[a][p].clus \in Dirs /\ D[a][p] # Free /\ D[b][s] # Free
    BY <1>3, <1>4, <1>8
  <2>2. CASE a = c /\ p = q
    BY <1>3, <1>5, <1>8, <2>1, <2>2
  <2>3. CASE ~(a = c /\ p = q)
    <3>1. D[a][p] = A[a][p]
      BY <1>5, <2>1, <2>3
    <3>2. ~(b = c /\ s = q)
      BY <1>3, <1>5, <1>8, <2>1, <3>1
    <3>3. D[b][s] = A[b][s]
      BY <1>5, <2>1, <3>2
    <3>. QED BY <1>2, <1>8, <3>1, <3>3
  <2>. QED BY <2>2, <2>3
<1>9. \A a \in Dirs : \A p, s \in Places : D[a][p].name = D[a][s].name => p = s \/ D[a][p].name = NoName
  BY <1>6
<1>10. \A a, b \in Dirs : \A p, s \in Places : D[a][p].dir /\ D[a][p].clus = D[b][s].clus => a = b /\ p = s
  BY <1>8
<1>11. \A a \in Dirs : \A p \in Places :
          (D[a][p].name = NoName => D[a][p] = Free) /\ D[a][p].clus # RootClus
  BY <1>7
<1>. QED BY <1>9, <1>10, <1>11 DEF InOrder

\* What another entry y says stays true: it is in another place, and what is pending
\* is in another directory.
LEMMA MadeSays ==
    ASSUME NEW A \in DiskType, NEW D \in DiskType, NEW c \in Dirs, NEW q \in Places,
           NEW n \in PlaceType, A[c][q] = Free, MadeOf(A, D, c, q, n),
           NEW E, NEW y, Says(E, A, y), E[E[y].parent].clus \in Dirs, E[E[y].parent].clus # n.clus \/ ~n.dir,
           E[y].uptodate => E[y].place \in Places,
           ~E[y].uptodate => E[E[y].parent].clus # c,
           E[y].dir => E[y].clus \in Dirs /\ E[y].clus # n.clus
    PROVE  Says(E, D, y)
<1>. DEFINE k == E[E[y].parent].clus
            p == E[y].place
<1>1. Free.name = NoName /\ Free.clus = 0 /\ 0 \notin Dirs
  BY DiskAssumption DEF Free
<1>2. CASE E[y].uptodate
  <2>1. CASE E[y].name # NoName
    <3>1. p \in Places /\ k \in Dirs /\ A[k][p].name = E[y].name
      BY <1>2, <2>1 DEF Says, PlaceIn
    <3>2. ~(k = c /\ p = q)
      BY <1>1, <2>1, <3>1
    <3>3. D[k][p] = A[k][p]
      BY <3>1, <3>2 DEF MadeOf
    <3>4. PlaceIn(E, D, y) = PlaceIn(E, A, y)
      BY <3>3 DEF PlaceIn
    <3>. QED BY <1>2, <3>4 DEF Says
  <2>2. CASE E[y].name = NoName
    BY <1>2, <2>2 DEF Says
  <2>. QED BY <2>1, <2>2
<1>3. CASE ~E[y].uptodate /\ p = 0
  BY <1>3 DEF Says
<1>4. CASE ~E[y].uptodate /\ p # 0
  <2>1. /\ E[y].name # NoName /\ ~E[y].dirty /\ p \in Places /\ A[k][p] = Free
        /\ \A s \in Places : A[k][s].name # E[y].name
        /\ E[y].dir => /\ E[y].clus # RootClus
                       /\ \A a \in Dirs : \A s \in Places : A[a][s].clus # E[y].clus
    BY <1>4 DEF Says, Pending, PlaceIn
  <2>2. \A s \in Places : D[k][s] = A[k][s]
    BY <1>4 DEF MadeOf
  <2>3. ASSUME E[y].dir, NEW a \in Dirs, NEW s \in Places PROVE D[a][s].clus # E[y].clus
    BY <1>1, <2>1, <2>3 DEF MadeOf
  <2>4. Pending(E, D, y)
    BY <2>1, <2>2, <2>3 DEF Pending, PlaceIn
  <2>. QED BY <1>4, <2>1, <2>4 DEF Says
<1>. QED BY <1>2, <1>3, <1>4
\* The new file is written where its place is pending.
LEMMA MakeTree ==
    ASSUME Core, Core', Tree, NEW t \in Tasks, Make(t), kernel' = "running"
    PROVE  Tree'
<1>. DEFINE dp == at[t].cur
            e == at[t].nxt
            name == Head(at[t].rest)
            r == Created(at[t])
            E == [entry EXCEPT ![e].uptodate = TRUE]
            h == [holder EXCEPT ![dp] = Nobody, ![e] = Nobody]
            c == entry[dp].clus
            q == entry[e].place
            n == [name |-> name, dir |-> entry[e].dir, clus |-> entry[e].clus]
            made == [disk EXCEPT ![c][q] = n]
            D == disk'
<1>1. at[t].pc = "make" /\ at[t].pc \in HasNxt
  BY Zenon DEF Make, At, HasNxt
<1>2. /\ dp \in Entries /\ e \in Slots /\ e \in Entries /\ Typed /\ at[t] \in CallType
      /\ entry[e].parent = dp /\ dp # e /\ entry[e].refcnt = 1 /\ entry[dp].refcnt > 1
      /\ holder[dp] = t /\ e # Root /\ Shape(at[t])
  BY <1>1, LookedIn, EntryFacts, SMTT(30) DEF Core, Typed
<1>3. /\ Put(t, E, h, dp, r)
      /\ D = IF entry[e].dir THEN [made EXCEPT ![entry[e].clus] = [p \in Places |-> Free]] ELSE made
  BY <1>2, MakeIs, Zenon
<1>4. name \in Name /\ entry[dp].dir /\ entry[e].name = name /\ ~entry[e].uptodate
  BY <1>1 DEF Core, Working
<1>5. name # NoName /\ entry[e].place # 0 /\ RootClus \in Dirs
  BY <1>1, <1>4, CacheAssumption, DiskAssumption DEF Tree, Placed
<1>6. /\ ETyped(entry) /\ InTree(entry, disk) /\ disk \in DiskType /\ D \in DiskType
      /\ Rooted(entry) /\ Sound(entry) /\ InOrder(disk) /\ Apart(entry)
  BY CoreRooted DEF Core, Typed, DiskType, Tree, InTree
<1>7. entry[e] \in EntryType /\ entry[dp] \in EntryType /\ c \in Dirs
  BY <1>2, <1>4, <1>6, FieldTypes DEF EntryType
<1>29. entry[dp].refcnt > 0
  BY <1>2, <1>7 DEF EntryType, EntryRecord
<1>8. Says(entry, disk, e) /\ Plain(entry[e])
  BY <1>2, <1>6, SMTT(30) DEF InTree
<1>9. /\ q \in Places /\ disk[c][q] = Free /\ (\A p \in Places : disk[c][p].name # name) /\ ~entry[e].dirty
      /\ entry[e].dir => /\ entry[e].clus # RootClus
                         /\ \A a \in Dirs : \A p \in Places : disk[a][p].clus # entry[e].clus
  BY <1>2, <1>4, <1>5, <1>8, Zenon DEF Says, Pending, PlaceIn
<1>10. n \in PlaceType /\ n.name = name /\ n.dir = entry[e].dir /\ n.clus = entry[e].clus
  BY <1>4, <1>7 DEF PlaceType, EntryType, EntryRecord
<1>11. \A y \in Entries : Used(entry, y) /\ entry[y].dir /\ y # e /\ n.dir => entry[y].clus # n.clus
  BY <1>2, <1>6, <1>10 DEF Apart, Used
<1>12. n.dir => n.clus # c /\ n.clus \in Dirs
  BY <1>2, <1>4, <1>7, <1>10, <1>11, <1>29 DEF EntryType, Used
<1>13. MadeOf(disk, D, c, q, n)
  <2>1. D = IF n.dir THEN [made EXCEPT ![n.clus] = [p \in Places |-> Free]] ELSE made
    BY <1>3, <1>10
  <2>2. \A a \in Dirs : \A p \in Places : made[a][p] = IF a = c /\ p = q THEN n ELSE disk[a][p]
    <3>. HIDE DEF n, c, q
    <3>. QED BY <1>6, <1>7, <1>9 DEF DiskType
  <2>3. made \in [Dirs -> [Places -> PlaceType]]
    <3>. HIDE DEF n, c, q
    <3>. QED BY <1>6, <1>7, <1>9, <1>10 DEF DiskType
  <2>. HIDE DEF n, c, q, made, D
  <2>. QED BY <1>12, <2>1, <2>2, <2>3, Zenon DEF MadeOf
<1>14. /\ \A y \in Entries \ {e} : E[y] = entry[y]
       /\ E[e] = [entry[e] EXCEPT !.uptodate = TRUE]
  BY <1>2, <1>6 DEF ETyped
<1>. HIDE DEF E, D, h, n, c, q, made
<1>15. InOrder(D)
  BY <1>5, <1>6, <1>7, <1>9, <1>10, <1>12, <1>13, MadeOrder
<1>16. /\ E[e].refcnt = 1 /\ E[e].parent = dp /\ E[e].name = name /\ E[e].place = q /\ ~E[e].dirty
       /\ E[e].dir = n.dir /\ E[e].clus = n.clus /\ E[e].uptodate /\ E[e] \in EntryType
  BY <1>2, <1>4, <1>7, <1>9, <1>10, <1>14 DEF EntryType, EntryRecord, q
<1>17. ETyped(E)
  BY <1>2, <1>6, <1>14, <1>16 DEF E, ETyped
<1>18. Sound(E) /\ Rooted(E)
  <2>1. \A y \in Entries : entry[y].refcnt = E[y].refcnt /\ entry[y].parent = E[y].parent
    BY <1>2, <1>14, <1>16, ZenonT(30)
  <2>2. Sound(E)
    BY <1>6, <1>17, <2>1, OwedSame
  <2>3. Rooted(E)
    BY <1>6, <2>1, EntryFacts DEF Rooted
  <2>. QED BY <2>2, <2>3
<1>19. \A y \in Entries \ {e} : Alike(entry[y], E[y])
  BY <1>14 DEF Alike, Same
<1>20. ASSUME NEW y \in Slots \ {e}, entry[y].refcnt > 0 PROVE Says(entry, D, y)
  <2>. DEFINE z == entry[y].parent
              k == entry[z].clus
  <2>1. y \in Entries /\ z \in Entries /\ entry[z].refcnt > 0 /\ entry[z].dir
    BY <1>6, <1>20, EntryFacts DEF Rooted, InTree
  <2>2. entry[z] \in EntryType /\ entry[y] \in EntryType /\ k \in Dirs
    BY <1>6, <2>1, FieldTypes DEF EntryType
  <2>3. z # e
    BY <1>1, <1>20, FreshIsAlone
  <2>4. k # n.clus \/ ~n.dir
    BY <1>11, <2>1, <2>3 DEF Used
  <2>5. Says(entry, disk, y) /\ (entry[y].uptodate => entry[y].place \in Places)
    BY <1>6, <1>20 DEF InTree, Plain
  <2>6. ASSUME ~entry[y].uptodate PROVE k # c
    <3>1. PICK u \in Tasks : at[u].pc \in HasNxt /\ at[u].nxt = y
      BY <1>20, <2>6 DEF Tree, Awaited, Taking
    <3>2. u # t
      BY <1>20, <3>1
    <3>3. holder[z] = u
      BY <3>1, LookedIn
    <3>4. z # dp
      BY <1>2, <3>2, <3>3
    <3>. QED BY <1>2, <1>4, <1>6, <1>29, <2>1, <3>4 DEF Apart, Used, c
  <2>7. entry[y].dir => entry[y].clus \in Dirs /\ entry[y].clus # n.clus
    <3>1. entry[y].dir => entry[y].clus \in Dirs
      BY <2>2 DEF EntryType
    <3>2. n.dir \/ n.clus \notin Dirs
      BY <1>10 DEF PlaceType
    <3>. QED BY <1>11, <1>20, <2>1, <3>1, <3>2 DEF Used
  <2>. QED BY <1>6, <1>7, <1>9, <1>10, <1>13, <2>2, <2>4, <2>5, <2>6, <2>7, MadeSays
<1>21. \A y \in Slots \ {e} : E[y].refcnt > 0 => E[y].parent # e
  BY <1>1, <1>14, FreshIsAlone, EntryFacts
<1>22. Plain(E[e]) /\ E[E[e].parent].dir
  BY <1>2, <1>4, <1>5, <1>9, <1>14, <1>16 DEF Plain
<1>23. Says(E, D, e)
  <2>1. D[c][q] = n
    BY <1>7, <1>9, <1>13 DEF MadeOf
  <2>2. PlaceIn(E, D, e) = n
    BY <1>2, <1>14, <1>16, <2>1 DEF PlaceIn, c
  <2>3. n = [name |-> E[e].name, dir |-> E[e].dir, clus |-> E[e].clus]
    BY <1>10, <1>16 DEF n
  <2>. QED BY <1>10, <1>16, <2>2, <2>3 DEF Says
<1>24. E[e].dir => \A b \in Entries \ {e} : Used(entry, b) /\ entry[b].dir => entry[b].clus # E[e].clus
  BY <1>11, <1>16
<1>. HIDE DEF e, dp
<1>25. InTree(E, D)
  BY <1>2, <1>6, <1>15, <1>17, <1>18, <1>19, <1>20, <1>21, <1>22, <1>23, <1>24, OneChanged
<1>26. r \in CallType /\ r.pc \in Resumes
  <2>. DEFINE m == [at[t] EXCEPT !.cur = at[t].nxt, !.nxt = NoEntry, !.rest = <<>>]
              s == [m EXCEPT !.pc = "arrived", !.call = "open"]
              w == [m EXCEPT !.pc = "drop"]
  <2>1. r = IF at[t].call = "creat" THEN s ELSE w
    BY DEF Created
  <2>2. m \in CallType
    <3>1. <<>> \in Seq(Name \cup {Dot, DotDot})
      OBVIOUS
    <3>. QED BY <1>2, <3>1, EntryFacts DEF CallType, e
  <2>. HIDE DEF m
  <2>3. s \in CallType /\ s.pc = "arrived" /\ w \in CallType /\ w.pc = "drop"
    BY <2>2, ZenonT(30) DEF CallType, Pcs, Calls
  <2>. HIDE DEF s, w
  <2>. QED BY <2>1, <2>3 DEF Resumes
<1>. HIDE DEF r
<1>27. \A u \in Tasks \ {t} : at[u].nxt # e /\ at[u].cur # e
  BY <1>1, FreshIsAlone, OwnIs DEF e
<1>28. at[t].nxt = e /\ ButFor(E, e)
  BY <1>19 DEF e, ButFor
<1>30. \A u \in Tasks \ {t} :
          /\ at[u].pc \in HasNxt => at[u].nxt # e
          /\ at[u].pc \in {"lockParent", "remove"} /\ at[u].cur = e => ~E[e].dir
  BY <1>27
<1>31. InTree(E, disk')
  BY <1>25 DEF D
<1>32. dp \in Entries /\ ETyped(E) /\ Sound(E) /\ Put(t, E, h, dp, r) /\ E[e].uptodate
  BY <1>2, <1>3, <1>16, <1>17, <1>18
<1>. QED BY <1>26, <1>28, <1>30, <1>31, <1>32, PutTreeStep, SMTT(30)
-----------------------------------------------------------------------------
(* The tree of directories, from the mounted disk on.                      *)

LEMMA InitTree == Init => Tree
<1>. SUFFICES ASSUME Init PROVE Tree
  OBVIOUS
<1>1. /\ entry = [e \in Entries |->
                    IF e = Root
                      THEN [Unused EXCEPT !.parent = Root, !.refcnt = 1 + Cardinality(Tasks \ {InitTask}),
                               !.uptodate = TRUE, !.dir = TRUE, !.clus = RootClus]
                      ELSE Unused]
      /\ at = [t \in Tasks |-> User] /\ disk = Mounted
  BY DEF Init, CacheInit, Entries
<1>2. /\ entry[Root].dir = TRUE /\ entry[Root].clus = RootClus
      /\ \A e \in Slots : entry[e] = Unused /\ e \in Entries
  BY <1>1, EntryFacts DEF Unused
<1>3. Unused.refcnt = 0 /\ Plain(Unused)
  BY DEF Unused, Plain
<1>4. Apart(entry)
  BY <1>2, <1>3, EntryFacts DEF Apart, Used
<1>5. InTree(entry, disk)
  <2>1. InOrder(disk)
    BY <1>1, MountAssumption
  <2>2. \A e \in Slots : Plain(entry[e]) /\ ~(entry[e].refcnt > 0)
    <3>1. ~(Unused.refcnt > 0)
      BY <1>3
    <3>. QED BY <1>2, <1>3, <3>1
  <2>. QED BY <1>2, <1>4, <2>1, <2>2 DEF InTree
<1>6. \A t \in Tasks : Placed(t)
  BY <1>1, UserIs DEF Placed
<1>. QED BY <1>2, <1>3, <1>5, <1>6 DEF Tree, Awaited

LEMMA TreeStutter == Tree /\ UNCHANGED vars => Tree'
<1>. SUFFICES ASSUME Tree, UNCHANGED vars PROVE Tree'
  OBVIOUS
<1>1. UNCHANGED <<entry, disk, at>>
  BY DEF vars, cacheVars
<1>. QED BY <1>1 DEF Tree, Awaited, Taking, Placed

LEMMA TreeNext == Core /\ Core' /\ Tree /\ Next /\ kernel' = "running" => Tree'
<1>. SUFFICES ASSUME Core, Core', Tree, kernel' = "running", NEW t \in Tasks,
                     \/ Walk(t) \/ Search(t) \/ Lookup(t) \/ Allocate(t) \/ Make(t) \/ GiveUp(t)
                     \/ Drop(t) \/ Flush(t) \/ Unlink(t) \/ Empty(t) \/ LockParent(t) \/ RemoveFile(t)
                     \/ \E c \in Program[t] : Begin(t, c)
                     \/ Open(t) \/ Trunc(t) \/ Chdir(t) \/ ChdirEnds(t) \/ Unlock(t) \/ Pipe2(t)
                     \/ \E fd \in Fds : Close(t, fd) \/ Dup(t, fd) \/ Write(t, fd)
                     \/ \E old, new \in Fds : dup3(t, old, new)
              PROVE  Tree'
  BY DEF Next
<1>1. CASE Walk(t)
  BY <1>1, WalkTree
<1>2. CASE Search(t)
  BY <1>2, SearchTree
<1>3. CASE Lookup(t)
  BY <1>3, LookupTree
<1>4. CASE Allocate(t)
  BY <1>4, AllocateTree
<1>5. CASE Make(t)
  BY <1>5, MakeTree
<1>6. CASE GiveUp(t) \/ Drop(t) \/ Chdir(t)
  BY <1>6, LeaveTree
<1>7. CASE Flush(t)
  BY <1>7, FlushTree
<1>8. CASE RemoveFile(t)
  BY <1>8, RemoveTree
<1>9. ASSUME NEW c \in Program[t], Begin(t, c) PROVE Tree'
  BY <1>9, BeginTree
<1>10. CASE Empty(t) \/ Trunc(t) \/ \E fd \in Fds : Write(t, fd)
  BY <1>10, WriteTree
<1>11. CASE Open(t)
  BY <1>11, OpenTree
<1>12. ASSUME NEW fd \in Fds, Close(t, fd) PROVE Tree'
  BY <1>12, CloseTree
<1>13. CASE \/ Unlink(t) \/ LockParent(t) \/ ChdirEnds(t) \/ Unlock(t) \/ Pipe2(t)
            \/ \E fd \in Fds : Dup(t, fd)
            \/ \E old, new \in Fds : dup3(t, old, new)
  BY <1>13, IdleTree
<1>. QED BY <1>1, <1>2, <1>3, <1>4, <1>5, <1>6, <1>7, <1>8, <1>9, <1>10, <1>11, <1>12, <1>13

\* While the kernel runs on, directories form a tree as the disk has it: a slot in use
\* is below a directory in use and in that directory's place for it, no two directories
\* in use have one cluster, no directory has a name twice, a new file's place is free
\* until it is written (eget(), dirlookup(), ealloc(), eupdate(), eremove()).
THEOREM TreeInvariance == Spec => [](Running => Core /\ Tree)
<1>. DEFINE TInv == Running => Core /\ Tree
<1>1. Init => TInv
  BY InitCore, InitTree DEF IInv
<1>2. TInv /\ [Next]_vars => TInv'
  <2>. SUFFICES ASSUME TInv, [Next]_vars, Running' PROVE Core' /\ Tree'
    OBVIOUS
  <2>1. Running
    BY StepRuns DEF Running, vars, cacheVars
  <2>2. Core'
    BY <2>1, NextKeeps DEF IInv
  <2>3. CASE UNCHANGED vars
    BY <2>1, <2>2, <2>3, TreeStutter
  <2>4. CASE Next
    <3>1. Core /\ Tree /\ kernel' = "running"
      BY <2>1 DEF Running
    <3>. QED BY <2>2, <2>4, <3>1, TreeNext
  <2>. QED BY <2>2, <2>3, <2>4
<1>. QED BY <1>1, <1>2, PTL DEF Spec

\* A valid entry in use that is not dirty says what is in its file's place on the
\* disk, whichever entries were reused, files made and removed in between.
THEOREM CoherentTheorem == Spec => []Coherent
<1>1. (Running => Core /\ Tree) => Coherent
  <2>. SUFFICES ASSUME Tree, NEW e \in Slots, entry[e].refcnt > 0, entry[e].name # NoName,
                       entry[e].uptodate, ~entry[e].dirty
                PROVE  OnDisk(e)
    BY DEF Coherent
  <2>1. Says(entry, disk, e)
    BY DEF Tree, InTree
  <2>. QED BY <2>1 DEF Says, PlaceIn, OnDisk, PlaceOf
<1>. QED BY <1>1, TreeInvariance, PTL

=============================================================================
