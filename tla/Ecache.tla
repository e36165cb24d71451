------------------------------- MODULE Ecache -------------------------------
(***************************************************************************)
(* The cache of directory entries and the walk along a path                *)
(* (arch/riscv/kernel/fat32.c).  FileTable.tla has the system calls that   *)
(* use it and puts the steps together.                                     *)
(*                                                                         *)
(* A step ends where the code may sleep: before a sleep lock, during a     *)
(* transfer, and inside eput() after it has given ecache.lock up.  What    *)
(* acquiresleep() does to get a lock is in Bcache.tla; here a task with    *)
(* a lock to get waits until it is free; that eput() never has to is shown *)
(* by LockedIsCounted.                                                     *)
(*                                                                         *)
(* The model follows the kernel until it stops ("panic", "fault", "spin")  *)
(* or until what it does next means nothing any more: a reference was      *)
(* given back that others still rely on ("undercount"), a lookup returned  *)
(* another directory's file or one that has changed since ("stale"), the   *)
(* place of another file, or of none, was written ("overwrite").           *)
(***************************************************************************)
EXTENDS Integers, Sequences, FiniteSets, SequencesExt

CONSTANTS
    Tasks,
    InitTask,         \* the one of them that user_init() makes; the others are its clones
    ENTRY_CACHE_NUM,
    Name, NoName,     \* file names, and the name of what has none
    Dirs, RootClus,   \* first clusters that directories may have
    DataClus,         \* stands for the first cluster of any file with content
    Places,           \* places for entries in one directory
    Mounted,          \* the directories on the disk when it is mounted
    Nobody

ASSUME CacheAssumption ==
    /\ ENTRY_CACHE_NUM \in Nat \ {0} /\ NoName \notin Name
    /\ IsFiniteSet(Tasks) /\ InitTask \in Tasks /\ Nobody \notin Tasks
ASSUME DiskAssumption ==
    /\ RootClus \in Dirs /\ {0, DataClus} \cap Dirs = {}
    /\ Places \subseteq Nat \ {0} /\ IsFiniteSet(Places) /\ IsFiniteSet(Name)
    /\ Cardinality(Places) >= Cardinality(Name)

\* What a place on the disk says; only directories have clusters of Dirs.
PlaceType ==
    {p \in [name : Name \cup {NoName}, dir : BOOLEAN, clus : Dirs \cup {0, DataClus}] :
        p.dir <=> p.clus \in Dirs}

Free == [name |-> NoName, dir |-> FALSE, clus |-> 0]

\* A file system in order: what has no name is free, no directory has a name twice,
\* and a directory is in one place, except the root, which is in none.
InOrder(d) ==
    /\ \A c \in Dirs : \A p, q \in Places :
          d[c][p].name = d[c][q].name => p = q \/ d[c][p].name = NoName
    /\ \A c \in Dirs : \A p \in Places :
          /\ d[c][p].name = NoName => d[c][p] = Free
          /\ d[c][p].clus # RootClus
    /\ \A a, b \in Dirs : \A p, q \in Places :
          d[a][p].dir /\ d[a][p].clus = d[b][q].clus => a = b /\ p = q

ASSUME MountAssumption ==
    Mounted \in [Dirs -> [Places -> PlaceType]] /\ InOrder(Mounted)

Root  == 0                       \* the static variable root
Slots == 1..ENTRY_CACHE_NUM      \* ecache.entries
NoEntry == -1                    \* NULL

\* "." and "..", which are no file names.
Dot == "."
DotDot == ".."

VARIABLES
    entry,    \* the fields of root and of the cached entries; home is history:
              \* the directory that an entry was read from or made for
    order,    \* the ring from root.next to root.prev
    holder,   \* owner of each entry's sleep lock
    disk,     \* name, attribute and first cluster in each place of a directory
    cwd,      \* task->cwd
    at,       \* where each task is in its call, with the call's variables
    kernel,   \* "running", or why the model ends
    leak      \* history: references of each entry that no one can give back

cacheVars == <<entry, order, holder, disk, cwd, at, kernel, leak>>

Unused == [refcnt |-> 0, parent |-> NoEntry, name |-> NoName, place |-> 0,
           dir |-> FALSE, clus |-> 0, uptodate |-> FALSE, dirty |-> FALSE, home |-> 0]

\* A task in user mode: no call, no variables.
User == [pc |-> "user", call |-> "none", cur |-> NoEntry, nxt |-> NoEntry,
         put |-> NoEntry, rest |-> <<>>, then |-> "user", file |-> -1, fd |-> -1]

Calls == {"none", "open", "openTrunc", "creat", "mkdir", "chdir", "unlink"}
Pcs   == {"user", "walk", "search", "arrived", "lookup", "make", "giveUp", "drop",
          "flush", "trunc", "chdir", "empty", "lockParent", "remove", "unlock"}
Ends  == {"running", "panic", "fault", "spin", "undercount", "stale", "overwrite"}

CacheTypeOK ==
    /\ \A e \in {Root} \cup Slots :
          /\ entry[e].refcnt \in Nat
          /\ entry[e].parent \in {Root, NoEntry} \cup Slots
          /\ entry[e].name \in Name \cup {NoName} /\ entry[e].place \in Places \cup {0}
          /\ entry[e].clus \in Dirs \cup {0, DataClus} /\ entry[e].home \in Dirs \cup {0}
          /\ {entry[e].dir, entry[e].uptodate, entry[e].dirty} \subseteq BOOLEAN
    /\ order  \in [1..ENTRY_CACHE_NUM -> Slots] /\ ToSet(order) = Slots
    /\ holder \in [{Root} \cup Slots -> Tasks \cup {Nobody}]
    /\ \A d \in Dirs : \A p \in Places : disk[d][p].name \in Name \cup {NoName}
    /\ cwd    \in [Tasks -> {Root} \cup Slots]
    /\ \A t \in Tasks : at[t].pc \in Pcs /\ at[t].call \in Calls
    /\ kernel \in Ends
    /\ leak   \in [{Root} \cup Slots -> Nat]

\* fat_init(), and procfile_init() of every task.  The first task is in the kernel for
\* the first time when it calls fat_init(), which clears the root and sets its count
\* to 1: its own reference and that of task 0, which procfile_init() took before,
\* are not counted.  The clones' are.
CacheInit ==
    /\ entry = [e \in {Root} \cup Slots |->
                  IF e = Root
                    THEN [Unused EXCEPT !.parent = Root, !.refcnt = 1 + Cardinality(Tasks \ {InitTask}),
                             !.uptodate = TRUE, !.dir = TRUE, !.clus = RootClus]
                    ELSE Unused]
    /\ cwd = [t \in Tasks |-> Root]
    /\ at = [t \in Tasks |-> User]
    /\ order = [i \in 1..ENTRY_CACHE_NUM |-> ENTRY_CACHE_NUM + 1 - i]
    /\ holder = [e \in {Root} \cup Slots |-> Nobody]
    /\ disk = Mounted
    /\ kernel = "running"
    /\ leak = [e \in {Root} \cup Slots |-> 0]
-----------------------------------------------------------------------------
(* What the functions of the cache do to it; c has the fields entry, order. *)

Cache == [entry |-> entry, order |-> order]

edup(c, e) == [c EXCEPT !.entry[e].refcnt = @ + 1]

Position(c, e) == CHOOSE i \in 1..ENTRY_CACHE_NUM : c.order[i] = e
Without(c, e) == RemoveAt(c.order, Position(c, e))
Lifted(c, e) == [c EXCEPT !.order = <<e>> \o Without(c, e)]       \* liftEntry()
Lowered(c, e) == [c EXCEPT !.order = Append(Without(c, e), e)]    \* downEntry()

\* The entries that eget() takes for dp's file of this name.
Hits(c, dp, name) ==
    {e \in Slots : c.entry[e].uptodate /\ c.entry[e].parent = dp /\ c.entry[e].name = name}

Taken_Alone(c, e) == edup(c, e)          \* mutant: the directory is not counted

\* eget() of an entry in the cache: the first reference also counts for the directory.
Taken(c, e) ==
    IF c.entry[e].refcnt = 0 THEN edup(edup(c, c.entry[e].parent), e) ELSE edup(c, e)

\* Entries that eget() may use for another file; it takes the last on the ring.
Reusable(c) == {e \in Slots : c.entry[e].refcnt = 0}

Oldest(c) == CHOOSE e \in Reusable(c) :
                \A d \in Reusable(c) : d = e \/
                    \E i, j \in DOMAIN c.order : i < j /\ c.order[i] = d /\ c.order[j] = e

Renamed(c, e, dp, name) ==
    edup([c EXCEPT !.entry[e] = [Unused EXCEPT !.refcnt = 1, !.parent = dp, !.name = name]], dp)

\* The end of an eput() that began with refcnt = 1, on the whole cache.  What is
\* left in an entry without a name is never looked at.
PutLast(c, e) ==
    [Lowered(c, e) EXCEPT !.entry[e] = IF @.name = NoName THEN Unused
                                       ELSE [@ EXCEPT !.refcnt = 0],
                          !.entry[c.entry[e].parent].refcnt = @ - 1]

-----------------------------------------------------------------------------
\* The model ends here.
End(why) ==
    kernel' = why /\ UNCHANGED <<entry, order, holder, at>>

Becomes(c) == entry' = c.entry /\ order' = c.order

\* Whether an eput() is of the last reference and has to write the entry first.
Writes(c, e) == e # Root /\ c.entry[e].refcnt = 1 /\ c.entry[e].dirty

\* eput(e) by task t, which then goes on at r; c is the cache and h the locks
\* that the step has made so far.  It takes the lock for the last reference.
eput(t, c, h, e, r) ==
    LET n == c.entry[e].refcnt
        last == e # Root /\ n = 1
    IN  /\ last => h[e] = Nobody
        /\ \/ /\ n = 0 \/ (last /\ ~Writes(c, e) /\ c.entry[c.entry[e].parent].refcnt = 1)
              /\ End("panic")
           \/ /\ n > 0 /\ ~last
              /\ Becomes([c EXCEPT !.entry[e].refcnt = n - 1])
              /\ holder' = h /\ at' = [at EXCEPT ![t] = r] /\ UNCHANGED kernel
           \/ /\ last /\ ~Writes(c, e) /\ c.entry[c.entry[e].parent].refcnt > 1
              /\ Becomes(PutLast(c, e))
              /\ holder' = h /\ at' = [at EXCEPT ![t] = r] /\ UNCHANGED kernel
           \/ /\ Writes(c, e)
              /\ Becomes(c) /\ holder' = [h EXCEPT ![e] = t] /\ UNCHANGED kernel
              /\ at' = [at EXCEPT ![t] = [r EXCEPT !.pc = "flush", !.put = e, !.then = r.pc]]

At(t, pc) == kernel = "running" /\ at[t].pc = pc

\* The place on the disk that e->parent and e->off lead to.
PlaceOf(e) == disk[entry[entry[e].parent].clus][entry[e].place]

\* The place still is that of the entry's file.
OwnsPlace(e) == entry[e].name # NoName /\ PlaceOf(e).name = entry[e].name

\* eupdate(): attribute, size and first cluster go into the entry's place.
Updated(e) ==
    [disk EXCEPT ![entry[entry[e].parent].clus][entry[e].place] =
        [@ EXCEPT !.dir = entry[e].dir, !.clus = entry[e].clus]]

\* eput() has written the entry; others may have taken it since refcnt was seen to
\* be 1.  A place that has been given up meanwhile sends eupdate() 165 places on,
\* one that is used again gets the wrong file's cluster.
Flush(t) ==
    LET e == at[t].put
        n == entry[entry[e].parent].refcnt
    IN
    /\ At(t, "flush")
    /\ UNCHANGED <<cwd, leak>>
    /\ \/ ~OwnsPlace(e) /\ End("overwrite") /\ UNCHANGED disk
       \/ /\ OwnsPlace(e) /\ disk' = Updated(e)
          /\ \/ entry[e].refcnt > 1 /\ End("undercount")
             \/ entry[e].refcnt = 1 /\ n = 1 /\ End("panic")
             \/ /\ entry[e].refcnt = 1 /\ n > 1
                /\ Becomes(PutLast([Cache EXCEPT !.entry[e].dirty = FALSE], e))
                /\ holder' = [holder EXCEPT ![e] = Nobody]
                /\ at' = [at EXCEPT ![t].put = NoEntry, ![t].pc = at[t].then, ![t].then = "user"]
                /\ UNCHANGED kernel

-----------------------------------------------------------------------------
(* ename(): one component after the other.                                 *)

\* ename() has failed: it returns NULL with the directory locked and counted.
\* rm() does not test for NULL before it takes the lock of what it was given.
Fails(t) ==
    IF at[t].call = "unlink" THEN kernel' = "fault" /\ UNCHANGED <<at, leak>>
    ELSE /\ at' = [at EXCEPT ![t] = User]
         /\ leak' = [leak EXCEPT ![at[t].cur] = @ + 1]
         /\ UNCHANGED kernel

Released_HandOverHand(t, h) == h        \* mutant: the lock is kept until later

\* ename() leaves the directory it has looked in, with its lock released.
Released(t, h) == [h EXCEPT ![at[t].cur] = Nobody]

\* Where ename() goes on with these names to go; a new file's own name is not
\* looked up by it.
Onward(call, rest) ==
    IF Len(rest) = (IF call \in {"creat", "mkdir"} THEN 1 ELSE 0) THEN "arrived" ELSE "walk"

\* ename() steps from a directory to what it found in it.
StepTo(t, c, next) ==
    LET rest == Tail(at[t].rest) IN
    eput(t, c, Released(t, holder), at[t].cur,
         [at[t] EXCEPT !.cur = next, !.nxt = NoEntry, !.rest = rest,
                       !.pc = Onward(at[t].call, rest)])

Miss_Unlocked(t, dp, name, pc) ==        \* mutant: the directory is not locked
    /\ Hits(Cache, dp, name) = {} /\ Reusable(Cache) # {}
    /\ LET e == Oldest(Cache) IN
       /\ Becomes(Renamed(Cache, e, dp, name))
       /\ at' = [at EXCEPT ![t].nxt = e, ![t].pc = pc]
    /\ UNCHANGED <<holder, kernel>>

\* eget() finds no entry for the name: it renames the oldest unused one, and
\* dirlookup() goes to the disk with the directory locked.
Miss(t, dp, name, pc) ==
    /\ Hits(Cache, dp, name) = {}
    /\ \/ Reusable(Cache) = {} /\ End("panic")
       \/ /\ Reusable(Cache) # {}
          /\ LET e == Oldest(Cache) IN
             /\ Becomes(Renamed(Cache, e, dp, name))
             /\ at' = [at EXCEPT ![t].nxt = e, ![t].pc = pc]
          /\ holder' = [holder EXCEPT ![dp] = t] /\ UNCHANGED kernel

\* The place of e's file says what e says.
OnDisk(e) == PlaceOf(e) = [name |-> entry[e].name, dir |-> entry[e].dir, clus |-> entry[e].clus]

\* Entries of files of this directory; one that was not in use may be out of date,
\* when the directory has been in another slot meanwhile.
Rightful(dp, name) ==
    {e \in Hits(Cache, dp, name) : /\ entry[e].home = entry[dp].clus
                                   /\ entry[e].refcnt > 0 \/ OnDisk(e)}

\* eget() finds another directory's file, or what its file used to be.
Mistaken(dp, name) == Hits(Cache, dp, name) # Rightful(dp, name) /\ End("stale")

\* The lock of the directory, and dirlookup() up to the first look at the disk.
Walk(t) ==
    LET dp == at[t].cur
        name == Head(at[t].rest)
    IN
    /\ At(t, "walk") /\ holder[dp] = Nobody
    /\ UNCHANGED <<disk, cwd>>
    /\ \/ /\ ~entry[dp].dir
          /\ holder' = [holder EXCEPT ![dp] = t] /\ Fails(t) /\ UNCHANGED <<entry, order>>
       \/ /\ entry[dp].dir /\ UNCHANGED leak
          /\ \/ name = Dot /\ StepTo(t, edup(Cache, dp), dp)
             \/ name = DotDot /\ StepTo(t, edup(Cache, entry[dp].parent), entry[dp].parent)
             \/ name \in Name /\ (\E e \in Rightful(dp, name) : StepTo(t, Taken(Cache, e), e))
             \/ name \in Name /\ (Mistaken(dp, name) \/ Miss(t, dp, name, "search"))

\* The places of the directory dp that have this name.
Matches(dp, name) == {p \in Places : disk[entry[dp].clus][p].name = name}

\* enext() has found the file at place p of dp: what dirlookup() puts into e.
Filled(e, dp, p) ==
    LET d == entry[dp].clus
    IN  [Cache EXCEPT !.entry[e] = [@ EXCEPT !.place = p, !.dir = disk[d][p].dir, !.home = d,
                                             !.clus = disk[d][p].clus, !.uptodate = TRUE]]

\* The end of a dirlookup() that found nothing: its entry loses its name.
Unnamed(e) == PutLast([Cache EXCEPT !.entry[e].name = NoName], e)

\* dirlookup() has read the directory.
Search(t) ==
    LET dp == at[t].cur
        e == at[t].nxt
        found == Matches(dp, Head(at[t].rest))
    IN
    /\ At(t, "search") /\ UNCHANGED <<disk, cwd>>
    /\ \/ \E p \in found : StepTo(t, Filled(e, dp, p), e) /\ UNCHANGED leak
       \/ found = {} /\ Becomes(Unnamed(e)) /\ Fails(t) /\ UNCHANGED holder

-----------------------------------------------------------------------------
(* fcreate() and ealloc(), from where the directory is known.              *)

\* ealloc() has found the name in use, in entry e.
Exists(t, c, h, e) == eput(t, c, h, e, [at[t] EXCEPT !.pc = "giveUp", !.nxt = NoEntry])

\* The lock of the directory, the checks of ealloc() and its dirlookup() up to
\* the first look at the disk.
Lookup(t) ==
    LET dp == at[t].cur
        name == Head(at[t].rest)
    IN
    /\ At(t, "arrived") /\ at[t].call \in {"creat", "mkdir"} /\ holder[dp] = Nobody
    /\ UNCHANGED <<disk, cwd, leak>>
    /\ \/ ~entry[dp].dir /\ End("panic")
       \/ /\ entry[dp].dir
          /\ \/ \E e \in Rightful(dp, name) :
                   Exists(t, Taken(Cache, e), [holder EXCEPT ![dp] = t], e)
             \/ Mistaken(dp, name) \/ Miss(t, dp, name, "lookup")

\* fcreate() gives the directory back and returns NULL.
GiveUp(t) ==
    /\ At(t, "giveUp")
    /\ eput(t, Cache, [holder EXCEPT ![at[t].cur] = Nobody], at[t].cur, User)
    /\ UNCHANGED <<disk, cwd, leak>>

\* First clusters of the directories there are, on the disk or being made.
DirsInUse == Dirs \cap ({RootClus} \cup {entry[e].clus : e \in Slots}
                           \cup {disk[d][p].clus : d \in Dirs, p \in Places})

\* The entry that eget() takes a second time, now for a new file; a directory gets
\* the cluster d.
NewEntry(t, e, dp, d) ==
    LET free == {p \in Places : disk[entry[dp].clus][p] = Free}
    IN  [Renamed(Unnamed(e), e, dp, Head(at[t].rest)) EXCEPT !.entry[e] =
            [@ EXCEPT !.place = CHOOSE p \in free : \A q \in free : p <= q,
                      !.dir = (d # 0), !.clus = d, !.home = entry[dp].clus]]

\* dirlookup() has read the directory; if the name is free, ealloc() makes an entry
\* for it in the first free place.
Allocate(t) ==
    LET dp == at[t].cur
        e == at[t].nxt
        found == Matches(dp, Head(at[t].rest))
        clusters == IF at[t].call = "mkdir" THEN Dirs \ DirsInUse ELSE {0}
    IN
    /\ At(t, "lookup") /\ UNCHANGED <<disk, cwd, leak>>
    /\ \/ \E p \in found : Exists(t, Filled(e, dp, p), holder, e)
       \/ found = {} /\ clusters = {} /\ End("panic")     \* the disk is full
       \/ /\ found = {} /\ \E d \in clusters : Becomes(NewEntry(t, e, dp, d))
          /\ holder' = [holder EXCEPT ![e] = t]
          /\ at' = [at EXCEPT ![t].pc = "make"] /\ UNCHANGED kernel

\* emake() and eupdate() have written the new entry and, for a directory, its
\* first two entries; fcreate() gives the directory back.
Make(t) ==
    LET dp == at[t].cur
        e == at[t].nxt
        new == [name |-> Head(at[t].rest), dir |-> entry[e].dir, clus |-> entry[e].clus]
        made == [disk EXCEPT ![entry[dp].clus][entry[e].place] = new]
        next == [at[t] EXCEPT !.cur = e, !.nxt = NoEntry, !.rest = <<>>]
    IN
    /\ At(t, "make") /\ UNCHANGED <<cwd, leak>>
    /\ disk' = IF new.dir THEN [made EXCEPT ![new.clus] = [p \in Places |-> Free]] ELSE made
    /\ eput(t, [Lifted(Cache, e) EXCEPT !.entry[e].uptodate = TRUE],
            [holder EXCEPT ![dp] = Nobody, ![e] = Nobody], dp,
            IF at[t].call = "creat" THEN [next EXCEPT !.pc = "arrived", !.call = "open"]
                                    ELSE [next EXCEPT !.pc = "drop"])

\* mkdir() gives the new entry back.
Drop(t) ==
    /\ At(t, "drop") /\ eput(t, Cache, holder, at[t].cur, User)
    /\ UNCHANGED <<disk, cwd, leak>>

-----------------------------------------------------------------------------
(* rm()                                                                    *)

\* The lock of the file; what is a directory, or the root, is refused with the
\* lock and the reference kept.
Unlink(t) ==
    LET e == at[t].cur IN
    /\ At(t, "arrived") /\ at[t].call = "unlink" /\ holder[e] = Nobody
    /\ holder' = [holder EXCEPT ![e] = t]
    /\ \/ /\ entry[e].dir
          /\ at' = [at EXCEPT ![t] = User] /\ leak' = [leak EXCEPT ![e] = @ + 1]
       \/ /\ ~entry[e].dir
          /\ at' = [at EXCEPT ![t].pc = "empty"] /\ UNCHANGED leak
    /\ UNCHANGED <<entry, order, disk, cwd, kernel>>

Truncated_Clean(e) == [entry EXCEPT ![e].clus = 0]    \* mutant: not marked dirty

\* etrunc(), as far as the directory entry knows.
Truncated(e) == [entry EXCEPT ![e].clus = 0, ![e].dirty = TRUE]

\* etrunc() has freed the file's clusters.
Empty(t) ==
    /\ At(t, "empty") /\ entry' = Truncated(at[t].cur)
    /\ at' = [at EXCEPT ![t].pc = "lockParent"]
    /\ UNCHANGED <<order, holder, disk, cwd, kernel, leak>>

LockParent(t) ==
    LET dp == entry[at[t].cur].parent IN
    /\ At(t, "lockParent") /\ holder[dp] = Nobody
    /\ holder' = [holder EXCEPT ![dp] = t] /\ at' = [at EXCEPT ![t].pc = "remove"]
    /\ UNCHANGED <<entry, order, disk, cwd, kernel, leak>>

\* eremove() has marked the file's place as free.  A place that was given up
\* before makes it mark 166 of them.
RemoveFile(t) ==
    LET e == at[t].cur
        dp == entry[e].parent
    IN
    /\ At(t, "remove") /\ UNCHANGED <<cwd, leak>>
    /\ \/ ~OwnsPlace(e) /\ End("overwrite") /\ UNCHANGED disk
       \/ /\ OwnsPlace(e)
          /\ eput(t, [Cache EXCEPT !.entry[e] = [@ EXCEPT !.dirty = FALSE, !.name = NoName]],
                  [holder EXCEPT ![e] = Nobody, ![dp] = Nobody], e, User)
          /\ disk' = [disk EXCEPT ![entry[dp].clus][entry[e].place] = Free]

=============================================================================
