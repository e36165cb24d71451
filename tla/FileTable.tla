----------------------------- MODULE FileTable -----------------------------
(***************************************************************************)
(* The system file table, the descriptors of the tasks and the system      *)
(* calls on files (arch/riscv/kernel/sysfile.c, pipealloc() of pipe.c), on *)
(* top of the cache of directory entries.                                  *)
(*                                                                         *)
(* SysFLock is a spinlock that frelease() keeps while the last eput() of a *)
(* file sleeps; whoever wants it then spins for ever.                      *)
(* Positions and contents of files are in FatFile.tla, pipes in Pipe.tla.  *)
(***************************************************************************)
EXTENDS Ecache

CONSTANTS
    SYSOFILENUM, PROCOFILENUM,
    Std,                    \* number of console files that every task has open
    Program,                \* the calls with paths that each task makes: [call, root, names],
                            \* where root says that the path begins with /
    Others                  \* other calls: <<task, call>>, call being dup, dup3, pipe2 or write

ASSUME TableAssumption ==
    /\ {SYSOFILENUM, PROCOFILENUM, Std} \subseteq Nat /\ Std <= SYSOFILENUM /\ Std <= PROCOFILENUM
ASSUME CallAssumption ==
    \A t \in Tasks : \A c \in Program[t] :
        /\ c.call \in Calls \ {"none"} /\ c.root \in BOOLEAN
        /\ c.names \in Seq(Name \cup {Dot, DotDot})
        /\ c.call \in {"creat", "mkdir"} => c.names # <<>> /\ Last(c.names) \in Name

Sfds == 0..SYSOFILENUM-1
Fds  == 0..PROCOFILENUM-1

NULL   == -1                \* descriptor not in use
Marked == -2                \* (struct file *)1, what locate_fd() leaves

VARIABLES
    file,     \* f_type, f_count, f_entry of SysFTable[]
    FTable,   \* task->FTable[]
    sysf,     \* owner of SysFLock across a sleep
    lost      \* history: references of each file that no one can give back

vars == <<cacheVars, file, FTable, sysf, lost>>

FileTypes == {"none", "chr", "fifo", "reg", "dir"}

TypeOK ==
    /\ CacheTypeOK
    /\ \A s \in Sfds : /\ file[s].type \in FileTypes /\ file[s].count \in Nat
                       /\ file[s].entry \in {Root, NoEntry} \cup Slots
    /\ FTable \in [Tasks -> [Fds -> Sfds \cup {NULL, Marked}]]
    /\ sysf \in Tasks \cup {Nobody}
    /\ lost \in [Sfds -> Nat]

\* sysfile_init() and procfile_init().
Init ==
    /\ CacheInit
    /\ file = [s \in Sfds |-> IF s < Std
                   THEN [type |-> "chr", count |-> 1 + Cardinality(Tasks), entry |-> NoEntry]
                   ELSE [type |-> "none", count |-> 0, entry |-> NoEntry]]
    /\ FTable = [t \in Tasks |-> [fd \in Fds |-> IF fd < Std THEN fd ELSE NULL]]
    /\ sysf = Nobody
    /\ lost = [s \in Sfds |-> 0]

InUser(t) == At(t, "user")

\* acquire(&SysFLock) while a task sleeps with it.
Spins == sysf # Nobody /\ End("spin") /\ UNCHANGED <<disk, cwd, leak, file, FTable, sysf, lost>>

tableVars == <<file, FTable, sysf, lost>>

FreeSfds == {s \in Sfds : file[s].count = 0}
FreeFds(t) == {fd \in Fds : FTable[t][fd] = NULL}
Lowest(S) == CHOOSE n \in S : \A m \in S : n <= m

-----------------------------------------------------------------------------
(* Calls that take a path: open(), mkdir(), cd(), rm().                    *)

\* ename() of the path, or for a new file of its directory, starts at the root or
\* at the current directory.
Begin(t, c) ==
    LET start == IF c.root THEN Root ELSE cwd[t] IN
    /\ InUser(t)
    /\ Becomes(edup(Cache, start))
    /\ at' = [at EXCEPT ![t] = [User EXCEPT !.call = c.call, !.cur = start, !.rest = c.names,
                                            !.pc = Onward(c.call, c.names)]]
    /\ UNCHANGED <<holder, disk, cwd, kernel, leak, tableVars>>

\* The file structure that open() fills in.
Opened(s, e) ==
    file' = [file EXCEPT ![s] = [type |-> IF entry[e].dir THEN "dir" ELSE "reg",
                                 count |-> 1, entry |-> e]]

\* open() has its entry: falloc(), locate_fd(), and without O_TRUNC all the rest.
\* If there is no descriptor, frelease() gives back what a former user of the
\* file structure referred to.
Open(t) ==
    LET e == at[t].cur
        s == Lowest(FreeSfds)
        fd == Lowest(FreeFds(t))
    IN
    /\ At(t, "arrived") /\ at[t].call \in {"open", "openTrunc"} /\ holder[e] = Nobody
    /\ \/ Spins
       \/ /\ sysf = Nobody /\ UNCHANGED <<disk, cwd, leak, sysf, lost>>
          /\ \/ /\ \/ FreeSfds = {}
                   \/ FreeSfds # {} /\ FreeFds(t) = {} /\ file[s].type = "none"
                /\ eput(t, Cache, holder, e, User) /\ UNCHANGED <<file, FTable>>
             \/ /\ FreeSfds # {} /\ FreeFds(t) = {} /\ file[s].type # "none"
                /\ End("undercount") /\ UNCHANGED <<file, FTable>>
             \/ /\ FreeSfds # {} /\ FreeFds(t) # {} /\ UNCHANGED <<entry, order, kernel>>
                /\ IF at[t].call = "openTrunc" /\ ~entry[e].dir
                     THEN /\ file' = [file EXCEPT ![s].count = 1]
                          /\ FTable' = [FTable EXCEPT ![t][fd] = Marked]
                          /\ holder' = [holder EXCEPT ![e] = t]
                          /\ at' = [at EXCEPT ![t].pc = "trunc", ![t].file = s, ![t].fd = fd]
                     ELSE /\ Opened(s, e) /\ FTable' = [FTable EXCEPT ![t][fd] = s]
                          /\ at' = [at EXCEPT ![t] = User] /\ UNCHANGED holder

\* open() after etrunc().
Trunc(t) ==
    LET e == at[t].cur IN
    /\ At(t, "trunc")
    /\ \/ Spins
       \/ /\ sysf = Nobody /\ entry' = Truncated(e) /\ holder' = [holder EXCEPT ![e] = Nobody]
          /\ Opened(at[t].file, e)
          /\ FTable' = [FTable EXCEPT ![t][at[t].fd] = at[t].file]
          /\ at' = [at EXCEPT ![t] = User]
          /\ UNCHANGED <<order, disk, cwd, kernel, leak, sysf, lost>>

\* cd() has its entry.
Chdir(t) ==
    LET e == at[t].cur IN
    /\ At(t, "arrived") /\ at[t].call = "chdir" /\ holder[e] = Nobody
    /\ IF entry[e].dir THEN eput(t, Cache, holder, cwd[t], [at[t] EXCEPT !.pc = "chdir"])
                       ELSE eput(t, Cache, holder, e, User)
    /\ UNCHANGED <<disk, cwd, leak, tableVars>>

\* cd() has given the old directory back.
ChdirEnds(t) ==
    /\ At(t, "chdir")
    /\ cwd' = [cwd EXCEPT ![t] = at[t].cur] /\ at' = [at EXCEPT ![t] = User]
    /\ UNCHANGED <<entry, order, holder, disk, kernel, leak, tableVars>>

-----------------------------------------------------------------------------
(* Calls that take a descriptor.                                           *)

Counted_Not(s) == file                   \* mutant: the new reference is not counted

Counted(s) == [file EXCEPT ![s].count = @ + 1]       \* fdup()

\* sys_close(), with frelease(): after the last reference of a file with an entry
\* comes eput(), under SysFLock.
Close(t, fd) ==
    LET s == FTable[t][fd]
        f == file[s]
        last == f.count = 1 /\ f.type \in {"reg", "dir"}
    IN
    /\ InUser(t) /\ s # NULL
    /\ \/ Spins
       \/ /\ sysf = Nobody /\ s = Marked /\ End("fault")
          /\ UNCHANGED <<disk, cwd, leak, tableVars>>
       \/ /\ sysf = Nobody /\ s \in Sfds /\ f.count < 1 /\ End("panic")
          /\ UNCHANGED <<disk, cwd, leak, tableVars>>
       \/ /\ sysf = Nobody /\ s \in Sfds /\ f.count >= 1
          /\ FTable' = [FTable EXCEPT ![t][fd] = NULL]
          /\ file' = [file EXCEPT ![s].count = @ - 1, ![s].entry = IF last THEN NoEntry ELSE @]
          /\ IF last
               THEN /\ sysf' = IF Writes(Cache, f.entry) THEN t ELSE Nobody
                    /\ eput(t, Cache, holder, f.entry,
                            [User EXCEPT !.pc = IF sysf' = t THEN "unlock" ELSE "user"])
               ELSE UNCHANGED <<entry, order, holder, at, kernel, sysf>>
          /\ UNCHANGED <<disk, cwd, leak, lost>>

\* frelease() after an eput() that slept.
Unlock(t) ==
    /\ At(t, "unlock") /\ sysf' = Nobody /\ at' = [at EXCEPT ![t] = User]
    /\ UNCHANGED <<entry, order, holder, disk, cwd, kernel, leak, file, FTable, lost>>

\* dup(): the descriptor it returns is marked but never installed.  It looks at
\* fd after it has marked the new one.
Dup(t, fd) ==
    LET nfd == Lowest(FreeFds(t))
        marked == [FTable EXCEPT ![t][nfd] = Marked]
        s == marked[t][fd]
    IN
    /\ InUser(t) /\ <<t, "dup">> \in Others /\ FreeFds(t) # {}
    /\ FTable' = marked /\ UNCHANGED <<disk, cwd, leak, sysf>>
    /\ \/ s = NULL /\ UNCHANGED <<entry, order, holder, at, kernel, file, lost>>
       \/ s # NULL /\ sysf # Nobody /\ End("spin") /\ UNCHANGED <<file, lost>>
       \/ s = Marked /\ sysf = Nobody /\ End("fault") /\ UNCHANGED <<file, lost>>
       \/ /\ s \in Sfds /\ sysf = Nobody /\ file' = Counted(s)
          /\ lost' = [lost EXCEPT ![s] = @ + 1]
          /\ UNCHANGED <<entry, order, holder, at, kernel>>

dup3(t, old, new) ==
    LET s == FTable[t][old] IN
    /\ InUser(t) /\ <<t, "dup3">> \in Others /\ FTable[t][new] = NULL /\ s # NULL
    /\ \/ Spins
       \/ /\ s = Marked /\ sysf = Nobody /\ End("fault")
          /\ UNCHANGED <<disk, cwd, leak, tableVars>>
       \/ /\ s \in Sfds /\ sysf = Nobody /\ file' = Counted(s)
          /\ FTable' = [FTable EXCEPT ![t][new] = s]
          /\ UNCHANGED <<cacheVars, sysf, lost>>

\* pipealloc() hands out indices of the file table, which no descriptor leads to.
\* Without two free files it releases what it finds: in the first case a file as
\* its former user left it, in the second the one that *sfd1 happens to name.
Pipe2(t) ==
    LET s == Lowest(FreeSfds)
        r == Lowest(FreeSfds \ {s})
        fifo == [type |-> "fifo", count |-> 1, entry |-> NoEntry]
    IN
    /\ InUser(t) /\ <<t, "pipe2">> \in Others
    /\ \/ Spins
       \/ /\ sysf = Nobody /\ Cardinality(FreeSfds) >= 2
          /\ file' = [file EXCEPT ![s] = fifo, ![r] = fifo]
          /\ lost' = [lost EXCEPT ![s] = @ + 1, ![r] = @ + 1]
          /\ UNCHANGED <<cacheVars, FTable, sysf>>
       \/ /\ sysf = Nobody /\ Cardinality(FreeSfds) = 1 /\ file[s].type # "none"
          /\ End("undercount") /\ UNCHANGED <<disk, cwd, leak, tableVars>>
       \/ /\ sysf = Nobody /\ FreeSfds = {}
          /\ End("undercount") /\ UNCHANGED <<disk, cwd, leak, tableVars>>

\* fwrite(): the first cluster if there is none, and a changed size.  There is no
\* writing to a directory, except to panic.
Write(t, fd) ==
    LET s == FTable[t][fd]
        e == file[s].entry
    IN
    /\ InUser(t) /\ <<t, "write">> \in Others /\ s \in Sfds
    /\ UNCHANGED <<disk, cwd, leak, tableVars>>
    /\ \/ /\ file[s].type = "reg" /\ holder[e] = Nobody
          /\ entry' = [entry EXCEPT ![e].clus = DataClus, ![e].dirty = TRUE]
          /\ UNCHANGED <<order, holder, at, kernel>>
       \/ file[s].type = "dir" /\ End("panic")

-----------------------------------------------------------------------------
Next ==
    \E t \in Tasks :
        \/ Walk(t) /\ UNCHANGED tableVars
        \/ Search(t) /\ UNCHANGED tableVars
        \/ Lookup(t) /\ UNCHANGED tableVars
        \/ Allocate(t) /\ UNCHANGED tableVars
        \/ Make(t) /\ UNCHANGED tableVars
        \/ GiveUp(t) /\ UNCHANGED tableVars
        \/ Drop(t) /\ UNCHANGED tableVars
        \/ Flush(t) /\ UNCHANGED tableVars
        \/ Unlink(t) /\ UNCHANGED tableVars
        \/ Empty(t) /\ UNCHANGED tableVars
        \/ LockParent(t) /\ UNCHANGED tableVars
        \/ RemoveFile(t) /\ UNCHANGED tableVars
        \/ \E c \in Program[t] : Begin(t, c)
        \/ Open(t) \/ Trunc(t) \/ Chdir(t) \/ ChdirEnds(t) \/ Unlock(t) \/ Pipe2(t)
        \/ \E fd \in Fds : Close(t, fd) \/ Dup(t, fd) \/ Write(t, fd)
        \/ \E old, new \in Fds : dup3(t, old, new)

Spec == Init /\ [][Next]_vars

-----------------------------------------------------------------------------
Running == kernel = "running"

\* Files that open() has allocated and not yet filled in.
Opening == {at[t].file : t \in {t \in Tasks : at[t].pc = "trunc"}}

\* The references of entry e: each variable of a call, current directories, open
\* files, cached entries in use below it, and what calls have lost.
Refs(e) ==
    LET calls == {v \in Tasks \X {"cur", "nxt", "put"} : at[v[1]][v[2]] = e}
        \* during cd() the old directory is the one being put
        dirs == {t \in Tasks : cwd[t] = e /\ at[t].pc # "chdir" /\ at[t].then # "chdir"}
        files == {s \in Sfds : /\ file[s].count > 0 /\ file[s].entry = e
                               /\ file[s].type \in {"reg", "dir"} /\ s \notin Opening}
        below == {c \in Slots \ {e} : entry[c].refcnt > 0 /\ entry[c].parent = e}
    IN  Cardinality(calls) + Cardinality(dirs) + Cardinality(files) + Cardinality(below)
          + leak[e]

\* An entry counts exactly the references that there are (eget(), edup(), eput(),
\* frelease()), so that it is reused neither too early nor never.  The root is no
\* exception: the 1 that fat_init() gives it stands for the first task's current
\* directory, which it has forgotten; neither task 0's nor the variable root itself
\* counts.
CountsExact == Running => \A e \in {Root} \cup Slots : entry[e].refcnt = Refs(e)

\* A file has one entry: lookups and creations in one directory never leave two
\* valid ones with the same name, whose changes would overwrite each other.
OneEntryPerName ==
    Running => \A a, b \in Slots :
        (/\ entry[a].uptodate /\ entry[b].uptodate /\ entry[a].name # NoName
         /\ entry[a].parent = entry[b].parent /\ entry[a].name = entry[b].name) => a = b

\* A valid entry in use that is not marked dirty says what is in its file's place on
\* the disk.  One that is not in use need not: while the slot of its directory served
\* another one, its file may have been changed through another entry.
Coherent ==
    Running => \A e \in Slots :
        (/\ entry[e].refcnt > 0 /\ entry[e].name # NoName
         /\ entry[e].uptodate /\ ~entry[e].dirty) => OnDisk(e)

\* A file structure counts the descriptors that lead to it, the open() that fills
\* it in, the references that dup() and pipe2() hand to no one, and for the console
\* the one of sysfile_init(); so close() never frees a file that is still in use.
FileCounts ==
    Running => \A s \in Sfds :
        file[s].count = Cardinality({p \in Tasks \X Fds : FTable[p[1]][p[2]] = s})
                          + (IF s \in Opening THEN 1 ELSE 0) + lost[s] + (IF s < Std THEN 1 ELSE 0)

\* Whoever holds an entry's lock counts in it, or has failed and keeps both.  So
\* when an eput() finds one reference, its caller's, the lock is free: no one sleeps
\* in eput() for it.  Were it otherwise, fcreate(), which puts the file with the
\* directory's lock held, and rm(), which locks the directory with the file's lock
\* held, could wait for each other.
LockedIsCounted ==
    Running => \A e \in {Root} \cup Slots :
        \/ holder[e] = Nobody \/ leak[e] > 0
        \/ LET t == holder[e] IN
           /\ at[t].pc # "user"
           /\ \/ e \in {at[t].cur, at[t].nxt, at[t].put}
              \/ at[t].pc = "remove" /\ e = entry[at[t].cur].parent

=============================================================================
