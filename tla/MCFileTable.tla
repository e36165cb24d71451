---------------------------- MODULE MCFileTable ----------------------------
EXTENDS FileTable

CONSTANTS t1, t2, notes, docs

TwoTasks == {t1, t2}
Names == {notes, docs}
ThreeDirs == {2, 3, 4}
TwoPlaces == {1, 2}
Empty_ == [p \in TwoPlaces |-> [name |-> NoName, dir |-> FALSE, clus |-> 0]]
Tree == [c \in ThreeDirs |->
            IF c = 2 THEN [Empty_ EXCEPT ![1] = [name |-> docs, dir |-> TRUE, clus |-> 3]]
            ELSE IF c = 3 THEN [Empty_ EXCEPT ![1] = [name |-> notes, dir |-> FALSE, clus |-> DataClus]]
            ELSE Empty_]
C(c, r, n) == [call |-> c, root |-> r, names |-> n]
\* t1 works in its current directory, t2 with paths from the root.
SomeCalls == [t \in TwoTasks |->
    IF t = t1
      THEN {C("creat", FALSE, <<notes, notes>>),
            C("unlink", FALSE, <<DotDot, docs, notes>>),
            C("chdir", FALSE, <<docs>>)}
      ELSE {C("openTrunc", TRUE, <<docs, notes>>),
            C("open", TRUE, <<Dot, notes>>),
            C("mkdir", TRUE, <<notes>>)}]
SomeOthers == ({t1} \X {"dup", "dup3", "pipe2"}) \cup {<<t2, "write">>}
====
