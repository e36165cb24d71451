---------------------------- MODULE SectorStore -----------------------------
(***************************************************************************)
(* What a disk driver promises the buffer cache: a call that reads returns *)
(* the sector as it is, a call that writes returns when the sector holds   *)
(* the data; nothing else changes the medium.                              *)
(***************************************************************************)
CONSTANTS Tasks, Sectors, Blocks, NoCall

VARIABLES
    store,     \* content of every sector
    call,      \* per task NoCall or the call it is in
    got        \* what a task's last read returned

Calls == [op : {"read"}, sector : Sectors]
           \cup [op : {"write"}, sector : Sectors, data : Blocks]

Init == /\ store \in [Sectors -> Blocks]
        /\ call = [t \in Tasks |-> NoCall]
        /\ got \in [Tasks -> Blocks]

Begin(t) == /\ call[t] = NoCall
            /\ \E c \in Calls : call' = [call EXCEPT ![t] = c]
            /\ UNCHANGED <<store, got>>

Reads(t) == /\ call[t] # NoCall /\ call[t].op = "read"
            /\ got'  = [got EXCEPT ![t] = store[call[t].sector]]
            /\ call' = [call EXCEPT ![t] = NoCall]
            /\ UNCHANGED store

\* The medium changes; the call may go on after that.
Programs(t) == /\ call[t] # NoCall /\ call[t].op = "write"
               /\ store' = [store EXCEPT ![call[t].sector] = call[t].data]
               /\ UNCHANGED <<call, got>>

Returns(t) == /\ call[t] # NoCall /\ call[t].op = "write"
              /\ store[call[t].sector] = call[t].data
              /\ call' = [call EXCEPT ![t] = NoCall]
              /\ UNCHANGED <<store, got>>

Next == \E t \in Tasks : Begin(t) \/ Reads(t) \/ Programs(t) \/ Returns(t)

Spec == Init /\ [][Next]_<<store, call, got>>

=============================================================================
