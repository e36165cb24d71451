----------------------------- MODULE BlockStore -----------------------------
(***************************************************************************)
(* What the buffer cache promises its callers: one atomic store of blocks. *)
(***************************************************************************)
CONSTANTS Blocks, Values, Tasks, InitialValue

VARIABLES
    store,     \* the content of every block
    got        \* the content a task saw when it last read a block

Init == /\ store = [k \in Blocks |-> InitialValue]
        /\ got   = [t \in Tasks |-> InitialValue]

Read  == /\ \E t \in Tasks, k \in Blocks : got' = [got EXCEPT ![t] = store[k]]
         /\ UNCHANGED store

Write == /\ \E k \in Blocks, v \in Values : store' = [store EXCEPT ![k] = v]
         /\ UNCHANGED got

Spec == Init /\ [][Read \/ Write]_<<store, got>>

=============================================================================
