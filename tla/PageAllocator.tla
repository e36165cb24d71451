---------------------------- MODULE PageAllocator ----------------------------
(***************************************************************************)
(* What alloc_pages() and free_pages() promise: aligned, disjoint blocks   *)
(* of pages, each at the lowest place there is; a request is refused only  *)
(* when there is none.                                                     *)
(***************************************************************************)
EXTENDS PageBlocks

VARIABLES
    allocated,   \* the blocks in use
    answer       \* the last request and what it got: a block or NoBlock

Init == LET kernel == <<0, next_pow_of_2(Reserved)>>
        IN  allocated = {kernel} /\ answer = <<Reserved, kernel>>

Grant(n) ==
    LET places == Places(next_pow_of_2(n), allocated)
        b == Lowest(places)
    IN  /\ n > 0 /\ places # {}
        /\ answer' = <<n, b>> /\ allocated' = allocated \cup {b}

Refuse(n) ==
    /\ n > 0 => Places(next_pow_of_2(n), allocated) = {}
    /\ answer' = <<n, NoBlock>>
    /\ UNCHANGED allocated

Release(b) ==
    /\ allocated' = allocated \ {b}
    /\ UNCHANGED answer

Next ==
    \/ \E n \in Requests : Grant(n) \/ Refuse(n)
    \/ \E b \in allocated : Release(b)

Spec == Init /\ [][Next]_<<allocated, answer>>

=============================================================================
