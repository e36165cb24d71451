-------------------------------- MODULE Buddy --------------------------------
(***************************************************************************)
(* The buddy system (mm/buddy.c): a complete binary tree over the pages,   *)
(* in an array, where each node holds the size of the longest free block   *)
(* below it.  It keeps no list of the blocks in use: free_pages() finds a  *)
(* block's node by climbing from a page of the block.                      *)
(***************************************************************************)
EXTENDS PageBlocks

VARIABLES
    bitmap,      \* Buddy.bitmap[]
    allocated,   \* history: the blocks the callers hold
    answer       \* history: the last call of alloc_pages() and its result

vars == <<bitmap, allocated, answer>>

Nodes == 0..2*Size - 2

LEFT_CHILD(i)  == 2*i + 1
RIGHT_CHILD(i) == 2*i + 2
PARENT(i)      == (i - 1) \div 2

\* The pages below a node: halved at each step down.
NodeSize[i \in Nodes] == IF i = 0 THEN Size ELSE NodeSize[PARENT(i)] \div 2

\* The nodes from i up to the root.
Path[i \in Nodes] == IF i = 0 THEN {0} ELSE {i} \cup Path[PARENT(i)]

Larger(a, b) == IF a > b THEN a ELSE b

Joined_Never(l, r, s) == Larger(l, r)    \* mutant: buddies are not merged

\* A node above two children of s pages each, when memory is given back.
Joined(l, r, s) == IF l = s /\ r = s THEN 2*s ELSE Larger(l, r)

\* The tree bm with v at node i and the nodes above it recomputed, from the lowest
\* to the root.
Traced(bm, i, v, freeing) ==
    LET new[j \in Nodes] ==
          LET l == new[LEFT_CHILD(j)]
              r == new[RIGHT_CHILD(j)]
          IN  IF j = i THEN v
              ELSE IF j \notin Path[i] THEN bm[j]
              ELSE IF freeing THEN Joined(l, r, NodeSize[j] \div 2) ELSE Larger(l, r)
    IN  new

-----------------------------------------------------------------------------
(* alloc_pages()                                                           *)

GoLeft_IfAny(left, s) == left > 0        \* mutant: into a part that is too small

GoLeft(left, s) == left >= s

\* The node of s pages where the search from the root ends.
Search(bm, s) ==
    LET from[i \in Nodes] ==
          IF NodeSize[i] = s THEN i
          ELSE from[IF GoLeft(bm[LEFT_CHILD(i)], s) THEN LEFT_CHILD(i) ELSE RIGHT_CHILD(i)]
    IN  from[0]

from_index_to_X(bm, i) == (i + 1) * bm[i] - Size

Served(s) == 0 < s /\ s <= bitmap[0]

Alloc(n) ==
    LET s == next_pow_of_2(n)
        i == Search(bitmap, s)
        b == <<from_index_to_X(bitmap, i), s>>
    IN  /\ Served(s)
        /\ bitmap' = Traced(bitmap, i, 0, FALSE)
        /\ allocated' = allocated \cup {b}
        /\ answer' = <<n, b>>

Refuse(n) ==
    /\ ~Served(next_pow_of_2(n))
    /\ answer' = <<n, NoBlock>>
    /\ UNCHANGED <<bitmap, allocated>>

-----------------------------------------------------------------------------
(* free_pages()                                                            *)

\* The node that was given out: from the page's leaf, the first without a free page.
\* (At the root the loop would not end; that takes a page that is not in use.)
Climbed(page) ==
    LET up[i \in Nodes] == IF bitmap[i] = 0 \/ i = 0 THEN i ELSE up[PARENT(i)]
    IN  up[page + Size - 1]

\* A block is given back by the address of any of its pages: kmem_cache_free()
\* passes that of an object.
Free(b, page) ==
    /\ page \in PagesOf(b)
    /\ LET i == Climbed(page) IN bitmap' = Traced(bitmap, i, NodeSize[i], TRUE)
    /\ allocated' = allocated \ {b}
    /\ UNCHANGED answer

-----------------------------------------------------------------------------
Kernel == <<0, next_pow_of_2(Reserved)>>

\* init_buddy_system(): everything is free, then the kernel's image is taken.
Init ==
    /\ LET i == Search(NodeSize, Kernel[2]) IN bitmap = Traced(NodeSize, i, 0, FALSE)
    /\ allocated = {Kernel} /\ answer = <<Reserved, Kernel>>

Next ==
    \/ \E n \in Requests : Alloc(n) \/ Refuse(n)
    \/ \E b \in allocated \ {Kernel}, page \in Pages : Free(b, page)

Spec == Init /\ [][Next]_vars

-----------------------------------------------------------------------------
TypeOK ==
    /\ bitmap \in [Nodes -> Powers \cup {0}]
    /\ allocated \subseteq Pages \X Powers
    /\ answer \in (Requests \cup {Reserved}) \X ((Pages \X Powers) \cup {NoBlock})

\* The first page below node i.
First(i) == (i + 1) * NodeSize[i] - Size

\* Below a block in use the array is as in a free tree, so that free_pages() climbs
\* to the block's node from any of its pages and finds it whole when it is free
\* again.  Elsewhere a node holds the size of the longest block that can be served
\* below it: no page is lost and no page of a block in use is offered.
LongestFree(i, free) ==
    LET sizes == {s \in Powers : /\ s <= NodeSize[i]
                                 /\ \E b \in free[s] : b[1] \in First(i)..First(i) + NodeSize[i] - 1}
    IN  IF sizes = {} THEN 0 ELSE CHOOSE s \in sizes : \A t \in sizes : t <= s

BelowBlock(i) ==
    \E b \in allocated : First(i) \in PagesOf(b) /\ NodeSize[i] < b[2]

BitmapExact ==
    LET free == [s \in Powers |-> Places(s, allocated)]
    IN  \A i \in Nodes :
           bitmap[i] = IF BelowBlock(i) THEN NodeSize[i] ELSE LongestFree(i, free)

PA == INSTANCE PageAllocator

\* The buddy system serves aligned, disjoint blocks, the lowest first, and refuses
\* only what does not fit ("If no matched frames, return null(0)").
IsPageAllocator == PA!Spec

=============================================================================
