----------------------------- MODULE PageBlocks -----------------------------
(* Pages and aligned blocks of 2^k pages.                                  *)
EXTENDS Integers

CONSTANTS
    Depth,       \* there are 2^Depth pages
    Requests,    \* the numbers of pages that are asked for
    Reserved,    \* pages of the kernel's image, never given back
    NoBlock

Size   == 2^Depth                        \* Buddy.size
Pages  == 0..Size-1
Powers == {2^k : k \in 0..Depth+1}

ASSUME DepthAssumption    == Depth \in Nat
ASSUME RequestsAssumption == Requests \subseteq 0..2*Size
ASSUME ReservedAssumption == Reserved \in 1..Size
ASSUME NoBlockAssumption  == NoBlock \notin Pages \X Powers

\* What a request for n pages is rounded to.
next_pow_of_2(n) ==
    IF n = 0 THEN 0
    ELSE CHOOSE s \in Powers : n <= s /\ \A t \in Powers : n <= t => s <= t

\* A block is <<its first page, its number of pages>>.
PagesOf(b) == b[1]..b[1] + b[2] - 1
Disjoint(b, c) == PagesOf(b) \cap PagesOf(c) = {}

\* The aligned blocks of s pages that meet none of taken.
Places(s, taken) ==
    {b \in Pages \X {s} : /\ b[1] % s = 0 /\ PagesOf(b) \subseteq Pages
                          /\ \A c \in taken : Disjoint(b, c)}

\* The one of these blocks with the lowest address.
Lowest(blocks) == CHOOSE b \in blocks : \A c \in blocks : b[1] <= c[1]

=============================================================================
