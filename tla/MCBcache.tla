------------------------------ MODULE MCBcache ------------------------------
(* Three tasks, two buffers and three blocks: tasks compete for buffers,   *)
(* and blocks for the same buffer.                                         *)
EXTENDS Bcache, TLC

CONSTANTS p1, p2, p3, b1, b2, k1, k2, k3, v1, v2

ThreeTasks  == {p1, p2, p3}
TwoBufs     == {b1, b2}
ThreeBlocks == {k1, k2, k3}
TwoValues   == {v1, v2}
TaskSymmetry == Permutations(ThreeTasks)
BuiltOrder  == <<b1, b2>>

=============================================================================
