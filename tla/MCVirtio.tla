------------------------------ MODULE MCVirtio ------------------------------
(* Up to four tasks on the eight descriptors of the driver: two transfers  *)
(* fit at a time.                                                          *)
EXTENDS Virtio

CONSTANTS p1, p2, p3, p4

ThreeTasks == {p1, p2, p3}
FourTasks  == {p1, p2, p3, p4}

=============================================================================
