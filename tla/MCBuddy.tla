------------------------------ MODULE MCBuddy ------------------------------
(* Sixteen pages, eight of them the kernel's, and requests of no page, of  *)
(* every block size, of sizes to be rounded up, and of too many pages.     *)
EXTENDS Buddy

SomeSizes == {0, 1, 2, 3, 5, 9, 17}

=============================================================================
