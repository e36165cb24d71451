------------------------------- MODULE MCSlub -------------------------------
(* Eight pages, the first of them the kernel's.  A slab is of two pages    *)
(* with two objects in each, and there is room for two slabs.              *)
EXTENDS Slub

CONSTANTS c1

OneCache == {c1}
SomeSizes == {1, 2, 3}
=============================================================================
