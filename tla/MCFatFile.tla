----------------------------- MODULE MCFatFile -----------------------------
(* A file that is open twice and empty at first, another with one cluster. *)
EXTENDS FatFile, TLC

CONSTANTS f1, f2, o1, o2, o3, A

TwoFiles   == {f1, f2}
ThreeOpens == {o1, o2, o3}
WhichFile  == (o1 :> f1) @@ (o2 :> f1) @@ (o3 :> f2)
OneByte    == {A}
Chains     == (f1 :> <<>>) @@ (f2 :> <<4>>)

\* The whole of what allocClus() looks at in the first sector is in use.
LongChains == (f1 :> <<>>) @@ (f2 :> <<3, 4, 5>>)

Symmetric == Permutations({o1, o2})

=============================================================================
