------------------------------- MODULE MCChain -------------------------------
(***************************************************************************)
(* Bytes are true bytes, so that decimal digits are decimal; words and     *)
(* longs are narrow (2 and 3 bits), so that numbers of several limbs can   *)
(* be enumerated.                                                          *)
(***************************************************************************)
EXTENDS M68kChain

Widths == [sz \in Size |-> CASE sz = 1 -> 128 [] sz = 2 -> 2 [] sz = 4 -> 4]
Kinds == [kind : {"add", "sub", "neg"}, sz : Size]
         \cup [kind : {"abcd", "sbcd", "nbcd"}, sz : {1}]
LimbValues ==
  [sz \in Size |-> IF sz = 1
                   THEN {Nib * h + l : h \in {0, 4, 9}, l \in {0, 4, 5, 9}}
                   ELSE 0 .. Top(sz) - 1]
Lengths == [sz \in Size |-> CASE sz = 1 -> 2 [] sz = 2 -> 3 [] sz = 4 -> 2]
=============================================================================
