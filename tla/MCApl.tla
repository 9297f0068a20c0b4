------------------------------- MODULE MCApl --------------------------------
(* Apl with interchangeable blocks, for runs that check safety properties   *)
(* only: no definition of Apl or AccessPoints tells one block from another. *)
EXTENDS Apl, TLC

Symmetric == Permutations(Block)
=============================================================================
