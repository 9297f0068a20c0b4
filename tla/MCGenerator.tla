----------------------------- MODULE MCGenerator ------------------------------
(* Both modes: batches, for which the script sets NFREE to 0, and targeted  *)
(* requests mixed with as many releases.                                    *)
EXTENDS Generator

MCSettings == {[ALLOC_MODE |-> "batch", NFREE |-> 0],
               [ALLOC_MODE |-> "targeted", NFREE |-> 2]}
=============================================================================
