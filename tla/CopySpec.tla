------------------------------- MODULE CopySpec -------------------------------
(* What a copy of a graph promises: it is what the original was at the moment *)
(* it was made, or nothing, and later changes of the original do not reach it.*)
CONSTANT NoCopy

VARIABLES original, copy

CopyInit == copy = NoCopy

Edit == copy' = copy
Take == /\ copy' \in {original, NoCopy}
        /\ original' = original

CopySpec == CopyInit /\ [][Edit \/ Take]_<<original, copy>>
=============================================================================
