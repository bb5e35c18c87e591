------------------------------ MODULE MCBigFile ------------------------------
(***************************************************************************)
(* Instances of BigFile: two workers, so that the channel holds two        *)
(* chunks.  With two slots for a worker the slots run out before the       *)
(* channel and the workers are full, with three (as in the code) after.    *)
(***************************************************************************)
EXTENDS BigFile

CONSTANTS w1, w2

MCWorkers == {w1, w2}

=============================================================================
