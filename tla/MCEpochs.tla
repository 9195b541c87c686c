------------------------------ MODULE MCEpochs ------------------------------
(* Eleven blocks, and a round without a block after the fourth. *)
EXTENDS Epochs

MCRound == [n \in 1..11 |-> IF n < 5 THEN n ELSE n + 1]
=============================================================================
