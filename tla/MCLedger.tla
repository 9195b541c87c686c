------------------------------ MODULE MCLedger ------------------------------
(* Two blocks of one round and one of another, two of them with one body. *)
EXTENDS Ledger

MCBody == <<"x", "y", "x">>
MCRound == <<1, 2, 2>>
=============================================================================
