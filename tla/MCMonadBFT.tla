----------------------------- MODULE MCMonadBFT -----------------------------
(* Small instances of MonadBFT for TLC. *)
EXTENDS MonadBFT, TLC

CONSTANTS
    h1, h2, h3, f1,  \* validators
    Twins            \* rounds whose leader may sign two blocks on one QC

(* Blocks named by their content <<block_round, qc_round, parent, twin>>:  *)
(* every block of rounds 2 to MaxRound whose QC is of an earlier round and *)
(* not older than the block it certifies.  Round 1, in which all           *)
(* validators start and nobody can vote, is given no block (a bound).      *)
MCGenesis == <<0, 0, 0, 0>>
MCVariants(r) == IF r \in Twins THEN {0, 1} ELSE {0}
BlocksUpTo[r \in 0..MaxRound] ==
    IF r < 2 THEN {MCGenesis}
    ELSE BlocksUpTo[r - 1] \cup
         {<<r, 0, MCGenesis, t>> : t \in MCVariants(r)} \cup
         UNION {{<<r, q, p, t>> : q \in p[1]..r - 1, t \in MCVariants(r)} :
                p \in BlocksUpTo[r - 1] \ {MCGenesis}}
MCBlock == BlocksUpTo[MaxRound]
MCBlockRound == [b \in MCBlock |-> b[1]]
MCQcRound == [b \in MCBlock |-> b[2]]
MCParent == [b \in MCBlock |-> IF b = MCGenesis THEN b ELSE b[3]]
MCAncestors[b \in MCBlock] == IF b = MCGenesis THEN {b} ELSE {b} \cup MCAncestors[b[3]]

(* Four validators of equal stake: 4*2/3 + 1 = 3 of them are a quorum.     *)
FourValidators == {h1, h2, h3, f1}
Threes == {Q \in SUBSET FourValidators : Cardinality(Q) = 3}

(* Stakes 3, 3 and 2 (h1, h2, f1): 8*2/3 + 1 = 6, so both honest           *)
(* validators are needed and suffice.                                      *)
ThreeValidators == {h1, h2, f1}
Weighted == {{h1, h2}}

(* Stakes 3, 2 and 2 (h1, h2, f1): 7*2/3 + 1 = 5, so the faulty validator  *)
(* needs only h1.                                                          *)
Fives == {{h1, h2}, {h1, f1}}

FaultyLeader == [r \in 1..MaxRound + 1 |-> f1]

Sym == Permutations(Honest)

(* Only the leader of round 2 is faulty: it may sign two blocks *)
MixedLeaders == [r \in 1..MaxRound + 1 |-> <<h1, f1, h1, h2, f1>>[r]]
=============================================================================
