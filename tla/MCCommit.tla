------------------------------ MODULE MCCommit ------------------------------
(***************************************************************************)
(* What can happen after a commit: h1 and h2 have voted for C, whose QC    *)
(* commits B, but nobody has seen that QC yet; h2 and h3 have timed out.   *)
(* One of the four validators is faulty and leads every round.  Round 1,   *)
(* in which all validators start, has no block.                            *)
(***************************************************************************)
EXTENDS Schedules

CONSTANTS h1, h2, h3, f1

G == <<0, 0, 0, "G">>
B == <<2, 0, G, "B">>
C == <<3, 2, B, "C">>
ExtendsC == <<4, 3, C, "ExtendsC">>
SkipsC == <<4, 2, B, "SkipsC">>
SkipsB == <<4, 0, G, "SkipsB">>
OnSkipsB == <<5, 4, SkipsB, "OnSkipsB">>
CommitBlocks == {G, B, C, ExtendsC, SkipsC, SkipsB, OnSkipsB}
CommitBlockRound == [b \in CommitBlocks |-> b[1]]
CommitQcRound == [b \in CommitBlocks |-> b[2]]
CommitParent == [b \in CommitBlocks |-> IF b = G THEN G ELSE b[3]]
RECURSIVE Chain(_)
Chain(b) == IF b = G THEN {b} ELSE {b} \cup Chain(b[3])
CommitAncestors == [b \in CommitBlocks |-> Chain(b)]

FourValidators == {h1, h2, h3, f1}
Threes == {Q \in SUBSET FourValidators : Cardinality(Q) = 3}
FaultyLeader == [r \in 1..MaxRound + 1 |-> f1]

CommitSchedule ==
    << Votes(h1, 2, B), Votes(h2, 2, B), Votes(h3, 2, B),
       Votes(h1, 3, C), Votes(h2, 3, C), GetsQc(h3, 2),
       TimesOut(h2), TimesOut(h3) >>
=============================================================================
