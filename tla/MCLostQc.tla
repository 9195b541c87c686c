------------------------------ MODULE MCLostQc ------------------------------
(* Four correct validators, one of which restarts once. *)
EXTENDS Schedules

CONSTANTS h1, h2, h3, h4

G == <<0, 0, 0>>
B == <<2, 0, G>>  \* h1's block of round 2
F == <<5, 0, G>>  \* h4's block of round 5
LostQcBlocks == {G, B, F}
LostQcBlockRound == [b \in LostQcBlocks |-> b[1]]
LostQcQcRound == [b \in LostQcBlocks |-> b[2]]
LostQcParent == [b \in LostQcBlocks |-> G]
LostQcAncestors == [b \in LostQcBlocks |-> {b, G}]

FourValidators == {h1, h2, h3, h4}
Threes == {Q \in SUBSET FourValidators : Cardinality(Q) = 3}
Turns == [r \in 1..MaxRound + 1 |-> <<h4, h1, h2, h3>>[1 + ((r - 1) % 4)]]

(* h1 holds QC(2, B), which TC(3) replaces as its high certificate; h4     *)
(* voted for B too but restarted.  Together with h3 they build a TC(4)     *)
(* that does not know of B, and h1 votes for F, which abandons B.          *)
LostQcSchedule ==
    << GetsTc(h1, 1, None), Proposes(h1, B),
       Votes(h1, 2, B), Votes(h2, 2, B), Votes(h4, 2, B), Stops(h4), Starts(h4),
       GetsTc(h3, 1, None), TimesOut(h2), TimesOut(h3),
       GetsQc(h1, 2), GetsTc(h2, 2, B), GetsTc(h3, 2, B), GetsTc(h4, 2, B),
       TimesOut(h2), TimesOut(h3), TimesOut(h4),
       GetsTc(h1, 3, B), GetsTc(h3, 3, B), GetsTc(h4, 3, B),
       TimesOut(h1), TimesOut(h3), TimesOut(h4),
       GetsTc(h4, 4, None), Proposes(h4, F),
       Votes(h1, 5, F) >>
=============================================================================
