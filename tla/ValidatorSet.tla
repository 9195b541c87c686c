---------------------------- MODULE ValidatorSet ----------------------------
(***************************************************************************)
(* The stake thresholds of monad-validator/src/validator_set.rs, on which  *)
(* the assumptions of the other modules about Quorum and HonestSet rest:   *)
(* every validator set drawn from a few nodes is checked with every        *)
(* distribution of stake, down to the rounding of the two divisions.       *)
(***************************************************************************)
EXTENDS Naturals, Functions

CONSTANTS
    Nodes,
    MaxStake  \* bound on a validator's stake

VARIABLES
    validators,  \* ValidatorSet.validators: node |-> stake
    faulty       \* validators holding less than a third of the stake

vars == << validators, faulty >>

Members == DOMAIN validators
TotalStake == FoldFunctionOnSet(+, 0, validators, Members)

(* addrs without duplicates; nodes that are not members count for nothing *)
CalculateCurrentStake(addrs) == FoldFunctionOnSet(+, 0, validators, addrs \cap Members)
HasThresholdVotes(addrs, threshold) == CalculateCurrentStake(addrs) >= threshold

(* Mutant: the threshold is two thirds, not more *)
HasSuperMajorityVotesRounded(addrs) == HasThresholdVotes(addrs, (TotalStake * 2) \div 3)

HasSuperMajorityVotes(addrs) == HasThresholdVotes(addrs, (TotalStake * 2) \div 3 + 1)
HasHonestVote(addrs) == HasThresholdVotes(addrs, TotalStake \div 3 + 1)

(* create refuses an empty set and members without stake *)
Init ==
    /\ \E S \in SUBSET Nodes : S # {} /\ validators \in [S -> 1..MaxStake]
    /\ faulty \in SUBSET Members
    /\ 3 * CalculateCurrentStake(faulty) < TotalStake

(* A validator set does not change within its epoch *)
Next == UNCHANGED vars
Spec == Init /\ [][Next]_vars
-----------------------------------------------------------------------------
(* Properties *)

(* What the other modules assume of Quorum and HonestSet: any two          *)
(* supermajorities share an honest validator, "f+1" stake includes one and *)
(* every supermajority is one more, and the honest validators make a       *)
(* supermajority alone, or the chain could be stopped by silence.          *)
ThresholdsSound ==
    LET Supermajority == {Q \in SUBSET Nodes : HasSuperMajorityVotes(Q)}
        Honest == Members \ faulty
    IN /\ \A Q1, Q2 \in Supermajority : (Q1 \cap Q2) \cap Honest # {}
       /\ \A S \in SUBSET Nodes : HasHonestVote(S) => S \cap Honest # {}
       /\ \A Q \in Supermajority : HasHonestVote(Q)
       /\ Honest \in Supermajority
=============================================================================
