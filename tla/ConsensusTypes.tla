--------------------------- MODULE ConsensusTypes ---------------------------
(***************************************************************************)
(* The data MonadBFT messages are made of: validators and quorums, blocks  *)
(* (identified by the hash of their header, so that a block's round, its   *)
(* QC and its parent are functions of its identity), the rank that orders  *)
(* what a timeout extends, and round certificates.                         *)
(* Source: monad-consensus-types, monad-validator/src/validator_set.rs.    *)
(***************************************************************************)
EXTENDS Integers, FiniteSets

CONSTANTS
    Validators,  \* the validators of the (single) epoch
    Faulty,      \* validators that may sign any message at any time
    Quorum,      \* sets of validators holding more than 2/3 of the stake
    MaxRound,    \* bound: rounds above it are not explored
    Block,       \* block ids
    Genesis,     \* GENESIS_BLOCK_ID
    block_round, \* header.block_round
    qc_round,    \* header.qc.info.round
    parent,      \* header.qc.info.id
    ancestors,   \* a block, its parent, its parent's parent, ...
    None         \* Option::None

GENESIS_ROUND == 0
Honest == Validators \ Faulty
Round == 0..MaxRound

(* Supermajorities overlap in a correct validator as long as faulty        *)
(* validators hold less than a third of the stake (has_super_majority_votes*)
(* asks for total*2/3 + 1).                                                *)
ASSUME QuorumAssumption ==
    /\ Faulty \subseteq Validators
    /\ Quorum \subseteq SUBSET Validators
    /\ \A Q1, Q2 \in Quorum : \E n \in Q1 \cap Q2 : n \notin Faulty

ASSUME RoundAssumption == MaxRound \in Nat \ {0}

ASSUME BlockAssumption ==
    /\ Genesis \in Block
    /\ None \notin Block
    /\ block_round \in [Block -> Nat]
    /\ qc_round \in [Block -> Nat]
    /\ parent \in [Block -> Block]
    /\ ancestors \in [Block -> SUBSET Block]
    /\ block_round[Genesis] = GENESIS_ROUND
    /\ ancestors[Genesis] = {Genesis}
    /\ \A b \in Block \ {Genesis} :
          /\ qc_round[b] < block_round[b]
          /\ ancestors[b] = {b} \cup ancestors[parent[b]]

(* HighExtendRank: [tip, qc] with tip = GENESIS_ROUND for Qc{qc_round};    *)
(* the same encoding TimeoutInfo carries over the wire.                    *)
Rank == [tip : Nat, qc : Nat]
QcRank(r) == [tip |-> GENESIS_ROUND, qc |-> r]
TipRank(b) == [tip |-> block_round[b], qc |-> qc_round[b]]

(* HighExtendRank::cmp: a QC takes precedence over a tip of the same round *)
RankLess(a, b) ==
    IF a.tip = GENESIS_ROUND
    THEN IF b.tip = GENESIS_ROUND THEN a.qc < b.qc ELSE a.qc < b.tip
    ELSE IF b.tip = GENESIS_ROUND
         THEN a.tip <= b.qc
         ELSE a.tip < b.tip \/ (a.tip = b.tip /\ a.qc < b.qc)

(* RoundCertificate.  [tc |-> FALSE] is a QC of that round; [tc |-> TRUE]  *)
(* a TC whose high_extend is tip, or the QC of qc_round when tip = None.   *)
(* qc_round is RoundCertificate::qc().get_round() in both cases.           *)
RoundCertificate ==
    [tc : BOOLEAN, round : Nat, tip : Block \cup {None}, qc_round : Nat]
QcCert(r) == [tc |-> FALSE, round |-> r, tip |-> None, qc_round |-> r]
TcCert(r, t, q) == [tc |-> TRUE, round |-> r, tip |-> t, qc_round |-> q]
ExtendRank(tip, q) == IF tip = None THEN QcRank(q) ELSE TipRank(tip)

Maximum(a, b) == IF a >= b THEN a ELSE b
=============================================================================
