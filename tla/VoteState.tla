------------------------------ MODULE VoteState ------------------------------
(***************************************************************************)
(* How one validator turns votes into QCs: VoteState of                    *)
(* monad-consensus/src/vote_state.rs, as handle_vote_message, process_qc   *)
(* and process_tc of monad-consensus-state/src/lib.rs drive it.            *)
(*                                                                         *)
(* Signatures are checked only once a supermajority has voted; whoever     *)
(* signed badly is then barred from the round.  node_votes is left out: it *)
(* is written as evidence of double votes and never read.                  *)
(***************************************************************************)
EXTENDS Naturals, Sequences, FiniteSets

CONSTANTS
    Validators, Faulty,
    Quorum,            \* has_super_majority_votes
    Id,                \* block ids
    MaxRound,          \* bound: rounds above it are not explored
    FUTURE_VOTE_BOUND  \* how far ahead of the current round votes are kept

Honest == Validators \ Faulty

ASSUME BoundsAssumption == MaxRound \in Nat /\ FUTURE_VOTE_BOUND \in Nat

(* has_super_majority_votes asks for total*2/3 + 1 of the stake *)
ASSUME QuorumAssumption == {} \notin Quorum

VARIABLES
    current_round,   \* Pacemaker::get_current_round
    earliest_round,  \* "The earliest round that we'll accept votes for"
    pending_votes,   \* votes held [round, id, node, valid]
    invalid_voters,  \* [round, node]
    delivered,       \* history: honest votes that arrived in time
    built            \* history: QCs built, in order [round, id]

vars == << current_round, earliest_round, pending_votes, invalid_voters, delivered, built >>

HasSuperMajorityVotes(S) == \E Q \in Quorum : Q \subseteq S

Vote == [round : 1..MaxRound, id : Id, node : Validators, valid : BOOLEAN]
Bucket(votes, v) == {w \in votes : w.round = v.round /\ w.id = v.id}
Voters(votes) == {w.node : w \in votes}
Voter(v) == [round |-> v.round, node |-> v.node]

-----------------------------------------------------------------------------
(* Mutant: the round a QC is of is entered again *)
RoundAfterSame(round) == round

(* The round process_certificate enters *)
RoundAfter(round) == round + 1

(* start_new_round, on what process_vote has left in votes and barred *)
StartNewRound(round, votes, barred) ==
    /\ earliest_round' = round
    /\ pending_votes' = {w \in votes : w.round >= round}
    /\ invalid_voters' = {i \in barred : i.round >= round}

(* BTreeMap::insert: a voter's later signature replaces the earlier one *)
InsertVote(v) ==
    {w \in pending_votes : ~ (w.node = v.node /\ w \in Bucket(pending_votes, v))} \cup {v}

(* Mutant: a bad signature costs everybody in the bucket their votes *)
HandleInvalidVoteDropsAll(votes, v, barred) == votes \ Bucket(votes, v)

(* handle_invalid_vote *)
HandleInvalidVote(votes, v, barred) ==
    votes \ {w \in Bucket(votes, v) : Voter(w) \in barred}

(* process_vote.  The supermajority's signatures are put together; if some *)
(* are bad their authors are barred and what is left is tried again.       *)
ProcessVote(v) ==
    LET votes  == InsertVote(v)
        bad    == {w \in Bucket(votes, v) : ~ w.valid}
        barred == invalid_voters \cup {Voter(w) : w \in bad}
        good   == IF bad = {} THEN votes ELSE HandleInvalidVote(votes, v, barred)
    IN  IF ~ HasSuperMajorityVotes(Voters(Bucket(votes, v)))
        THEN [votes |-> votes, barred |-> invalid_voters, qc |-> FALSE]
        ELSE [votes |-> good, barred |-> barred,
              qc |-> HasSuperMajorityVotes(Voters(Bucket(good, v)))]

(* handle_vote_message; a new QC goes to process_qc at once *)
HandleVoteMessage(v) ==
    /\ v.round >= current_round
    /\ v.round <= current_round + FUTURE_VOTE_BOUND
    /\ delivered' = delivered \cup {w \in {v} : w.node \in Honest}
    /\ \/ /\ v.round < earliest_round \/ Voter(v) \in invalid_voters
          /\ UNCHANGED << current_round, earliest_round, pending_votes, invalid_voters, built >>
       \/ /\ v.round >= earliest_round /\ Voter(v) \notin invalid_voters
          /\ LET p == ProcessVote(v) IN
             \/ /\ p.qc
                /\ built' = Append(built, [round |-> v.round, id |-> v.id])
                /\ current_round' = RoundAfter(v.round)
                /\ StartNewRound(current_round', p.votes, p.barred)
             \/ /\ ~ p.qc
                /\ pending_votes' = p.votes
                /\ invalid_voters' = p.barred
                /\ UNCHANGED << current_round, earliest_round, built >>

(* process_qc of a QC learnt from somebody else *)
ProcessQc(r) ==
    /\ r >= current_round
    /\ current_round' = RoundAfter(r)
    /\ StartNewRound(current_round', pending_votes, invalid_voters)
    /\ UNCHANGED << delivered, built >>

(* process_tc: earliest_round stays behind *)
ProcessTc(r) ==
    /\ r >= current_round
    /\ current_round' = RoundAfter(r)
    /\ UNCHANGED << earliest_round, pending_votes, invalid_voters, delivered, built >>

-----------------------------------------------------------------------------
(* A process starts in the round after its forkpoint's certificate, here   *)
(* called round 1; the other validators may have started long before.      *)
Init ==
    /\ current_round = 1 /\ earliest_round = 1
    /\ pending_votes = {} /\ invalid_voters = {}
    /\ delivered = {} /\ built = << >>

(* Honest validators sign well, and one vote a round (MonadBFT's VoteOnce) *)
Sendable(v) ==
    v.node \in Honest =>
        /\ v.valid
        /\ \A w \in delivered : Voter(w) = Voter(v) => w = v

Next ==
    \/ \E v \in Vote : Sendable(v) /\ HandleVoteMessage(v)
    \/ \E r \in 1..MaxRound : ProcessQc(r)
    \/ \E r \in 1..MaxRound : ProcessTc(r)

Spec == Init /\ [][Next]_vars
-----------------------------------------------------------------------------
(* Properties *)

(* "Only one QC should be created in a round": neither late votes, nor     *)
(* votes for a second block, nor rounds skipped by TCs (which leave        *)
(* earliest_round behind) make process_vote build a second QC for a round. *)
OneQcBuilt == \A i, j \in DOMAIN built : built[i].round = built[j].round => i = j

(* No vote is lost while it can still count: once a supermajority of       *)
(* honest votes for a block has arrived in time the QC is built and the    *)
(* round left behind, even if votes came early, the sender skipped rounds, *)
(* or faulty validators had bad signatures mixed in.                       *)
NothingLost ==
    \A r \in current_round..MaxRound : \A id \in Id :
        ~ HasSuperMajorityVotes({w.node : w \in {x \in delivered : x.round = r /\ x.id = id}})
=============================================================================
