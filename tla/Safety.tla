------------------------------- MODULE Safety -------------------------------
(***************************************************************************)
(* The Safety struct of monad-consensus/src/validation/safety.rs: every    *)
(* stateful check that keeps a validator from signing two conflicting      *)
(* messages.  A Safety value is a record s; each method is an operator on  *)
(* it.  handled_proposals is left out: it only drops further proposals of  *)
(* a round ("This does not affect correctness; it just helps reduce DOS",  *)
(* safety.rs), so every behaviour with it is a behaviour without it.       *)
(***************************************************************************)
EXTENDS ConsensusTypes

HighNoEndorse == [round : Nat, tip : Block]

SafetyState ==
    [ maybe_high_tip            : Block \cup {None},
      high_certificate_qc_round : Nat,
      highest_vote              : Nat,
      highest_no_endorse        : HighNoEndorse,
      highest_propose           : Nat,
      highest_recovery_request  : Nat ]

(* Mutant: a restarted validator may propose in the round it stopped in *)
SafetyNewMayPropose(cert) ==
    [ maybe_high_tip            |-> None,
      high_certificate_qc_round |-> cert.qc_round,
      highest_vote              |-> cert.round + 1,
      highest_no_endorse        |-> [round |-> cert.round + 1, tip |-> Genesis],
      highest_propose           |-> cert.round,
      highest_recovery_request  |-> cert.round + 1 ]

(* Safety::new, as ConsensusState::new calls it: without a high tip, and   *)
(* barred from voting, no-endorsing and proposing in the current round     *)
SafetyNew(cert) ==
    [ maybe_high_tip            |-> None,
      high_certificate_qc_round |-> cert.qc_round,
      highest_vote              |-> cert.round + 1,
      highest_no_endorse        |-> [round |-> cert.round + 1, tip |-> Genesis],
      highest_propose           |-> cert.round + 1,
      highest_recovery_request  |-> cert.round + 1 ]

(* Mutant: a QC does not displace the high tip *)
SafetyProcessCertificateKeepsTip(s, cert) ==
    [s EXCEPT !.high_certificate_qc_round = Maximum(@, cert.qc_round)]

SafetyProcessCertificate(s, cert) ==
    LET high == Maximum(s.high_certificate_qc_round, cert.qc_round)
        stale == /\ s.maybe_high_tip # None
                 /\ block_round[s.maybe_high_tip] <= high
    IN  [s EXCEPT !.high_certificate_qc_round = high,
                  !.maybe_high_tip = IF stale THEN None ELSE @]

(* Mutants: voting twice in a round; ignoring one's no-endorsement *)
IsSafeToVoteAgain(s, round, last_round_tc_tip) == round >= s.highest_vote
IsSafeToVoteAfterNe(s, round, last_round_tc_tip) == round > s.highest_vote

IsSafeToVote(s, round, last_round_tc_tip) ==
    /\ \/ round # s.highest_no_endorse.round
       \/ last_round_tc_tip = s.highest_no_endorse.tip
    /\ round > s.highest_vote

(* Mutant: the tip voted for is not remembered *)
VoteForgetsTip(s, round, tip) == [s EXCEPT !.highest_vote = round]

Vote(s, round, tip) ==
    [s EXCEPT !.highest_vote = round,
              !.maybe_high_tip =
                 IF block_round[tip] > s.high_certificate_qc_round
                 THEN tip ELSE None]

IsSafeToNoEndorse(s, round) ==
    round > Maximum(s.highest_no_endorse.round, s.highest_vote)

(* Mutant: the tip of the no-endorsement is not remembered *)
NoEndorseForgetsTip(s, round, tip) ==
    [s EXCEPT !.highest_no_endorse = [round |-> round, tip |-> None]]

NoEndorse(s, round, tip) ==
    [s EXCEPT !.highest_no_endorse = [round |-> round, tip |-> tip]]

(* Mutant: timing out does not end voting in the round *)
TimeoutKeepsVoting(s, round) == s

(* Safety::timeout: the new state, and whether the timeout message may     *)
(* carry a vote for the high tip                                           *)
Timeout(s, round) == [s EXCEPT !.highest_vote = round]

MayIncludeVote(s, round) ==
    \/ s.highest_no_endorse.round < round
    \/ s.maybe_high_tip # None /\ block_round[s.maybe_high_tip] = round

(* Mutant: proposing twice in a round *)
IsSafeToProposeAgain(s, round) ==
    round >= Maximum(s.highest_propose, s.highest_vote)

IsSafeToPropose(s, round) ==
    round > Maximum(s.highest_propose, s.highest_vote)

Propose(s, round) == [s EXCEPT !.highest_propose = round]

IsSafeToRecoveryRequest(s, round) == round > s.highest_recovery_request

RecoveryRequest(s, round) == [s EXCEPT !.highest_recovery_request = round]
=============================================================================
