------------------------------ MODULE MCTimers ------------------------------
(***************************************************************************)
(* The components whose timers and retries must end in something: the      *)
(* pacemaker, vote pacing and block sync.  `part' says which of them a     *)
(* behaviour is about; the pacemaker rests in its initial state in the     *)
(* other parts, and the variables of the other two are None but in theirs. *)
(***************************************************************************)
EXTENDS Pacemaker, Integers, Sequences

CONSTANTS h1, h2, f1, None

VARIABLES part,
    current_round, highest_vote, scheduled_vote, timer, vote_events, votes, restarts, vote_panicked,
    bs, live, cache, ledger, timers, sync_events, wanted, requests

(* Stakes 3, 2 and 2 (h1, h2, f1): 7*2/3 + 1 = 5 and 7/3 + 1 = 3.  h1 can  *)
(* move on with f1 alone, h2 cannot.                                       *)
ThreeValidators == {h1, h2, f1}
Fives == {{h1, h2}, {h1, f1}, {h1, h2, f1}}
ThreesOfSeven == {{h1}, {h2, f1}}

Votes == INSTANCE VotePacing WITH
    Id <- {"A", "B"}, MaxRound <- 5, MaxRestarts <- 1,
    expired <- vote_events, sent <- votes, panicked <- vote_panicked

(* A range of two blocks with different bodies; one slot for bodies.       *)
SyncRange == [last |-> 3, num |-> 2]
SyncRanges == {SyncRange}
SyncBody == <<"x", "x", "y">>
Sync == INSTANCE BlockSync WITH
    Peer <- {"p"}, Ranges <- SyncRanges, Body <- SyncBody,
    stored <- {1}, Cacheable <- {}, Asks <- {},
    BLOCKSYNC_MAX_PAYLOAD_REQUESTS <- 1, MaxRequests <- 2, MaxFetches <- 1,
    expired <- sync_events

ASSUME ConstantsFit == Votes!ConstantsOk
-----------------------------------------------------------------------------
vote_vars == << current_round, highest_vote, scheduled_vote, timer, vote_events, votes, restarts, vote_panicked >>
sync_vars == << bs, live, cache, ledger, timers, sync_events, wanted, requests >>

VotesIdle ==
    /\ current_round = None /\ highest_vote = None /\ scheduled_vote = None /\ timer = None
    /\ vote_events = None /\ votes = None /\ restarts = None /\ vote_panicked = None
SyncIdle ==
    /\ bs = None /\ live = None /\ cache = None /\ ledger = None
    /\ timers = None /\ sync_events = None /\ wanted = None /\ requests = None

PartInit ==
    /\ Init
    /\ \/ part = "rounds" /\ VotesIdle /\ SyncIdle
       \/ part = "votes" /\ Votes!Init /\ SyncIdle
       \/ part = "sync" /\ Sync!Init /\ VotesIdle

PartNext ==
    \/ part = "rounds" /\ Next /\ UNCHANGED << part, vote_vars, sync_vars >>
    \/ part = "votes" /\ Votes!Next /\ UNCHANGED << part, vars, sync_vars >>
    \/ part = "sync" /\ Sync!Next /\ UNCHANGED << part, vars, vote_vars >>

(* The fairness of each part: Fairness of its module.                      *)
RoundsFairness ==
    /\ \A n \in Honest : WF_vars(part = "rounds" /\ HandleTimeoutExpiry(n))
    /\ \A n, a \in Honest :
          WF_vars(part = "rounds" /\ \E m \in sent : Resent(a, m) /\ HandleTimeoutMessage(n, m))
VotesFairness ==
    /\ WF_(Votes!vars)(part = "votes" /\ Votes!TimerExpires)
    /\ WF_(Votes!vars)(part = "votes" /\ \E r \in vote_events : Votes!HandleVoteTimer(r))
SyncFairness ==
    /\ WF_(Sync!vars)(part = "sync" /\ Sync!HandleLedgerResponse)
    /\ \A r \in Sync!Request :
         /\ WF_(Sync!vars)(part = "sync" /\ Sync!TimerExpires(r))
         /\ SF_(Sync!vars)(part = "sync" /\ Sync!HandleTimeout(r, "p"))
         /\ SF_(Sync!vars)(part = "sync" /\ Sync!Delivers("p", r))

PartSpec ==
    /\ PartInit /\ [][PartNext]_<<part, vars, vote_vars, sync_vars>>
    /\ RoundsFairness /\ VotesFairness /\ SyncFairness
-----------------------------------------------------------------------------
(* NoPanic, QuorumUsed and TimerFirst of Pacemaker are checked as they     *)
(* are, and what must end in the three components.                         *)

(* RoundsEnd of Pacemaker: every honest validator reaches the last round,  *)
(* which, once reached, is never left.                                     *)
EveryRoundEnds == []<>(part = "rounds" => \A n \in Honest : CurrentRound(n) = MaxRound)

(* VoteLeaves of VotePacing and RangeArrives of BlockSync: a vote that is  *)
(* scheduled leaves, and a range that is asked for, even if it is asked    *)
(* for again, is handed over.                                              *)
RetriesEnd ==
    []<>(/\ part = "votes" => ~Votes!VoteReady
         /\ part = "sync" => SyncRange \notin wanted)
=============================================================================
