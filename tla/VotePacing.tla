----------------------------- MODULE VotePacing -----------------------------
(***************************************************************************)
(* When a validator's vote leaves it: try_vote, handle_vote_timer and      *)
(* send_vote_and_reset_timer of monad-consensus-state/src/lib.rs with the  *)
(* SendVote timer of monad-updaters/src/timer.rs.  A vote waits for the    *)
(* vote pace to pass since the previous vote was sent, unless the previous *)
(* round failed.                                                           *)
(*                                                                         *)
(* Scheduling a timer aborts the running one, but a timer that has expired *)
(* already is still delivered, however late.                               *)
(***************************************************************************)
EXTENDS Naturals, Sequences

CONSTANTS
    Id,          \* block ids
    MaxRound,    \* bound: rounds above it are not entered
    MaxRestarts  \* bound on the number of restarts

ConstantsOk == MaxRound \in Nat /\ MaxRestarts \in Nat

VARIABLES
    current_round,   \* Pacemaker::get_current_round
    highest_vote,    \* Safety.highest_vote
    scheduled_vote,  \* Nothing, TimerFired or a vote (VoteReady)
    timer,           \* round of the running SendVote timer, 0 if there is none
    expired,         \* SendVote events not handled yet
    sent,            \* votes sent by this process, in order
    restarts,        \* restarts so far
    panicked         \* "trying to schedule another vote in same round"

vars == << current_round, highest_vote, scheduled_vote, timer, expired, sent, restarts, panicked >>

Nothing == [round |-> 0, id |-> "Nothing"]
TimerFired == [round |-> 0, id |-> "TimerFired"]
VoteReady == scheduled_vote.round > 0

-----------------------------------------------------------------------------
(* Mutant: a vote that is waiting stays when a vote is sent *)
SendVoteKeeps(v) ==
    /\ sent' = Append(sent, v)
    /\ timer' = v.round + 1
    /\ scheduled_vote' = IF VoteReady THEN scheduled_vote ELSE Nothing

(* Mutant: the timer for the next round is not started *)
SendVoteNoTimer(v) ==
    /\ sent' = Append(sent, v)
    /\ scheduled_vote' = Nothing
    /\ UNCHANGED timer

(* send_vote_and_reset_timer *)
SendVoteAndResetTimer(v) ==
    /\ sent' = Append(sent, v)
    /\ timer' = v.round + 1
    /\ scheduled_vote' = Nothing

(* Mutant: the round's vote may be cast again *)
IsSafeToVoteAgain == current_round >= highest_vote

(* What is_safe_to_vote comes to when nothing was no-endorsed *)
IsSafeToVote == current_round > highest_vote

(* try_vote on a valid, coherent proposal of the current round;            *)
(* consecutive: its parent is of the preceding round                       *)
TryVote(id, consecutive) ==
    LET v == [round |-> current_round, id |-> id] IN
    /\ IsSafeToVote
    /\ highest_vote' = current_round
    /\ panicked' = (panicked \/ scheduled_vote.round >= v.round)
    /\ \/ /\ scheduled_vote = TimerFired \/ ~ consecutive
          /\ SendVoteAndResetTimer(v)
       \/ /\ scheduled_vote # TimerFired /\ consecutive
          /\ scheduled_vote' = v
          /\ UNCHANGED << timer, sent >>
    /\ UNCHANGED << current_round, expired, restarts >>

(* TokioTimer: the timer's task completes *)
TimerExpires ==
    /\ timer > 0
    /\ expired' = expired \cup {timer}
    /\ timer' = 0
    /\ UNCHANGED << current_round, highest_vote, scheduled_vote, sent, restarts, panicked >>

(* handle_vote_timer, of whatever round the timer was for *)
HandleVoteTimer(r) ==
    /\ expired' = expired \ {r}
    /\ \/ /\ VoteReady
          /\ SendVoteAndResetTimer(scheduled_vote)
       \/ /\ ~ VoteReady
          /\ scheduled_vote' = TimerFired
          /\ UNCHANGED << timer, sent >>
    /\ UNCHANGED << current_round, highest_vote, restarts, panicked >>

(* A QC or TC takes the validator to a later round, vote sent or not *)
EnterRound(r) ==
    /\ r > current_round
    /\ current_round' = r
    /\ UNCHANGED << highest_vote, scheduled_vote, timer, expired, sent, restarts, panicked >>

(* handle_timeout_expiry -> Safety::timeout *)
HandleTimeoutExpiry ==
    /\ highest_vote < current_round
    /\ highest_vote' = current_round
    /\ UNCHANGED << current_round, scheduled_vote, timer, expired, sent, restarts, panicked >>

(* A new process: maybe_start_consensus feeds SendVote and Timeout to the  *)
(* ConsensusState it has made of the forkpoint.  That may be one of an     *)
(* earlier round: the process stopped before it was written, or had        *)
(* entered rounds by cached proposals, which are not followed by a write.  *)
Restart(round) ==
    /\ restarts < MaxRestarts
    /\ restarts' = restarts + 1
    /\ current_round' = round
    /\ highest_vote' = round
    /\ scheduled_vote' = TimerFired
    /\ timer' = 0 /\ expired' = {}
    /\ sent' = << >>
    /\ UNCHANGED panicked

-----------------------------------------------------------------------------
Init ==
    /\ current_round = 1 /\ highest_vote = 1
    /\ scheduled_vote = TimerFired
    /\ timer = 0 /\ expired = {}
    /\ sent = << >> /\ restarts = 0 /\ panicked = FALSE

Next ==
    \/ \E id \in Id, consecutive \in BOOLEAN : TryVote(id, consecutive)
    \/ TimerExpires
    \/ \E r \in expired : HandleVoteTimer(r)
    \/ \E r \in 1..MaxRound : EnterRound(r)
    \/ HandleTimeoutExpiry
    \/ \E r \in 1..current_round : Restart(r)

Spec == Init /\ [][Next]_vars

(* The tokio timer expires, and the event loop takes what has expired *)
Fairness == WF_vars(TimerExpires) /\ WF_vars(\E r \in expired : HandleVoteTimer(r))
FairSpec == Spec /\ Fairness
-----------------------------------------------------------------------------
(* Properties *)

(* The panic in try_vote, "trying to schedule another vote in same round", *)
(* is out of reach, though a vote of an earlier round may still be waiting *)
(* when the next one is cast.                                              *)
VotesNoPanic == ~ panicked

(* Of one process, votes leave in the order of their rounds and none       *)
(* leaves twice, however late a timer of an earlier round is delivered.    *)
(* (The next process may have to start before the rounds of this one.)     *)
SentInOrder == \A i, j \in DOMAIN sent : i < j => sent[i].round < sent[j].round

(* A vote that waits for the timer does not wait for ever: it is sent, or  *)
(* votes of later rounds take its place, which ends when rounds do.        *)
(* (There is always a timer, as the previous vote started one.)            *)
VoteLeaves == []<>~VoteReady
=============================================================================
