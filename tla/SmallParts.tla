----------------------------- MODULE SmallParts -----------------------------
(***************************************************************************)
(* The components whose theorems are all in one module, SmallParts_proofs: *)
(* VoteState, which this module extends, and, as instances, the            *)
(* no-endorsements a leader collects, the votes it paces, the stakes, the  *)
(* files of the ledger, the sessions of a socket, the replay filter of     *)
(* one, the epochs and state sync.  Parts adds the others and the          *)
(* specification.                                                          *)
(*                                                                         *)
(* The constants of most of them are fields of one record, by their names  *)
(* in the component's module.  ValidatorSet and Ledger have variables of   *)
(* their own; v1, v2, ... hold those of whichever other component a        *)
(* behaviour is about.                                                     *)
(***************************************************************************)
EXTENDS VoteState, Integers

CONSTANTS
    None, NoTip,
    collection,                 \* NoEndorsementState
    pacing,                     \* VotePacing
    Nodes, MaxStake,            \* ValidatorSet
    DiskBlock, Body, block_round, block_cache_size, MaxCrashes,  \* Ledger
    window,                     \* ReplayFilter
    sockets,                    \* WireAuth
    chain,                      \* Epochs
    behind                      \* StateSync

VARIABLES
    validators, faulty,
    headers, bodies, head, wip, block_cache_index, block_cache, payload_cache, todo, proposed, panicked, crashes,
    v1, v2, v3, v4, v5, v6, v7, v8, v9, v10, v11, v12

Nec == INSTANCE NoEndorsementState WITH
    TipQcRound <- collection.TipQcRound, Leads <- collection.Leads,
    FUTURE_VOTE_BOUND <- collection.FUTURE_VOTE_BOUND, MaxRound <- collection.MaxRound, StaleForkpoint <- FALSE,
    current_round <- v1, earliest_round <- v2, tip <- v3, pending <- v4, invalid_senders <- v5,
    certificate <- v6, asked <- v7, answered <- v8, received <- v9, panicked <- v10, forkpoint <- v11

Pacing == INSTANCE VotePacing WITH
    MaxRound <- pacing.MaxRound, MaxRestarts <- pacing.MaxRestarts,
    current_round <- v1, highest_vote <- v2, scheduled_vote <- v3, timer <- v4, expired <- v5,
    sent <- v6, restarts <- v7, panicked <- v8

Stakes == INSTANCE ValidatorSet

Disk == INSTANCE Ledger WITH Block <- DiskBlock

Filter == INSTANCE ReplayFilter WITH
    MaxCounter <- window.MaxCounter, REPLAY_WINDOW_BITS <- window.REPLAY_WINDOW_BITS,
    next <- v1, bitmap <- v2, accepted <- v3

Wire == INSTANCE WireAuth WITH
    Configs <- sockets, config <- v5, now <- v1, begun <- v2, st <- v3, timers <- v4

Epoch == INSTANCE Epochs WITH
    block_round <- chain.block_round, epoch_length <- chain.epoch_length,
    epoch_start_delay <- chain.epoch_start_delay, execution_delay <- chain.execution_delay,
    staking_activation <- chain.staking_activation, MaxCrashes <- chain.MaxCrashes,
    mode <- v1, root <- v2, epoch_starts <- v3, validator_map <- v4, requests <- v5, valsets <- v6,
    finalized <- v7, config_queue <- v8, last_validator_set <- v9, forkpoint <- v10,
    validators_toml <- v11, crashes <- v12

State == INSTANCE StateSync WITH
    Peer <- behind.Peer, num_prefixes <- behind.num_prefixes, Chunks <- behind.Chunks,
    max_parallel_requests <- behind.max_parallel_requests, Targets <- behind.Targets, MaxSends <- behind.MaxSends,
    node <- v1, loopback <- v2, ob <- v3, target <- v4, inbox <- v5, outbox <- v6, thread <- v7,
    answers <- v8, sends <- v9, failed <- v10

(* What the theorems need of the constants of each component.              *)
ASSUME SmallConstantsFit ==
    /\ Nec!ConstantsOk /\ Pacing!ConstantsOk /\ Filter!ConstantsOk /\ Wire!ConstantsOk /\ Epoch!ConstantsOk
    /\ State!ConstantsOk
    /\ IsFiniteSet(Nodes) /\ MaxStake \in Nat
    /\ None \notin DiskBlock
=============================================================================
