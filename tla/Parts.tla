-------------------------------- MODULE Parts --------------------------------
(***************************************************************************)
(* The components that are checked one by one, side by side: `part' says   *)
(* which of them a behaviour is about.  VoteState, ValidatorSet, Ledger    *)
(* and BlockSync have their own variables, which rest in the other parts;  *)
(* v1, v2, ... hold the variables of whichever other component the part is *)
(* about, and those it does not need keep the value Unused.                *)
(*                                                                         *)
(* The constants of most components are fields of one record, by their     *)
(* names in the component's module.  A component with a module of proofs   *)
(* is an instance of that module, so that Parts_proofs can cite its        *)
(* theorems; those of SmallParts are proved in SmallParts_proofs.          *)
(***************************************************************************)
EXTENDS SmallParts

CONSTANTS
    Unused,
    syncs,                      \* BlockSync
    rivals, company, courted,   \* FullNodeGroups
    crammed, roomy,             \* LeanUdp
    TreeBlock, Genesis, tree_round, qc_round, parent, ancestors, seq_num, Worlds, led, lagging,
    live_to_statesync_threshold  \* BlockTree

VARIABLES
    part,
    bs, live, cache, ledger, timers, expired, wanted, requests

Sync == INSTANCE BlockSync_proofs WITH
    Peer <- syncs.Peer, Ranges <- syncs.Ranges, Body <- syncs.Body, stored <- syncs.stored,
    Cacheable <- syncs.Cacheable, Asks <- syncs.Asks,
    BLOCKSYNC_MAX_PAYLOAD_REQUESTS <- syncs.BLOCKSYNC_MAX_PAYLOAD_REQUESTS,
    MaxRequests <- syncs.MaxRequests, MaxFetches <- syncs.MaxFetches

Rivals == INSTANCE FullNodeGroups_proofs WITH
    Publisher <- rivals.Publisher, OtherValidator <- rivals.OtherValidator, FullNode <- rivals.FullNode,
    Prioritized <- rivals.Prioritized, max_group_size <- rivals.max_group_size,
    round_span <- rivals.round_span, invite_lookahead <- rivals.invite_lookahead,
    max_invite_wait <- rivals.max_invite_wait, deadline_round_dist <- rivals.deadline_round_dist,
    init_empty_round_span <- rivals.init_empty_round_span, max_num_group <- rivals.max_num_group,
    invite_future_dist_min <- rivals.invite_future_dist_min,
    invite_future_dist_max <- rivals.invite_future_dist_max, OtherSpans <- rivals.OtherSpans,
    MaxRound <- rivals.MaxRound,
    pub <- v1, client <- v2, sent <- v3

Company == INSTANCE FullNodeGroups_proofs WITH
    Publisher <- company.Publisher, OtherValidator <- company.OtherValidator,
    FullNode <- company.FullNode, Prioritized <- company.Prioritized,
    max_group_size <- company.max_group_size, round_span <- company.round_span,
    invite_lookahead <- company.invite_lookahead, max_invite_wait <- company.max_invite_wait,
    deadline_round_dist <- company.deadline_round_dist,
    init_empty_round_span <- company.init_empty_round_span, max_num_group <- company.max_num_group,
    invite_future_dist_min <- company.invite_future_dist_min,
    invite_future_dist_max <- company.invite_future_dist_max, OtherSpans <- company.OtherSpans,
    MaxRound <- company.MaxRound,
    pub <- v1, client <- v2, sent <- v3

Courted == INSTANCE FullNodeGroups_proofs WITH
    Publisher <- courted.Publisher, OtherValidator <- courted.OtherValidator,
    FullNode <- courted.FullNode, Prioritized <- courted.Prioritized,
    max_group_size <- courted.max_group_size, round_span <- courted.round_span,
    invite_lookahead <- courted.invite_lookahead, max_invite_wait <- courted.max_invite_wait,
    deadline_round_dist <- courted.deadline_round_dist,
    init_empty_round_span <- courted.init_empty_round_span, max_num_group <- courted.max_num_group,
    invite_future_dist_min <- courted.invite_future_dist_min,
    invite_future_dist_max <- courted.invite_future_dist_max, OtherSpans <- courted.OtherSpans,
    MaxRound <- courted.MaxRound,
    pub <- v1, client <- v2, sent <- v3

Crammed == INSTANCE LeanUdp_proofs WITH
    Correct <- crammed.Correct, Faulty <- crammed.Faulty, MsgIds <- crammed.MsgIds,
    Count <- crammed.Count, MAX_FRAGMENTS <- crammed.MAX_FRAGMENTS,
    max_message_size <- crammed.max_message_size, max_messages <- crammed.max_messages,
    max_messages_per_identity <- crammed.max_messages_per_identity,
    message_timeout <- crammed.message_timeout, MaxTime <- crammed.MaxTime,
    now <- v1, sent <- v2, wire <- v3, pools <- v4, done <- v5

Roomy == INSTANCE LeanUdp_proofs WITH
    Correct <- roomy.Correct, Faulty <- roomy.Faulty, MsgIds <- roomy.MsgIds, Count <- roomy.Count,
    MAX_FRAGMENTS <- roomy.MAX_FRAGMENTS, max_message_size <- roomy.max_message_size,
    max_messages <- roomy.max_messages, max_messages_per_identity <- roomy.max_messages_per_identity,
    message_timeout <- roomy.message_timeout, MaxTime <- roomy.MaxTime,
    now <- v1, sent <- v2, wire <- v3, pools <- v4, done <- v5

Tree == INSTANCE BlockTree_proofs WITH
    Block <- TreeBlock, block_round <- tree_round,
    world <- v1, node <- v2, syncing <- v3, loopback <- v4

(* What the theorems need of the constants of each component.              *)
ASSUME ConstantsFit ==
    /\ Sync!ConstantsOk
    /\ Crammed!ConstantsOk /\ Roomy!ConstantsOk
    /\ Tree!ConstantsOk
    /\ Rivals!ConstantsOk /\ Company!ConstantsOk /\ Courted!ConstantsOk
-----------------------------------------------------------------------------
stake_vars == <<validators, faulty>>
disk_vars ==
    <<headers, bodies, head, wip, block_cache_index, block_cache, payload_cache, todo, proposed, panicked, crashes>>
sync_vars == <<bs, live, cache, ledger, timers, expired, wanted, requests>>
from12 == <<v12>>
from11 == <<v11, from12>>
from9 == <<v9, v10, from11>>
from6 == <<v6, v7, v8, from9>>
from5 == <<v5, from6>>
from4 == <<v4, from5>>
from1 == <<v1, v2, v3, from4>>
own_vars == <<vars, stake_vars, disk_vars, sync_vars>>
all_vars == <<part, own_vars, from1>>

StakesIdle == validators = Unused /\ faulty = Unused
DiskIdle ==
    /\ headers = Unused /\ bodies = Unused /\ head = Unused /\ wip = Unused
    /\ block_cache_index = Unused /\ block_cache = Unused /\ payload_cache = Unused
    /\ todo = Unused /\ proposed = Unused /\ panicked = Unused /\ crashes = Unused
SyncIdle ==
    /\ bs = Unused /\ live = Unused /\ cache = Unused /\ ledger = Unused
    /\ timers = Unused /\ expired = Unused /\ wanted = Unused /\ requests = Unused
OwnIdle == StakesIdle /\ DiskIdle /\ SyncIdle
Idle12 == v12 = Unused
Idle11 == v11 = Unused /\ Idle12
Idle9 == v9 = Unused /\ v10 = Unused /\ Idle11
Idle6 == v6 = Unused /\ v7 = Unused /\ v8 = Unused /\ Idle9
Idle5 == v5 = Unused /\ Idle6
Idle4 == v4 = Unused /\ Idle5
Idle1 == v1 = Unused /\ v2 = Unused /\ v3 = Unused /\ Idle4

PartInit ==
    /\ Init
    /\ \/ part = "votes" /\ OwnIdle /\ Idle1
       \/ part = "stakes" /\ Stakes!Init /\ DiskIdle /\ SyncIdle /\ Idle1
       \/ part = "disk" /\ Disk!Init /\ StakesIdle /\ SyncIdle /\ Idle1
       \/ part = "sync" /\ Sync!Init /\ StakesIdle /\ DiskIdle /\ Idle1
       \/ part = "no_endorsements" /\ Nec!Init /\ OwnIdle /\ Idle12
       \/ part = "pacing" /\ Pacing!Init /\ OwnIdle /\ Idle9
       \/ part = "epochs" /\ Epoch!Init /\ OwnIdle
       \/ part = "state" /\ State!Init /\ OwnIdle /\ Idle11
       \/ part = "wire" /\ Wire!Init /\ OwnIdle /\ Idle6
       \/ part = "filter" /\ Filter!Init /\ OwnIdle /\ Idle4
       \/ part = "rivals" /\ Rivals!Init /\ OwnIdle /\ Idle4
       \/ part = "company" /\ Company!Init /\ OwnIdle /\ Idle4
       \/ part = "courted" /\ Courted!Init /\ OwnIdle /\ Idle4
       \/ part = "crammed" /\ Crammed!Init /\ OwnIdle /\ Idle6
       \/ part = "roomy" /\ Roomy!Init /\ OwnIdle /\ Idle6
       \/ part = "tree" /\ Tree!Init /\ OwnIdle /\ Idle5

PartNext ==
    \/ part = "votes" /\ Next /\ UNCHANGED <<part, stake_vars, disk_vars, sync_vars, from1>>
    \/ part = "disk" /\ Disk!Next /\ UNCHANGED <<part, vars, stake_vars, sync_vars, from1>>
    \/ part = "sync" /\ Sync!Next /\ UNCHANGED <<part, vars, stake_vars, disk_vars, from1>>
    \/ part = "no_endorsements" /\ Nec!Next /\ UNCHANGED <<part, own_vars, from12>>
    \/ part = "pacing" /\ Pacing!Next /\ UNCHANGED <<part, own_vars, from9>>
    \/ part = "epochs" /\ Epoch!Next /\ UNCHANGED <<part, own_vars>>
    \/ part = "state" /\ State!Next /\ UNCHANGED <<part, own_vars, from11>>
    \/ part = "wire" /\ Wire!Next /\ UNCHANGED <<part, own_vars, from6>>
    \/ part = "filter" /\ Filter!Next /\ UNCHANGED <<part, own_vars, from4>>
    \/ part = "rivals" /\ Rivals!Next /\ UNCHANGED <<part, own_vars, from4>>
    \/ part = "company" /\ Company!Next /\ UNCHANGED <<part, own_vars, from4>>
    \/ part = "courted" /\ Courted!Next /\ UNCHANGED <<part, own_vars, from4>>
    \/ part = "crammed" /\ Crammed!Next /\ UNCHANGED <<part, own_vars, from6>>
    \/ part = "roomy" /\ Roomy!Next /\ UNCHANGED <<part, own_vars, from6>>
    \/ part = "tree" /\ Tree!Next /\ UNCHANGED <<part, own_vars, from5>>

PartSpec == PartInit /\ [][PartNext]_all_vars
-----------------------------------------------------------------------------
(* OneQcBuilt and NothingLost of VoteState are checked as they are.  The   *)
(* others are the properties of the components, each in its part.          *)

(* The assertion of process_no_endorsement that no NEC is built twice, as  *)
(* long as restarts find their forkpoint up to date.                       *)
NoPanic == part = "no_endorsements" => Nec!NoPanic

(* The NEC a leader proposes with is for the tip of the TC it holds.       *)
NecMatchesTc == part = "no_endorsements" => Nec!NecMatchesTc

(* An NEC that could be built is there, bad signatures or not.             *)
NecKept == part = "no_endorsements" => Nec!NecKept

(* The panic of try_vote, a second scheduled vote in one round.            *)
VotesNoPanic == part = "pacing" => Pacing!VotesNoPanic

(* The votes of a process leave in the order of their rounds.              *)
SentInOrder == part = "pacing" => Pacing!SentInOrder

(* Supermajorities overlap in an honest validator and honest ones suffice. *)
ThresholdsSound == part = "stakes" => Stakes!ThresholdsSound

(* No assertion of block sync fails.                                       *)
SyncNoPanic == part = "sync" => Sync!SyncNoPanic

(* Block sync counts the bodies it is asking for exactly.                  *)
SlotsExact == part = "sync" => Sync!SlotsExact

(* A range asked of block sync is always being worked on.                  *)
RequestAlive == part = "sync" => Sync!RequestAlive

(* Files of the ledger appear in an order that survives crashes.           *)
DiskOrdered == part = "disk" => Disk!DiskOrdered

(* Epoch starts, validator sets and forkpoints are those of the chain.     *)
EpochsRight == part = "epochs" => Epoch!EpochsRight

(* Each prefix state sync waits for is asked for in exactly one place.     *)
NothingForgotten == part = "state" => State!NothingForgotten

(* The tables of sessions and the filter's counters agree.                 *)
SessionsIndexed == part = "wire" => Wire!SessionsIndexed

(* Every session has a timer no later than its next deadline.              *)
TimersCover == part = "wire" => Wire!TimersCover

(* The replay window passes a counter at most once, and refuses no other,  *)
(* the last counter aside.                                                 *)
FilterExact == part = "filter" => Filter!FilterExact

(* Publisher and members have one view of each confirmed group.            *)
GroupsAgree ==
    /\ part = "rivals" => Rivals!GroupsAgree
    /\ part = "company" => Company!GroupsAgree
    /\ part = "courted" => Courted!GroupsAgree

(* A full node is in at most max_num_group groups in any round.            *)
PromisesBounded ==
    /\ part = "rivals" => Rivals!PromisesBounded
    /\ part = "company" => Company!PromisesBounded
    /\ part = "courted" => Courted!PromisesBounded

(* Messages, indices and counts of each reassembly pool agree.             *)
PoolsConsistent == (part = "crammed" => Crammed!PoolsConsistent) /\ (part = "roomy" => Roomy!PoolsConsistent)

(* A message comes out as it was sent or not at all.                       *)
ReassemblyExact == (part = "crammed" => Crammed!ReassemblyExact) /\ (part = "roomy" => Roomy!ReassemblyExact)

(* No assertion of the block tree fails.                                   *)
TreeNoPanic == part = "tree" => Tree!TreeNoPanic

(* Under a QC, the last missing ancestor of its block is on request.       *)
GapRequested == part = "tree" => Tree!GapRequested

(* Block sync knows of every request consensus believes outstanding.       *)
RequestsAlive == part = "tree" => Tree!RequestsAlive

(* The handlers of the block tree implement FinalizedChain: execution is   *)
(* told of one growing chain of blocks it was given.  In the other parts   *)
(* nothing is finalized.                                                   *)
Finalized == INSTANCE FinalizedChain WITH
    Block <- TreeBlock,
    chain <- IF part = "tree" THEN v2.chain ELSE <<Genesis>>,
    given <- IF part = "tree" THEN v2.given ELSE {}
FinalizesOneChain == Finalized!Spec
=============================================================================
