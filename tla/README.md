# monad-bft: TLA+ models, checks and proofs

This directory models the validator of this repository: the MonadBFT consensus
core (safety rules, handlers, pacemaker, collection of votes and
no-endorsements, vote pacing, block tree, forkpoint), the components that feed
and store what it decides (block sync, state sync, epochs, ledger files), and
the parts of the network stack that keep state of their own (wire sessions,
replay window, secondary raptorcast groups, lean UDP reassembly). Paths below are
relative to `src/`.

## 1. The system

| Component | State | Operations | Where |
|---|---|---|---|
| Safety rules | high tip, highest round voted, no-endorsed, proposed, recovery-requested | `vote`, `timeout`, `no_endorse`, `propose`, `process_certificate`, `new` | `monad-consensus/src/validation/safety.rs` |
| Message validation | none | which proposals, tips, QCs, TCs, NECs, timeouts pass | `monad-consensus/src/validation/signing.rs` |
| Pacemaker | high certificate, phase, pending timeouts, barred senders | `process_certificate`, local and remote timeouts | `monad-consensus/src/pacemaker.rs` |
| Vote collection | votes per round and block, earliest round, barred voters | `process_vote`, `start_new_round` | `monad-consensus/src/vote_state.rs` |
| No-endorsement collection | no-endorsements per round and tip, NECs | `process_no_endorsement`, `start_new_round`, `get_nec` | `monad-consensus/src/no_endorsement_state.rs` |
| Consensus handlers | all of the above, block tree, scheduled vote, block sync requests | one handler per message and timer, `try_vote`, `try_propose`, `try_commit` | `monad-consensus-state/src/lib.rs` |
| Consensus types | none | rank of what a timeout extends, certificates, commit rule | `monad-consensus-types/src/` |
| Validator set | stake per validator | the 2/3 and 1/3 thresholds | `monad-validator/src/validator_set.rs` |
| Epochs | start round and validator set per epoch | schedule, lock, read from the database, reload | `monad-validator/src/`, `monad-updaters/src/triedb_val_set.rs` |
| Block tree | pending blocks, children, root, coherency | `add`, `try_update_coherency`, `prune`, path to the root | `monad-blocktree/src/blocktree.rs` |
| Block sync | requests by headers range and body, slots, completed ranges | self and peer requests, answers, timeouts, cancellation | `monad-blocksync/src/blocksync.rs` |
| State sync | peers, pending and in-flight requests, target | request, response in pieces, refusal, new target | `monad-statesync/src/`, `monad-state/src/` |
| Ledger | header and body files, head links, cache | write, link, cache, read | `monad-ledger/src/`, `monad-block-persist/src/` |
| Node state machine | live or syncing, the sub-states | dispatch of events, checkpoints, start of consensus | `monad-state/src/` |
| Executors, timers | running timers, forkpoint and validators files | run the commands of a step in a fixed order | `monad-updaters/src/` |
| Wire authentication | sessions by index, key and socket, timers, replay windows | handshakes, encrypt, decrypt, tick, disconnect | `monad-wireauth/src/` |
| Secondary raptorcast | groups of full nodes per span of rounds | invite, answer, confirm, enter round | `monad-raptorcast/src/raptorcast_secondary/` |
| Lean UDP | two pools of half-received messages | fragment, admit, evict, reassemble | `monad-leanudp/src/` |
| Other network parts | peers, queues, chunks | RaptorCast coding, peer discovery, data plane | `monad-raptorcast/src/`, `monad-peer-discovery/src/`, `monad-dataplane/src/` |
| Transaction pool, block policy, fees | pending transactions, reserve balances | build and validate block bodies | `monad-eth-*`, `monad-tfm/src/` |
| RPC, archive, tools | outside the validator's decisions | | `monad-rpc/`, `monad-archive/`, test crates |

**How they interact.** A validator is one event loop. Each event (a message, a
timer, a block from the txpool or from block sync) is handled to its end by a
handler that mutates the state and returns commands. `ParentExecutor::exec`
then runs the commands: messages go to the router first, then timers, then the
ledger, then the config file that holds forkpoint and validator sets. Handlers
of one validator therefore never interleave, but those of different validators
do, and a process can stop between two executors of the same step, or between
two file operations of one. Proposals are built asynchronously by the txpool,
state is synced and validator sets are read by threads of their own, and
requests a component makes of itself come back over the loopback.

**The protocol in short.** The leader of a round proposes a tip (a signed block
header on a QC). Validators vote once a round; a supermajority of votes is a
QC. A QC on a block whose own QC is of the preceding round commits the block's
parent. If a round fails, validators time out, reporting their high tip (the
last tip they voted for that no QC has overtaken) or else their highest QC; a
supermajority of timeouts is a TC, which extends the highest thing reported.
If that is a tip, the next leader must propose it again, or collect
no-endorsements from a supermajority that lacks it (an NEC) to go around it.

**What is hard.** Votes, votes inside timeouts, and no-endorsements compete for
the same round in any order. Certificates overtake one another and are lost.
A restart forgets the high tip and everything signed in the current round.
Messages leave before the forkpoint is durable, what cached proposals lead to
after a restart is not checkpointed at all, and files are created before
they are written. Signatures are only checked when a supermajority is there.
Timers that were replaced still fire. Answers arrive after the request was
cancelled, retried or given to someone else. Several tables describe one set
and are updated apart. The `hazards` of `PROJECT.json` list these at their lines
with the properties that guard them.

**What makes each component correct.** Safety: at most one vote and one proposal
per round, and no QC and NEC of one round for conflicting tips. Handlers: one
QC per round, one chain of committed blocks, nobody goes back. Pacemaker: the
handler's assertion, no supermajority lying unused, no round ended by faulty
validators alone, and rounds that always end. Collections: nothing that still
counts is lost, nothing is built twice. Vote pacing: votes leave in order,
once, and always. Block tree: its assertions, one growing chain, and gaps that
are always being asked for. Block sync and state sync: everything asked for is
always being worked on in exactly one place. Epochs: what a node knows, or
writes, is what the chain says. Ledger: files that survive a crash in the
order they were written. Network parts: tables that agree, timers that cover
every deadline, no packet twice, no group two members disagree on.

## 2. Modules

| Module | Models | Extends or instantiates |
|---|---|---|
| `ConsensusTypes` | quorums, blocks, ranks, round certificates | |
| `Safety` | every method of `Safety`, as operators on a record | `ConsensusTypes` |
| `MonadBFT` | all validators together: handlers, certificates, restarts and crashes | `Safety` |
| `Schedules`, `MCCommit`, `MCLostQc` | behaviours of `MonadBFT` that begin with a given schedule | `MonadBFT` |
| `Pacemaker` | all validators' pacemakers, with bad signatures and lost messages | |
| `VoteState` | one validator's votes | |
| `NoEndorsementState` | one leader's no-endorsements, with crashes | |
| `VotePacing` | one validator's scheduled vote and vote timer | |
| `ValidatorSet` | the stake thresholds | |
| `BlockTree` | one validator's block tree, commits and block sync requests | |
| `FinalizedChain` | abstract: what consensus promises to execution | |
| `BlockSync` | one node's block sync, with its ledger, timers and peers | |
| `Ledger` | files, links and cache of one node, operation by operation | |
| `Epochs` | epoch starts, validator sets and the two files, over restarts | |
| `StateSync` | sync mode, client and thread of a node that is behind | |
| `WireAuth`, `ReplayFilter` | sessions of one socket; the window of one session | |
| `FullNodeGroups` | a publisher and full nodes of secondary raptorcast | |
| `LeanUdp` | encoder, network and the decoder's two pools | |
| `MCMonadBFT` | small instances of `MonadBFT` | `MonadBFT` |
| `MCTimers` | what must end, under fairness | `Pacemaker`, `VotePacing`, `BlockSync` |
| `SmallParts` | nine components with one module of proofs | extends `VoteState`; instances of `NoEndorsementState`, `VotePacing`, `ValidatorSet`, `Ledger`, `ReplayFilter`, `WireAuth`, `Epochs`, `StateSync` |
| `Parts` | all components but consensus and pacemaker side by side, for any constants | extends `SmallParts`; instances of the proof modules of the others |
| `MCParts` | values for the constants of `Parts` | `Parts` |
| `MCLedger`, `MCEpochs`, `MCNoEndorsementState` | instances for the findings | |
| `MonadBFT_proofs`, `Pacemaker_proofs`, `BlockTree_proofs`, `BlockSync_proofs`, `FullNodeGroups_proofs`, `LeanUdp_proofs` | the theorems about a component | the component, `TLAPS` |
| `SmallParts_proofs` | the theorems about the components of `SmallParts` | `SmallParts`, `TLAPS` |
| `Parts_proofs` | the theorems about the composition | `Parts`, `SmallParts_proofs` |

`Parts` and `MCTimers` put several components side by side. Their
variable `part` is chosen by the initial state and never changes; a behaviour is
one of that component alone, and the others rest. `part = "..." => P` is `P` in
that component; nothing is shared between parts.

**Blocks.** A block id is the hash of its header, so a block's round, its QC's
round, its parent and its ancestors are constant functions of the id
(`block_round`, `qc_round`, `parent`, `ancestors`). The header's QC is on the
parent, in round `qc_round`.

**`MonadBFT`.** Signed messages are grow-only sets; a handler may run on any of
them, at any time, again and again, or never. That is loss, delay, duplication
and reordering. A certificate exists once a quorum has signed its content, and
faulty validators count as having signed everything that passes validation
(`IsQc`, `TimeoutQuorum`, `IsNec`, `IsTip`, `ValidProposals`). A handler is a
composition of operators on a handler state (`Begin`, `ProcessQc`, `ProcessTc`,
`TryCommit`, `TryVote`, `TryPropose`, `LocalTimeout`, `NoEndorseTip`) in the
order of the code; `Finish` is the executor: what was sent is sent, and then the
state is kept and `forkpoint` written (`Checkpointed`), or the process stops in
between (`Crash`). It may also stop between two events (`Stop`). A validator that
has stopped is `syncing`, with what `Safety::new` makes of its forkpoint, and takes
no part. `MaybeStartConsensus` makes it live again: it times out at once, then handles up to `MaxCached`
proposals it has cached meanwhile, by the whole of `ProposalHandled`, and writes no forkpoint, because
`handle_validated_proposal` is called directly there and only `MonadState::update`
adds the checkpoint (`monad-state/src/lib.rs:1591`, `1010`). So a crash in a step, or one at any time
after cached proposals, finds a forkpoint that is behind what was sent. `behind` is a history of the
validators this has happened to, and `Stable` are the others. Every validator starts
from the genesis forkpoint, so nobody votes in round 1. The node that falls
so far back that it moves its root while it syncs is in `StateSync`, not here: a `syncing` validator
starts from the forkpoint it has read.

Where the outcome depends on data the model leaves out (is the block here,
executed, its timestamp valid, is the tip held), the operator gives the set of
possible outcomes. The one constraint kept is that a coherent block extends
the validator's root; the tree behind it is `BlockTree`. `Safety.handled_proposals` is left out: it only drops
further proposals of a round. `handle_timeout_message` appears here as the
certificates it may process (`HandleQc`, `HandleTc`) and in full in
`Pacemaker`. A vote is put out when `try_vote` casts it; `VotePacing` models the
delay. One epoch, with the leaders as a constant function of the round.

**`Pacemaker`.** Certificates are a round and a kind. `HandleTimeoutMessage` is the
whole handler: QC, vote, `last_round_certificate`, then
`process_remote_timeout` with joining at more than a third of the stake and TC
assembly that drops bad signatures and tries again. `expired` is a history of
timers, `panicked` records a failed assertion.

**`VoteState` and `NoEndorsementState`** have one validator receive any sequence of
messages that honest and faulty validators may send it while QCs and TCs move
it from round to round. `process_tc` does not call `start_new_round`, so
`earliest_round` lags behind the current round, as in the code. Round 1 stands
for the round the process starts in. A restart of `NoEndorsementState` is from
`forkpoint`; `StaleForkpoint` says whether that may be behind, for either of the two
reasons given at `MonadBFT`.

**`VotePacing`.** Scheduling a timer aborts the running one, but a timer that
has already completed is still delivered (`expired`). A restart begins a new
process in the current round or any earlier one; `sent` is what this process sent.

**`BlockTree`.** `node` is the part of `ConsensusState` around the tree; handlers are
compositions in the order of `process_qc`, `process_tc`, `try_add_and_commit_blocktree` and
`try_propose`, whose coherency updates hand blocks to execution too and whose
lookups ("there should be a path to root", "tip is coherent") may panic. The QCs and TCs that exist are a constant of the behaviour
(`world`), which separates the bookkeeping of one validator from the protocol that
makes certificates. A world is any one validation lets through (`WorldOk`), tips ahead
of their round included, as in `MonadBFT`. `Safe(world)` says that later certificates extend what two consecutive
rounds have committed. That is what consensus owes the block tree and, by finding 2, may fail; it is
a premise of `TreeNoPanic` and `GapRequested` (after a failed assertion, or on a fork that conflicts
with the root, no gap is asked for). The instance has safe worlds and an unsafe one; the
other two properties are checked, and proved, in both. `lagging` blocks are those whose coherency check may find execution
behind. `given` and `chain` are histories of what execution was handed and told
is final, and the refinement mapping to `FinalizedChain`: one step of a handler
may hand over and finalize several blocks, in order, each after its parent.
Block sync is seen from outside (`Emit`), and may answer a request that was just
cancelled. Of the blocks it delivers only the last, if nothing certifies it, may fail `validate_block`.

**`BlockSync`.** One record per `BlockSync` struct. Both requesters (state sync before
the node is live, consensus after) share it through `self_request_mode`. The
ledger answers fetches in order; peers answer anything, asked or not, at any
time. `pick_peer` is a free choice, nobody included. `wanted` is a history of the
ranges that were asked for and neither cancelled nor handed over.

**`Ledger`.** A command is a list of file operations (`todo`); `Crash` may come between
any two. A file is absent, torn (created, not written) or whole.

**`Epochs`.** The chain is given: block n has round `block_round[n]`; a validator set
is named by the first epoch it is for. The reader thread of
`triedb_val_set.rs`, the queue of the config file and both files are state.
`mode` names the assertion that stopped the node, if one did; a supervisor
restarts it.

**`StateSync`.** The loopback is polled before other events, as in the node. A
request is answered in up to `Chunks` pieces with one nonce, the last of which is marked
(the server, `ipc.rs`, cuts an answer by size and by a timer, so two answers to one request
may be cut differently); pieces arrive in any order
or not at all. A peer may refuse, or refuse the version, at any time, also one
that has answered. The database thread is external, modelled from how
`ffi.rs` talks to it.

**`WireAuth`.** What a message that fails a check does is nothing. The other side,
packets and cookies are free choices, so any session may complete, receive
or stay silent. A session has up to five deadlines; `timers` is the `BTreeSet` of
`api.rs`. The configuration (intervals, limits, peers) is chosen by `Init` from `Configs`.
`Terminate` ends a set of sessions at once, because what `terminate_session` does for one
does not depend on the others. **`ReplayFilter`** keeps the counter's width as `MaxCounter`, with saturating
addition. **`FullNodeGroups`** has messages in a grow-only set; another validator may
send full nodes any message that passes as its own. **`LeanUdp`** has a correct
sender, a network that loses, repeats and reorders, and an identity that
sends any fragment. Message ids wrap; a sender is assumed not to reuse an id
while the decoder can still hold the old message (2^16 messages take longer
than `message_timeout`).

## 3. Runs

Deadlock is only checked where a system cannot come to rest; with bounded
rounds, times and crashes these instances do.

| Run | Instance | States | Shows |
|---|---|---|---|
| `byzantine` | stakes 3/2/2, the faulty leader needs only h1, h2 may crash in a step or between two; rounds 2-3 with blocks | 307,619 | `OneQcPerRound`, `QcNotBeforeBlock`, `FreshQcCovered` |
| `restarts` | stakes 3/3/2, both honest needed; rounds 2-3, two blocks of round 2 by a faulty leader, h1 leads round 3 and may stop twice, in a step or between two, and start with a cached proposal | 213,264 | `TypeOK`, `StableVoteOnce`, `ProposeOnce`, `NecQcCompatible`, `TimeoutAssertions`, `NeverBack` |
| `commit` | four equal validators, all behaviours after a commit nobody has seen | 119,011 | `Agreement` |
| `timers` | pacemaker: stakes 3/2/2, three rounds; vote pacing: five rounds, a restart; block sync: two blocks, one slot | 60,551 | `NoPanic`, `QuorumUsed`, `TimerFirst`, `EveryRoundEnds`; `RetriesEnd` |
| `parts` | see below | 790,923 | 25 properties |
| `crash` | stakes 3/3/2, h1 may crash before its forkpoint write | violation | `VoteOnce` |
| `lost_qc` | four correct validators, one schedule | violation | `HighTipContainsHighQc` |
| `no_endorsement_crash` | a leader whose forkpoint may be behind when it restarts | violation | `NoPanic` |
| `torn_body` | three blocks, one crash | violation | `HeaderHasBody` |
| `epoch_valset`, `epoch_schedule` | eleven blocks, epochs of three, two restarts | violation | `SetsInOrder`, `NextEpochScheduled` |
| `statesync_peers` | two peers, two prefixes | violation | `PeerKnown` |

| Part of `parts` | Instance | Shows |
|---|---|---|
| votes | stakes 3/2/2, two blocks, two rounds, votes one round ahead | `OneQcBuilt`, `NothingLost` |
| no_endorsements | stakes 3/2/2, leads rounds 2 and 3, restarts with the forkpoint up to date | `NoPanic`, `NecMatchesTc`, `NecKept` |
| pacing | five rounds, one restart in any round up to the current | `VotesNoPanic`, `SentInOrder` |
| stakes | every set of up to four validators with 1 to 4 units of stake | `ThresholdsSound` |
| tree | four rounds, nine blocks besides genesis, three safe worlds and an unsafe one, leads round 2, a block whose execution may lag | `TreeNoPanic`, `GapRequested`, `RequestsAlive`, `FinalizesOneChain` |
| sync | two overlapping ranges, shared bodies, one slot, a peer that asks | `SyncNoPanic`, `SlotsExact`, `RequestAlive` |
| disk | three blocks, two of a round, two with one body, cache of two, one crash | `DiskOrdered` |
| epochs | eleven blocks with a skipped round, epochs of three, two restarts | `EpochsRight` |
| state | two peers, prefixes, pieces, targets and requests | `NothingForgotten` |
| wire | three configurations: three peers over two sockets and keys; two keys behind a socket; one peer with time for every deadline | `SessionsIndexed`, `TimersCover` |
| filter | 4 bits of window, counters to 11 | `FilterExact` |
| rivals, company, courted | two full nodes for one place or two; two validators that want one node | `GroupsAgree`, `PromisesBounded` |
| crammed, roomy | pools of one message shared with a faulty identity; larger pools and ids that wrap | `PoolsConsistent`, `ReassemblyExact` |

**Why the bounds are enough.** Two rounds with blocks are the fewest in which a
round can be certified, timed out and left by different certificates, and an NEC
may follow a TC that carries a tip. Two crashes (`restarts`) are the fewest in which a cached proposal is handled
without a checkpoint and the next process starts behind it.
Weighted stakes make the quorum of two validators meaningful: with 3/2/2 one
honest validator and the faulty one are a quorum, with 3/3/2 both honest ones
are needed. Timer expiries are bounded by `MaxTimerRound`, which leaves the last
round to voting. In the `MC` instances round 1 has no block. `FUTURE_VOTE_BOUND` is 1 or 2
instead of the code's value; what matters is that rounds ahead can be skipped
and reached. The tree's worlds are a chain without a failed round, one
with a round skipped, one with siblings certified in turn, and one in which two conflicting chains
are committed; each with all TCs that fit its QCs, tips ahead of their round among them. Gaps of two blocks, dead forks and blocks that
arrive before their parents all occur. Limits (slots, cache, pools, group size,
sessions) are 1 to 3, so that they are hit, exceeded and freed. The replay
window is passed over several times, and the saturation of the counter is
reached. Each property's mutant in `PROJECT.json` shows that its run reaches the
states in which the property could fail.

**Fairness** (`MCTimers`). Pacemaker: every expiry reschedules its timer and sends the
Timeout message again, so timers keep expiring and what an honest sender is
still resending (the Timeout of the round it is in) arrives at last. Nothing
else is assumed to arrive, neither advance-round messages nor QCs, and nothing
is assumed of faulty validators. Vote pacing: a tokio timer completes, and the
event loop takes what has completed. Block sync: the ledger answers, timers
complete, and, since `pick_peer` draws at random at every retry, a peer that can
deliver is asked, and delivers, again and again unless the range is there
(strong fairness of `HandleTimeout` and `Delivers`).

## 4. Findings

1. **A crash between router and config file allows a double vote** (`crash`).
   `ParentExecutor::exec` hands messages to the router
   (`monad-updaters/src/parent.rs:152`) before the forkpoint is written (line
   158). If the step entered a round and voted in it, a process that stops in
   between starts from the older certificate and may vote for another block
   in the same round. `docs/0003_forkpoint.md:30` promises the forkpoint prevents
   double voting. A second way to the same end needs no bad moment: a restarted validator
   handles the proposals it cached while syncing without a checkpoint
   (`monad-state/src/lib.rs:1591`), so a restart after that starts before the rounds it has
   entered, voted and proposed in. What the forkpoint does achieve is stated by
   `StableVoteOnce`, `ProposeOnce` and `NeverBack`: of a validator no crash has found with
   its forkpoint behind. One QC per round survives as long as quorums overlap in
   such validators (`byzantine`, theorem `OneQc`).
2. **A validator can forget a QC it has seen** (`lost_qc`). `Pacemaker::process_certificate`
   replaces the high certificate by a TC of a later round with an older QC, and
   `Safety` keeps or sets a high tip by its `block_round` alone. After one restart,
   four correct validators abandon a certified block, and a validator ends with
   a high tip whose QC is older than one it has processed, against the comment at
   `safety.rs:46`. The comment's second half (line 47, `timeout.high_tip_round > timeout.high_qc_round`)
   does hold and is proved (`TimeoutNeverPanics`). The abandoned block was
   certified but not committed. Where a faulty validator leads, the model also has behaviours
   in which a QC that commits is forgotten by the TC of a later round. Agreement
   depends on that not happening and, as everything else, on quorums that overlap in stable validators: `CommitsReported` says that TCs
   extend at least the block a committing QC certifies, `Agreement` has it as its premise, and
   theorem `CommitsAgree` proves it for any number of validators, blocks, rounds and crashes.
3. **An NEC can be built twice** (`no_endorsement_crash`). A leader that crashed after
   its recovery request with its forkpoint behind (see finding 1) gets the answers while
   in an earlier round, builds the NEC, and lowers `earliest_round` again when it
   processes an older QC; the next no-endorsement fails the assertion at
   `no_endorsement_state.rs:165`. In the same circumstances the NEC may not match
   the TC the leader enters the round with (its proposal is rejected), and an
   NEC of a later round may close an earlier one.
4. **A torn block body is never repaired** (`torn_body`). `write_bft_body` creates the file
   under its final name, then writes it (`monad-block-persist/src/lib.rs:178`); an
   existing file is skipped. After a crash in between, the header is written
   next to a body that cannot be read, although the payload is "written first so
   that header always points to payload that exists" (`monad-ledger/src/lib.rs:175`).
   Likewise a crash between `symlink` and `rename` (line 79) leaves a `.wip` link on which every
   later update of that head fails.
5. **A restart after an epoch boundary can stop at once** (`epoch_valset`). The sets of
   the forkpoint are told to the config file first, then the updater delivers the
   set of the boundary block again, and `config_file.rs:188` asserts that each set
   is of the next epoch; `validators_epoch_mapping.rs:87` expects the repetition.
6. **A forkpoint can lose the start of the next epoch** (`epoch_schedule`). A checkpoint
   leaves out an epoch whose validator set is not known yet
   (`monad-consensus-state/src/lib.rs:1399`). A node restarted from it never
   commits the boundary block again, on which `epoch_manager.rs:56` counts.
7. **State sync asks a peer it has dropped** (`statesync_peers`). A refusal removes the
   peer but not its place in `prefix_peers`; the request that was put back is sent
   to it, and `expect("peer not found")` fails (`outbound_requests.rs:387`).

Smaller observations, met while modelling and not stated as runs: `disconnect`
(`monad-wireauth/src/api.rs:793`, "removes all sessions with the given public key") leaves
an older initiating session of the key to its timeout; `max_session_duration` ends a
session without the rekey that `monad-wireauth/README.md:162` mentions; at the high
watermark answers to one's own handshakes are refused too; the counter
`u64::MAX` passes the replay window repeatedly, and once `next` is saturated fresh
counters of the window may be refused (hence the exemptions of `FilterExact`);
after a commit under equivocation a block of a dead fork survives `prune` when its QC is recent
enough, against the comment at `blocktree.rs:149`; a state sync prefix stays with the
peer that answered it first, also after that peer has gone silent; a block body
shared by two blocks leaves the ledger's cache with the first of them.

## 5. Proofs

Every theorem is for all values of the constants that meet the named assumptions.
Those of `ConsensusTypes`, `MonadBFT`, `Pacemaker` and `VoteState` are `ASSUME`s of
the module; the other components define `ConstantsOk`, which is a hypothesis of
their theorems and part of the assumptions `SmallConstantsFit` and `ConstantsFit` of
`SmallParts` and `Parts`. TLC evaluates all
of them on the instances of the runs.

| Module | Theorem | Statement |
|---|---|---|
| `MonadBFT_proofs` | `TypeCorrect` | type correctness |
| | `NoDoubleVote`, `OneProposal` | `StableVoteOnce`, `ProposeOnce`: of the validators no crash has found with the forkpoint behind |
| | `OneQc`, `NecCompatible`, `NoEarlyQc` | `OneQcPerRound`, `NecQcCompatible`, `QcNotBeforeBlock`, while any two quorums overlap in such a validator (`StableOverlap`) |
| | `CommitsAgree` | `Agreement`, under the same hypothesis: with `CommitsReported`, roots lie on one chain |
| | `CommitsExtended` | under the same hypothesis and `CommitsReported`, every later QC and TC extends what a committing QC commits, which is `Safe` of `BlockTree`, and every QC in use exists |
| | `CertifiedIsReported` | `FreshQcCovered`, if any two quorums overlap in an honest validator that never restarts |
| | `TimeoutNeverPanics` | `TimeoutAssertions` |
| | `NobodyGoesBack` | `NeverBack`, an action property: only a crash with the forkpoint behind takes a validator back, never below its forkpoint |
| `Pacemaker_proofs` | `RemoteTimeoutNeverPanics`, `TimeoutsAreUsed`, `TimersComeFirst` | `NoPanic`, `QuorumUsed`, `TimerFirst` |
| `BlockTree_proofs` | `TreeNeverPanics`, `GapsAreRequested`, `RequestsStayAlive` | `TreeNoPanic`, `GapRequested`, `RequestsAlive` (the first two in safe worlds) |
| | `ImplementsFinalizedChain` | the refinement: `Spec => FinalizedChain` under the mapping, in all worlds |
| `BlockSync_proofs` | `AssertionsHold`, `SlotsAreCounted`, `RangesStayAlive` | `SyncNoPanic`, `SlotsExact`, `RequestAlive` |
| `FullNodeGroups_proofs` | `PromisesStayBounded`, `GroupsStayAgreed` | `PromisesBounded`, `GroupsAgree` |
| `LeanUdp_proofs` | `PoolsStayConsistent`, `NoMessageIsMixed` | `PoolsConsistent`, `ReassemblyExact` |
| `SmallParts_proofs` | `OneQcIsBuilt`, `NoVoteIsLost` | `OneQcBuilt`, `NothingLost` of `VoteState` |
| | `NoNecTwice`, `NecIsOfTheTip`, `NecIsKept` | `NoPanic`, `NecMatchesTc`, `NecKept` of `NoEndorsementState`, for restarts with the forkpoint up to date (`StaleForkpoint = FALSE`; finding 3 is what happens otherwise) |
| | `NoVoteWaitsTwice`, `VotesLeaveInOrder` | `VotesNoPanic`, `SentInOrder` of `VotePacing` |
| | `TimerIsRunning` | a vote timer runs or has expired, so no scheduled vote is left without one |
| | `ExactlyOnce` | `FilterExact` of `ReplayFilter`, for every width of window and counter |
| | `QuorumsIntersect` | `ThresholdsSound` of `ValidatorSet`: for any finite set of validators and any stakes |
| | `FilesStayOrdered` | `DiskOrdered` of `Ledger` |
| | `TablesAgree`, `NoDeadlineMissed` | `SessionsIndexed`, `TimersCover` of `WireAuth`, for any peers, limits and intervals |
| | `EpochsAreRight` | `EpochsRight` of `Epochs`, for every chain of blocks with increasing rounds |
| | `NothingIsForgotten` | `NothingForgotten` of `StateSync`, for any number of prefixes and answers of any number of pieces |
| `Parts_proofs` | `NecsAreBuiltOnce` to `OneChainIsFinalized` | the properties of `Parts`, which restate those of a component |

Each rests on an inductive invariant: theorem `Invariance` of its module, and in
`SmallParts_proofs` `VotesInvariance`, `NecInvariance`, `PaceInvariance`, `FilterInvariance`,
`WireInvariance`, `EpochInvariance`, `SyncInvariance`;
`MonadBFT` has two more, `CertificateInvariance` and `CommitInvariance`.

**`MonadBFT`, the votes.** None of the properties is inductive. `StableVoteOnce` needs to
know that `highest_vote` bounds every vote signed, which a timeout's vote for the
high tip would break unless a vote already cast in the current round was for
that tip. `IInv` is therefore the conjunction of

- `TypeOK`, and that no vote is of round 0;
- `CertOk`, `ProposalOk`: certificates and proposals name the QC round of the tip
  they carry;
- `RoundBounds`, of every honest validator: it has acted in no round above its
  current one, and its high tip is above every QC its `Safety` knows;
- `ForkpointOk`: the forkpoint is never ahead of the validator;
- of every `Stable` validator (one no crash has found with the forkpoint behind what it has
  sent): `VotesOk` (votes are bounded by `highest_vote`; one of the current round
  is for the high tip, if there is one; one block a round), `NesOk` (the same
  for no-endorsements, whose tip is remembered while a vote may follow; votes
  and no-endorsements of a round are compatible) and `ProposalsOk`.

Each operator of a handler preserves `Good(n, st)`, the same predicate on a
handler's state and what it has emitted so far (lemmas `GoodAdvance` to
`GoodNoEndorse`), and so does any number of cached proposals, one after the other; writing back a good state re-establishes `IInv` (`WriteOk`), and
what a crash leaves is a good state again, unless the validator is then `behind`. Blocks voted for ahead of their
round, which `well_formed_proposal` lets through, are why `NecQcCompatible` has
its exemption and `NesOk` speaks of `InTime`.

**`MonadBFT`, the certificates.** That a block is not certified before its round
does not follow from what any one validator does: votes ahead of the round are
possible. But the TC or NEC that makes such a proposal valid comes from a
quorum that has left the rounds before. `CInv`, inductive relative to `IInv`,
calls a block *barred* when a quorum's stable members have not voted for it
early and cannot any more, and says that every vote, proposal, high tip and
certificate in use is of a block in time or barred. For `FreshQcCovered` it
adds that a validator which never restarts reports, in each timeout of a round
in which it voted for the round's own block, that block (`ReportsOk`); a restart
forgets the high tip, hence the hypothesis.

**`MonadBFT`, the commits.** `AInv`, inductive relative to the two before, says where everything
comes from. A block is *justified* in a round when its QC exists and is of the round before, or is
the one a TC of the round before extends. Certificates, proposals and recovery requests in use exist
and are justified (`CertReal`, `ProposalReal`), and a root was committed by a QC (`RootReal`). A vote
or a high tip of a stable validator is for a block justified in that round or an earlier one, since
when the validator has voted for no other (`VotesJustified`, `TipJustified`); and no-endorsements
follow TCs (`NesHigh`). If a QC commits, its quorum voted for a block of the next round on the block
it commits, and `OneQcPerRound` rules out another QC of those two rounds. A later QC is on a
block that a QC or a TC of some round justified; by `CommitsReported` that TC extends at least the
certified block. So later certificates extend the committed block
(`CommitsKept`), and roots lie on one chain. Without `CommitsReported` the step from a TC fails: a validator's timeouts would have to report at least
what it has certified before, but `local_timeout_round` (`monad-consensus/src/pacemaker.rs:244`)
reports the QC of the latest certificate, and `Safety` drops the high tip once a QC of its round
or later is known (`safety.rs:116`, `safety.rs:143`); after a later TC with an older QC it reports
less than it has seen (finding 2).

**`Pacemaker`.** `IInv` adds to the three properties that every certificate is backed
by timeouts or a QC that exist (`Justified`), and that pending timeouts were sent (`PendingSent`).
An assumption ties the two thresholds together: a supermajority contains a set
that passes `has_honest_vote`, and that one an honest validator.

**`VoteState`, `NoEndorsementState`.** Both need that built certificates lie below
`earliest_round`, which never falls, that honest senders are never barred, and
that no collection sits on a supermajority; the no-endorsements also that honest
ones answer the leader's own request, which is where a crash before the forkpoint
write would break the argument.

**`VotePacing`, `ReplayFilter`, `LeanUdp`.** Votes are ordered because a vote that
is waiting is above those sent and at most `highest_vote` (`VotesBounded`). The replay window's ring
holds exactly the accepted counters of the window (`RingExact`); two counters less
than a window apart have different places, which needs the division lemmas. In
a pool of `LeanUdp` counts are cardinalities, both indices list exactly the messages
held (`Tables`), and what is held under a correct sender's key is of one message, that of the
fragments still on their way unless it is stale (`HeldExact`), which covers ids
that have come round.

**`BlockTree`.** A handler is a chain of calls on a record, so the invariant is split as the
handlers are: `Fit` (types, the tree is closed under ancestors where it is coherent,
`chain` is the path to `root`, requests are for blocks of rounds that have ended) holds
after every call, `Good` and `GapOk` again at the end of each handler, and `Step` says
what a call may do to the rest: `chain` and `given` only grow, a block once settled (in
the tree or too old) stays settled, and no request loses its counterpart in block
sync. That `prune` finds its path and the commit its coherent blocks comes from
`HighOk`: in a safe world the highest QC is above everything committed before its round. A block that
`try_propose` proposes again is looked up only after the update that made it coherent. The refinement
does not need a safe world: an unsafe one ends in a failed assertion before anything leaves. Two calls loop: making the descendants of a block
coherent, and adding a range of blocks. Both are functions of a set or a number, and
their lemmas are proved by taking a least counterexample. The refinement follows
from `Step`: what a handler appends to `chain` it appends in order, on blocks given.

**`FullNodeGroups`.** `PubOk` orders the publisher's schedule: groups to come do not
overlap and start after the current one. `Told` is what a confirmation says of a group as long
as the publisher has it; confirmations in flight (`ConfirmsOk`) and groups full nodes
hold (`ClientsTold`) are told, and no action of the publisher makes something told
untrue, because a group that was confirmed is locked. Promises are bounded round by round
(`Bounded`): the handler of an invitation counts overlapping promises, which is at
least the number in any one round of the span, and a confirmation replaces a
promise by a group of the same span.

**`WireAuth`.** Inside `insert_transport` the tables disagree: a list that is full has lost
the session it evicts, which the other table, under another key or address, may
still have. `Almost(S, ids)` says that the tables, the handshakes and the counters
describe one set of sessions except that the two tables of established sessions may
lack `ids`. Pushing a session keeps that for what it evicts, and terminating those
re-establishes `Almost(S, {})`. Counts are cardinalities, so the saturating subtraction
never saturates. Timers (`Covered`) differ between the kinds of session. For an established
one some timer is no later than its next deadline: a packet that moves a deadline
sets a timer for what is then the earliest one, whichever entry `replace_timer` removes,
and so does a tick. A handshake has a timer at exactly its timeout, which is needed
because an older timer of a reused index that goes off during the handshake sets no
other.

**`Epochs`.** What a restart can rely on is what the two files say together. `validators.toml` is
written apart from the forkpoint, may be older or newer, and may hold a wrong set for an
epoch after the activation of staking. `FilesOk` is what survives: the forkpoint is right
(`ForkpointOk`); sets from before the activation are right wherever they are (`EarlyOk`); and
`validators.toml` has a set for an epoch no later than that of the forkpoint's root, so that
`get_validator_set` finds one for each locked epoch. The last part needs that by the last block of
an epoch the epoch has begun (`EpochBeforeBoundary`), and that the epoch of the root grows with it.
`SyncOk` and `LiveOk` describe the two modes: before the comparison with the database the
sets may be wrong, after it every set is right, every request outstanding is for a boundary block that is
committed, and at most one command waits for the files. Assumed of the constants: rounds
increase with the blocks, `epoch_start_delay` is at most `epoch_length` and so is
`2 * execution_delay` (5000, 50000 and 3 in the code). Without the last one the blocks
notified again at the start could reach back before the epochs `validators.toml` covers.

**`StateSync`.** The property speaks of the prefixes the thread waits for; the difficulty is in
the two queues between client and thread, in which messages of an old target and of
new ones can be at once. `OnItsWay` describes a target from the thread taking it to its `DoneSync`
reaching the node. Requests and pieces in the queues are of the thread's current
target, and new targets in the inbox increase (`Following`). A `DoneSync` is the first message of the outbox,
the client then asks for nothing and the inbox holds only later targets (`DoneAt`). A prefix is asked for
once, and nothing of it follows its last piece (`Once`). What is left is
asked for or completely answered (`AllAsked`). The assertions of the code follow: `NodeOk` lets a target
start only above the last one, so a `DoneSync` for the node's root finds nothing of a later
target under way; `AnswersOk` tells responses apart by nonce and index, so no index comes
twice among the pieces kept, and the marked one has the highest index of its nonce, so only the end of what is handed over can be it.
Assumed is that an answer has at least one response. The assertion
`peer not found` does fail (finding 7); the theorem is that no other one does, and that up
to it nothing is lost.

**`BlockSync`.** `Sound` relates requests, bodies, slots and completed ranges on a `BlockSync`
record and is preserved by each of its operators; `Full` says a body waits only if
all slots are taken, `Settled` that between steps no command is left to run. The
part that is easy to get wrong is `AllAwaited`: every request that was made waits
for an answer of the ledger or has a timer, running or expired and not handled.
Handling an event uses up its answer or timer, so the handler is shown to put
another in its place for whatever is left, through cancellation, a change of
requester, cached bodies and bodies shared by two ranges.

**`ValidatorSet` and `Ledger`.** Thresholds are about sums over finite sets of
validators. The library's induction theorems take an operator, which the provers
cannot instantiate; `SmallParts_proofs` derives induction from least elements instead
(`LeastNumber`, `SubsetInduction`: a set of counterexamples has a smallest one)
and proves what a sum over a union is. `DiskInv` says of the operations still to do
that a header's creation comes after its body's, and the renaming of a link after the
creation of the header it names, unless the file is there already; a crash drops
the rest of the list and keeps the files.

**The composition.** A behaviour of `Parts` stays in its part and is there a behaviour
of the component with the record's fields as constants (lemmas `In...`). `Parts` instantiates the proof
modules themselves, so the component's theorem is cited under the substitution.
These theorems name the very definitions the run `parts` checks.

**Model-checked only.** Liveness: `EveryRoundEnds`, `RetriesEnd`. Fairness and `ENABLED` are out of the prover's reach.

## 6. Not modelled

Contents of blocks, transactions, execution results, timestamps and base fees
(free choices where a handler depends on them): their rules are over Ethereum
state and wide integers, which TLC cannot enumerate. Leader election, a
pseudo-random function of the round (a constant here), and consensus across an
epoch boundary (`Epochs` has the boundary, `MonadBFT` one epoch). The state sync
server's batches and acknowledgements, and the execution process behind it (`StateSync` has the pieces
it sends). A node that moves its root while syncing, in `MonadBFT`; the shortcut
past state sync when execution already has the root's state. RaptorCast's coding, peer
discovery and the data plane, whose effect is taken as loss, delay,
duplication, reordering and a free choice of peers. The transaction pool,
seen only as a proposal that comes late or not at all. Cryptography, assumed
unforgeable and collision-free. RPC, archive, configuration, operator commands
and test code, which decide nothing. `PROJECT.json` lists each with its reason.
These are also most of the repository's lines.

## 7. Plan

Modelled: consensus with crashes, its collections and timers, block tree, block
sync, state sync, epochs, ledger, wire sessions, replay window, full node groups,
lean UDP. Proved: all safety properties of consensus, those of the
pacemaker, the collections, vote pacing, stake thresholds, block tree, block sync, the
ledger's files, epochs, state sync, wire sessions, the replay window, full node groups and lean UDP, and that the
block tree implements `FinalizedChain`.
