------------------------------- MODULE Epochs -------------------------------
(***************************************************************************)
(* How one node learns when epochs start and who validates in them, and    *)
(* what it keeps of that over a restart: the epoch manager, the map of     *)
(* validator sets, the updater that reads them from the state database,    *)
(* forkpoint and validators.toml.  The chain itself is given: block n of   *)
(* it is of round block_round[n].  A validator set is named by the first   *)
(* epoch it is for.                                                        *)
(* Source: monad-validator/src/epoch_manager.rs and                        *)
(* validators_epoch_mapping.rs, monad-updaters/src/triedb_val_set.rs and   *)
(* config_file.rs, monad-state/src/lib.rs, monad-consensus-state/src/lib.rs. *)
(***************************************************************************)
EXTENDS Integers, Sequences, FiniteSets, FiniteSetsExt

CONSTANTS
    block_round,        \* rounds of blocks 1, 2, ...
    epoch_length, epoch_start_delay, execution_delay, staking_activation,
    MaxCrashes          \* bound on crashes

VARIABLES
    mode,               \* "sync" | "live" | the assertion that failed
    root,               \* last committed block
    epoch_starts,       \* EpochManager: epoch -> round
    validator_map,      \* ValidatorsEpochMapping: epoch -> set
    requests,           \* boundary blocks the reader thread was asked for
    valsets,            \* [epoch, set] the updater has for the node
    finalized,          \* last block the state database finalized
    config_queue,       \* commands for ConfigFile, not executed yet
    last_validator_set, \* epoch of ConfigFile's last set, 0 for none
    forkpoint,          \* file: [root, sets]; sets: epoch -> start round
    validators_toml,    \* file: epoch -> set
    crashes

vars == <<mode, root, epoch_starts, validator_map, requests, valsets, finalized, config_queue,
          last_validator_set, forkpoint, validators_toml, crashes>>
files == <<forkpoint, validators_toml>>

Block == 1..Len(block_round)
Round(n) == IF n = 0 THEN 0 ELSE block_round[n]
With(f, x, v) == [y \in DOMAIN f \cup {x} |-> IF y = x THEN v ELSE f[y]]
Only(x, v) == [y \in {x} |-> v]

(* Rounds increase with the blocks; an epoch starts before its last block, *)
(* and is much longer than execution lags behind (50000, 5000 and 3).      *)
ConstantsOk ==
    /\ block_round \in Seq(Nat)
    /\ \A m, n \in 0..Len(block_round) : m < n => Round(m) + (n - m) <= Round(n)
    /\ epoch_length \in Nat \ {0} /\ epoch_start_delay \in 0..epoch_length
    /\ execution_delay \in Nat /\ 2 * execution_delay <= epoch_length
    /\ staking_activation \in Nat

is_boundary_block(n) == n % epoch_length = epoch_length - 1
get_locked_epoch(n) == n \div epoch_length + 2
BoundaryBefore(e) == (e - 1) * epoch_length - 1

(* What the chain says: epoch 1 starts with it, and each other one a delay *)
(* after the last block of the epoch before; its set is the one the state  *)
(* database has, or the first one for ever before staking is activated.    *)
StartOf(e) == IF e = 1 THEN 0 ELSE Round(BoundaryBefore(e)) + epoch_start_delay
EpochOf(n) == Max({e \in 1..get_locked_epoch(n) : BoundaryBefore(e) < n /\ StartOf(e) <= Round(n)})
SetOf(e) == IF e < staking_activation THEN 1 ELSE e

get_epoch(r) == Max({e \in DOMAIN epoch_starts : epoch_starts[e] <= r})
Live == mode = "live"
Running == mode \in {"sync", "live"}

(* ValidatorsConfig::get_validator_set *)
get_validator_set(e) == validators_toml[Max({f \in DOMAIN validators_toml : f <= e})]

ConfigSet(e, set) == [command |-> "set", epoch |-> e, value |-> set]
ConfigCheckpoint(f) == [command |-> "checkpoint", epoch |-> 0, value |-> f]

(* The state a process starts with: the locked sets of the forkpoint are   *)
(* taken from validators.toml and told to everyone as if they had arrived. *)
Load(f) ==
    /\ mode' = "sync"
    /\ root' = f.root
    /\ epoch_starts' = f.sets
    /\ validator_map' = [e \in DOMAIN f.sets |-> get_validator_set(e)]
    /\ LET first == Min(DOMAIN f.sets)
           last == Max(DOMAIN f.sets)
       IN config_queue' = [i \in 1..last - first + 1 |-> ConfigSet(first + i - 1, get_validator_set(first + i - 1))]
    /\ requests' = <<>> /\ valsets' = <<>> /\ last_validator_set' = 0

Init ==
    /\ forkpoint = [root |-> 0, sets |-> Only(1, 0)]
    /\ validators_toml = Only(1, 1)
    /\ mode = "sync" /\ root = 0
    /\ epoch_starts = Only(1, 0) /\ validator_map = Only(1, 1)
    /\ config_queue = <<ConfigSet(1, 1)>>
    /\ requests = <<>> /\ valsets = <<>> /\ last_validator_set = 0
    /\ finalized = 0 /\ crashes = 0

-----------------------------------------------------------------------------
(* The boundary blocks from first to last, in order.                       *)
BoundaryBlocks(first, last) ==
    [i \in 1..((last + 1) \div epoch_length - first \div epoch_length) |->
       (first \div epoch_length + i) * epoch_length - 1]

(* ValSetCommand::NotifyFinalized for the blocks from first to last: the   *)
(* set an epoch has is read from validators.toml before staking is         *)
(* activated and requested from the reader thread after.                   *)
Notify(first, last) ==
    LET staked == Max({0, (staking_activation - 2) * epoch_length})
        toml == BoundaryBlocks(first, Min({last, staked - 1}))
        FromToml(e) == [epoch |-> e, set |-> get_validator_set(e)]
    IN /\ requests' = requests \o BoundaryBlocks(Max({first, staked}), last)
       /\ valsets' = valsets \o [i \in DOMAIN toml |-> FromToml(get_locked_epoch(toml[i]))]

(* Mutant: every epoch that is known is written                            *)
CheckpointAll(r, starts) ==
    [root |-> r, sets |-> [e \in DOMAIN starts \cap DOMAIN validator_map |-> starts[e]]]

(* ConsensusState::checkpoint: the epoch of the root and, once it is both  *)
(* scheduled and known, the next one.                                      *)
Checkpoint(r, starts) ==
    [root |-> r,
     sets |-> [e \in {EpochOf(r), EpochOf(r) + 1} \cap DOMAIN starts \cap DOMAIN validator_map |-> starts[e]]]

(* maybe_start_consensus, once the database is in sync: the last blocks    *)
(* are told to the updater again, and the locked sets compared with what   *)
(* the database holds.  It is read as of execution_delay blocks below the  *)
(* root (a TODO in the code asks for the root itself); here its answer is  *)
(* the chain's set for the epoch in either case.                           *)
GoLive ==
    /\ mode = "sync" /\ config_queue = <<>>
    /\ Notify(Max({1, root - 2 * execution_delay + 1}), root)
    /\ mode' = IF \A e \in DOMAIN forkpoint.sets : e >= staking_activation => validator_map[e] = SetOf(e)
               THEN "live" ELSE "unexpected locked epoch valset"
    /\ UNCHANGED <<root, epoch_starts, validator_map, finalized, config_queue, last_validator_set, files, crashes>>

Schedule(first, last) ==
    LET boundary == {n \in first..last : is_boundary_block(n)}
        Start(e) == Round(BoundaryBefore(e)) + epoch_start_delay
        next == {get_locked_epoch(n) : n \in boundary}
    IN [e \in DOMAIN epoch_starts \cup next |-> IF e \in DOMAIN epoch_starts THEN epoch_starts[e] ELSE Start(e)]

Conflicting(first, last) ==
    \E n \in first..last : /\ is_boundary_block(n)
                           /\ get_locked_epoch(n) \in DOMAIN epoch_starts
                           /\ epoch_starts[get_locked_epoch(n)] # Round(n) + epoch_start_delay

(* try_commit of the blocks up to n.  A block reaches it only when its     *)
(* proposal passed epoch_to_validators: the node puts its round in the     *)
(* epoch the block names, and has the set of that epoch.                   *)
Commit(n) ==
    /\ Live /\ config_queue = <<>>
    /\ n > root
    /\ \A m \in (root + 1)..n : get_epoch(Round(m)) = EpochOf(m) /\ EpochOf(m) \in DOMAIN validator_map
    /\ root' = n
    /\ epoch_starts' = Schedule(root + 1, n)
    /\ Notify(root + 1, n)
    /\ LET f == Checkpoint(n, epoch_starts') IN
         /\ config_queue' = <<ConfigCheckpoint(f)>>
         /\ mode' = IF Conflicting(root + 1, n) THEN "conflicting epoch start round"
                    ELSE IF EpochOf(n) \notin DOMAIN f.sets THEN "no validator set for base epoch" ELSE mode
    /\ UNCHANGED <<validator_map, finalized, last_validator_set, files, crashes>>

(* A checkpoint is also taken with each round that is entered.             *)
EnterRound ==
    /\ Live /\ config_queue = <<>>
    /\ LET f == Checkpoint(root, epoch_starts) IN
         /\ f # forkpoint
         /\ config_queue' = <<ConfigCheckpoint(f)>>
         /\ mode' = IF EpochOf(root) \notin DOMAIN f.sets THEN "no validator set for base epoch" ELSE mode
    /\ UNCHANGED <<root, epoch_starts, validator_map, requests, valsets, finalized, last_validator_set, files, crashes>>

-----------------------------------------------------------------------------
(* The reader thread waits for the database to finalize the block.         *)
ReadValset ==
    /\ Running /\ requests # <<>>
    /\ finalized >= Head(requests)
    /\ valsets' = Append(valsets, [epoch |-> get_locked_epoch(Head(requests)), set |-> SetOf(get_locked_epoch(Head(requests)))])
    /\ requests' = Tail(requests)
    /\ UNCHANGED <<mode, root, epoch_starts, validator_map, finalized, config_queue, last_validator_set, files, crashes>>

UpdateValidators ==
    /\ Running /\ valsets # <<>> /\ config_queue = <<>>
    /\ LET v == Head(valsets) IN
         /\ mode' = IF v.epoch \in DOMAIN validator_map /\ validator_map[v.epoch] # v.set
                    THEN "validator set mismatch" ELSE mode
         /\ validator_map' = With(validator_map, v.epoch, v.set)
         /\ config_queue' = <<ConfigSet(v.epoch, v.set)>>
    /\ valsets' = Tail(valsets)
    /\ UNCHANGED <<root, epoch_starts, requests, finalized, last_validator_set, files, crashes>>

(* ConfigFile::exec: both files are replaced by a rename.  validators.toml *)
(* holds the last set of this process and the one before it.               *)
WriteCheckpoint(f) ==
    /\ forkpoint' = f
    /\ UNCHANGED <<mode, last_validator_set, validators_toml>>

WriteValidatorSet(e, set) ==
    /\ last_validator_set' = e
    /\ mode' = IF last_validator_set \in {0, e - 1} THEN mode ELSE "validator set out of order"
    /\ validators_toml' =
         IF mode' # mode \/ e < staking_activation THEN validators_toml
         ELSE IF last_validator_set = 0 THEN Only(e, set)
         ELSE With(Only(e, set), e - 1, validator_map[e - 1])
    /\ UNCHANGED forkpoint

ExecConfig ==
    /\ Running /\ config_queue # <<>>
    /\ LET c == Head(config_queue) IN
         \/ c.command = "checkpoint" /\ WriteCheckpoint(c.value)
         \/ c.command = "set" /\ WriteValidatorSet(c.epoch, c.value)
    /\ config_queue' = Tail(config_queue)
    /\ UNCHANGED <<root, epoch_starts, validator_map, requests, valsets, finalized, crashes>>

(* Execution, another process, finalizes what the ledger has.              *)
DbFinalizes ==
    /\ finalized < root
    /\ finalized' = finalized + 1
    /\ UNCHANGED <<mode, root, epoch_starts, validator_map, requests, valsets, config_queue, last_validator_set, files, crashes>>

(* The process dies, or has died of an assertion, and is started again.    *)
Restart ==
    /\ crashes < MaxCrashes
    /\ crashes' = crashes + 1
    /\ Load(forkpoint)
    /\ UNCHANGED <<finalized, files>>

Next ==
    \/ GoLive \/ EnterRound \/ ReadValset \/ UpdateValidators \/ ExecConfig \/ DbFinalizes \/ Restart
    \/ \E n \in Block : n <= root + 2 /\ Commit(n)

Spec == Init /\ [][Next]_vars

-----------------------------------------------------------------------------
(* Whatever is committed, read, crashed and reloaded, the node's epochs    *)
(* are the chain's: every start it has scheduled is right, a live node's   *)
(* sets are right (the comparison with the database stops it when          *)
(* validators.toml lost one), a forkpoint has the epoch of its root and at *)
(* most the next one, so that it passes Forkpoint::validate, and the       *)
(* assertions on a second insertion never fail.                            *)
EpochsRight ==
    /\ \A e \in DOMAIN epoch_starts : epoch_starts[e] = StartOf(e)
    /\ Live => \A e \in DOMAIN validator_map : validator_map[e] = SetOf(e)
    /\ EpochOf(forkpoint.root) \in DOMAIN forkpoint.sets
    /\ \A e \in DOMAIN forkpoint.sets : e \in {EpochOf(forkpoint.root), EpochOf(forkpoint.root) + 1}
                                        /\ forkpoint.sets[e] = StartOf(e)
    /\ Running \/ mode \in {"validator set out of order", "unexpected locked epoch valset"}

(* "On consensus restart, the same validator set might be inserted a       *)
(* second time when we commit the same boundary block again": inserting it *)
(* again is no error.                                                      *)
SetsInOrder == mode # "validator set out of order"

(* "On consensus restart, the same epoch might be scheduled a second time  *)
(* when we commit the same boundary block again": a live node whose root   *)
(* is past the last block of an epoch has the start of the next one.       *)
NextEpochScheduled == Live => (root + 1) \div epoch_length + 1 \in DOMAIN epoch_starts
=============================================================================
