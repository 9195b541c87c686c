------------------------------ MODULE MCParts -------------------------------
(***************************************************************************)
(* Small instances of the components of Parts.                             *)
(***************************************************************************)
EXTENDS Parts, TLC

CONSTANTS h1, h2, f1, id1, id2

(* Stakes 3, 2 and 2 (h1, h2, f1): 7*2/3 + 1 = 5, so that h1 makes up a    *)
(* supermajority with either of the others.                                *)
ThreeValidators == {h1, h2, f1}
Fives == {{h1, h2}, {h1, f1}, {h1, h2, f1}}
Sym == Permutations(Id)

Collection == [TipQcRound |-> {0, 1}, Leads |-> {2, 3}, FUTURE_VOTE_BOUND |-> 2, MaxRound |-> 3]
Paced == [MaxRound |-> 5, MaxRestarts |-> 1]
FourNodes == 1..4

(* Overlapping ranges, blocks that share a body, one slot for bodies.      *)
Syncs ==
    [Peer |-> {"p"}, Ranges |-> {[last |-> 2, num |-> 1], [last |-> 3, num |-> 2]}, Body |-> <<"x", "x", "y">>,
     stored |-> {1}, Cacheable |-> {2}, Asks |-> {[from |-> "p", request |-> [range |-> [last |-> 2, num |-> 2]]]},
     BLOCKSYNC_MAX_PAYLOAD_REQUESTS |-> 1, MaxRequests |-> 2, MaxFetches |-> 1]

(* Two blocks of one round, two blocks with one body.                      *)
DiskBlocks == 1..3
DiskBody == <<"x", "y", "x">>
DiskRound == <<1, 2, 2>>

(* Eleven blocks, and a round without a block after the fourth.            *)
Chain ==
    [block_round |-> [n \in 1..11 |-> IF n < 5 THEN n ELSE n + 1], epoch_length |-> 3, epoch_start_delay |-> 2,
     execution_delay |-> 1, staking_activation |-> 3, MaxCrashes |-> 2]

Behind ==
    [Peer |-> {"p", "q"}, num_prefixes |-> 2, Chunks |-> 2, max_parallel_requests |-> 2, Targets |-> 2, MaxSends |-> 2]

(* Two sockets with one key and two keys behind one socket, at one moment; *)
(* two keys behind one socket and a little time; then one peer, and time   *)
(* for every timer to run out.                                             *)
Crowded ==
    [Peer |-> {<<"k1", <<1, 1>>>>, <<"k1", <<1, 2>>>>, <<"k2", <<1, 1>>>>}, Indices |-> 4,
     keepalive_interval |-> 1, session_timeout |-> 2, gc_idle_timeout |-> 3,
     rekey_interval |-> 3, max_session_duration |-> 4, retry_attempts |-> 1, max_initiated_sessions |-> 2,
     low_watermark |-> 2, high_watermark |-> 5, max_sessions_per_ip |-> 3, MaxTime |-> 0, MaxSessions |-> 3]
OneHouse == [Crowded EXCEPT !.Peer = {<<"k1", <<1, 1>>>>, <<"k2", <<1, 1>>>>}, !.MaxTime = 1, !.MaxSessions = 2]
OnePair ==
    [Crowded EXCEPT !.Peer = {<<"k1", <<1, 1>>>>}, !.Indices = 3, !.rekey_interval = 2,
                    !.max_session_duration = 3, !.high_watermark = 4, !.MaxTime = 3, !.MaxSessions = 2]
Sockets == {Crowded, OneHouse, OnePair}

SmallWindow == [MaxCounter |-> 11, REPLAY_WINDOW_BITS |-> 4]

(* Two full nodes that compete for one place, two that find room, and one  *)
(* that two validators want.                                               *)
TwoRivals ==
    [Publisher |-> "v", OtherValidator |-> "w", FullNode |-> {"m", "n"}, Prioritized |-> <<"m">>,
     max_group_size |-> 1, round_span |-> 2, invite_lookahead |-> 4, max_invite_wait |-> 1,
     deadline_round_dist |-> 1, init_empty_round_span |-> 3, max_num_group |-> 1,
     invite_future_dist_min |-> 1, invite_future_dist_max |-> 3, OtherSpans |-> {}, MaxRound |-> 2]
GoodCompany == [TwoRivals EXCEPT !.max_group_size = 2]
OneCourted == [TwoRivals EXCEPT !.FullNode = {"m"}, !.OtherSpans = {<<3, 4>>, <<3, 5>>}, !.MaxRound = 4]

(* Pools of one message, shared with an identity that sends anything; then *)
(* larger pools and time for an id to come round.                          *)
CrammedPools ==
    [Correct |-> {"c"}, Faulty |-> {"f"}, MsgIds |-> 1, Count |-> <<2, 1, 2>>, MAX_FRAGMENTS |-> 2,
     max_message_size |-> 2, max_messages |-> [pool \in {"priority", "regular"} |-> 1],
     max_messages_per_identity |-> 2, message_timeout |-> 1, MaxTime |-> 2]
RoomyPools ==
    [CrammedPools EXCEPT !.Faulty = {}, !.MsgIds = 2, !.MaxTime = 3,
        !.max_messages = [pool \in {"priority", "regular"} |-> IF pool = "priority" THEN 2 ELSE 1]]

(* Blocks by number: round, round of the QC and parent.                    *)
Headers ==
    << <<0, 0, 1>>,                              \* genesis
       <<1, 0, 1>>, <<2, 1, 2>>, <<3, 2, 3>>,    \* a chain without a failed round
       <<3, 1, 2>>,                              \* round 2 is skipped
       <<2, 0, 1>>,                              \* round 1 is skipped
       <<3, 0, 1>>,                              \* may be proposed ahead of its round
       <<4, 3, 4>>, <<4, 3, 5>>, <<4, 3, 7>> >>
TreeBlocks == DOMAIN Headers
TreeRound == [b \in TreeBlocks |-> Headers[b][1]]
TreeQcRound == [b \in TreeBlocks |-> Headers[b][2]]
TreeParent == [b \in TreeBlocks |-> Headers[b][3]]
ChainTo[b \in TreeBlocks] == IF b = 1 THEN {b} ELSE {b} \cup ChainTo[TreeParent[b]]
TreeAncestors == [b \in TreeBlocks |-> ChainTo[b]]
TreeSeqNum == [b \in TreeBlocks |-> Cardinality(ChainTo[b]) - 1]

(* A block of the chain may fail its check for a while.                    *)
TreeLagging == {3}

(* certified[r]: the block certified in round r - 1.  The TCs are those of *)
(* rounds up to 4 that extend what is committed, in rounds without a QC.   *)
Given == INSTANCE BlockTree WITH
    Block <- TreeBlock, block_round <- tree_round, Worlds <- {},
    world <- None, node <- None, syncing <- None, loopback <- None
QcsOf(certified) == {[id |-> certified[r], round |-> r - 1] : r \in {r \in DOMAIN certified : certified[r] # None}}
AnyTc(qcs) ==
    {[round |-> r, qc |-> q, tip |-> None] : r \in 1..4, q \in qcs}
    \cup {[round |-> r, qc |-> None, tip |-> b] : r \in 1..4, b \in TreeBlocks \ {1}}
ValidTcs(qcs) == {tc \in AnyTc(qcs) : Given!WorldOk([qcs |-> qcs, tcs |-> {tc}])}
SafeTcs(qcs) == {tc \in ValidTcs(qcs) : /\ Given!Safe([qcs |-> qcs, tcs |-> {tc}])
                                        /\ tc.round \notin {q.round : q \in qcs}}
WorldOf(qcs) == [qcs |-> qcs, tcs |-> SafeTcs(qcs)]

(* No failed round, a skipped one, and siblings that are certified in      *)
(* turn; then a world that is not safe, with two chains of commits.        *)
Certificates ==
    {<<1, 2, 3, 4, 8>>, <<1, 2, None, 5, 9>>, <<1, None, 6, 7, 10>>, <<1, 2, 3, 7, 10>>}
TreeWorlds == {WorldOf(QcsOf(certified)) : certified \in Certificates}
=============================================================================
