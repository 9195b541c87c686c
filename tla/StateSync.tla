----------------------------- MODULE StateSync ------------------------------
(***************************************************************************)
(* State sync of one node that starts behind: the sync mode of the node's  *)
(* state machine, which moves its root when the chain runs away, the       *)
(* client that asks peers for the state and pieces their answers together, *)
(* and the thread that feeds the database and says when a target is        *)
(* reached.  A target is the number of the root it belongs to; a request   *)
(* is for one prefix of the state.                                         *)
(* Source: monad-statesync/src/outbound_requests.rs, ffi.rs and lib.rs,    *)
(* monad-state/src/lib.rs, consensus.rs and statesync.rs.                  *)
(***************************************************************************)
EXTENDS Integers, Sequences, FiniteSets, FiniteSetsExt, SequencesExt, Functions

CONSTANTS
    Peer, None,
    num_prefixes,           \* number of prefixes of the state
    Chunks,                 \* bound on the responses that answer a request
    max_parallel_requests,
    Targets,                \* bound: roots 1..Targets
    MaxSends                \* bound on requests sent

VARIABLES
    node,      \* [mode, root, blocks, db_status, updating_target]
    loopback,  \* RequestSync events not handled yet: new roots
    ob,        \* OutboundRequests
    target,    \* StateSync.current_target, 0 for none
    inbox,     \* response_tx: what the thread has not taken yet
    outbox,    \* request_tx: what the thread has sent
    thread,    \* [target, next, left]: left, prefixes that are not done
    answers,   \* responses on their way
    sends,     \* number of requests sent
    failed     \* the assertion that failed

vars == <<node, loopback, ob, target, inbox, outbox, thread, answers, sends, failed>>

SELF_STATESYNC_VERSION == 2
STATESYNC_VERSION_MIN == 1

Prefix == 0..num_prefixes - 1

(* A request has an answer of at least one response, and no assertion has  *)
(* the name None.                                                          *)
ConstantsOk == num_prefixes \in Nat /\ Chunks \in Nat \ {0} /\ None # "peer not found"

Check(ok, which) == failed' = IF ok THEN failed ELSE which
Running == failed = None
Syncing == Running /\ node.mode = "Sync"
Put(f, k, v) == [x \in DOMAIN f \cup {k} |-> IF x = k THEN v ELSE f[x]]
Without(f, S) == Restrict(f, DOMAIN f \ S)
Outstanding == ob.pending \cup DOMAIN ob.in_flight

Init ==
    /\ node = [mode |-> "Sync", root |-> 1, blocks |-> FALSE, db_status |-> "Waiting", updating_target |-> FALSE]
    /\ loopback = <<>>
    /\ ob = [peers |-> [p \in Peer |-> SELF_STATESYNC_VERSION], pruned |-> {},
             pending |-> {}, in_flight |-> <<>>, prefix_peers |-> <<>>]
    /\ target = 0 /\ inbox = <<>> /\ outbox = <<>>
    /\ thread = [target |-> 0, next |-> 0, left |-> {}]
    /\ answers = {} /\ sends = 0 /\ failed = None

-----------------------------------------------------------------------------
(* The node.  The loopback is polled before the router and state sync.     *)

(* maybe_start_consensus: once its blocks are there, a root whose state is *)
(* not being synced yet becomes the target.  Execution writes nothing      *)
(* while the node syncs, so the state of a node that starts behind is      *)
(* never found there already.                                              *)
StartSync(st) ==
    IF st.blocks /\ st.db_status = "Waiting"
    THEN /\ node' = [st EXCEPT !.db_status = "Started"]
         /\ target' = st.root
         /\ inbox' = Append(inbox, [target |-> st.root])
         /\ Check(target < st.root, "old target < target")
    ELSE node' = st /\ UNCHANGED <<target, inbox, failed>>

(* StateSyncEvent::BlockSync: the blocks of the root are complete.         *)
BlocksArrive ==
    /\ Syncing /\ ~node.blocks
    /\ StartSync([node EXCEPT !.blocks = TRUE])
    /\ UNCHANGED <<loopback, ob, outbox, thread, answers, sends>>

(* A proposal shows that a block far above the root is final: the node     *)
(* tells itself to move the root, once.                                    *)
HandleProposal(new_root) ==
    /\ Syncing /\ loopback = <<>>
    /\ node.blocks /\ new_root > node.root
    /\ ~node.updating_target
    /\ node' = [node EXCEPT !.updating_target = TRUE]
    /\ loopback' = Append(loopback, new_root)
    /\ UNCHANGED <<ob, target, inbox, outbox, thread, answers, sends, failed>>

(* StateSyncEvent::RequestSync; re_root may find the blocks among the      *)
(* buffered proposals.                                                     *)
RequestSync(blocks) ==
    /\ Running /\ loopback # <<>>
    /\ loopback' = Tail(loopback)
    /\ IF node.mode = "Live"
       THEN /\ failed' = "Live -> RequestSync is an invalid state transition"
            /\ UNCHANGED <<node, target, inbox>>
       ELSE StartSync([node EXCEPT !.root = Head(loopback), !.blocks = blocks,
                                   !.db_status = "Waiting", !.updating_target = FALSE])
    /\ UNCHANGED <<ob, outbox, thread, answers, sends>>

(* StateSyncEvent::DoneSync(n).  Going live drops the client, and the      *)
(* thread ends: it must not be in the middle of a target.                  *)
DoneSync(n) ==
    IF ~node.blocks \/ n < node.root THEN UNCHANGED <<node, failed>>
    ELSE /\ node' = [node EXCEPT !.mode = "Live"]
         /\ Check(n = node.root /\ node.db_status = "Started" /\ ob.pending = {} /\ ob.in_flight = <<>>
                     /\ inbox = <<>> /\ thread.target = 0, "done")

-----------------------------------------------------------------------------
(* The client: poll_next, first the thread's messages, then the requests.  *)
PollThread ==
    /\ Syncing /\ loopback = <<>> /\ outbox # <<>>
    /\ LET m == Head(outbox) IN
         IF "done" \in DOMAIN m
         THEN /\ ob' = [ob EXCEPT !.prefix_peers = <<>>]
              /\ IF Outstanding # {} THEN failed' = "DoneSync with requests" /\ UNCHANGED node
                 ELSE DoneSync(m.done)
         ELSE /\ ob' = [ob EXCEPT !.pending = @ \cup {m}]
              /\ Check(\A r \in Outstanding : r.target = m.target, "current_target = request.target")
              /\ UNCHANGED node
    /\ outbox' = Tail(outbox)
    /\ UNCHANGED <<loopback, target, inbox, thread, answers, sends>>

(* The peer a prefix was answered by so far, or any other one.             *)
choose_peer(prefix) ==
    IF prefix \in DOMAIN ob.prefix_peers THEN {ob.prefix_peers[prefix]} ELSE DOMAIN ob.peers

(* The server's answer to a request: a response whenever a batch is full   *)
(* or its timer fires, k of them in all, with one nonce and rising         *)
(* indices.  Only the last, after SyncDone, has response_n set.            *)
Answers(peer, request, k) ==
    {[from |-> peer, request |-> request, nonce |-> sends, index |-> i, last |-> i = k - 1] : i \in 0..k - 1}

(* insert_request: the version is the peer's.  Without a peer the request  *)
(* stays pending.                                                          *)
InsertRequest(request, st) ==
    IF choose_peer(request.prefix) = {}
    THEN /\ ob' = [st EXCEPT !.pending = @ \cup {request}]
         /\ UNCHANGED <<answers, sends, failed>>
    ELSE \E peer \in choose_peer(request.prefix) :
           IF peer \notin DOMAIN ob.peers
           THEN failed' = "peer not found" /\ ob' = st /\ UNCHANGED <<answers, sends>>
           ELSE LET r == [request EXCEPT !.version = ob.peers[peer]] IN
                /\ sends < MaxSends
                /\ sends' = sends + 1
                /\ ob' = [st EXCEPT !.in_flight = Put(@, r, [peer |-> peer, responses |-> {}, index |-> 0, seen |-> {}])]
                /\ \E k \in 1..Chunks : answers' = answers \cup Answers(peer, r, k)
                /\ UNCHANGED failed

PollPending ==
    /\ Syncing /\ loopback = <<>> /\ outbox = <<>>
    /\ Cardinality(DOMAIN ob.in_flight) < max_parallel_requests
    /\ ob.pending # {}
    /\ LET first == CHOOSE r \in ob.pending : \A s \in ob.pending : r.version < s.version \/ (r.version = s.version /\ r.prefix <= s.prefix)
       IN InsertRequest(first, [ob EXCEPT !.pending = @ \ {first}])
    /\ UNCHANGED <<node, loopback, target, inbox, outbox, thread>>

(* The request that has been quiet longest timed out.                      *)
PollTimeout(request) ==
    /\ Syncing /\ loopback = <<>> /\ outbox = <<>>
    /\ Cardinality(DOMAIN ob.in_flight) = max_parallel_requests \/ ob.pending = {}
    /\ request \in DOMAIN ob.in_flight
    /\ InsertRequest(request, [ob EXCEPT !.in_flight = Without(@, {request})])
    /\ UNCHANGED <<node, loopback, target, inbox, outbox, thread>>

(* apply_response.  late: nothing came for a long time.  In-order          *)
(* responses are handed over at once with those that waited for them.      *)
ApplyResponse(f, m, late) ==
    LET other == f.responses # {} /\ \E x \in f.responses : x.nonce # m.nonce
        first == m.nonce \notin f.seen
        g == [f EXCEPT !.seen = @ \cup {m.nonce}, !.responses = IF other THEN {} ELSE @]
        Consecutive(k) == \A i \in m.index + 1..k - 1 : \E x \in g.responses : x.index = i
        upto == Max({k \in m.index + 1..Chunks : Consecutive(k)})
        Piece(i) == CHOOSE x \in g.responses \cup {m} : x.index = i
    IN IF other /\ ~(late /\ first) THEN [f |-> [f EXCEPT !.seen = @ \cup {m.nonce}], out |-> <<>>, duplicate |-> FALSE]
       ELSE IF m.index < g.index THEN [f |-> g, out |-> <<>>, duplicate |-> FALSE]
       ELSE IF m.index = g.index
            THEN [f |-> [g EXCEPT !.index = upto, !.responses = {x \in @ : x.index >= upto}],
                  out |-> [i \in 1..upto - m.index |-> [response |-> m.request, last |-> Piece(m.index + i - 1).last]],
                  duplicate |-> FALSE]
       ELSE [f |-> [g EXCEPT !.responses = @ \cup {m}], out |-> <<>>,
             duplicate |-> \E x \in g.responses : x.index = m.index]

HandleResponse(m, late) ==
    LET pinned == Put(ob.prefix_peers, m.request.prefix, m.from)
        a == ApplyResponse(ob.in_flight[m.request], m, late)
        finished == a.out # <<>> /\ Last(a.out).last
    IN /\ Syncing /\ loopback = <<>>
       /\ m \in answers
       /\ answers' = answers \ {m}
       /\ IF \/ m.from \notin DOMAIN ob.peers
             \/ m.request.prefix \in DOMAIN ob.prefix_peers /\ ob.prefix_peers[m.request.prefix] # m.from
          THEN UNCHANGED <<ob, inbox, failed>>
          ELSE IF m.request \notin DOMAIN ob.in_flight
          THEN ob' = [ob EXCEPT !.prefix_peers = pinned] /\ UNCHANGED <<inbox, failed>>
          ELSE /\ ob' = [ob EXCEPT !.prefix_peers = pinned,
                            !.in_flight = IF finished THEN Without(@, {m.request}) ELSE Put(@, m.request, a.f)]
               /\ inbox' = inbox \o a.out
               /\ Check(~a.duplicate, "server sent duplicate response_index")
       /\ UNCHANGED <<node, loopback, target, outbox, thread, sends>>

(* Mutant: what the peer was asked for is dropped                          *)
RequeueDrops(st, S) == [st EXCEPT !.in_flight = Without(@, S)]

(* A peer that serves no longer, or not this version: what it was asked    *)
(* for is asked again.                                                     *)
Requeue(st, S) == [st EXCEPT !.in_flight = Without(@, S), !.pending = @ \cup S]
AskedOf(peer, version) == {r \in DOMAIN ob.in_flight : ob.in_flight[r].peer = peer /\ r.version > version}

HandleNotWhitelisted(peer) ==
    /\ Syncing /\ loopback = <<>>
    /\ peer \in DOMAIN ob.peers
    /\ ob' = [Requeue(ob, AskedOf(peer, 0)) EXCEPT !.peers = Without(@, {peer}), !.pruned = @ \cup {peer}]
    /\ UNCHANGED <<node, loopback, target, inbox, outbox, thread, answers, sends, failed>>

HandleBadVersion(peer, min_version, max_version) ==
    /\ Syncing /\ loopback = <<>>
    /\ peer \in DOMAIN ob.peers
    /\ ob' = IF max_version < STATESYNC_VERSION_MIN \/ min_version > SELF_STATESYNC_VERSION
             THEN [Requeue(ob, AskedOf(peer, max_version)) EXCEPT !.peers = Without(@, {peer}), !.pruned = @ \cup {peer}]
             ELSE [Requeue(ob, AskedOf(peer, max_version)) EXCEPT !.peers = Put(@, peer, max_version)]
    /\ UNCHANGED <<node, loopback, target, inbox, outbox, thread, answers, sends, failed>>

(* A validator set or a group of secondary raptorcast names more peers.    *)
ExpandUpstreamPeers(S) ==
    LET new == S \ (DOMAIN ob.peers \cup ob.pruned)
    IN /\ Syncing /\ loopback = <<>> /\ new # {}
       /\ ob' = [ob EXCEPT !.peers = [p \in DOMAIN @ \cup new |-> IF p \in new THEN SELF_STATESYNC_VERSION ELSE @[p]]]
       /\ UNCHANGED <<node, loopback, target, inbox, outbox, thread, answers, sends, failed>>

-----------------------------------------------------------------------------
(* The thread: one target at a time, and of the targets that come          *)
(* meanwhile only the last.                                                *)
Request(prefix, t) == [prefix |-> prefix, target |-> t, version |-> SELF_STATESYNC_VERSION]
Begin(t) ==
    /\ thread' = [target |-> t, next |-> 0, left |-> Prefix]
    /\ outbox' = outbox \o [i \in 1..num_prefixes |-> Request(i - 1, t)]

ThreadTakes ==
    /\ Running /\ inbox # <<>>
    /\ inbox' = Tail(inbox)
    /\ LET m == Head(inbox)
           left == IF m.last THEN thread.left \ {m.response.prefix} ELSE thread.left
       IN IF "target" \in DOMAIN m
          THEN /\ IF thread.target = 0 THEN Begin(m.target)
                  ELSE thread' = [thread EXCEPT !.next = m.target] /\ UNCHANGED outbox
               /\ UNCHANGED failed
          ELSE /\ Check(thread.target = m.response.target, "response without target")
               /\ IF left # {} THEN thread' = [thread EXCEPT !.left = left] /\ UNCHANGED outbox
                  ELSE IF thread.next # 0 THEN Begin(thread.next)
                  ELSE /\ thread' = [target |-> 0, next |-> 0, left |-> {}]
                       /\ outbox' = Append(outbox, [done |-> thread.target])
    /\ UNCHANGED <<node, loopback, ob, target, answers, sends>>

Next ==
    \/ BlocksArrive
    \/ \E r \in 1..Targets : HandleProposal(r)
    \/ \E blocks \in BOOLEAN : RequestSync(blocks)
    \/ PollThread
    \/ PollPending
    \/ \E r \in DOMAIN ob.in_flight : PollTimeout(r)
    \/ \E m \in answers, late \in BOOLEAN : HandleResponse(m, late)
    \/ \E p \in Peer : HandleNotWhitelisted(p)
    \/ \E p \in Peer, v \in {0, 1, SELF_STATESYNC_VERSION + 1} : HandleBadVersion(p, v, v)
    \/ \E S \in SUBSET Peer : ExpandUpstreamPeers(S)
    \/ ThreadTakes

Spec == Init /\ [][Next]_vars

-----------------------------------------------------------------------------
(* Where a prefix is asked for or its answer is complete: with the client, *)
(* in the thread's own message or in the last response it has not taken.   *)
Places(p) ==
    {<<"pending", r>> : r \in {r \in ob.pending : r.prefix = p}}
    \cup {<<"in_flight", r>> : r \in {r \in DOMAIN ob.in_flight : r.prefix = p}}
    \cup {<<"outbox", i>> : i \in {i \in DOMAIN outbox : "prefix" \in DOMAIN outbox[i] /\ outbox[i].prefix = p}}
    \cup {<<"inbox", i>> : i \in {i \in DOMAIN inbox : /\ "last" \in DOMAIN inbox[i] /\ inbox[i].last
                                                     /\ inbox[i].response.prefix = p}}

(* Whatever is retried, refused or moved, no assertion of node, client and *)
(* thread fails but the one of PeerKnown, and nothing the thread waits for *)
(* is lost: each prefix that is left is in exactly one place.              *)
NothingForgotten ==
    /\ failed \in {None, "peer not found"}
    /\ Running => \A p \in thread.left : \E x \in Places(p) : Places(p) = {x}

(* expect("peer not found") of insert_request: a peer that is chosen is    *)
(* one of the peers.                                                       *)
PeerKnown == failed # "peer not found"
=============================================================================
