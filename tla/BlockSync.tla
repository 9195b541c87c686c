----------------------------- MODULE BlockSync ------------------------------
(***************************************************************************)
(* Block sync: one node asks its ledger and then its peers for the headers *)
(* of a range of blocks and for their bodies, and answers other nodes from *)
(* its ledger.  Blocks are the numbers of one chain, as every range names  *)
(* the chain that ends in its last block.                                  *)
(* Source: monad-blocksync/src/blocksync.rs, monad-state/src/blocksync.rs. *)
(***************************************************************************)
EXTENDS Integers, Sequences, FiniteSets, SequencesExt, FiniteSetsExt, Functions

CONSTANTS
    Peer, None,
    Ranges,       \* ranges [last, num] that this node asks for
    Body,         \* Body[b]: block_body_id of block b, which blocks may share
    stored,       \* blocks the ledger can serve
    Cacheable,    \* bound: blocks that come into and leave the cache
    Asks,         \* requests of peers: [from, request]
    BLOCKSYNC_MAX_PAYLOAD_REQUESTS,
    MaxRequests,  \* bound on the self requests of a behaviour
    MaxFetches    \* bound: peers ask while fewer fetches are on their way

VARIABLES
    bs,        \* BlockSync
    live,      \* ConsensusMode::Live, as opposed to Sync
    cache,     \* blocks of the block tree or of the block buffer
    ledger,    \* fetches_tx: answers on their way, [request, found]
    timers,    \* running BlockSync timers, by request
    expired,   \* Timeout events not handled yet
    wanted,    \* history: ranges asked for and neither cancelled nor emitted
    requests   \* number of self requests so far

vars == <<bs, live, cache, ledger, timers, expired, wanted, requests>>

Block == DOMAIN Body
Payload == {Body[b] : b \in Block}
Headers(range) == [range |-> range]
Bodies(p) == [body |-> p]
Blocks(range) == range.last - range.num + 1 .. range.last
BodiesOf(range) == {Body[b] : b \in Blocks(range)}
Waiting == [requester |-> None, to |-> None]  \* Option::None of a payload request
Put(f, k, v) == [x \in DOMAIN f \cup {k} |-> IF x = k THEN v ELSE f[x]]
Without(f, S) == Restrict(f, DOMAIN f \ S)
Asked(f, k, to) == Put(f, k, [requester |-> f[k].requester, to |-> to])
Joined(f, S) == [x \in DOMAIN f \cup S |-> IF x \in DOMAIN f THEN f[x] ELSE Waiting]
Update(f, S, v) == [x \in DOMAIN f |-> IF x \in S THEN v ELSE f[x]]

(* Every range ends in a block of the chain; nobody is called None.        *)
ConstantsOk ==
    /\ BLOCKSYNC_MAX_PAYLOAD_REQUESTS \in Nat
    /\ None \notin Peer \cup {"StateSync", "Consensus"}
    /\ \A r \in Ranges : r \in [last : Int, num : Int] /\ Blocks(r) \subseteq Block
    /\ \A a \in Asks : IF "range" \in DOMAIN a.request
                       THEN a.request = Headers(a.request.range) /\ a.request.range \in [last : Int, num : Int]
                       ELSE a.request = Bodies(a.request.body)

New ==
    [headers_requests |-> {}, payload_requests |-> {},
     self_headers |-> <<>>, self_payloads |-> <<>>, in_flight |-> 0, completed |-> <<>>,
     mode |-> "StateSync",
     fetch |-> {}, schedule |-> {}, reset |-> {}, emit |-> {}, panicked |-> FALSE]

Started(st) == {p \in DOMAIN st.self_payloads : st.self_payloads[p] # Waiting}
SelfRequestExists(st, range) == range \in DOMAIN st.self_headers \cup DOMAIN st.completed
CachedPayloads(st) == {Body[b] : b \in cache} \cup UNION {st.completed[r].have : r \in DOMAIN st.completed}

(* Mutant: headers requests outlive a change of requester                  *)
ClearSelfPayloads(st) ==
    [st EXCEPT !.self_payloads = <<>>, !.in_flight = 0, !.completed = <<>>]

ClearSelfRequests(st) ==
    [st EXCEPT !.self_headers = <<>>, !.self_payloads = <<>>, !.in_flight = 0, !.completed = <<>>]

(* Every completed range gets the bodies it was missing.                   *)
Filled(f, S) == [r \in DOMAIN f |-> [requester |-> f[r].requester, have |-> f[r].have \cup (S \cap BodiesOf(r))]]
Fill(st, S) == [st EXCEPT !.completed = Filled(@, S)]

HandleCompletedRanges(st) ==
    LET done == {r \in DOMAIN st.completed : BodiesOf(r) \subseteq st.completed[r].have}
    IN [st EXCEPT !.completed = Without(@, done),
                  !.emit = @ \cup {[requester |-> st.completed[r].requester, range |-> r] : r \in done}]

(* Mutant: the slot of a body found in the cache is not given back         *)
TakeCachedPayloadsKeepsSlots(st) ==
    LET hits == DOMAIN st.self_payloads \cap CachedPayloads(st)
    IN [Fill(st, hits) EXCEPT !.self_payloads = Without(@, hits)]

TakeCachedPayloads(st) ==
    LET hits == DOMAIN st.self_payloads \cap CachedPayloads(st)
        st2 == Fill(st, hits)
    IN [st2 EXCEPT
          !.self_payloads = Without(@, hits),
          !.in_flight = @ - Cardinality(hits \cap Started(st)),
          !.reset = @ \cup {Bodies(p) : p \in {p \in hits : st.self_payloads[p].to # None}}]

(* As many as there is room for, in the map's order.                       *)
StartPayloads(st) ==
    LET waiting == DOMAIN st.self_payloads \ Started(st)
        room == Max({BLOCKSYNC_MAX_PAYLOAD_REQUESTS - st.in_flight, 0})
    IN {[st EXCEPT
           !.self_payloads = Update(@, S, [requester |-> st.mode, to |-> None]),
           !.in_flight = @ + Cardinality(S),
           !.fetch = @ \cup {Bodies(p) : p \in S}] :
        S \in kSubset(Min({room, Cardinality(waiting)}), waiting)}

TryInitiatePayloadRequestsForSelf(st) ==
    {HandleCompletedRanges(s) : s \in StartPayloads(TakeCachedPayloads(st))}

(* Mutant: no timer when there is nobody to ask                            *)
AskPeerOnce(st, request, to) ==
    IF "range" \in DOMAIN request
    THEN [st EXCEPT !.schedule = IF to = None THEN @ ELSE @ \cup {request},
                    !.self_headers = Asked(@, request.range, to)]
    ELSE [st EXCEPT !.schedule = IF to = None THEN @ ELSE @ \cup {request},
                    !.self_payloads = Asked(@, request.body, to)]

(* A request goes to the peer that pick_peer chose, which may be nobody,   *)
(* and in either case is tried again after the timeout.                    *)
AskPeer(st, request, to) ==
    IF "range" \in DOMAIN request
    THEN [st EXCEPT !.schedule = @ \cup {request}, !.self_headers = Asked(@, request.range, to)]
    ELSE [st EXCEPT !.schedule = @ \cup {request}, !.self_payloads = Asked(@, request.body, to)]

(* `valid' is verify_block_headers; sender None is the ledger.             *)
HandleHeadersResponseForSelf(st, sender, range, found, valid, to) ==
    LET got == [st EXCEPT
                  !.panicked = @ \/ st.self_headers[range].requester # st.mode,
                  !.self_headers = Without(@, {range}),
                  !.reset = IF sender = None THEN @ ELSE @ \cup {Headers(range)},
                  !.self_payloads = Joined(@, BodiesOf(range)),
                  !.completed = Put(@, range, [requester |-> st.mode, have |-> {}])]
        refused == [st EXCEPT !.panicked = @ \/ sender = None \/ st.self_headers[range].requester # st.mode]
        after == CASE found /\ valid -> got
                   [] found /\ ~valid -> refused
                   [] ~found /\ sender = None /\ st.self_headers[range].to = None ->
                        AskPeer(st, Headers(range), to)
                   [] OTHER -> st
    IN IF range \notin DOMAIN st.self_headers THEN {st}
       ELSE TryInitiatePayloadRequestsForSelf(after)

HandlePayloadResponseForSelf(st, sender, p, found, to) ==
    LET got == Fill([st EXCEPT
                  !.panicked = @ \/ st.self_payloads[p].requester # st.mode \/ st.in_flight = 0,
                  !.in_flight = @ - 1,
                  !.reset = IF sender = None THEN @ ELSE @ \cup {Bodies(p)},
                  !.self_payloads = Without(@, {p})], {p})
        after == CASE found -> got
                   [] ~found /\ sender = None /\ st.self_payloads[p].to = None ->
                        AskPeer(st, Bodies(p), to)
                   [] OTHER -> st
    IN IF p \notin Started(st) THEN {st}
       ELSE TryInitiatePayloadRequestsForSelf(HandleCompletedRanges(after))

-----------------------------------------------------------------------------
(* The commands of a step go to the ledger, the timers and the loopback.   *)
CanServe(request) ==
    IF "range" \in DOMAIN request THEN Blocks(request.range) \subseteq stored
    ELSE \E b \in stored : Body[b] = request.body
Answer(request) == [request |-> request, found |-> CanServe(request)]

Finish(st, ledgerLeft, expiredLeft, wantedLeft) ==
    /\ bs' = [st EXCEPT !.fetch = {}, !.schedule = {}, !.reset = {}, !.emit = {}]
    /\ ledger' = ledgerLeft \o [i \in DOMAIN SetToSeq(st.fetch) |-> Answer(SetToSeq(st.fetch)[i])]
    /\ timers' = (timers \ st.reset) \cup st.schedule
    /\ expired' = expiredLeft
    /\ wanted' = wantedLeft \ {e.range : e \in st.emit}
    /\ UNCHANGED <<live, cache>>

Init ==
    /\ bs = New
    /\ live = FALSE /\ cache = {}
    /\ ledger = <<>> /\ timers = {} /\ expired = {}
    /\ wanted = {} /\ requests = 0

(* State sync asks before the node is live, consensus after.               *)
HandleSelfRequest(range) ==
    LET requester == IF live THEN "Consensus" ELSE "StateSync"
        st == IF requester = bs.mode THEN bs ELSE [ClearSelfRequests(bs) EXCEPT !.mode = requester]
    IN /\ requests < MaxRequests
       /\ requests' = requests + 1
       /\ Finish(IF SelfRequestExists(st, range) THEN st
                 ELSE [st EXCEPT !.self_headers = Put(@, range, [requester |-> requester, to |-> None]),
                                 !.fetch = {Headers(range)}],
                 ledger, expired, (IF requester = bs.mode THEN wanted ELSE {}) \cup {range})

(* Sent by consensus alone.                                                *)
HandleSelfCancelRequest(range) ==
    LET Mine(f) == {r \in DOMAIN f \cap {range} : f[r].requester = "Consensus"}
    IN /\ live
       /\ Finish([bs EXCEPT !.self_headers = Without(@, Mine(@)), !.completed = Without(@, Mine(@))],
                 ledger, expired, IF bs.mode = "Consensus" THEN wanted \ {range} ELSE wanted)
       /\ UNCHANGED requests

(* Blocks of the range that the block tree has, down from the last one.    *)
CachedBlocks(range) ==
    {b \in Blocks(range) : live /\ b..range.last \subseteq cache}

HandlePeerRequest(from, request) ==
    /\ Len(ledger) < MaxFetches
    /\ IF "range" \in DOMAIN request
       THEN LET range == request.range
                cached == CachedBlocks(range)
                rest == [last |-> range.last - Cardinality(cached), num |-> range.num - Cardinality(cached)]
                entry == [range |-> rest, from |-> from, cached |-> cached]
                same == {e \in bs.headers_requests : e.range = rest /\ e.from = from}
            IN IF cached = Blocks(range) THEN Finish(bs, ledger, expired, wanted)
               ELSE Finish([bs EXCEPT !.headers_requests = (@ \ same) \cup {entry},
                                      !.fetch = {Headers(rest)}], ledger, expired, wanted)
       ELSE IF request.body \in CachedPayloads(bs) THEN Finish(bs, ledger, expired, wanted)
            ELSE Finish([bs EXCEPT !.payload_requests = @ \cup {[body |-> request.body, from |-> from]},
                                   !.fetch = {request}], ledger, expired, wanted)
    /\ UNCHANGED requests

(* The blocks a peer is answered with form a chain, an assertion says.     *)
ServeHeaders(st, range, found) ==
    LET mine == {e \in st.headers_requests : e.range = range}
    IN [st EXCEPT !.headers_requests = @ \ mine,
                  !.panicked = @ \/ \E e \in mine : found /\ e.cached # {} /\ Min(e.cached) # range.last + 1]

HandleLedgerResponse ==
    /\ ledger # <<>>
    /\ LET r == Head(ledger).request
           found == Head(ledger).found
       IN \E to \in Peer \cup {None} :
          \E st \in IF "range" \in DOMAIN r
                    THEN HandleHeadersResponseForSelf(ServeHeaders(bs, r.range, found), None, r.range, found, TRUE, to)
                    ELSE HandlePayloadResponseForSelf(
                            [bs EXCEPT !.payload_requests = {e \in @ : e.body # r.body}], None, r.body, found, to) :
             Finish(st, Tail(ledger), expired, wanted)
    /\ UNCHANGED requests

(* From any peer, asked or not, soon or late.                              *)
HandlePeerResponse(from, request, found, valid) ==
    /\ \E st \in IF "range" \in DOMAIN request
                 THEN HandleHeadersResponseForSelf(bs, from, request.range, found, valid, None)
                 ELSE HandlePayloadResponseForSelf(bs, from, request.body, found, None) :
          st # bs /\ Finish(st, ledger, expired, wanted)
    /\ UNCHANGED requests

TimerExpires(request) ==
    /\ request \in timers
    /\ timers' = timers \ {request}
    /\ expired' = expired \cup {request}
    /\ UNCHANGED <<bs, live, cache, ledger, wanted, requests>>

HandleTimeout(request, to) ==
    /\ request \in expired
    /\ LET known == IF "range" \in DOMAIN request THEN request.range \in DOMAIN bs.self_headers
                    ELSE request.body \in Started(bs)
       IN Finish(IF known THEN AskPeer(bs, request, to) ELSE bs, ledger, expired \ {request}, wanted)
    /\ UNCHANGED requests

(* The rest of the node: blocks come and go, and state sync ends.          *)
CacheChanges(b) ==
    /\ cache' = IF b \in cache THEN cache \ {b} ELSE cache \cup {b}
    /\ UNCHANGED <<bs, live, ledger, timers, expired, wanted, requests>>

GoLive ==
    /\ ~live
    /\ live' = TRUE
    /\ UNCHANGED <<bs, cache, ledger, timers, expired, wanted, requests>>

Request == {Headers(r) : r \in Ranges} \cup {Bodies(p) : p \in Payload}

Next ==
    \/ \E r \in Ranges : HandleSelfRequest(r)
    \/ \E r \in Ranges : HandleSelfCancelRequest(r)
    \/ \E a \in Asks : HandlePeerRequest(a.from, a.request)
    \/ HandleLedgerResponse
    \/ \E from \in Peer, r \in Request, found, valid \in BOOLEAN : HandlePeerResponse(from, r, found, valid)
    \/ \E r \in Request : TimerExpires(r)
    \/ \E r \in Request, to \in Peer \cup {None} : HandleTimeout(r, to)
    \/ \E b \in Cacheable : CacheChanges(b)
    \/ GoLive

Spec == Init /\ [][Next]_vars

(* The peer was asked for it last, and sends it.                           *)
Delivers(p, request) ==
    /\ IF "range" \in DOMAIN request
       THEN request.range \in DOMAIN bs.self_headers /\ bs.self_headers[request.range].to = p
       ELSE request.body \in Started(bs) /\ bs.self_payloads[request.body].to = p
    /\ HandlePeerResponse(p, request, TRUE, TRUE)

(* The ledger answers and timers expire; pick_peer is random, so that a    *)
(* peer is chosen again and again, and one that is asked again and again   *)
(* for a block of the chain delivers it some time.                         *)
Fairness ==
    /\ WF_vars(HandleLedgerResponse)
    /\ \A r \in Request :
         /\ WF_vars(TimerExpires(r))
         /\ \A p \in Peer : SF_vars(HandleTimeout(r, p)) /\ SF_vars(Delivers(p, r))
FairSpec == Spec /\ Fairness
-----------------------------------------------------------------------------
(* Neither assertion fails: answers meet requests of the current requester *)
(* only, whatever was cancelled, cleared or answered before, peers are     *)
(* sent chains, and the number in flight is never decremented below zero.  *)
SyncNoPanic == ~bs.panicked

(* "Should be <= BLOCKSYNC_MAX_PAYLOAD_REQUESTS": the counter agrees with  *)
(* the requests that were started, through cancellations, mode switches    *)
(* and bodies found in the cache, and no slot stays free while one waits.  *)
SlotsExact ==
    /\ bs.in_flight = Cardinality(Started(bs))
    /\ bs.in_flight <= BLOCKSYNC_MAX_PAYLOAD_REQUESTS
    /\ Started(bs) # DOMAIN bs.self_payloads => bs.in_flight = BLOCKSYNC_MAX_PAYLOAD_REQUESTS

(* A range that was asked for is being worked on: its headers, or each     *)
(* body it lacks, wait for a slot, for the ledger or for a timer.          *)
RequestAlive ==
    LET Alive(request) == request \in timers \cup expired \cup {a.request : a \in Range(ledger)}
    IN \A r \in wanted :
         \/ r \in DOMAIN bs.self_headers /\ Alive(Headers(r))
         \/ /\ r \in DOMAIN bs.completed
            /\ \A p \in BodiesOf(r) \ bs.completed[r].have :
                 p \in DOMAIN bs.self_payloads /\ (p \in Started(bs) => Alive(Bodies(p)))

(* Every range asked for is handed over, unless it is given up.            *)
RangeArrives == \A r \in Ranges : r \in wanted ~> r \notin wanted
=============================================================================
