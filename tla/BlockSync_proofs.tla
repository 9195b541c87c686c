------------------------- MODULE BlockSync_proofs -------------------------
(***************************************************************************)
(* Theorems about BlockSync, for every set of peers, of ranges and of      *)
(* blocks that the ledger or the cache holds, and every number of slots.   *)
(***************************************************************************)
EXTENDS BlockSync, FiniteSetTheorems, WellFoundedInduction, TLAPS

Requesters == {"StateSync", "Consensus"}
Ask(mode) == [requester : {mode}, to : Peer \cup {None}]

(* The fields of BlockSync and of its commands.                            *)
IsState(st) ==
    st = [headers_requests |-> st.headers_requests, payload_requests |-> st.payload_requests,
          self_headers |-> st.self_headers, self_payloads |-> st.self_payloads, in_flight |-> st.in_flight,
          completed |-> st.completed, mode |-> st.mode, fetch |-> st.fetch, schedule |-> st.schedule,
          reset |-> st.reset, emit |-> st.emit, panicked |-> st.panicked]

(* FetchRequest for headers and for bodies, and what the ledger answers.        *)
FetchRequest ==
    {Headers(r) : r \in [last : Int, num : Int]}
        \cup {Bodies(p) : p \in Payload \cup {a.request.body : a \in Asks}}
LedgerAnswer == [request : FetchRequest, found : BOOLEAN]
Requested(l) == {a.request : a \in Range(l)}
Fetched(st) == st.fetch \subseteq FetchRequest /\ IsFiniteSet(st.fetch)

(* FetchRequest, started or not, are of the current requester.                 *)
Owned(st) ==
    /\ st.mode \in Requesters
    /\ DOMAIN st.self_headers \subseteq Ranges
    /\ st.self_headers \in [DOMAIN st.self_headers -> Ask(st.mode)]
    /\ DOMAIN st.self_payloads \subseteq Payload /\ IsFiniteSet(DOMAIN st.self_payloads)
    /\ st.self_payloads \in [DOMAIN st.self_payloads -> {Waiting} \cup Ask(st.mode)]
    /\ DOMAIN st.completed \subseteq Ranges
    /\ \A r \in DOMAIN st.completed : st.completed[r].requester = st.mode

(* The slots in use are counted, and there are no more than allowed.       *)
Counted(st) == st.in_flight = Cardinality(Started(st)) /\ st.in_flight <= BLOCKSYNC_MAX_PAYLOAD_REQUESTS
Full(st) == Started(st) # DOMAIN st.self_payloads => st.in_flight = BLOCKSYNC_MAX_PAYLOAD_REQUESTS

(* A body that a range lacks is on the list.                               *)
Listed(st) ==
    \A r \in DOMAIN st.completed :
        \A p \in BodiesOf(r) \ st.completed[r].have : p \in DOMAIN st.self_payloads

(* What a peer is sent from the cache continues what the ledger is asked.  *)
Chained(st) == \A e \in st.headers_requests : e.cached # {} => Min(e.cached) = e.range.last + 1

(* No timer of a request on the list is stopped.                           *)
NotReset(st) ==
    /\ \A r \in DOMAIN st.self_headers : Headers(r) \notin st.reset
    /\ \A p \in DOMAIN st.self_payloads : Bodies(p) \notin st.reset

(* With L on the way from the ledger and timers T, running or expired, all *)
(* that was asked for will be heard of; a timer waits for every peer.      *)
Awaited(st, request, to, L, T) ==
    /\ request \in L \cup T \cup st.fetch \cup st.schedule
    /\ to # None => request \in T \cup st.schedule
AllAwaited(st, L, T) ==
    /\ \A r \in DOMAIN st.self_headers : Awaited(st, Headers(r), st.self_headers[r].to, L, T)
    /\ \A p \in Started(st) : Awaited(st, Bodies(p), st.self_payloads[p].to, L, T)

(* The ranges W are on a list or were handed over.                         *)
Kept(st, W) ==
    \A r \in W : r \in DOMAIN st.self_headers \/ r \in DOMAIN st.completed \/ \E e \in st.emit : e.range = r

Sound(st, W) ==
    IsState(st) /\ Owned(st) /\ Counted(st) /\ Listed(st) /\ Chained(st) /\ NotReset(st) /\ Kept(st, W)
    /\ Fetched(st) /\ ~st.panicked

-----------------------------------------------------------------------------
(* A set of numbers has a least one.                                       *)
LEMMA LeastNumber ==
    ASSUME NEW T \in SUBSET Nat, T # {}
    PROVE  \E n \in T : \A m \in T : n <= m
  <1>1. \E n \in T : \A m \in T : ~ (<<m, n>> \in OpToRel(<, Nat))
    BY NatLessThanWellFounded, WFMin
  <1>2. OpToRel(<, Nat) = {ss \in Nat \X Nat : ss[1] < ss[2]}
    BY Zenon DEF OpToRel
  <1>3. \E n \in T : \A m \in T : ~ (<<m, n>> \in {ss \in Nat \X Nat : ss[1] < ss[2]})
    BY <1>1, <1>2, Zenon
  <1>4. \A n, m \in Nat : ~ (<<m, n>> \in {ss \in Nat \X Nat : ss[1] < ss[2]}) => n <= m
    OBVIOUS
  <1> QED BY <1>3, <1>4, Zenon


LEMMA RequestForms ==
    /\ \A r : "range" \in DOMAIN Headers(r) /\ Headers(r).range = r
    /\ \A p : "range" \notin DOMAIN Bodies(p) /\ Bodies(p).body = p
    /\ \A r, p : Headers(r) # Bodies(p)
    /\ \A r, q : Headers(r) = Headers(q) => r = q
    /\ \A p, q : Bodies(p) = Bodies(q) => p = q
  <1>1. \A r : "range" \in DOMAIN Headers(r) /\ Headers(r).range = r
    BY DEF Headers
  <1>2. \A p : "range" \notin DOMAIN Bodies(p) /\ Bodies(p).body = p
    BY DEF Bodies
  <1>3. \A r, p : Headers(r) # Bodies(p)
    BY <1>1, <1>2
  <1> QED BY <1>1, <1>2, <1>3

LEMMA EmptyMap ==
    ASSUME NEW f, f = <<>>, NEW X
    PROVE  f \in [DOMAIN f -> X]
  OBVIOUS

LEMMA FiniteImage ==
    ASSUME NEW S, NEW T, NEW f \in [S -> T], T = {f[x] : x \in S}, IsFiniteSet(S)
    PROVE  IsFiniteSet(T)
  <1>1. f \in Surjection(S, T)
    BY DEF Surjection
  <1> QED BY <1>1, FS_Surjection

LEMMA SlotsNat ==
    ASSUME ConstantsOk
    PROVE  BLOCKSYNC_MAX_PAYLOAD_REQUESTS \in Nat /\ None \notin Peer /\ None \notin Requesters
  BY DEF ConstantsOk, Requesters

LEMMA NewSound ==
    ASSUME ConstantsOk
    PROVE  Sound(New, {}) /\ Full(New)
  <1> DEFINE st == New
  <1>1. /\ st.headers_requests = {} /\ st.self_headers = <<>> /\ st.self_payloads = <<>> /\ st.in_flight = 0
        /\ st.completed = <<>> /\ st.mode = "StateSync" /\ st.reset = {} /\ st.fetch = {} /\ st.panicked = FALSE
    BY DEF New
  <1>2. IsState(st)
    BY DEF IsState, New
  <1>3. DOMAIN st.self_headers = {} /\ DOMAIN st.self_payloads = {} /\ DOMAIN st.completed = {}
    BY <1>1
  <1>4. Started(st) = {}
    BY <1>3 DEF Started
  <1> HIDE DEF st
  <1>5. Counted(st)
    BY <1>1, <1>4, FS_EmptySet, SlotsNat DEF Counted
  <1>6. Owned(st)
    BY <1>1, <1>3, FS_EmptySet DEF Owned, Requesters
  <1>7. Listed(st) /\ Chained(st) /\ NotReset(st) /\ Kept(st, {}) /\ Full(st) /\ Fetched(st) /\ ~st.panicked
    BY <1>1, <1>3, <1>4, FS_EmptySet DEF Listed, Chained, NotReset, Kept, Full, Fetched
  <1> QED BY <1>2, <1>5, <1>6, <1>7 DEF Sound, st

(* handle_completed_ranges: the ranges that have all their bodies leave.   *)
LEMMA CompletedSound ==
    ASSUME NEW st, NEW W, NEW L, NEW T, Sound(st, W), AllAwaited(st, L, T)
    PROVE  /\ Sound(HandleCompletedRanges(st), W)
           /\ AllAwaited(HandleCompletedRanges(st), L, T)
           /\ Full(st) => Full(HandleCompletedRanges(st))
  <1> DEFINE s == HandleCompletedRanges(st)
             done == {r \in DOMAIN st.completed : BodiesOf(r) \subseteq st.completed[r].have}
             out == {[requester |-> st.completed[r].requester, range |-> r] : r \in done}
  <1>1. /\ IsState(s)
        /\ s.completed = Without(st.completed, done)
        /\ s.emit = st.emit \cup out
        /\ s.headers_requests = st.headers_requests /\ s.self_headers = st.self_headers
        /\ s.self_payloads = st.self_payloads /\ s.in_flight = st.in_flight /\ s.mode = st.mode
        /\ s.fetch = st.fetch /\ s.schedule = st.schedule /\ s.reset = st.reset /\ s.panicked = st.panicked
    <2>1. s = [st EXCEPT !.completed = Without(@, done), !.emit = @ \cup out]
      BY Zenon DEF HandleCompletedRanges
    <2> HIDE DEF s, done, out
    <2> QED BY <2>1 DEF Sound, IsState
  <1>2. /\ DOMAIN s.completed = DOMAIN st.completed \ done
        /\ \A r \in DOMAIN s.completed : s.completed[r] = st.completed[r]
    BY <1>1 DEF Without, Restrict
  <1>3. \A r \in done : \E e \in s.emit : e.range = r
    <2> SUFFICES ASSUME NEW r \in done PROVE \E e \in s.emit : e.range = r
      OBVIOUS
    <2>1. [requester |-> st.completed[r].requester, range |-> r] \in s.emit
      BY <1>1
    <2> QED BY <2>1
  <1> HIDE DEF s, done
  <1>4. Started(s) = Started(st)
    BY <1>1 DEF Started
  <1>5. Kept(s, W)
    BY <1>1, <1>2, <1>3 DEF Sound, Kept
  <1>6. Owned(s)
    BY <1>1, <1>2 DEF Sound, Owned
  <1>7. Counted(s) /\ Chained(s) /\ NotReset(s) /\ Fetched(s) /\ ~s.panicked
    BY <1>1, <1>4 DEF Sound, Counted, Chained, NotReset, Fetched
  <1>8. Listed(s)
    BY <1>1, <1>2 DEF Sound, Listed
  <1>9. AllAwaited(s, L, T)
    BY <1>1, <1>4 DEF AllAwaited, Awaited
  <1>10. Full(st) => Full(s)
    BY <1>1, <1>4 DEF Full
  <1> QED BY <1>1, <1>5, <1>6, <1>7, <1>8, <1>9, <1>10 DEF Sound, s

(* Bodies found in the cache free their slots and complete their ranges.   *)
LEMMA TakeSound ==
    ASSUME ConstantsOk, NEW st, NEW W, NEW L, NEW T, Sound(st, W), AllAwaited(st, L, T)
    PROVE  /\ Sound(TakeCachedPayloads(st), W)
           /\ AllAwaited(TakeCachedPayloads(st), L, T)
  <1> DEFINE s == TakeCachedPayloads(st)
             hits == DOMAIN st.self_payloads \cap CachedPayloads(st)
             resets == {Bodies(p) : p \in {p \in hits : st.self_payloads[p].to # None}}
             f == Fill(st, hits)
  <1>0. /\ IsState(f) /\ f.completed = Filled(st.completed, hits)
        /\ f.headers_requests = st.headers_requests /\ f.self_headers = st.self_headers
        /\ f.self_payloads = st.self_payloads /\ f.in_flight = st.in_flight /\ f.mode = st.mode
        /\ f.fetch = st.fetch /\ f.schedule = st.schedule /\ f.reset = st.reset
        /\ f.emit = st.emit /\ f.panicked = st.panicked
    BY DEF Sound, IsState, Fill
  <1>1. /\ IsState(s)
        /\ s.completed = Filled(st.completed, hits)
        /\ s.self_payloads = Without(st.self_payloads, hits)
        /\ s.in_flight = st.in_flight - Cardinality(hits \cap Started(st))
        /\ s.reset = st.reset \cup resets
        /\ s.headers_requests = st.headers_requests /\ s.self_headers = st.self_headers /\ s.mode = st.mode
        /\ s.fetch = st.fetch /\ s.schedule = st.schedule /\ s.emit = st.emit /\ s.panicked = st.panicked
    <2>1. s = [f EXCEPT !.self_payloads = Without(@, hits),
                        !.in_flight = @ - Cardinality(hits \cap Started(st)),
                        !.reset = @ \cup resets]
      BY Zenon DEF TakeCachedPayloads
    <2> HIDE DEF s, f, hits, resets
    <2> QED BY <1>0, <2>1 DEF IsState
  <1>2. /\ DOMAIN s.completed = DOMAIN st.completed
        /\ \A r \in DOMAIN st.completed :
              /\ s.completed[r].requester = st.completed[r].requester
              /\ s.completed[r].have = st.completed[r].have \cup (hits \cap BodiesOf(r))
    BY <1>1 DEF Filled
  <1>3. /\ DOMAIN s.self_payloads = DOMAIN st.self_payloads \ hits
        /\ \A p \in DOMAIN s.self_payloads : s.self_payloads[p] = st.self_payloads[p]
        /\ s.self_payloads \in [DOMAIN s.self_payloads -> {Waiting} \cup Ask(st.mode)]
    <2>1. s.self_payloads = [p \in DOMAIN st.self_payloads \ hits |-> st.self_payloads[p]]
      BY <1>1 DEF Without, Restrict
    <2> QED BY <2>1 DEF Sound, Owned
  <1>4. Started(s) = Started(st) \ hits
    BY <1>3 DEF Started
  <1> HIDE DEF s, f, hits
  <1>5. IsFiniteSet(Started(st)) /\ IsFiniteSet(DOMAIN s.self_payloads)
    BY <1>3, FS_Subset DEF Sound, Owned, Started
  <1>6. Counted(s)
    <2>1. /\ Cardinality(Started(s)) =
                Cardinality(Started(st)) - Cardinality(Started(st) \cap hits)
          /\ Started(st) \cap hits = hits \cap Started(st)
      BY <1>4, <1>5, FS_Difference
    <2>2. IsFiniteSet(Started(st) \cap hits)
      BY <1>5, FS_Intersection
    <2>3. Cardinality(Started(st)) \in Nat /\ Cardinality(Started(st) \cap hits) \in Nat
      BY <1>5, <2>2, FS_CardinalityType
    <2>4. st.in_flight = Cardinality(Started(st)) /\ st.in_flight <= BLOCKSYNC_MAX_PAYLOAD_REQUESTS
      BY DEF Sound, Counted
    <2>5. s.in_flight = Cardinality(Started(s))
      BY <1>1, <2>1, <2>4
    <2>6. s.in_flight <= BLOCKSYNC_MAX_PAYLOAD_REQUESTS
      <3> HIDE DEF resets
      <3> QED BY <2>1, <2>3, <2>4, <2>5, SlotsNat
    <2> QED BY <2>5, <2>6 DEF Counted
  <1>7. Owned(s)
    BY <1>1, <1>2, <1>3, <1>5 DEF Sound, Owned
  <1>8. Listed(s)
    BY <1>2, <1>3 DEF Sound, Listed
  <1>9. NotReset(s)
    <2>1. \A r \in DOMAIN s.self_headers : Headers(r) \notin s.reset
      BY <1>1, RequestForms DEF Sound, NotReset
    <2>2. \A p \in DOMAIN s.self_payloads : Bodies(p) \notin s.reset
      BY <1>1, <1>3, RequestForms DEF Sound, NotReset
    <2> QED BY <2>1, <2>2 DEF NotReset
  <1>10. Chained(s) /\ Kept(s, W) /\ Fetched(s) /\ ~s.panicked
    BY <1>1, <1>2 DEF Sound, Chained, Kept, Fetched
  <1>11. AllAwaited(s, L, T)
    <2>1. \A p \in Started(s) : p \in Started(st) /\ s.self_payloads[p].to = st.self_payloads[p].to
      BY <1>3, <1>4 DEF Started
    <2> QED BY <1>1, <2>1 DEF AllAwaited, Awaited
  <1> QED BY <1>1, <1>6, <1>7, <1>8, <1>9, <1>10, <1>11 DEF Sound, s

(* As many bodies are asked for as there is room.                          *)
LEMMA StartSound ==
    ASSUME ConstantsOk, NEW st, NEW W, NEW L, NEW T, Sound(st, W), AllAwaited(st, L, T), NEW s \in StartPayloads(st)
    PROVE  Sound(s, W) /\ AllAwaited(s, L, T) /\ Full(s)
  <1> DEFINE waiting == DOMAIN st.self_payloads \ Started(st)
             room == Max({BLOCKSYNC_MAX_PAYLOAD_REQUESTS - st.in_flight, 0})
             want == Min({room, Cardinality(waiting)})
             mine == [requester |-> st.mode, to |-> None]
  <1>1. PICK S \in kSubset(want, waiting) :
           s = [st EXCEPT !.self_payloads = Update(@, S, mine),
                          !.in_flight = @ + Cardinality(S),
                          !.fetch = @ \cup {Bodies(p) : p \in S}]
    BY Zenon DEF StartPayloads
  <1>2. S \subseteq waiting /\ Cardinality(S) = want
    <2> HIDE DEF waiting, want
    <2> QED BY DEF kSubset
  <1>3. /\ IsState(s)
        /\ s.self_payloads = Update(st.self_payloads, S, mine)
        /\ s.in_flight = st.in_flight + Cardinality(S)
        /\ s.fetch = st.fetch \cup {Bodies(p) : p \in S}
        /\ s.headers_requests = st.headers_requests /\ s.self_headers = st.self_headers
        /\ s.completed = st.completed /\ s.mode = st.mode /\ s.schedule = st.schedule /\ s.reset = st.reset
        /\ s.emit = st.emit /\ s.panicked = st.panicked
    <2> HIDE DEF mine, want, waiting
    <2> QED BY <1>1 DEF Sound, IsState
  <1>4. /\ DOMAIN s.self_payloads = DOMAIN st.self_payloads
        /\ \A p \in DOMAIN st.self_payloads : s.self_payloads[p] = IF p \in S THEN mine ELSE st.self_payloads[p]
        /\ s.self_payloads \in [DOMAIN s.self_payloads -> {Waiting} \cup Ask(st.mode)]
    <2>1. mine \in Ask(st.mode)
      BY DEF Ask
    <2> HIDE DEF mine
    <2> QED BY <1>3, <2>1 DEF Update, Sound, Owned
  <1>5. mine # Waiting /\ mine.to = None
    <2>1. mine.requester = st.mode /\ Waiting.requester = None /\ st.mode # None
      BY SlotsNat DEF Waiting, Sound, Owned
    <2> QED BY <2>1
  <1>6. Started(s) = Started(st) \cup S /\ Started(st) \cap S = {}
    <2> HIDE DEF mine
    <2> QED BY <1>2, <1>4, <1>5 DEF Started, waiting
  <1> HIDE DEF mine
  <1>7. /\ IsFiniteSet(waiting) /\ IsFiniteSet(S) /\ IsFiniteSet(Started(st))
        /\ Cardinality(waiting) \in Nat /\ Cardinality(S) \in Nat /\ Cardinality(Started(st)) \in Nat
    BY <1>2, FS_Subset, FS_Difference, FS_CardinalityType DEF Sound, Owned, Started
  <1>8. Cardinality(Started(s)) = Cardinality(Started(st)) + Cardinality(S)
    <2>1. Cardinality(Started(st) \cap S) = 0
      BY <1>6, FS_EmptySet
    <2>2. Cardinality(Started(st) \cup S)
            = Cardinality(Started(st)) + Cardinality(S) - Cardinality(Started(st) \cap S)
      BY <1>7, FS_Union
    <2> QED BY <1>6, <1>7, <2>1, <2>2
  <1>9. room = BLOCKSYNC_MAX_PAYLOAD_REQUESTS - st.in_flight /\ room \in Nat
    <2>1. st.in_flight \in Nat /\ st.in_flight <= BLOCKSYNC_MAX_PAYLOAD_REQUESTS
      BY <1>7 DEF Sound, Counted
    <2> QED BY <2>1, SlotsNat DEF Max
  <1>10. want = IF room <= Cardinality(waiting) THEN room ELSE Cardinality(waiting)
    BY <1>7, <1>9 DEF Min
  <1>11. Counted(s)
    BY <1>2, <1>3, <1>7, <1>8, <1>9, <1>10, SlotsNat DEF Sound, Counted
  <1>12. Full(s)
    <2> SUFFICES ASSUME Started(s) # DOMAIN s.self_payloads PROVE s.in_flight = BLOCKSYNC_MAX_PAYLOAD_REQUESTS
      BY DEF Full
    <2>1. S # waiting
      BY <1>4, <1>6 DEF Started
    <2>2. Cardinality(S) # Cardinality(waiting)
      BY <1>2, <1>7, <2>1, FS_Subset
    <2>3. Cardinality(S) = room
      BY <1>2, <1>10, <2>2
    <2> QED BY <1>3, <1>7, <1>9, <2>3, SlotsNat DEF Sound, Counted
  <1> HIDE DEF waiting, room, want
  <1>13. Owned(s)
    BY <1>3, <1>4 DEF Sound, Owned
  <1>14. Listed(s) /\ NotReset(s) /\ Chained(s) /\ Kept(s, W) /\ ~s.panicked
    BY <1>3, <1>4 DEF Sound, Listed, NotReset, Chained, Kept
  <1>15. AllAwaited(s, L, T)
    <2>1. ASSUME NEW p \in Started(s) PROVE Awaited(s, Bodies(p), s.self_payloads[p].to, L, T)
      <3>1. CASE p \in S
        BY <1>3, <1>4, <1>5, <1>6, <2>1, <3>1 DEF Awaited, Started
      <3>2. CASE p \notin S
        <4>1. p \in Started(st) /\ s.self_payloads[p] = st.self_payloads[p]
          BY <1>4, <1>6, <2>1, <3>2 DEF Started
        <4> QED BY <1>3, <4>1 DEF AllAwaited, Awaited
      <3> QED BY <3>1, <3>2
    <2> QED BY <1>3, <2>1 DEF AllAwaited, Awaited
  <1>16. Fetched(s)
    <2>1. S \subseteq Payload
      BY <1>2 DEF Sound, Owned, waiting
    <2>2. {Bodies(p) : p \in S} \subseteq FetchRequest
      BY <2>1 DEF FetchRequest
    <2> DEFINE f == [p \in S |-> Bodies(p)]
               new == {Bodies(p) : p \in S}
    <2>3. f \in [S -> new] /\ {f[p] : p \in S} = new
      OBVIOUS
    <2> HIDE DEF f
    <2>4. IsFiniteSet(new)
      <3> HIDE DEF new
      <3> QED BY <1>7, <2>3, FiniteImage
    <2>5. s.fetch = st.fetch \cup new
      BY <1>3
    <2> HIDE DEF new
    <2>6. IsFiniteSet(s.fetch)
      BY <2>4, <2>5, FS_Union DEF Sound, Fetched
    <2> QED BY <2>2, <2>5, <2>6 DEF Sound, Fetched, new
  <1> QED BY <1>3, <1>11, <1>12, <1>13, <1>14, <1>15, <1>16 DEF Sound

(* try_initiate_payload_requests_for_self                                  *)
LEMMA InitiateSound ==
    ASSUME ConstantsOk, NEW st, NEW W, NEW L, NEW T, Sound(st, W), AllAwaited(st, L, T),
           NEW s \in TryInitiatePayloadRequestsForSelf(st)
    PROVE  Sound(s, W) /\ AllAwaited(s, L, T) /\ Full(s)
  <1>1. PICK t \in StartPayloads(TakeCachedPayloads(st)) : s = HandleCompletedRanges(t)
    BY Zenon DEF TryInitiatePayloadRequestsForSelf
  <1>2. Sound(TakeCachedPayloads(st), W) /\ AllAwaited(TakeCachedPayloads(st), L, T)
    BY TakeSound
  <1>3. Sound(t, W) /\ AllAwaited(t, L, T) /\ Full(t)
    BY <1>2, StartSound
  <1> QED BY <1>1, <1>3, CompletedSound

(* A request that is asked for again waits for its timer, though an answer *)
(* of the ledger or a timer for it is used up.                             *)
LEMMA AskHeaders ==
    ASSUME NEW st, NEW W, NEW L, NEW T, NEW range \in DOMAIN st.self_headers, NEW to \in Peer \cup {None},
           Sound(st, W), AllAwaited(st, L \cup {Headers(range)}, T \cup {Headers(range)})
    PROVE  /\ Sound(AskPeer(st, Headers(range), to), W)
           /\ AllAwaited(AskPeer(st, Headers(range), to), L, T)
           /\ Full(st) => Full(AskPeer(st, Headers(range), to))
  <1> DEFINE q == Headers(range)
             s == AskPeer(st, q, to)
  <1>1. s = [st EXCEPT !.schedule = @ \cup {q}, !.self_headers = Asked(@, range, to)]
    BY RequestForms DEF AskPeer
  <1> HIDE DEF q, s
  <1>2. /\ IsState(s)
        /\ s.schedule = st.schedule \cup {q} /\ s.self_headers = Asked(st.self_headers, range, to)
        /\ s.headers_requests = st.headers_requests /\ s.self_payloads = st.self_payloads
        /\ s.in_flight = st.in_flight /\ s.completed = st.completed /\ s.mode = st.mode
        /\ s.fetch = st.fetch /\ s.reset = st.reset /\ s.emit = st.emit /\ s.panicked = st.panicked
    BY <1>1 DEF Sound, IsState
  <1>3. /\ DOMAIN s.self_headers = DOMAIN st.self_headers
        /\ \A r \in DOMAIN st.self_headers :
              s.self_headers[r] = IF r = range THEN [requester |-> st.self_headers[range].requester, to |-> to]
                                  ELSE st.self_headers[r]
        /\ s.self_headers = [r \in DOMAIN s.self_headers |-> s.self_headers[r]]
    BY <1>2 DEF Asked, Put
  <1>4. Started(s) = Started(st)
    BY <1>2 DEF Started
  <1>5. Owned(s)
    <2>1. st.self_headers[range] \in Ask(st.mode)
      BY DEF Sound, Owned
    <2>2. [requester |-> st.self_headers[range].requester, to |-> to] \in Ask(st.mode)
      BY <2>1 DEF Ask
    <2>3. s.self_headers \in [DOMAIN s.self_headers -> Ask(st.mode)]
      BY <1>3, <2>2 DEF Sound, Owned
    <2> QED BY <1>2, <1>3, <2>3 DEF Sound, Owned
  <1>6. Counted(s) /\ Chained(s) /\ Fetched(s) /\ ~s.panicked /\ (Full(st) => Full(s))
    BY <1>2, <1>4 DEF Sound, Counted, Chained, Fetched, Full
  <1>7. Listed(s) /\ NotReset(s) /\ Kept(s, W)
    BY <1>2, <1>3 DEF Sound, Listed, NotReset, Kept
  <1>8. AllAwaited(s, L, T)
    <2>1. ASSUME NEW r \in DOMAIN s.self_headers
          PROVE  Awaited(s, Headers(r), s.self_headers[r].to, L, T)
      <3>1. CASE r = range
        BY <1>2, <3>1 DEF Awaited, q
      <3>2. CASE r # range
        <4>1. Headers(r) # q /\ s.self_headers[r] = st.self_headers[r]
          BY <1>3, <3>2, RequestForms DEF q
        <4> QED BY <1>2, <1>3, <4>1 DEF AllAwaited, Awaited, q
      <3> QED BY <3>1, <3>2
    <2>2. ASSUME NEW p \in Started(s)
          PROVE  Awaited(s, Bodies(p), s.self_payloads[p].to, L, T)
      <3>1. Bodies(p) # q
        BY RequestForms DEF q
      <3> QED BY <1>2, <1>4, <3>1 DEF AllAwaited, Awaited, q
    <2> QED BY <2>1, <2>2 DEF AllAwaited
  <1> QED BY <1>2, <1>5, <1>6, <1>7, <1>8 DEF Sound, s, q

LEMMA AskBodies ==
    ASSUME ConstantsOk, NEW st, NEW W, NEW L, NEW T, NEW p \in Started(st), NEW to \in Peer \cup {None},
           Sound(st, W), AllAwaited(st, L \cup {Bodies(p)}, T \cup {Bodies(p)})
    PROVE  /\ Sound(AskPeer(st, Bodies(p), to), W)
           /\ AllAwaited(AskPeer(st, Bodies(p), to), L, T)
           /\ Full(st) => Full(AskPeer(st, Bodies(p), to))
  <1> DEFINE q == Bodies(p)
             s == AskPeer(st, q, to)
             mine == [requester |-> st.self_payloads[p].requester, to |-> to]
  <1>1. s = [st EXCEPT !.schedule = @ \cup {q}, !.self_payloads = Asked(@, p, to)]
    BY RequestForms DEF AskPeer
  <1> HIDE DEF q, s
  <1>2. /\ IsState(s)
        /\ s.schedule = st.schedule \cup {q} /\ s.self_payloads = Asked(st.self_payloads, p, to)
        /\ s.headers_requests = st.headers_requests /\ s.self_headers = st.self_headers
        /\ s.in_flight = st.in_flight /\ s.completed = st.completed /\ s.mode = st.mode
        /\ s.fetch = st.fetch /\ s.reset = st.reset /\ s.emit = st.emit /\ s.panicked = st.panicked
    BY <1>1 DEF Sound, IsState
  <1>3. p \in DOMAIN st.self_payloads /\ st.self_payloads[p] # Waiting
    BY DEF Started
  <1>4. /\ DOMAIN s.self_payloads = DOMAIN st.self_payloads
        /\ \A x \in DOMAIN st.self_payloads :
              s.self_payloads[x] = IF x = p THEN mine ELSE st.self_payloads[x]
        /\ s.self_payloads = [x \in DOMAIN s.self_payloads |-> s.self_payloads[x]]
    BY <1>2, <1>3 DEF Asked, Put
  <1>5. mine \in Ask(st.mode) /\ mine # Waiting /\ mine.to = to
    <2>1. st.self_payloads[p] \in Ask(st.mode)
      BY <1>3 DEF Sound, Owned
    <2>2. st.self_payloads[p].requester = st.mode /\ st.mode # None
      BY <2>1, SlotsNat DEF Ask, Sound, Owned
    <2> QED BY <2>2 DEF Ask, Waiting
  <1> HIDE DEF mine
  <1>6. Started(s) = Started(st)
    BY <1>3, <1>4, <1>5 DEF Started
  <1>7. Owned(s)
    <2>1. s.self_payloads \in [DOMAIN s.self_payloads -> {Waiting} \cup Ask(st.mode)]
      BY <1>4, <1>5 DEF Sound, Owned
    <2> QED BY <1>2, <1>4, <2>1 DEF Sound, Owned
  <1>8. Counted(s) /\ Chained(s) /\ Fetched(s) /\ ~s.panicked /\ (Full(st) => Full(s))
    BY <1>2, <1>4, <1>6 DEF Sound, Counted, Chained, Fetched, Full
  <1>9. Listed(s) /\ NotReset(s) /\ Kept(s, W)
    BY <1>2, <1>4 DEF Sound, Listed, NotReset, Kept
  <1>10. AllAwaited(s, L, T)
    <2>1. ASSUME NEW x \in Started(s)
          PROVE  Awaited(s, Bodies(x), s.self_payloads[x].to, L, T)
      <3>1. CASE x = p
        BY <1>2, <3>1 DEF Awaited, q
      <3>2. CASE x # p
        <4>1. Bodies(x) # q /\ s.self_payloads[x] = st.self_payloads[x] /\ x \in Started(st)
          BY <1>4, <1>6, <3>2, RequestForms DEF q, Started
        <4> QED BY <1>2, <4>1 DEF AllAwaited, Awaited, q
      <3> QED BY <3>1, <3>2
    <2>2. ASSUME NEW r \in DOMAIN s.self_headers
          PROVE  Awaited(s, Headers(r), s.self_headers[r].to, L, T)
      <3>1. Headers(r) # q
        BY RequestForms DEF q
      <3> QED BY <1>2, <3>1 DEF AllAwaited, Awaited, q
    <2> QED BY <2>1, <2>2 DEF AllAwaited
  <1> QED BY <1>2, <1>7, <1>8, <1>9, <1>10 DEF Sound, s, q

(* What is kept for peers has no part in the node's own requests.          *)
LEMMA SameLists ==
    ASSUME NEW st, NEW s, NEW W, NEW L, NEW T, Sound(st, W), AllAwaited(st, L, T),
           IsState(s), Chained(s), Fetched(s), ~s.panicked,
           s.self_headers = st.self_headers, s.self_payloads = st.self_payloads, s.in_flight = st.in_flight,
           s.completed = st.completed, s.mode = st.mode, s.schedule = st.schedule, s.reset = st.reset,
           s.emit = st.emit, st.fetch \subseteq s.fetch
    PROVE  Sound(s, W) /\ AllAwaited(s, L, T) /\ (Full(st) => Full(s))
  <1>1. Started(s) = Started(st)
    BY DEF Started
  <1>2. Owned(s) /\ Counted(s) /\ Listed(s)
    BY <1>1 DEF Sound, Owned, Counted, Listed
  <1>3. NotReset(s) /\ Kept(s, W)
    BY DEF Sound, NotReset, Kept
  <1>4. AllAwaited(s, L, T)
    BY <1>1 DEF AllAwaited, Awaited
  <1>5. Full(st) => Full(s)
    BY <1>1 DEF Full
  <1> QED BY <1>2, <1>3, <1>4, <1>5 DEF Sound

(* An answer or a timer for what nobody asks any more is not missed.       *)
LEMMA Unasked ==
    ASSUME NEW st, NEW L, NEW T, NEW q, AllAwaited(st, L \cup {q}, T \cup {q}),
           \A r \in DOMAIN st.self_headers : Headers(r) # q,
           \A p \in Started(st) : Bodies(p) # q
    PROVE  AllAwaited(st, L, T)
  BY DEF AllAwaited, Awaited

LEMMA RangeBodies ==
    ASSUME ConstantsOk, NEW range \in Ranges
    PROVE  IsFiniteSet(BodiesOf(range)) /\ BodiesOf(range) \subseteq Payload
  <1>1. range \in [last : Int, num : Int] /\ Blocks(range) \subseteq Block
    BY DEF ConstantsOk
  <1>2. IsFiniteSet(Blocks(range))
    <2>1. range.last \in Int /\ range.num \in Int
      BY <1>1
    <2>2. range.last - range.num + 1 \in Int
      BY <2>1
    <2> QED BY <2>1, <2>2, FS_Interval DEF Blocks
  <1> DEFINE S == Blocks(range)
             f == [b \in S |-> Body[b]]
  <1>3. f \in [S -> BodiesOf(range)] /\ {f[b] : b \in S} = BodiesOf(range)
    BY DEF BodiesOf
  <1>4. IsFiniteSet(BodiesOf(range))
    <2>1. IsFiniteSet(S)
      BY <1>2
    <2> DEFINE B == BodiesOf(range)
    <2>2. f \in [S -> B] /\ {f[b] : b \in S} = B
      BY <1>3
    <2> HIDE DEF S, f, B
    <2>3. IsFiniteSet(B)
      BY <2>1, <2>2, FiniteImage
    <2> QED BY <2>3 DEF B
  <1> QED BY <1>1, <1>4 DEF BodiesOf, Payload

(* The headers of a range have come.                                       *)
LEMMA GotHeaders ==
    ASSUME ConstantsOk, NEW st, NEW W, NEW L, NEW T, NEW range \in DOMAIN st.self_headers,
           Sound(st, W), AllAwaited(st, L \cup {Headers(range)}, T),
           NEW wrong, ~wrong, NEW stop \in SUBSET {Headers(range)}, NEW s,
           s = [st EXCEPT
                  !.panicked = wrong,
                  !.self_headers = Without(@, {range}),
                  !.reset = stop,
                  !.self_payloads = Joined(@, BodiesOf(range)),
                  !.completed = Put(@, range, [requester |-> st.mode, have |-> {}])]
    PROVE  Sound(s, W) /\ AllAwaited(s, L, T)
  <1> DEFINE q == Headers(range)
             new == BodiesOf(range)
             empty == [requester |-> st.mode, have |-> {}]
  <1>0. range \in Ranges
    BY DEF Sound, Owned
  <1>1. /\ IsState(s)
        /\ s.panicked = wrong
        /\ s.self_headers = Without(st.self_headers, {range})
        /\ s.reset = stop
        /\ s.self_payloads = Joined(st.self_payloads, new)
        /\ s.completed = Put(st.completed, range, empty)
        /\ s.headers_requests = st.headers_requests /\ s.in_flight = st.in_flight /\ s.mode = st.mode
        /\ s.fetch = st.fetch /\ s.schedule = st.schedule /\ s.emit = st.emit
    <2>1. s = [st EXCEPT !.panicked = wrong, !.self_headers = Without(@, {range}), !.reset = stop,
                         !.self_payloads = Joined(@, new), !.completed = Put(@, range, empty)]
      BY Zenon
    <2> HIDE DEF new, empty
    <2> QED BY <2>1 DEF Sound, IsState
  <1>2. ~s.panicked
    BY <1>1
  <1>3. s.reset \subseteq {q}
    BY <1>1
  <1>4. /\ DOMAIN s.self_headers = DOMAIN st.self_headers \ {range}
        /\ \A r \in DOMAIN s.self_headers : s.self_headers[r] = st.self_headers[r]
        /\ s.self_headers \in [DOMAIN s.self_headers -> Ask(st.mode)]
    <2>1. s.self_headers = [r \in DOMAIN st.self_headers \ {range} |-> st.self_headers[r]]
      BY <1>1 DEF Without, Restrict
    <2>2. \A r \in DOMAIN st.self_headers : st.self_headers[r] \in Ask(st.mode)
      BY DEF Sound, Owned
    <2> QED BY <2>1, <2>2
  <1>5. /\ DOMAIN s.self_payloads = DOMAIN st.self_payloads \cup new
        /\ \A p \in DOMAIN st.self_payloads : s.self_payloads[p] = st.self_payloads[p]
        /\ \A p \in new \ DOMAIN st.self_payloads : s.self_payloads[p] = Waiting
        /\ s.self_payloads \in [DOMAIN s.self_payloads -> {Waiting} \cup Ask(st.mode)]
    <2>1. s.self_payloads = [p \in DOMAIN st.self_payloads \cup new |->
                               IF p \in DOMAIN st.self_payloads THEN st.self_payloads[p] ELSE Waiting]
      BY <1>1 DEF Joined
    <2> HIDE DEF new
    <2> QED BY <2>1 DEF Sound, Owned
  <1>6. /\ DOMAIN s.completed = DOMAIN st.completed \cup {range}
        /\ s.completed[range] = empty
        /\ \A r \in DOMAIN st.completed : r # range => s.completed[r] = st.completed[r]
    BY <1>1 DEF Put
  <1>7. Started(s) = Started(st)
    BY <1>5 DEF Started
  <1>8. IsFiniteSet(new) /\ new \subseteq Payload
    BY <1>0, RangeBodies
  <1>9. Owned(s)
    <2>1. DOMAIN s.self_payloads \subseteq Payload /\ IsFiniteSet(DOMAIN s.self_payloads)
      <3> DEFINE old == DOMAIN st.self_payloads
      <3>1. old \subseteq Payload /\ IsFiniteSet(old) /\ DOMAIN s.self_payloads = old \cup new
        BY <1>5 DEF Sound, Owned
      <3> HIDE DEF new, old
      <3>2. IsFiniteSet(new) /\ new \subseteq Payload
        BY <1>8 DEF new
      <3>3. IsFiniteSet(old \cup new)
        BY <3>1, <3>2, FS_Union
      <3> QED BY <3>1, <3>2, <3>3
    <2>2. \A r \in DOMAIN s.completed : s.completed[r].requester = st.mode
      <3>1. empty.requester = st.mode
        OBVIOUS
      <3>2. \A r \in DOMAIN st.completed : st.completed[r].requester = st.mode
        BY DEF Sound, Owned
      <3> HIDE DEF empty
      <3> QED BY <1>6, <3>1, <3>2
    <2> QED BY <1>0, <1>1, <1>4, <1>5, <1>6, <2>1, <2>2 DEF Sound, Owned
  <1>10. Counted(s) /\ Chained(s) /\ Fetched(s)
    BY <1>1, <1>7 DEF Sound, Counted, Chained, Fetched
  <1>11. Listed(s)
    <2>1. ASSUME NEW r \in DOMAIN s.completed, NEW p \in BodiesOf(r) \ s.completed[r].have
          PROVE  p \in DOMAIN s.self_payloads
      <3>1. CASE r = range
        BY <1>5, <2>1, <3>1
      <3>2. CASE r # range
        BY <1>5, <1>6, <2>1, <3>2 DEF Sound, Listed
      <3> QED BY <3>1, <3>2
    <2> QED BY <2>1 DEF Listed
  <1>12. NotReset(s)
    <2>1. \A r \in DOMAIN s.self_headers : Headers(r) # q
      BY <1>4, RequestForms
    <2>2. \A p : Bodies(p) # q
      BY RequestForms
    <2> HIDE DEF q
    <2> QED BY <1>3, <2>1, <2>2 DEF NotReset
  <1>13. Kept(s, W)
    BY <1>1, <1>4, <1>6 DEF Sound, Kept
  <1>14. AllAwaited(s, L, T)
    <2>1. ASSUME NEW r \in DOMAIN s.self_headers
          PROVE  Awaited(s, Headers(r), s.self_headers[r].to, L, T)
      <3>1. Headers(r) # q
        BY <1>4, RequestForms
      <3> QED BY <1>1, <1>4, <3>1 DEF AllAwaited, Awaited
    <2>2. ASSUME NEW p \in Started(s)
          PROVE  Awaited(s, Bodies(p), s.self_payloads[p].to, L, T)
      <3>1. Bodies(p) # q
        BY RequestForms
      <3>2. p \in Started(st) /\ s.self_payloads[p] = st.self_payloads[p]
        BY <1>5, <1>7 DEF Started
      <3> QED BY <1>1, <3>1, <3>2 DEF AllAwaited, Awaited
    <2> QED BY <2>1, <2>2 DEF AllAwaited
  <1> QED BY <1>1, <1>2, <1>9, <1>10, <1>11, <1>12, <1>13, <1>14 DEF Sound

(* handle_headers_response_for_self: the ledger's answer, used up here, is *)
(* waited for no more; a peer's, which may be wrong, changes no timer.     *)
LEMMA HeadersResponse ==
    ASSUME ConstantsOk, NEW st, NEW W, NEW L, NEW T, NEW sender, NEW range, NEW found, NEW valid,
           NEW to \in Peer \cup {None}, Sound(st, W), Full(st), st.reset = {},
           AllAwaited(st, L \cup {Headers(range)}, T), sender # None => AllAwaited(st, L, T),
           valid \/ sender # None,
           NEW s \in HandleHeadersResponseForSelf(st, sender, range, found, valid, to)
    PROVE  Sound(s, W) /\ AllAwaited(s, L, T) /\ Full(s)
  <1> DEFINE q == Headers(range)
  <1>1. CASE range \notin DOMAIN st.self_headers
    <2>1. s = st
      BY <1>1 DEF HandleHeadersResponseForSelf
    <2>2. \A r \in DOMAIN st.self_headers : Headers(r) # q
      BY <1>1, RequestForms
    <2>3. \A p : Bodies(p) # q
      BY RequestForms
    <2>4. AllAwaited(st, L, T)
      BY <2>2, <2>3 DEF AllAwaited, Awaited
    <2> QED BY <2>1, <2>4
  <1>2. CASE range \in DOMAIN st.self_headers
    <2>1. st.self_headers[range].requester = st.mode /\ ~st.panicked
      <3>1. st.self_headers[range] \in Ask(st.mode)
        BY <1>2 DEF Sound, Owned
      <3> QED BY <3>1 DEF Ask, Sound
    <2> DEFINE wrong == st.panicked \/ st.self_headers[range].requester # st.mode
               stop == IF sender = None THEN st.reset ELSE st.reset \cup {q}
               got == [st EXCEPT
                         !.panicked = wrong,
                         !.self_headers = Without(@, {range}),
                         !.reset = stop,
                         !.self_payloads = Joined(@, BodiesOf(range)),
                         !.completed = Put(@, range, [requester |-> st.mode, have |-> {}])]
               bad == st.panicked \/ sender = None \/ st.self_headers[range].requester # st.mode
               refused == [st EXCEPT !.panicked = bad]
    <2>2. ~wrong /\ stop \in SUBSET {q}
      BY <2>1
    <2>3. Sound(got, W) /\ AllAwaited(got, L, T)
      <3> HIDE DEF wrong, stop
      <3> QED BY <1>2, <2>2, GotHeaders
    <2>4. \E t : Sound(t, W) /\ AllAwaited(t, L, T) /\ s \in TryInitiatePayloadRequestsForSelf(t)
      <3>1. CASE found /\ valid
        <4>1. s \in TryInitiatePayloadRequestsForSelf(got)
          BY <1>2, <3>1 DEF HandleHeadersResponseForSelf
        <4> HIDE DEF got
        <4> QED BY <2>3, <4>1
      <3>2. CASE found /\ ~valid
        <4>1. s \in TryInitiatePayloadRequestsForSelf(refused)
          BY <1>2, <3>2 DEF HandleHeadersResponseForSelf
        <4>2. ~bad /\ AllAwaited(st, L, T)
          BY <2>1, <3>2
        <4> HIDE DEF bad
        <4>3. /\ IsState(refused) /\ refused.panicked = bad
              /\ refused.headers_requests = st.headers_requests /\ refused.self_headers = st.self_headers
              /\ refused.self_payloads = st.self_payloads /\ refused.in_flight = st.in_flight
              /\ refused.completed = st.completed /\ refused.mode = st.mode /\ refused.fetch = st.fetch
              /\ refused.schedule = st.schedule /\ refused.reset = st.reset /\ refused.emit = st.emit
          BY DEF Sound, IsState
        <4> HIDE DEF refused
        <4>4. Chained(refused) /\ Fetched(refused) /\ ~refused.panicked
          BY <4>2, <4>3 DEF Sound, Chained, Fetched
        <4>5. Sound(refused, W) /\ AllAwaited(refused, L, T)
          BY <4>2, <4>3, <4>4, SameLists
        <4> QED BY <4>1, <4>5
      <3>3. CASE ~found /\ sender = None /\ st.self_headers[range].to = None
        <4> DEFINE t == AskPeer(st, q, to)
        <4>1. s \in TryInitiatePayloadRequestsForSelf(t)
          BY <1>2, <3>3 DEF HandleHeadersResponseForSelf
        <4>2. AllAwaited(st, L \cup {q}, T \cup {q})
          BY DEF AllAwaited, Awaited
        <4>3. Sound(t, W) /\ AllAwaited(t, L, T)
          BY <1>2, <4>2, AskHeaders
        <4> HIDE DEF t
        <4> QED BY <4>1, <4>3
      <3>4. CASE ~found /\ ~(sender = None /\ st.self_headers[range].to = None)
        <4>1. s \in TryInitiatePayloadRequestsForSelf(st)
          BY <1>2, <3>4 DEF HandleHeadersResponseForSelf
        <4>2. CASE sender # None
          BY <4>1, <4>2
        <4>3. CASE sender = None
          <5>1. ASSUME NEW r \in DOMAIN st.self_headers
                PROVE  Awaited(st, Headers(r), st.self_headers[r].to, L, T)
            <6>1. CASE r = range
              BY <3>4, <4>3, <6>1 DEF AllAwaited, Awaited
            <6>2. CASE r # range
              <7>1. Headers(r) # q
                BY <6>2, RequestForms
              <7> QED BY <7>1 DEF AllAwaited, Awaited
            <6> QED BY <6>1, <6>2
          <5>2. ASSUME NEW p \in Started(st)
                PROVE  Awaited(st, Bodies(p), st.self_payloads[p].to, L, T)
            <6>1. Bodies(p) # q
              BY RequestForms
            <6> QED BY <6>1 DEF AllAwaited, Awaited
          <5>3. AllAwaited(st, L, T)
            BY <5>1, <5>2 DEF AllAwaited
          <5> QED BY <4>1, <5>3
        <4> QED BY <4>2, <4>3
      <3> QED BY <3>1, <3>2, <3>3, <3>4
    <2> QED BY <2>4, InitiateSound
  <1> QED BY <1>1, <1>2

(* A body has come.                                                        *)
LEMMA GotBody ==
    ASSUME ConstantsOk, NEW st, NEW W, NEW L, NEW T, NEW p \in Started(st),
           Sound(st, W), AllAwaited(st, L \cup {Bodies(p)}, T),
           NEW wrong, ~wrong, NEW stop \in SUBSET {Bodies(p)}, NEW t,
           t = [st EXCEPT
                  !.panicked = wrong,
                  !.in_flight = @ - 1,
                  !.reset = stop,
                  !.self_payloads = Without(@, {p})],
           NEW s, s = Fill(t, {p})
    PROVE  Sound(s, W) /\ AllAwaited(s, L, T)
  <1> DEFINE q == Bodies(p)
  <1>1. /\ IsState(t)
        /\ t.panicked = wrong /\ t.in_flight = st.in_flight - 1 /\ t.reset = stop
        /\ t.self_payloads = Without(st.self_payloads, {p})
        /\ t.headers_requests = st.headers_requests /\ t.self_headers = st.self_headers
        /\ t.completed = st.completed /\ t.mode = st.mode
        /\ t.fetch = st.fetch /\ t.schedule = st.schedule /\ t.emit = st.emit
    BY DEF Sound, IsState
  <1>2. /\ IsState(s)
        /\ s.completed = Filled(st.completed, {p})
        /\ s.panicked = wrong /\ s.in_flight = st.in_flight - 1 /\ s.reset = stop
        /\ s.self_payloads = Without(st.self_payloads, {p})
        /\ s.headers_requests = st.headers_requests /\ s.self_headers = st.self_headers
        /\ s.mode = st.mode /\ s.fetch = st.fetch /\ s.schedule = st.schedule /\ s.emit = st.emit
    <2>1. s = [t EXCEPT !.completed = Filled(@, {p})]
      BY Zenon DEF Fill
    <2> QED BY <1>1, <2>1 DEF IsState
  <1>3. /\ DOMAIN s.completed = DOMAIN st.completed
        /\ \A r \in DOMAIN st.completed :
              /\ s.completed[r].requester = st.completed[r].requester
              /\ s.completed[r].have = st.completed[r].have \cup ({p} \cap BodiesOf(r))
    <2>1. s.completed = [r \in DOMAIN st.completed |->
                           [requester |-> st.completed[r].requester,
                            have |-> st.completed[r].have \cup ({p} \cap BodiesOf(r))]]
      BY <1>2, Zenon DEF Filled
    <2>2. DOMAIN s.completed = DOMAIN st.completed
      BY <2>1, Zenon
    <2>3. \A r \in DOMAIN st.completed :
             s.completed[r] = [requester |-> st.completed[r].requester,
                               have |-> st.completed[r].have \cup ({p} \cap BodiesOf(r))]
      BY <2>1, Zenon
    <2>4. ASSUME NEW r \in DOMAIN st.completed
          PROVE  /\ s.completed[r].requester = st.completed[r].requester
                 /\ s.completed[r].have = st.completed[r].have \cup ({p} \cap BodiesOf(r))
      <3> DEFINE who == st.completed[r].requester
                 all == st.completed[r].have \cup ({p} \cap BodiesOf(r))
      <3>1. s.completed[r] = [requester |-> who, have |-> all]
        BY <2>3, Zenon
      <3> HIDE DEF who, all
      <3>2. s.completed[r].requester = who /\ s.completed[r].have = all
        BY <3>1
      <3> QED BY <3>2 DEF who, all
    <2> QED BY <2>2, <2>4
  <1>4. /\ DOMAIN s.self_payloads = DOMAIN st.self_payloads \ {p}
        /\ \A x \in DOMAIN s.self_payloads : s.self_payloads[x] = st.self_payloads[x]
        /\ s.self_payloads \in [DOMAIN s.self_payloads -> {Waiting} \cup Ask(st.mode)]
    <2>1. s.self_payloads = [x \in DOMAIN st.self_payloads \ {p} |-> st.self_payloads[x]]
      BY <1>2 DEF Without, Restrict
    <2>2. \A x \in DOMAIN st.self_payloads : st.self_payloads[x] \in {Waiting} \cup Ask(st.mode)
      BY DEF Sound, Owned
    <2> QED BY <2>1, <2>2
  <1>5. Started(s) = Started(st) \ {p}
    BY <1>4 DEF Started
  <1>6. IsFiniteSet(Started(st)) /\ IsFiniteSet(DOMAIN s.self_payloads)
    BY <1>4, FS_Subset DEF Sound, Owned, Started
  <1>7. Counted(s)
    <2>1. Cardinality(Started(s)) = Cardinality(Started(st)) - 1
      BY <1>5, <1>6, FS_RemoveElement
    <2>2. Cardinality(Started(st)) \in Nat
      BY <1>6, FS_CardinalityType
    <2> QED BY <1>2, <2>1, <2>2, SlotsNat DEF Sound, Counted
  <1>8. Owned(s)
    <2>1. /\ DOMAIN s.self_payloads \subseteq Payload
          /\ \A r \in DOMAIN s.completed : s.completed[r].requester = st.mode
      BY <1>3, <1>4 DEF Sound, Owned
    <2> QED BY <1>2, <1>3, <1>4, <1>6, <2>1 DEF Sound, Owned
  <1>9. Listed(s)
    <2>1. ASSUME NEW r \in DOMAIN s.completed, NEW x \in BodiesOf(r) \ s.completed[r].have
          PROVE  x \in DOMAIN s.self_payloads
      <3>1. r \in DOMAIN st.completed /\ x \notin st.completed[r].have /\ x # p
        BY <1>3, <2>1
      <3>2. x \in DOMAIN st.self_payloads
        BY <2>1, <3>1 DEF Sound, Listed
      <3> QED BY <1>4, <3>1, <3>2
    <2> QED BY <2>1 DEF Listed
  <1>10. NotReset(s)
    <2>1. \A x \in DOMAIN s.self_payloads : Bodies(x) # q
      BY <1>4, RequestForms
    <2>2. \A r : Headers(r) # q
      BY RequestForms
    <2> QED BY <1>2, <2>1, <2>2 DEF NotReset
  <1>11. Chained(s) /\ Kept(s, W) /\ Fetched(s) /\ ~s.panicked
    BY <1>2, <1>3 DEF Sound, Chained, Kept, Fetched
  <1>12. AllAwaited(s, L, T)
    <2>1. ASSUME NEW r \in DOMAIN s.self_headers
          PROVE  Awaited(s, Headers(r), s.self_headers[r].to, L, T)
      <3>1. Headers(r) # q
        BY RequestForms
      <3> QED BY <1>2, <3>1 DEF AllAwaited, Awaited
    <2>2. ASSUME NEW x \in Started(s)
          PROVE  Awaited(s, Bodies(x), s.self_payloads[x].to, L, T)
      <3>1. x \in Started(st) /\ x # p /\ s.self_payloads[x] = st.self_payloads[x]
        BY <1>4, <1>5 DEF Started
      <3>2. Bodies(x) # q
        BY <3>1, RequestForms
      <3> QED BY <1>2, <3>1, <3>2 DEF AllAwaited, Awaited
    <2> QED BY <2>1, <2>2 DEF AllAwaited
  <1> QED BY <1>2, <1>7, <1>8, <1>9, <1>10, <1>11, <1>12 DEF Sound

(* handle_payload_response_for_self                                        *)
LEMMA BodyResponse ==
    ASSUME ConstantsOk, NEW st, NEW W, NEW L, NEW T, NEW sender, NEW p, NEW found,
           NEW to \in Peer \cup {None}, Sound(st, W), Full(st), st.reset = {},
           AllAwaited(st, L \cup {Bodies(p)}, T), sender # None => AllAwaited(st, L, T),
           NEW s \in HandlePayloadResponseForSelf(st, sender, p, found, to)
    PROVE  Sound(s, W) /\ AllAwaited(s, L, T) /\ Full(s)
  <1> DEFINE q == Bodies(p)
  <1>1. CASE p \notin Started(st)
    <2>1. s = st
      BY <1>1 DEF HandlePayloadResponseForSelf
    <2>2. \A x \in Started(st) : Bodies(x) # q
      BY <1>1, RequestForms
    <2>3. \A r : Headers(r) # q
      BY RequestForms
    <2>4. AllAwaited(st, L, T)
      BY <2>2, <2>3 DEF AllAwaited, Awaited
    <2> QED BY <2>1, <2>4
  <1>2. CASE p \in Started(st)
    <2>1. st.self_payloads[p].requester = st.mode /\ ~st.panicked
      <3>1. st.self_payloads[p] \in Ask(st.mode)
        BY <1>2 DEF Sound, Owned, Started
      <3> QED BY <3>1 DEF Ask, Sound
    <2>2. st.in_flight # 0
      <3>1. IsFiniteSet(Started(st)) /\ Started(st) # {}
        BY <1>2, FS_Subset DEF Sound, Owned, Started
      <3> QED BY <3>1, FS_EmptySet DEF Sound, Counted
    <2> DEFINE wrong == st.panicked \/ st.self_payloads[p].requester # st.mode \/ st.in_flight = 0
               stop == IF sender = None THEN st.reset ELSE st.reset \cup {q}
               took == [st EXCEPT
                          !.panicked = wrong,
                          !.in_flight = @ - 1,
                          !.reset = stop,
                          !.self_payloads = Without(@, {p})]
               got == Fill(took, {p})
    <2>3. ~wrong /\ stop \in SUBSET {q}
      BY <2>1, <2>2
    <2>4. Sound(got, W) /\ AllAwaited(got, L, T)
      <3> HIDE DEF wrong, stop
      <3> QED BY <1>2, <2>3, GotBody
    <2>5. \E t : /\ Sound(t, W) /\ AllAwaited(t, L, T)
                 /\ s \in TryInitiatePayloadRequestsForSelf(HandleCompletedRanges(t))
      <3>1. CASE found
        <4>1. s \in TryInitiatePayloadRequestsForSelf(HandleCompletedRanges(got))
          BY <1>2, <3>1 DEF HandlePayloadResponseForSelf
        <4> HIDE DEF got
        <4> QED BY <2>4, <4>1
      <3>2. CASE ~found /\ sender = None /\ st.self_payloads[p].to = None
        <4> DEFINE t == AskPeer(st, q, to)
        <4>1. s \in TryInitiatePayloadRequestsForSelf(HandleCompletedRanges(t))
          BY <1>2, <3>2 DEF HandlePayloadResponseForSelf
        <4>2. AllAwaited(st, L \cup {q}, T \cup {q})
          BY DEF AllAwaited, Awaited
        <4>3. Sound(t, W) /\ AllAwaited(t, L, T)
          BY <1>2, <4>2, AskBodies
        <4> HIDE DEF t
        <4> QED BY <4>1, <4>3
      <3>3. CASE ~found /\ ~(sender = None /\ st.self_payloads[p].to = None)
        <4>1. s \in TryInitiatePayloadRequestsForSelf(HandleCompletedRanges(st))
          BY <1>2, <3>3 DEF HandlePayloadResponseForSelf
        <4>2. CASE sender # None
          BY <4>1, <4>2
        <4>3. CASE sender = None
          <5>1. ASSUME NEW x \in Started(st)
                PROVE  Awaited(st, Bodies(x), st.self_payloads[x].to, L, T)
            <6>1. CASE x = p
              BY <3>3, <4>3, <6>1 DEF AllAwaited, Awaited
            <6>2. CASE x # p
              <7>1. Bodies(x) # q
                BY <6>2, RequestForms
              <7> QED BY <7>1 DEF AllAwaited, Awaited
            <6> QED BY <6>1, <6>2
          <5>2. ASSUME NEW r \in DOMAIN st.self_headers
                PROVE  Awaited(st, Headers(r), st.self_headers[r].to, L, T)
            <6>1. Headers(r) # q
              BY RequestForms
            <6> QED BY <6>1 DEF AllAwaited, Awaited
          <5>3. AllAwaited(st, L, T)
            BY <5>1, <5>2 DEF AllAwaited
          <5> QED BY <4>1, <5>3
        <4> QED BY <4>2, <4>3
      <3> QED BY <3>1, <3>2, <3>3
    <2>6. PICK t : /\ Sound(t, W) /\ AllAwaited(t, L, T)
                   /\ s \in TryInitiatePayloadRequestsForSelf(HandleCompletedRanges(t))
      BY <2>5
    <2>7. Sound(HandleCompletedRanges(t), W) /\ AllAwaited(HandleCompletedRanges(t), L, T)
      BY <2>6, CompletedSound
    <2> QED BY <2>6, <2>7, InitiateSound
  <1> QED BY <1>1, <1>2

-----------------------------------------------------------------------------
(* Between steps, no command is left over, and the ledger holds answers.   *)
Settled(st) == st.fetch = {} /\ st.schedule = {} /\ st.reset = {} /\ st.emit = {}

IInv ==
    /\ Sound(bs, wanted) /\ Full(bs) /\ Settled(bs)
    /\ ledger \in Seq(LedgerAnswer)
    /\ AllAwaited(bs, Requested(ledger), timers \cup expired)

LEMMA SequenceOfSet ==
    ASSUME NEW S, IsFiniteSet(S)
    PROVE  /\ DOMAIN SetToSeq(S) = 1..Cardinality(S) /\ Cardinality(S) \in Nat
           /\ \A i \in 1..Cardinality(S) : SetToSeq(S)[i] \in S
           /\ \A x \in S : \E i \in 1..Cardinality(S) : SetToSeq(S)[i] = x
  <1> DEFINE D == 1..Cardinality(S)
             f == SetToSeq(S)
  <1>1. Cardinality(S) \in Nat /\ \E g : g \in Bijection(D, S)
    BY FS_CardinalityType DEF ExistsBijection
  <1>2. \E g \in [D -> S] : IsInjective(g)
    <2>1. PICK g : g \in Bijection(D, S)
      BY <1>1
    <2>2. g \in [D -> S] /\ \A a, b \in D : g[a] = g[b] => a = b
      BY <2>1 DEF Bijection, Injection, IsInjective
    <2>3. DOMAIN g = D
      BY <2>2
    <2>4. IsInjective(g)
      BY <2>2, <2>3 DEF IsInjective
    <2> QED BY <2>2, <2>4
  <1>3. f = CHOOSE g \in [D -> S] : IsInjective(g)
    BY DEF SetToSeq
  <1>4. f \in [D -> S] /\ IsInjective(f)
    <2> HIDE DEF f, D
    <2> QED BY <1>2, <1>3
  <1>5. f \in Injection(D, S)
    <2> HIDE DEF f
    <2>1. DOMAIN f = D
      BY <1>4
    <2>2. \A a, b \in D : f[a] = f[b] => a = b
      BY <1>4, <2>1 DEF IsInjective
    <2> QED BY <1>4, <2>2 DEF Injection, IsInjective
  <1>6. IsFiniteSet(D) /\ Cardinality(D) = Cardinality(S)
    <2>1. IsFiniteSet(D) /\ Cardinality(D) = IF 1 > Cardinality(S) THEN 0 ELSE Cardinality(S) - 1 + 1
      BY <1>1, FS_Interval
    <2> QED BY <1>1, <2>1
  <1>7. f \in Surjection(D, S)
    <2> HIDE DEF f, D
    <2> QED BY <1>5, <1>6, FS_Injection
  <1> HIDE DEF f
  <1>8. \A x \in S : \E i \in D : f[i] = x
    BY <1>7 DEF Surjection
  <1> QED BY <1>1, <1>4, <1>8 DEF f

(* The requests of a step reach the ledger and the timers.                 *)
LEMMA FinishOk ==
    ASSUME NEW st, NEW left, NEW late, NEW W, Sound(st, W), Full(st), left \in Seq(LedgerAnswer),
           AllAwaited(st, Requested(left), timers \cup late), Finish(st, left, late, W)
    PROVE  IInv'
  <1> DEFINE n == Cardinality(st.fetch)
             q == SetToSeq(st.fetch)
             g == [i \in 1..n |-> Answer(q[i])]
  <1>1. /\ bs' = [st EXCEPT !.fetch = {}, !.schedule = {}, !.reset = {}, !.emit = {}]
        /\ ledger' = left \o [i \in DOMAIN q |-> Answer(q[i])]
        /\ timers' = (timers \ st.reset) \cup st.schedule
        /\ expired' = late
        /\ wanted' = W \ {e.range : e \in st.emit}
    BY Zenon DEF Finish
  <1>2. /\ IsState(bs') /\ Settled(bs')
        /\ bs'.headers_requests = st.headers_requests /\ bs'.self_headers = st.self_headers
        /\ bs'.self_payloads = st.self_payloads /\ bs'.in_flight = st.in_flight
        /\ bs'.completed = st.completed /\ bs'.mode = st.mode /\ bs'.panicked = st.panicked
    BY <1>1 DEF Sound, IsState, Settled
  <1>3. /\ DOMAIN q = 1..n /\ n \in Nat
        /\ \A i \in 1..n : q[i] \in st.fetch
        /\ \A x \in st.fetch : \E i \in 1..n : q[i] = x
    BY SequenceOfSet DEF Sound, Fetched
  <1>4. \A x \in FetchRequest : Answer(x) \in LedgerAnswer /\ Answer(x).request = x
    <2>1. \A x : CanServe(x) \in BOOLEAN
      BY DEF CanServe
    <2> QED BY <2>1 DEF Answer, LedgerAnswer
  <1> HIDE DEF q, n
  <1>5. g \in Seq(LedgerAnswer) /\ Len(g) = n /\ \A i \in 1..n : g[i] = Answer(q[i])
    <2>1. \A i \in 1..n : Answer(q[i]) \in LedgerAnswer
      BY <1>3, <1>4 DEF Sound, Fetched
    <2> QED BY <1>3, <2>1
  <1>6. ledger' = left \o g
    BY <1>1, <1>3
  <1> HIDE DEF g
  <1>7. /\ ledger' \in Seq(LedgerAnswer)
        /\ \A i \in 1..Len(left) : i \in DOMAIN ledger' /\ ledger'[i] = left[i]
        /\ \A i \in 1..n : Len(left) + i \in DOMAIN ledger' /\ ledger'[Len(left) + i] = g[i]
    <2>1. Len(left) \in Nat
      OBVIOUS
    <2> QED BY <1>3, <1>5, <1>6, <2>1
  <1>8. Requested(left) \cup st.fetch \subseteq Requested(ledger')
    <2>1. ASSUME NEW x \in Requested(left) PROVE x \in Requested(ledger')
      <3>1. PICK i \in 1..Len(left) : x = left[i].request
        BY <2>1 DEF Requested, Range
      <3> QED BY <1>7, <3>1 DEF Requested, Range
    <2>2. ASSUME NEW x \in st.fetch PROVE x \in Requested(ledger')
      <3>1. PICK i \in 1..n : q[i] = x
        BY <1>3
      <3>2. g[i].request = x
        BY <1>4, <1>5, <3>1 DEF Sound, Fetched
      <3> QED BY <1>7, <3>2 DEF Requested, Range
    <2> QED BY <2>1, <2>2
  <1>9. Started(bs') = Started(st)
    BY <1>2 DEF Started
  <1>10. AllAwaited(bs', Requested(ledger'), timers' \cup expired')
    <2>1. ASSUME NEW r \in DOMAIN bs'.self_headers
          PROVE  Awaited(bs', Headers(r), bs'.self_headers[r].to, Requested(ledger'), timers' \cup expired')
      <3>1. Headers(r) \notin st.reset
        BY <1>2 DEF Sound, NotReset
      <3> QED BY <1>1, <1>2, <1>8, <3>1 DEF AllAwaited, Awaited, Settled
    <2>2. ASSUME NEW p \in Started(bs')
          PROVE  Awaited(bs', Bodies(p), bs'.self_payloads[p].to, Requested(ledger'), timers' \cup expired')
      <3>1. Bodies(p) \notin st.reset
        BY <1>9 DEF Sound, NotReset, Started
      <3> QED BY <1>1, <1>2, <1>8, <1>9, <3>1 DEF AllAwaited, Awaited, Settled
    <2> QED BY <2>1, <2>2 DEF AllAwaited
  <1>11. Owned(bs') /\ Counted(bs') /\ Listed(bs') /\ Full(bs')
    BY <1>2, <1>9 DEF Sound, Owned, Counted, Listed, Full
  <1>12. Chained(bs') /\ NotReset(bs') /\ ~bs'.panicked
    BY <1>2 DEF Sound, Chained, NotReset, Settled
  <1>13. Fetched(bs')
    BY <1>2, FS_EmptySet DEF Fetched, Settled
  <1>14. Kept(bs', wanted')
    BY <1>1, <1>2 DEF Sound, Kept
  <1>15. Sound(bs', wanted')
    BY <1>2, <1>11, <1>12, <1>13, <1>14 DEF Sound
  <1>16. /\ (Sound(bs, wanted))' = Sound(bs', wanted') /\ (Full(bs))' = Full(bs') /\ (Settled(bs))' = Settled(bs')
    OBVIOUS
  <1> QED BY <1>2, <1>7, <1>10, <1>11, <1>15, <1>16 DEF IInv

(* clear_self_requests, on a change of requester                           *)
LEMMA ClearedSound ==
    ASSUME ConstantsOk, IInv, NEW mode \in Requesters, NEW s,
           s = [ClearSelfRequests(bs) EXCEPT !.mode = mode], NEW L, NEW T
    PROVE  Sound(s, {}) /\ Full(s) /\ Settled(s) /\ AllAwaited(s, L, T) /\ s.mode = mode
  <1>1. s = [bs EXCEPT !.self_headers = <<>>, !.self_payloads = <<>>, !.in_flight = 0, !.completed = <<>>,
                       !.mode = mode]
    BY DEF ClearSelfRequests, IInv, Sound, IsState
  <1>2. /\ IsState(s)
        /\ s.self_headers = <<>> /\ s.self_payloads = <<>> /\ s.in_flight = 0 /\ s.completed = <<>> /\ s.mode = mode
        /\ s.headers_requests = bs.headers_requests /\ s.fetch = bs.fetch /\ s.schedule = bs.schedule
        /\ s.reset = bs.reset /\ s.emit = bs.emit /\ s.panicked = bs.panicked
    BY <1>1 DEF IInv, Sound, IsState
  <1>3. DOMAIN s.self_headers = {} /\ DOMAIN s.self_payloads = {} /\ DOMAIN s.completed = {}
    BY <1>2
  <1>4. Started(s) = {}
    BY <1>3 DEF Started
  <1>5. Counted(s)
    <2>1. Cardinality(Started(s)) = 0
      BY <1>4, FS_EmptySet
    <2> QED BY <1>2, <2>1, SlotsNat DEF Counted
  <1>6. Owned(s)
    <2>1. /\ s.self_headers \in [DOMAIN s.self_headers -> Ask(mode)]
          /\ s.self_payloads \in [DOMAIN s.self_payloads -> {Waiting} \cup Ask(mode)]
      BY <1>2, EmptyMap
    <2>2. IsFiniteSet(DOMAIN s.self_payloads)
      BY <1>3, FS_EmptySet
    <2> QED BY <1>2, <1>3, <2>1, <2>2 DEF Owned
  <1>7. Chained(s) /\ Fetched(s) /\ ~s.panicked /\ Settled(s)
    BY <1>2 DEF IInv, Sound, Chained, Fetched, Settled
  <1>8. Listed(s) /\ NotReset(s) /\ Kept(s, {}) /\ Full(s) /\ AllAwaited(s, L, T)
    BY <1>3, <1>4 DEF Listed, NotReset, Kept, Full, AllAwaited
  <1> QED BY <1>2, <1>5, <1>6, <1>7, <1>8 DEF Sound

(* A range is put on the list.                                             *)
LEMMA RangeAdded ==
    ASSUME ConstantsOk, NEW st, NEW W, NEW L, NEW T, NEW range \in Ranges \ DOMAIN st.self_headers,
           Sound(st, W), Full(st), Settled(st), AllAwaited(st, L, T), NEW s,
           IsState(s), s.self_headers = Put(st.self_headers, range, [requester |-> st.mode, to |-> None]),
           s.fetch = {Headers(range)},
           s.headers_requests = st.headers_requests, s.self_payloads = st.self_payloads,
           s.in_flight = st.in_flight, s.completed = st.completed, s.mode = st.mode,
           s.schedule = st.schedule, s.reset = st.reset, s.emit = st.emit, s.panicked = st.panicked
    PROVE  Sound(s, W \cup {range}) /\ Full(s) /\ AllAwaited(s, L, T)
  <1> DEFINE q == Headers(range)
             mine == [requester |-> st.mode, to |-> None]
  <1>1. /\ IsState(s)
        /\ s.self_headers = Put(st.self_headers, range, mine) /\ s.fetch = {q}
        /\ s.headers_requests = st.headers_requests /\ s.self_payloads = st.self_payloads
        /\ s.in_flight = st.in_flight /\ s.completed = st.completed /\ s.mode = st.mode
        /\ s.schedule = st.schedule /\ s.reset = st.reset /\ s.emit = st.emit /\ s.panicked = st.panicked
    OBVIOUS
  <1>2. mine \in Ask(st.mode) /\ mine.to = None
    BY DEF Ask
  <1> HIDE DEF mine
  <1>3. /\ DOMAIN s.self_headers = DOMAIN st.self_headers \cup {range}
        /\ s.self_headers[range] = mine
        /\ \A r \in DOMAIN st.self_headers : s.self_headers[r] = st.self_headers[r]
        /\ s.self_headers \in [DOMAIN s.self_headers -> Ask(st.mode)]
    <2>1. s.self_headers = [r \in DOMAIN st.self_headers \cup {range} |-> IF r = range THEN mine ELSE st.self_headers[r]]
      BY <1>1 DEF Put
    <2>2. \A r \in DOMAIN st.self_headers : st.self_headers[r] \in Ask(st.mode)
      BY DEF Sound, Owned
    <2> QED BY <1>2, <2>1, <2>2
  <1>4. Started(s) = Started(st)
    BY <1>1 DEF Started
  <1>5. Owned(s)
    BY <1>1, <1>3 DEF Sound, Owned
  <1>6. Counted(s) /\ Listed(s) /\ Chained(s) /\ Full(s) /\ ~s.panicked
    BY <1>1, <1>4 DEF Sound, Counted, Listed, Chained, Full
  <1>7. NotReset(s) /\ Kept(s, W \cup {range})
    BY <1>1, <1>3 DEF Sound, NotReset, Kept, Settled
  <1>8. Fetched(s)
    <2>1. range \in [last : Int, num : Int]
      BY DEF ConstantsOk
    <2>2. q \in FetchRequest
      BY <2>1 DEF FetchRequest
    <2> QED BY <1>1, <2>2, FS_Singleton DEF Fetched
  <1>9. AllAwaited(s, L, T)
    <2>1. ASSUME NEW r \in DOMAIN s.self_headers
          PROVE  Awaited(s, Headers(r), s.self_headers[r].to, L, T)
      <3>1. CASE r = range
        BY <1>1, <1>2, <1>3, <3>1 DEF Awaited
      <3>2. CASE r # range
        BY <1>1, <1>3, <3>2 DEF AllAwaited, Awaited, Settled
      <3> QED BY <3>1, <3>2
    <2>2. ASSUME NEW p \in Started(s)
          PROVE  Awaited(s, Bodies(p), s.self_payloads[p].to, L, T)
      BY <1>1, <1>4 DEF AllAwaited, Awaited, Settled
    <2> QED BY <2>1, <2>2 DEF AllAwaited
  <1> QED BY <1>1, <1>5, <1>6, <1>7, <1>8, <1>9 DEF Sound

LEMMA SelfRequestOk ==
    ASSUME ConstantsOk, IInv, NEW range \in Ranges, HandleSelfRequest(range)
    PROVE  IInv'
  <1> DEFINE requester == IF live THEN "Consensus" ELSE "StateSync"
             st == IF requester = bs.mode THEN bs ELSE [ClearSelfRequests(bs) EXCEPT !.mode = requester]
             s == IF SelfRequestExists(st, range) THEN st
                  ELSE [st EXCEPT !.self_headers = Put(@, range, [requester |-> requester, to |-> None]),
                                  !.fetch = {Headers(range)}]
             W == IF requester = bs.mode THEN wanted ELSE {}
             T == timers \cup expired
  <1>1. Finish(s, ledger, expired, W \cup {range})
    BY Zenon DEF HandleSelfRequest
  <1>2. requester \in Requesters
    BY DEF Requesters
  <1> HIDE DEF requester
  <1>3. /\ Sound(st, W) /\ Full(st) /\ Settled(st) /\ AllAwaited(st, Requested(ledger), T)
        /\ st.mode = requester
    <2>1. CASE requester = bs.mode
      BY <2>1 DEF IInv
    <2>2. CASE requester # bs.mode
      <3> DEFINE c == [ClearSelfRequests(bs) EXCEPT !.mode = requester]
      <3>1. st = c /\ W = {}
        BY <2>2
      <3>2. Sound(c, {}) /\ Full(c) /\ Settled(c) /\ AllAwaited(c, Requested(ledger), T) /\ c.mode = requester
        BY <1>2, ClearedSound
      <3> QED BY <3>1, <3>2
    <2> QED BY <2>1, <2>2
  <1> HIDE DEF st
  <1>4. Sound(s, W \cup {range}) /\ Full(s) /\ AllAwaited(s, Requested(ledger), T)
    <2>1. CASE SelfRequestExists(st, range)
      <3>1. range \in DOMAIN st.self_headers \/ range \in DOMAIN st.completed
        BY <2>1 DEF SelfRequestExists
      <3>2. Sound(st, W \cup {range})
        BY <1>3, <3>1 DEF Sound, Kept
      <3> QED BY <1>3, <2>1, <3>2
    <2>2. CASE ~SelfRequestExists(st, range)
      <3>1. range \in Ranges \ DOMAIN st.self_headers
        BY <2>2 DEF SelfRequestExists
      <3> DEFINE mine == [requester |-> st.mode, to |-> None]
      <3>2. s = [st EXCEPT !.self_headers = Put(@, range, mine), !.fetch = {Headers(range)}]
        BY <1>3, <2>2
      <3> HIDE DEF s, W, T, mine
      <3>3. /\ IsState(s) /\ s.self_headers = Put(st.self_headers, range, mine)
            /\ s.fetch = {Headers(range)}
            /\ s.headers_requests = st.headers_requests /\ s.self_payloads = st.self_payloads
            /\ s.in_flight = st.in_flight /\ s.completed = st.completed /\ s.mode = st.mode
            /\ s.schedule = st.schedule /\ s.reset = st.reset /\ s.emit = st.emit /\ s.panicked = st.panicked
        BY <1>3, <3>2 DEF Sound, IsState
      <3> QED BY <1>3, <3>1, <3>3, RangeAdded DEF mine
    <2> QED BY <2>1, <2>2
  <1>5. ledger \in Seq(LedgerAnswer)
    BY DEF IInv
  <1> HIDE DEF s, W
  <1> QED BY <1>1, <1>4, <1>5, FinishOk

LEMMA SelfCancelOk ==
    ASSUME IInv, NEW range \in Ranges, HandleSelfCancelRequest(range)
    PROVE  IInv'
  <1> DEFINE A == {r \in DOMAIN bs.self_headers \cap {range} : bs.self_headers[r].requester = "Consensus"}
             B == {r \in DOMAIN bs.completed \cap {range} : bs.completed[r].requester = "Consensus"}
             s == [bs EXCEPT !.self_headers = Without(@, A), !.completed = Without(@, B)]
             W == IF bs.mode = "Consensus" THEN wanted \ {range} ELSE wanted
  <1>1. Finish(s, ledger, expired, W)
    BY DEF HandleSelfCancelRequest
  <1>2. A \subseteq {range} /\ B \subseteq {range} /\ (A \cup B # {} => bs.mode = "Consensus")
    <2>1. \A r \in DOMAIN bs.self_headers : bs.self_headers[r].requester = bs.mode
      BY DEF IInv, Sound, Owned, Ask
    <2>2. \A r \in DOMAIN bs.completed : bs.completed[r].requester = bs.mode
      BY DEF IInv, Sound, Owned
    <2> QED BY <2>1, <2>2
  <1> HIDE DEF A, B
  <1>3. /\ IsState(s)
        /\ s.self_headers = Without(bs.self_headers, A) /\ s.completed = Without(bs.completed, B)
        /\ s.headers_requests = bs.headers_requests /\ s.self_payloads = bs.self_payloads
        /\ s.in_flight = bs.in_flight /\ s.mode = bs.mode /\ s.fetch = bs.fetch
        /\ s.schedule = bs.schedule /\ s.reset = bs.reset /\ s.emit = bs.emit /\ s.panicked = bs.panicked
    <2>1. IsState(bs) /\ s = [bs EXCEPT !.self_headers = Without(@, A), !.completed = Without(@, B)]
      BY DEF IInv, Sound
    <2> HIDE DEF s
    <2> QED BY <2>1 DEF IsState
  <1> HIDE DEF s
  <1>4. /\ DOMAIN s.self_headers = DOMAIN bs.self_headers \ A
        /\ \A r \in DOMAIN s.self_headers : s.self_headers[r] = bs.self_headers[r]
        /\ s.self_headers \in [DOMAIN s.self_headers -> Ask(bs.mode)]
    <2>1. s.self_headers = [r \in DOMAIN bs.self_headers \ A |-> bs.self_headers[r]]
      BY <1>3 DEF Without, Restrict
    <2>2. \A r \in DOMAIN bs.self_headers : bs.self_headers[r] \in Ask(bs.mode)
      BY DEF IInv, Sound, Owned
    <2> QED BY <2>1, <2>2
  <1>5. /\ DOMAIN s.completed = DOMAIN bs.completed \ B
        /\ \A r \in DOMAIN s.completed : s.completed[r] = bs.completed[r]
    BY <1>3 DEF Without, Restrict
  <1>6. Started(s) = Started(bs)
    BY <1>3 DEF Started
  <1>7. Owned(s) /\ Counted(s) /\ Full(s)
    BY <1>3, <1>4, <1>5, <1>6 DEF IInv, Sound, Owned, Counted, Full
  <1>8. Listed(s) /\ Chained(s) /\ Fetched(s) /\ NotReset(s) /\ ~s.panicked
    BY <1>3, <1>4, <1>5 DEF IInv, Sound, Listed, Chained, Fetched, NotReset
  <1>9. Kept(s, W)
    <2> HIDE DEF W
    <2>1. W \subseteq wanted /\ (bs.mode = "Consensus" => W = wanted \ {range})
      BY DEF W
    <2>2. ASSUME NEW r \in W PROVE r \notin A /\ r \notin B
      BY <1>2, <2>1
    <2> QED BY <1>3, <1>4, <1>5, <2>1, <2>2 DEF IInv, Sound, Kept
  <1>10. AllAwaited(s, Requested(ledger), timers \cup expired)
    BY <1>3, <1>4, <1>6 DEF IInv, AllAwaited, Awaited
  <1>11. Sound(s, W) /\ ledger \in Seq(LedgerAnswer)
    BY <1>3, <1>7, <1>8, <1>9 DEF Sound, IInv
  <1> HIDE DEF W
  <1> QED BY <1>1, <1>7, <1>10, <1>11, FinishOk

(* The cached blocks of a range are its last ones, without a gap.          *)
LEMMA CachedChain ==
    ASSUME NEW range \in [last : Int, num : Int]
    PROVE  /\ IsFiniteSet(CachedBlocks(range)) /\ Cardinality(CachedBlocks(range)) \in Nat
           /\ CachedBlocks(range) # {} =>
                 Min(CachedBlocks(range)) = range.last - Cardinality(CachedBlocks(range)) + 1
  <1> DEFINE S == CachedBlocks(range)
             l == range.last
             first == range.last - range.num + 1
  <1>1. l \in Int /\ range.num \in Int /\ first \in Int
    OBVIOUS
  <1>2. IsFiniteSet(S) /\ Cardinality(S) \in Nat
    <2>1. S \subseteq first..l
      BY DEF CachedBlocks, Blocks
    <2>2. IsFiniteSet(first..l)
      BY <1>1, FS_Interval
    <2> HIDE DEF S
    <2> QED BY <2>1, <2>2, FS_Subset, FS_CardinalityType
  <1>3. ASSUME S # {} PROVE Min(S) = l - Cardinality(S) + 1
    <2>1. \A b : b \in S <=> b \in first..l /\ live /\ b..l \subseteq cache
      BY DEF CachedBlocks, Blocks
    <2>2. live /\ \A b \in S, c \in Int : b <= c /\ c <= l => c \in S
      <3>1. live
        BY <1>3, <2>1
      <3>2. ASSUME NEW b \in S, NEW c \in Int, b <= c, c <= l PROVE c \in S
        <4>1. b \in Int /\ first <= b /\ b..l \subseteq cache
          BY <1>1, <2>1
        <4>2. c \in first..l /\ c..l \subseteq b..l
          BY <1>1, <3>2, <4>1
        <4> QED BY <2>1, <3>1, <4>1, <4>2
      <3> QED BY <3>1, <3>2
    <2> DEFINE Missing == {n \in Nat : l - n \notin S}
    <2>3. range.num \in Missing
      <3>1. PICK b \in S : b \in first..l
        BY <1>3, <2>1
      <3>2. range.num \in Nat
        BY <1>1, <3>1
      <3>3. l - range.num \notin first..l
        BY <1>1
      <3> QED BY <2>1, <3>2, <3>3
    <2>4. PICK n \in Missing : \A m \in Missing : n <= m
      BY <2>3, LeastNumber
    <2>5. n \in Nat /\ l - n \notin S /\ \A m \in Nat : m < n => l - m \in S
      BY <2>4
    <2>6. n # 0
      <3>1. PICK b \in S : b \in first..l
        BY <1>3, <2>1
      <3>2. l \in S
        BY <1>1, <2>2, <3>1
      <3> QED BY <1>1, <2>5, <3>2
    <2>7. S = l - n + 1 .. l
      <3>1. ASSUME NEW b \in S PROVE b \in l - n + 1 .. l
        <4>1. b \in Int /\ b <= l
          BY <1>1, <2>1
        <4>2. CASE b <= l - n
          <5>1. l - n \in Int /\ l - n <= l
            BY <1>1, <2>5
          <5>2. l - n \in S
            BY <2>2, <4>2, <5>1
          <5> QED BY <2>5, <5>2
        <4>3. CASE b > l - n
          BY <1>1, <2>5, <4>1, <4>3
        <4> QED BY <1>1, <2>5, <4>1, <4>2, <4>3
      <3>2. ASSUME NEW b \in l - n + 1 .. l PROVE b \in S
        <4>1. l - b \in Nat /\ l - b < n /\ l - (l - b) = b
          BY <1>1, <2>5, <3>2
        <4> QED BY <2>5, <4>1
      <3> QED BY <3>1, <3>2
    <2>8. Cardinality(S) = n
      <3> DEFINE a == l - n + 1
      <3>1. a \in Int /\ a <= l /\ S = a..l
        BY <1>1, <2>5, <2>6, <2>7
      <3>2. Cardinality(a..l) = IF a > l THEN 0 ELSE l - a + 1
        BY <1>1, <3>1, FS_Interval
      <3>3. l - a + 1 = n
        BY <1>1, <2>5
      <3> HIDE DEF S, a
      <3> QED BY <1>1, <3>1, <3>2, <3>3
    <2>9. Min(S) = l - n + 1
      <3> DEFINE a == l - n + 1
      <3>1. a \in S /\ \A b \in S : b \in Int /\ a <= b
        BY <1>1, <2>5, <2>6, <2>7
      <3>2. a \in Int
        BY <1>1, <2>5
      <3>3. \A b \in S : (\A c \in S : b <= c) => b = a
        <4> HIDE DEF S, a
        <4> QED BY <3>1, <3>2
      <3> HIDE DEF S, a
      <3>4. Min(S) = a
        BY <3>1, <3>3 DEF Min
      <3> QED BY <3>4 DEF a
    <2> QED BY <2>8, <2>9
  <1> QED BY <1>2, <1>3

(* A request of a peer is noted and goes to the ledger.                    *)
LEMMA PeerFetch ==
    ASSUME IInv, NEW s, NEW q \in FetchRequest, IsState(s), Chained(s), s.fetch = {q},
           s.self_headers = bs.self_headers, s.self_payloads = bs.self_payloads, s.in_flight = bs.in_flight,
           s.completed = bs.completed, s.mode = bs.mode, s.schedule = bs.schedule, s.reset = bs.reset,
           s.emit = bs.emit, s.panicked = bs.panicked, Finish(s, ledger, expired, wanted)
    PROVE  IInv'
  <1>1. Fetched(s)
    BY FS_Singleton DEF Fetched
  <1>2. /\ Sound(bs, wanted) /\ Full(bs) /\ bs.fetch = {} /\ ~bs.panicked /\ ledger \in Seq(LedgerAnswer)
        /\ AllAwaited(bs, Requested(ledger), timers \cup expired)
    BY DEF IInv, Sound, Settled
  <1>3. bs.fetch \subseteq s.fetch /\ ~s.panicked
    BY <1>2
  <1>4. Sound(s, wanted) /\ Full(s) /\ AllAwaited(s, Requested(ledger), timers \cup expired)
    BY <1>1, <1>2, <1>3, SameLists
  <1> QED BY <1>2, <1>4, FinishOk

LEMMA PeerRequestOk ==
    ASSUME ConstantsOk, IInv, NEW a \in Asks, HandlePeerRequest(a.from, a.request)
    PROVE  IInv'
  <1>0. /\ IsState(bs) /\ Sound(bs, wanted) /\ Full(bs) /\ ledger \in Seq(LedgerAnswer)
        /\ AllAwaited(bs, Requested(ledger), timers \cup expired)
    BY DEF IInv, Sound
  <1>1. Finish(bs, ledger, expired, wanted) => IInv'
    BY <1>0, FinishOk
  <1>2. CASE "range" \in DOMAIN a.request
    <2> DEFINE range == a.request.range
               cached == CachedBlocks(range)
               n == Cardinality(cached)
               rest == [last |-> range.last - n, num |-> range.num - n]
               entry == [range |-> rest, from |-> a.from, cached |-> cached]
               same == {e \in bs.headers_requests : e.range = rest /\ e.from = a.from}
               s == [bs EXCEPT !.headers_requests = (@ \ same) \cup {entry}, !.fetch = {Headers(rest)}]
    <2>1. \/ Finish(bs, ledger, expired, wanted)
          \/ Finish(s, ledger, expired, wanted)
      BY <1>2, Zenon DEF HandlePeerRequest
    <2>2. range \in [last : Int, num : Int]
      BY <1>2 DEF ConstantsOk
    <2>3. n \in Nat /\ (cached # {} => Min(cached) = range.last - n + 1)
      <3> HIDE DEF range
      <3> QED BY <2>2, CachedChain
    <2> HIDE DEF range, cached, n
    <2>4. rest \in [last : Int, num : Int] /\ rest.last = range.last - n
      BY <2>2, <2>3
    <2>5. cached # {} => Min(cached) = rest.last + 1
      <3>1. range.last \in Int
        BY <2>2
      <3> QED BY <2>3, <2>4, <3>1
    <2> HIDE DEF rest
    <2>6. entry.range = rest /\ entry.cached = cached
      OBVIOUS
    <2> HIDE DEF entry, same
    <2>7. /\ IsState(s) /\ s.headers_requests = (bs.headers_requests \ same) \cup {entry}
          /\ s.fetch = {Headers(rest)}
          /\ s.self_headers = bs.self_headers /\ s.self_payloads = bs.self_payloads
          /\ s.in_flight = bs.in_flight /\ s.completed = bs.completed /\ s.mode = bs.mode
          /\ s.schedule = bs.schedule /\ s.reset = bs.reset /\ s.emit = bs.emit /\ s.panicked = bs.panicked
      <3>1. s = [bs EXCEPT !.headers_requests = (@ \ same) \cup {entry}, !.fetch = {Headers(rest)}]
        BY Zenon
      <3> HIDE DEF s
      <3> QED BY <1>0, <3>1 DEF IsState
    <2> HIDE DEF s
    <2>8. Chained(s)
      BY <1>0, <2>5, <2>6, <2>7 DEF Chained, Sound
    <2>9. Headers(rest) \in FetchRequest
      BY <2>4 DEF FetchRequest
    <2> QED BY <1>1, <2>1, <2>7, <2>8, <2>9, PeerFetch
  <1>3. CASE "range" \notin DOMAIN a.request
    <2> DEFINE q == a.request
               noted == bs.payload_requests \cup {[body |-> q.body, from |-> a.from]}
               s == [bs EXCEPT !.payload_requests = noted, !.fetch = {q}]
    <2>1. \/ Finish(bs, ledger, expired, wanted)
          \/ Finish(s, ledger, expired, wanted)
      BY <1>3, Zenon DEF HandlePeerRequest
    <2>2. q = Bodies(q.body)
      BY <1>3 DEF ConstantsOk
    <2>3. q.body \in {x.request.body : x \in Asks}
      OBVIOUS
    <2>4. q \in FetchRequest
      BY <2>2, <2>3 DEF FetchRequest
    <2> HIDE DEF q, noted
    <2>5. /\ IsState(s) /\ s.headers_requests = bs.headers_requests
          /\ s.fetch = {q}
          /\ s.self_headers = bs.self_headers /\ s.self_payloads = bs.self_payloads
          /\ s.in_flight = bs.in_flight /\ s.completed = bs.completed /\ s.mode = bs.mode
          /\ s.schedule = bs.schedule /\ s.reset = bs.reset /\ s.emit = bs.emit /\ s.panicked = bs.panicked
      <3>1. s = [bs EXCEPT !.payload_requests = noted, !.fetch = {q}]
        BY Zenon
      <3> HIDE DEF s
      <3> QED BY <1>0, <3>1 DEF IsState
    <2> HIDE DEF s
    <2>6. Chained(s)
      BY <1>0, <2>5 DEF Chained, Sound
    <2> QED BY <1>1, <2>1, <2>4, <2>5, <2>6, PeerFetch
  <1> QED BY <1>2, <1>3

(* The peers that wait for an answer of the ledger are served: the blocks  *)
(* they are sent form a chain.                                             *)
LEMMA ServedSound ==
    ASSUME IInv, NEW range, NEW found, NEW L, NEW T, AllAwaited(bs, L, T)
    PROVE  /\ Sound(ServeHeaders(bs, range, found), wanted)
           /\ Full(ServeHeaders(bs, range, found))
           /\ AllAwaited(ServeHeaders(bs, range, found), L, T)
           /\ ServeHeaders(bs, range, found).reset = {}
  <1> DEFINE mine == {e \in bs.headers_requests : e.range = range}
             torn == \E e \in mine : found /\ e.cached # {} /\ Min(e.cached) # range.last + 1
             bad == bs.panicked \/ torn
             s == ServeHeaders(bs, range, found)
  <1>1. s = [bs EXCEPT !.headers_requests = @ \ mine, !.panicked = bad]
    BY Zenon DEF ServeHeaders
  <1>2. IsState(bs) /\ Sound(bs, wanted) /\ Full(bs) /\ bs.reset = {} /\ ~bs.panicked /\ Chained(bs) /\ Fetched(bs)
    BY DEF IInv, Sound, Settled
  <1>3. ~bad
    BY <1>2 DEF Chained
  <1> HIDE DEF bad, s, mine
  <1>4. /\ IsState(s) /\ s.headers_requests = bs.headers_requests \ mine /\ s.panicked = bad
        /\ s.self_headers = bs.self_headers /\ s.self_payloads = bs.self_payloads
        /\ s.in_flight = bs.in_flight /\ s.completed = bs.completed /\ s.mode = bs.mode
        /\ s.fetch = bs.fetch /\ s.schedule = bs.schedule /\ s.reset = bs.reset /\ s.emit = bs.emit
    BY <1>1, <1>2 DEF IsState
  <1>5. Chained(s) /\ Fetched(s) /\ ~s.panicked
    BY <1>2, <1>3, <1>4 DEF Chained, Fetched
  <1>6. Sound(s, wanted) /\ Full(s) /\ AllAwaited(s, L, T)
    BY <1>2, <1>4, <1>5, SameLists
  <1> QED BY <1>2, <1>4, <1>6 DEF s

LEMMA RequestShape ==
    ASSUME NEW q \in FetchRequest
    PROVE  IF "range" \in DOMAIN q THEN q = Headers(q.range) ELSE q = Bodies(q.body)
  <1>1. CASE \E r : q = Headers(r)
    BY <1>1, RequestForms
  <1>2. CASE \E p : q = Bodies(p)
    BY <1>2, RequestForms
  <1> QED BY <1>1, <1>2 DEF FetchRequest

LEMMA AwaitedMore ==
    ASSUME NEW st, NEW L, NEW T, NEW L2, NEW T2, AllAwaited(st, L, T), L \subseteq L2, T \subseteq T2
    PROVE  AllAwaited(st, L2, T2)
  BY DEF AllAwaited, Awaited

LEMMA LedgerResponseOk ==
    ASSUME ConstantsOk, IInv, HandleLedgerResponse
    PROVE  IInv'
  <1> DEFINE r == Head(ledger).request
             found == Head(ledger).found
             L == Requested(Tail(ledger))
             T == timers \cup expired
             served == {e \in bs.payload_requests : e.body # r.body}
             st == [bs EXCEPT !.payload_requests = served]
  <1>1. ledger # <<>> /\ ledger \in Seq(LedgerAnswer)
    BY DEF HandleLedgerResponse, IInv
  <1>2. PICK to \in Peer \cup {None} :
          \E s \in IF "range" \in DOMAIN r
                    THEN HandleHeadersResponseForSelf(
                            ServeHeaders(bs, r.range, found), None, r.range, found, TRUE, to)
                    ELSE HandlePayloadResponseForSelf(st, None, r.body, found, to) :
             Finish(s, Tail(ledger), expired, wanted)
    BY Zenon DEF HandleLedgerResponse
  <1>3. r \in FetchRequest /\ Tail(ledger) \in Seq(LedgerAnswer)
    <2>1. Head(ledger) \in LedgerAnswer /\ Tail(ledger) \in Seq(LedgerAnswer)
      BY <1>1
    <2> QED BY <2>1 DEF LedgerAnswer
  <1>4. Requested(ledger) \subseteq L \cup {r}
    <2>1. ASSUME NEW x \in Requested(ledger) PROVE x \in L \cup {r}
      <3>1. PICK i \in 1..Len(ledger) : x = ledger[i].request
        BY <1>1, <2>1 DEF Requested, Range
      <3>2. CASE i = 1
        BY <1>1, <3>1, <3>2
      <3>3. CASE i # 1
        <4>1. i - 1 \in DOMAIN Tail(ledger) /\ Tail(ledger)[i - 1] = ledger[i]
          BY <1>1, <3>1, <3>3
        <4> QED BY <3>1, <4>1 DEF Requested, Range
      <3> QED BY <3>2, <3>3
    <2> QED BY <2>1
  <1>5. AllAwaited(bs, L \cup {r}, T)
    <2> HIDE DEF L, T, r
    <2>1. AllAwaited(bs, Requested(ledger), T)
      BY DEF IInv, T
    <2> QED BY <1>4, <2>1, AwaitedMore
  <1> HIDE DEF L, T, r, found
  <1>6. CASE "range" \in DOMAIN r
    <2> DEFINE t == ServeHeaders(bs, r.range, found)
    <2>1. PICK s \in HandleHeadersResponseForSelf(t, None, r.range, found, TRUE, to) :
             Finish(s, Tail(ledger), expired, wanted)
      BY <1>2, <1>6
    <2>2. r = Headers(r.range)
      BY <1>3, <1>6, RequestShape
    <2>3. Sound(t, wanted) /\ Full(t) /\ t.reset = {} /\ AllAwaited(t, L \cup {r}, T)
      BY <1>5, ServedSound
    <2> HIDE DEF t
    <2>4. Sound(s, wanted) /\ AllAwaited(s, L, T) /\ Full(s)
      BY <2>1, <2>2, <2>3, HeadersResponse
    <2> QED BY <1>3, <2>1, <2>4, FinishOk DEF L, T
  <1>7. CASE "range" \notin DOMAIN r
    <2>1. PICK s \in HandlePayloadResponseForSelf(st, None, r.body, found, to) :
             Finish(s, Tail(ledger), expired, wanted)
      BY <1>2, <1>7
    <2>2. r = Bodies(r.body)
      BY <1>3, <1>7, RequestShape
    <2>3. IsState(bs) /\ Sound(bs, wanted) /\ Full(bs) /\ bs.reset = {} /\ ~bs.panicked /\ Chained(bs) /\ Fetched(bs)
      BY DEF IInv, Sound, Settled
    <2> HIDE DEF served
    <2>4. /\ IsState(st) /\ st.headers_requests = bs.headers_requests /\ st.panicked = bs.panicked
          /\ st.self_headers = bs.self_headers /\ st.self_payloads = bs.self_payloads
          /\ st.in_flight = bs.in_flight /\ st.completed = bs.completed /\ st.mode = bs.mode
          /\ st.fetch = bs.fetch /\ st.schedule = bs.schedule /\ st.reset = bs.reset /\ st.emit = bs.emit
      <3>1. st = [bs EXCEPT !.payload_requests = served]
        BY Zenon
      <3> HIDE DEF st
      <3> QED BY <2>3, <3>1 DEF IsState
    <2> HIDE DEF st
    <2>5. Chained(st) /\ Fetched(st) /\ ~st.panicked
      BY <2>3, <2>4 DEF Chained, Fetched
    <2>6. Sound(st, wanted) /\ Full(st) /\ AllAwaited(st, L \cup {r}, T)
      BY <1>5, <2>3, <2>4, <2>5, SameLists
    <2>7. Sound(s, wanted) /\ AllAwaited(s, L, T) /\ Full(s)
      BY <2>1, <2>2, <2>3, <2>4, <2>6, BodyResponse
    <2> QED BY <1>3, <2>1, <2>7, FinishOk DEF L, T
  <1> QED BY <1>6, <1>7

LEMMA PeerResponseOk ==
    ASSUME ConstantsOk, IInv, NEW from \in Peer, NEW q \in Request, NEW found \in BOOLEAN,
           NEW valid \in BOOLEAN, HandlePeerResponse(from, q, found, valid)
    PROVE  IInv'
  <1> DEFINE L == Requested(ledger)
             T == timers \cup expired
  <1>1. PICK s \in IF "range" \in DOMAIN q
                   THEN HandleHeadersResponseForSelf(bs, from, q.range, found, valid, None)
                   ELSE HandlePayloadResponseForSelf(bs, from, q.body, found, None) :
           Finish(s, ledger, expired, wanted)
    BY Zenon DEF HandlePeerResponse
  <1>2. /\ Sound(bs, wanted) /\ Full(bs) /\ bs.reset = {} /\ ledger \in Seq(LedgerAnswer)
        /\ AllAwaited(bs, L, T) /\ from # None
    BY SlotsNat DEF IInv, Settled
  <1> HIDE DEF L, T
  <1>3. AllAwaited(bs, L \cup {q}, T)
    BY <1>2, AwaitedMore
  <1>4. Sound(s, wanted) /\ AllAwaited(s, L, T) /\ Full(s)
    <2>1. CASE \E r \in Ranges : q = Headers(r)
      <3>1. "range" \in DOMAIN q /\ q = Headers(q.range)
        BY <2>1, RequestForms
      <3>2. s \in HandleHeadersResponseForSelf(bs, from, q.range, found, valid, None)
        BY <1>1, <3>1
      <3> QED BY <1>2, <1>3, <3>1, <3>2, HeadersResponse
    <2>2. CASE \E p : q = Bodies(p)
      <3>1. "range" \notin DOMAIN q /\ q = Bodies(q.body)
        BY <2>2, RequestForms
      <3>2. s \in HandlePayloadResponseForSelf(bs, from, q.body, found, None)
        BY <1>1, <3>1
      <3> QED BY <1>2, <1>3, <3>1, <3>2, BodyResponse
    <2> QED BY <2>1, <2>2 DEF Request
  <1> QED BY <1>1, <1>2, <1>4, FinishOk DEF L, T

LEMMA TimeoutOk ==
    ASSUME ConstantsOk, IInv, NEW q \in Request, NEW to \in Peer \cup {None}, HandleTimeout(q, to)
    PROVE  IInv'
  <1> DEFINE L == Requested(ledger)
             T == timers \cup (expired \ {q})
             known == IF "range" \in DOMAIN q THEN q.range \in DOMAIN bs.self_headers ELSE q.body \in Started(bs)
             s == IF known THEN AskPeer(bs, q, to) ELSE bs
  <1>1. Finish(s, ledger, expired \ {q}, wanted)
    BY Zenon DEF HandleTimeout
  <1>2. Sound(bs, wanted) /\ Full(bs) /\ ledger \in Seq(LedgerAnswer)
    BY DEF IInv
  <1>3. AllAwaited(bs, L \cup {q}, T \cup {q})
    <2>1. L \subseteq L \cup {q} /\ timers \cup expired \subseteq T \cup {q} /\ AllAwaited(bs, L, timers \cup expired)
      BY DEF IInv
    <2> HIDE DEF L, T
    <2> QED BY <2>1, AwaitedMore
  <1> HIDE DEF L, T
  <1>4. Sound(s, wanted) /\ AllAwaited(s, L, T) /\ Full(s)
    <2>1. CASE \E r : q = Headers(r)
      <3>1. "range" \in DOMAIN q /\ q = Headers(q.range)
        BY <2>1, RequestForms
      <3>2. CASE q.range \in DOMAIN bs.self_headers
        <4>1. s = AskPeer(bs, Headers(q.range), to)
          BY <3>1, <3>2
        <4> HIDE DEF s
        <4> QED BY <1>2, <1>3, <3>1, <3>2, <4>1, AskHeaders
      <3>3. CASE q.range \notin DOMAIN bs.self_headers
        <4>1. s = bs
          BY <3>1, <3>3
        <4>2. /\ \A r \in DOMAIN bs.self_headers : Headers(r) # q
              /\ \A p \in Started(bs) : Bodies(p) # q
          BY <3>1, <3>3, RequestForms
        <4> HIDE DEF s
        <4> QED BY <1>2, <1>3, <4>1, <4>2, Unasked
      <3> QED BY <3>2, <3>3
    <2>2. CASE \E p : q = Bodies(p)
      <3>1. "range" \notin DOMAIN q /\ q = Bodies(q.body)
        BY <2>2, RequestForms
      <3>2. CASE q.body \in Started(bs)
        <4>1. s = AskPeer(bs, Bodies(q.body), to)
          BY <3>1, <3>2
        <4> HIDE DEF s
        <4> QED BY <1>2, <1>3, <3>1, <3>2, <4>1, AskBodies
      <3>3. CASE q.body \notin Started(bs)
        <4>1. s = bs
          BY <3>1, <3>3
        <4>2. /\ \A r \in DOMAIN bs.self_headers : Headers(r) # q
              /\ \A p \in Started(bs) : Bodies(p) # q
          BY <3>1, <3>3, RequestForms
        <4> HIDE DEF s
        <4> QED BY <1>2, <1>3, <4>1, <4>2, Unasked
      <3> QED BY <3>2, <3>3
    <2> QED BY <2>1, <2>2 DEF Request
  <1> HIDE DEF s
  <1> QED BY <1>1, <1>2, <1>4, FinishOk DEF L, T

LEMMA InitOk ==
    ASSUME ConstantsOk, Init
    PROVE  IInv
  <1>1. bs = New /\ ledger = <<>> /\ wanted = {}
    BY DEF Init
  <1>2. Settled(New) /\ DOMAIN New.self_headers = {} /\ Started(New) = {}
    BY DEF Settled, New, Started
  <1>3. AllAwaited(bs, Requested(ledger), timers \cup expired)
    BY <1>1, <1>2 DEF AllAwaited
  <1>4. <<>> \in Seq(LedgerAnswer)
    OBVIOUS
  <1> QED BY <1>1, <1>2, <1>3, <1>4, NewSound DEF IInv

LEMMA NextOk ==
    ASSUME ConstantsOk, IInv, [Next]_vars
    PROVE  IInv'
  <1>1. ASSUME NEW r \in Ranges, HandleSelfRequest(r) PROVE IInv'
    BY <1>1, SelfRequestOk
  <1>2. ASSUME NEW r \in Ranges, HandleSelfCancelRequest(r) PROVE IInv'
    BY <1>2, SelfCancelOk
  <1>3. ASSUME NEW a \in Asks, HandlePeerRequest(a.from, a.request) PROVE IInv'
    BY <1>3, PeerRequestOk
  <1>4. CASE HandleLedgerResponse
    BY <1>4, LedgerResponseOk
  <1>5. ASSUME NEW from \in Peer, NEW q \in Request, NEW found \in BOOLEAN, NEW valid \in BOOLEAN,
               HandlePeerResponse(from, q, found, valid)
        PROVE  IInv'
    BY <1>5, PeerResponseOk
  <1>6. ASSUME NEW q \in Request, TimerExpires(q) PROVE IInv'
    <2>1. /\ timers' \cup expired' = timers \cup expired
          /\ bs' = bs /\ ledger' = ledger /\ wanted' = wanted
      BY <1>6 DEF TimerExpires
    <2> QED BY <2>1 DEF IInv
  <1>7. ASSUME NEW q \in Request, NEW to \in Peer \cup {None}, HandleTimeout(q, to) PROVE IInv'
    BY <1>7, TimeoutOk
  <1>8. ASSUME NEW b \in Cacheable, CacheChanges(b) PROVE IInv'
    BY <1>8 DEF CacheChanges, IInv
  <1>9. CASE GoLive
    BY <1>9 DEF GoLive, IInv
  <1>10. CASE UNCHANGED vars
    BY <1>10 DEF vars, IInv
  <1> QED BY <1>1, <1>2, <1>3, <1>4, <1>5, <1>6, <1>7, <1>8, <1>9, <1>10 DEF Next

-----------------------------------------------------------------------------
(* The invariant holds whatever the ledger and the peers answer, timers    *)
(* fire, requests are cancelled and the cache changes.                     *)
THEOREM Invariance ==
    ASSUME ConstantsOk
    PROVE  Spec => []IInv
  <1>1. Init => IInv
    BY InitOk
  <1>2. IInv /\ [Next]_vars => IInv'
    BY NextOk
  <1> QED BY <1>1, <1>2, PTL DEF Spec

(* No assertion of block sync fails and its counter of requests in flight  *)
(* never goes below zero: answers are those of the current requester, and  *)
(* peers are sent chains.                                                  *)
THEOREM AssertionsHold ==
    ASSUME ConstantsOk
    PROVE  Spec => []SyncNoPanic
  <1>1. IInv => SyncNoPanic
    BY DEF IInv, Sound, SyncNoPanic
  <1> QED BY <1>1, Invariance, PTL

(* The slots for bodies are counted exactly, never exceed the limit, and   *)
(* none is free while a body waits.                                        *)
THEOREM SlotsAreCounted ==
    ASSUME ConstantsOk
    PROVE  Spec => []SlotsExact
  <1>1. IInv => SlotsExact
    BY DEF IInv, Sound, Counted, Full, SlotsExact
  <1> QED BY <1>1, Invariance, PTL

(* Each range that is wanted waits for a slot, the ledger or a timer.      *)
THEOREM RangesStayAlive ==
    ASSUME ConstantsOk
    PROVE  Spec => []RequestAlive
  <1>1. ASSUME IInv PROVE RequestAlive
    <2> DEFINE Alive(request) == request \in timers \cup expired \cup {a.request : a \in Range(ledger)}
    <2>1. SUFFICES ASSUME NEW r \in wanted
                   PROVE  \/ r \in DOMAIN bs.self_headers /\ Alive(Headers(r))
                          \/ /\ r \in DOMAIN bs.completed
                             /\ \A p \in BodiesOf(r) \ bs.completed[r].have :
                                   p \in DOMAIN bs.self_payloads /\ (p \in Started(bs) => Alive(Bodies(p)))
      BY Zenon DEF RequestAlive
    <2>2. r \in DOMAIN bs.self_headers \/ r \in DOMAIN bs.completed
      BY <1>1 DEF IInv, Sound, Kept, Settled
    <2>3. /\ \A x \in DOMAIN bs.self_headers : Alive(Headers(x))
          /\ \A p \in Started(bs) : Alive(Bodies(p))
      BY <1>1 DEF IInv, Settled, AllAwaited, Awaited, Requested
    <2> HIDE DEF Alive
    <2> QED BY <1>1, <2>2, <2>3 DEF IInv, Sound, Listed
  <1> QED BY <1>1, Invariance, PTL
=============================================================================
