------------------------------ MODULE LeanUdp -------------------------------
(***************************************************************************)
(* Lean UDP: messages are cut into fragments, which are lost, duplicated   *)
(* and reordered, and put together again in two pools of bounded size.     *)
(* Correct identities send what the encoder makes; the others send any     *)
(* fragments.  A fragment's contents are the number of its message.        *)
(* Source: monad-leanudp/src/encoder.rs, decoder.rs and pool.rs.           *)
(***************************************************************************)
EXTENDS Integers, FiniteSets, FiniteSetsExt, Functions

CONSTANTS
    Correct, Faulty,            \* identities
    MsgIds,                     \* number of message ids, 2^16 in the code
    Count,                      \* Count[n]: fragments of message n of an identity
    MAX_FRAGMENTS,
    max_message_size,           \* in fragments
    max_messages,               \* by pool
    max_messages_per_identity, message_timeout,
    MaxTime                     \* bound on the clock

VARIABLES
    now,
    sent,   \* messages sent, by correct identity
    wire,   \* fragments of correct identities that may arrive
    pools,  \* the priority and the regular pool
    done    \* history: what was put together from correct identities

vars == <<now, sent, wire, pools, done>>

Identity == Correct \cup Faulty
Pool == {"priority", "regular"}
Put(f, x, v) == [y \in DOMAIN f \cup {x} |-> IF y = x THEN v ELSE f[y]]
Without(f, x) == Restrict(f, DOMAIN f \ {x})
Counted(counts, i, d) == [counts EXCEPT ![i] = @ + d]

ConstantsOk ==
    /\ Correct \cap Faulty = {}
    /\ MsgIds \in Nat \ {0} /\ MAX_FRAGMENTS \in Nat
    /\ DOMAIN Count \subseteq Nat /\ \A n \in DOMAIN Count : Count[n] \in Nat \ {0}
    /\ max_message_size \in Nat \ {0}
    /\ max_messages \in [Pool -> Nat] /\ max_messages_per_identity \in Nat \ {0}
    /\ message_timeout \in Nat \ {0}

EmptyPool ==
    [messages |-> <<>>, eviction_index |-> {}, eviction_index_by_identity |-> {},
     message_counts |-> [i \in Identity |-> 0]]

Init ==
    /\ now = 0 /\ wire = {} /\ done = {}
    /\ sent = [i \in Correct |-> 0]
    /\ pools = [pool \in Pool |-> EmptyPool]

Fragment(key, seq, end, n) == [key |-> key, seq |-> seq, end |-> end, message |-> n]
Holds(pool, key) == key \in DOMAIN pools[pool].messages
Stale(pool, key) == pools[pool].messages[key].deadline <= now

-----------------------------------------------------------------------------
(* Encoder::fragment.  Ids come round again; by then the fragments of the  *)
(* message before have arrived or are lost, and the decoder has given it   *)
(* up (an assumption: 2^16 messages take longer than message_timeout).     *)
Send(i) ==
    LET n == sent[i] + 1
        key == <<i, sent[i] % MsgIds>>
    IN /\ n \in DOMAIN Count
       /\ \A f \in wire : f.key # key
       /\ \A pool \in Pool : Holds(pool, key) => Stale(pool, key)
       /\ sent' = [sent EXCEPT ![i] = n]
       /\ wire' = wire \cup {Fragment(key, s, s = Count[n] - 1, n) : s \in 0..Count[n] - 1}
       /\ UNCHANGED <<now, pools, done>>

Lose(f) == wire' = wire \ {f} /\ UNCHANGED <<now, sent, pools, done>>
TimePasses == now < MaxTime /\ now' = now + 1 /\ UNCHANGED <<sent, wire, pools, done>>

-----------------------------------------------------------------------------
(* MessagePool.                                                            *)
(* Mutant: the index by identity is left alone                             *)
RemoveMessageOnce(p, key) ==
    [p EXCEPT !.messages = Without(@, key),
              !.eviction_index = @ \ {<<p.messages[key].deadline, key>>},
              !.message_counts = Counted(@, key[1], -1)]

RemoveMessage(p, key) ==
    LET entry == <<p.messages[key].deadline, key>>
    IN [p EXCEPT !.messages = Without(@, key),
                 !.eviction_index = @ \ {entry},
                 !.eviction_index_by_identity = @ \ {entry},
                 !.message_counts = Counted(@, key[1], -1)]

(* The message of the first entry of an index, if its time is over.  Of    *)
(* entries with one deadline the identity decides, whose order is any,     *)
(* then the message's number.                                              *)
NotAfter(y, z) == \/ y[1] < z[1]
                  \/ y[1] = z[1] /\ (y[2][1] # z[2][1] \/ y[2][2] <= z[2][2])
FirstStale(index) == {x[2] : x \in {y \in index : y[1] <= now /\ \A z \in index : NotAfter(y, z)}}
OfIdentity(p, i) == {x \in p.eviction_index_by_identity : x[2][1] = i}

(* evict_one_stale_for_identity_if_limited.  The limit of an identity      *)
(* depends on its share of the service when the pool is under pressure.    *)
EvictForIdentity(p, i, limit) ==
    IF p.message_counts[i] < limit THEN {p}
    ELSE IF FirstStale(OfIdentity(p, i)) = {} THEN {p}
    ELSE {RemoveMessage(p, key) : key \in FirstStale(OfIdentity(p, i))}

(* evict_before_admission: the oldest if it is stale, or any.              *)
EvictBeforeAdmission(p, max) ==
    IF Cardinality(DOMAIN p.messages) < max \/ p.messages = <<>> THEN {p}
    ELSE IF FirstStale(p.eviction_index) # {} THEN {RemoveMessage(p, key) : key \in FirstStale(p.eviction_index)}
    ELSE {RemoveMessage(p, key) : key \in DOMAIN p.messages}

InsertMessage(p, key) ==
    LET deadline == now + message_timeout
    IN [p EXCEPT !.messages = Put(@, key, [fragments |-> <<>>, total |-> 0, deadline |-> deadline]),
                 !.eviction_index = @ \cup {<<deadline, key>>},
                 !.eviction_index_by_identity = @ \cup {<<deadline, key>>},
                 !.message_counts = Counted(@, key[1], 1)]

(* Mutant: the last fragment completes the message                         *)
DecodeAtEnd(p, f) ==
    LET s == p.messages[f.key]
        fragments == Put(s.fragments, f.seq, f.message)
    IN IF f.end
       THEN [pool |-> RemoveMessage(p, f.key), complete |-> {fragments}]
       ELSE [pool |-> [p EXCEPT !.messages = Put(@, f.key, [s EXCEPT !.fragments = fragments])], complete |-> {}]

(* MessagePool::decode; what contradicts the message drops it.             *)
Decode(p, f) ==
    LET s == p.messages[f.key]
        total == IF f.end THEN f.seq + 1 ELSE s.total
        fragments == Put(s.fragments, f.seq, f.message)
        duplicate == f.seq \in DOMAIN s.fragments
        contradicts == \/ f.end /\ s.total # 0
                       \/ total # 0 /\ f.seq >= total
                       \/ Cardinality(DOMAIN fragments) > max_message_size
    IN IF f.seq >= MAX_FRAGMENTS \/ (~duplicate /\ contradicts)
       THEN [pool |-> RemoveMessage(p, f.key), complete |-> {}]
       ELSE IF duplicate THEN [pool |-> p, complete |-> {}]
       ELSE IF total = Cardinality(DOMAIN fragments)
       THEN [pool |-> RemoveMessage(p, f.key), complete |-> {fragments}]
       ELSE [pool |-> [p EXCEPT !.messages = Put(@, f.key, [s EXCEPT !.fragments = fragments, !.total = total])],
             complete |-> {}]

(* decode_in_pool up to the admission of the message; the identity may be  *)
(* at its limit before or after a stale message of it is evicted.          *)
Admit(p, key, max) ==
    LET i == key[1]
        Full(q) == Cardinality(DOMAIN q.messages) >= max
        evicted == UNION {EvictForIdentity(p, i, limit) : limit \in 1..max_messages_per_identity}
        refused == {q \in evicted : q.message_counts[i] >= 1}
        room == UNION {EvictBeforeAdmission(q, max) : q \in {x \in evicted : x.message_counts[i] < max_messages_per_identity}}
    IN IF key \in DOMAIN p.messages THEN {p}
       ELSE refused \cup {IF Full(q) THEN q ELSE InsertMessage(q, key) : q \in room}

(* select_pool: the pool that has the message, unless it is stale there;   *)
(* otherwise what the score of the identity says at the moment.            *)
Selected(key) ==
    IF Holds("priority", key) THEN IF Stale("priority", key) THEN Pool ELSE {"priority"}
    ELSE IF Holds("regular", key) THEN IF Stale("regular", key) THEN Pool ELSE {"regular"}
    ELSE Pool

(* message_status drops a stale message of the pool it looks at.           *)
Looked(pool, key) ==
    LET looks == pool = "priority" \/ ~Holds("priority", key)
    IN IF looks /\ Holds(pool, key) /\ Stale(pool, key) THEN RemoveMessage(pools[pool], key) ELSE pools[pool]

Receive(f) ==
    \E pool \in Selected(f.key) : \E p \in Admit(Looked(pool, f.key), f.key, max_messages[pool]) :
      LET r == IF f.key \in DOMAIN p.messages THEN Decode(p, f) ELSE [pool |-> p, complete |-> {}]
      IN /\ pools' = [x \in Pool |-> IF x = pool THEN r.pool ELSE Looked(x, f.key)]
         /\ done' = IF f.key[1] \in Correct THEN done \cup r.complete ELSE done
         /\ UNCHANGED <<now, sent, wire>>

AnyFragment == [key : Faulty \X (0..MsgIds - 1), seq : 0..MAX_FRAGMENTS, end : BOOLEAN, message : {0}]

Next ==
    \/ \E i \in Correct : Send(i)
    \/ \E f \in wire : Lose(f)
    \/ \E f \in wire \cup AnyFragment : Receive(f)
    \/ TimePasses

Spec == Init /\ [][Next]_vars

-----------------------------------------------------------------------------
(* Each pool's messages, its two indices of deadlines and its counts by    *)
(* identity describe one set, however messages end: complete, dropped for  *)
(* a contradiction, stale or evicted (the count of an active message "must *)
(* exist").  No message is in both pools, and no limit is exceeded.        *)
PoolsConsistent ==
    /\ \A pool \in Pool :
         LET p == pools[pool]
             entries == {<<p.messages[key].deadline, key>> : key \in DOMAIN p.messages}
         IN /\ p.eviction_index = entries /\ p.eviction_index_by_identity = entries
            /\ \A i \in Identity : p.message_counts[i] = Cardinality({key \in DOMAIN p.messages : key[1] = i})
            /\ \A i \in Identity : p.message_counts[i] <= max_messages_per_identity
            /\ Cardinality(DOMAIN p.messages) <= max_messages[pool]
    /\ \A key \in DOMAIN pools["priority"].messages : ~Holds("regular", key)

(* What a correct identity sent comes out as it was sent or not at all:    *)
(* all fragments of one message and none of another, whichever were lost,  *)
(* repeated, evicted in between or held by a pool when the id came round.  *)
ReassemblyExact ==
    \A fragments \in done : \E n \in DOMAIN Count : fragments = [s \in 0..Count[n] - 1 |-> n]
=============================================================================
