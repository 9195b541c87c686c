--------------------------- MODULE LeanUdp_proofs ---------------------------
(***************************************************************************)
(* Theorems about LeanUdp: for every number of identities, message ids and *)
(* fragments, every size of the two pools and every timeout.               *)
(***************************************************************************)
EXTENDS LeanUdp, FiniteSetTheorems, TLAPS

Key == Identity \X (0..MsgIds - 1)

FragmentType == [key : Key, seq : Nat, end : BOOLEAN, message : Nat]

MessageType ==
    [fragments : UNION {[S -> Nat] : S \in SUBSET Nat}, total : Nat, deadline : Nat]

PoolType ==
    [messages : UNION {[S -> MessageType] : S \in SUBSET Key},
     eviction_index : SUBSET (Nat \X Key),
     eviction_index_by_identity : SUBSET (Nat \X Key),
     message_counts : [Identity -> Int]]

(* Every variable holds values of the source's types. *)
TypeOK ==
    /\ now \in Nat /\ sent \in [Correct -> Nat]
    /\ wire \subseteq FragmentType
    /\ pools \in [Pool -> PoolType]

Entries(p) == {<<p.messages[key].deadline, key>> : key \in DOMAIN p.messages}
KeysOf(p, i) == {key \in DOMAIN p.messages : key[1] = i}

(* The tables of a pool describe one finite set of messages.               *)
Tables(p) ==
    /\ IsFiniteSet(DOMAIN p.messages)
    /\ p.eviction_index = Entries(p) /\ p.eviction_index_by_identity = Entries(p)
    /\ \A i \in Identity : p.message_counts[i] = Cardinality(KeysOf(p, i))

(* The limits of a pool are kept.                                          *)
Limits(p, max) ==
    /\ \A i \in Identity : p.message_counts[i] <= max_messages_per_identity
    /\ Cardinality(DOMAIN p.messages) <= max

(* The correct identities' fragments on the wire are what the encoder      *)
(* makes, those of one key all of one message.                             *)
WireExact ==
    /\ \A f \in wire :
         /\ f.key[1] \in Correct
         /\ f.message \in DOMAIN Count
         /\ f.seq < Count[f.message]
         /\ f.end = (f.seq = Count[f.message] - 1)
    /\ \A f, g \in wire : f.key = g.key => f.message = g.message

(* The fragments held under a correct identity's key are of one message    *)
(* and, until the message is stale, so are those on their way.             *)
Whole(m, n) ==
    /\ \A s \in DOMAIN m.fragments : m.fragments[s] = n /\ s < Count[n]
    /\ m.total \in {0, Count[n]}
Exact(key, m, W, time) ==
    key[1] \in Correct =>
        \E n \in DOMAIN Count :
            /\ Whole(m, n)
            /\ m.deadline > time => \A f \in W : f.key = key => f.message = n

HeldExact(p, W, time) == \A key \in DOMAIN p.messages : Exact(key, p.messages[key], W, time)

(* A pool that has lost some messages and kept the others as they were.    *)
Fewer(q, p) ==
    /\ DOMAIN q.messages \subseteq DOMAIN p.messages
    /\ \A key \in DOMAIN q.messages : q.messages[key] = p.messages[key]

Fresh == [fragments |-> <<>>, total |-> 0, deadline |-> now + message_timeout]

InOnePool == \A key \in DOMAIN pools["priority"].messages : ~Holds("regular", key)

IInv ==
    /\ TypeOK
    /\ \A pool \in Pool : Tables(pools[pool])
    /\ \A pool \in Pool : Limits(pools[pool], max_messages[pool])
    /\ \A pool \in Pool : HeldExact(pools[pool], wire, now)
    /\ WireExact
    /\ InOnePool
    /\ ReassemblyExact

-----------------------------------------------------------------------------
(* What the pool's operations do to its fields.                            *)

LEMMA RemoveMessageIs ==
    ASSUME NEW p \in PoolType, NEW key \in DOMAIN p.messages
    PROVE  /\ RemoveMessage(p, key) \in PoolType
           /\ DOMAIN RemoveMessage(p, key).messages = DOMAIN p.messages \ {key}
           /\ \A k \in DOMAIN p.messages \ {key} : RemoveMessage(p, key).messages[k] = p.messages[k]
           /\ RemoveMessage(p, key).eviction_index = p.eviction_index \ {<<p.messages[key].deadline, key>>}
           /\ RemoveMessage(p, key).eviction_index_by_identity
                = p.eviction_index_by_identity \ {<<p.messages[key].deadline, key>>}
           /\ \A i \in Identity : RemoveMessage(p, key).message_counts[i]
                = IF i = key[1] THEN p.message_counts[i] - 1 ELSE p.message_counts[i]
  <1> DEFINE q == RemoveMessage(p, key)
             entry == <<p.messages[key].deadline, key>>
             counts == Counted(p.message_counts, key[1], -1)
             left == [k \in DOMAIN p.messages \ {key} |-> p.messages[k]]
  <1>1. PICK S \in SUBSET Key : p.messages \in [S -> MessageType]
    BY DEF PoolType
  <1>2. key \in Key /\ key[1] \in Identity
    BY <1>1 DEF Key
  <1>3. p.message_counts \in [Identity -> Int]
    BY DEF PoolType
  <1>4. counts \in [Identity -> Int]
        /\ \A i \in Identity : counts[i] = IF i = key[1] THEN p.message_counts[i] - 1 ELSE p.message_counts[i]
    BY <1>2, <1>3 DEF Counted
  <1>5. left \in [S \ {key} -> MessageType] /\ S \ {key} \in SUBSET Key /\ DOMAIN p.messages = S
    BY <1>1
  <1>6. q = [messages |-> left,
             eviction_index |-> p.eviction_index \ {entry},
             eviction_index_by_identity |-> p.eviction_index_by_identity \ {entry},
             message_counts |-> counts]
    <2>1. left = Without(p.messages, key)
      BY DEF Without, Restrict
    <2>2. q = [p EXCEPT !.messages = left,
                        !.eviction_index = p.eviction_index \ {entry},
                        !.eviction_index_by_identity = p.eviction_index_by_identity \ {entry},
                        !.message_counts = counts]
      BY <2>1, Zenon DEF RemoveMessage
    <2> HIDE DEF q, entry, counts, left
    <2> QED BY <2>2 DEF PoolType
  <1>7. /\ p.eviction_index \in SUBSET (Nat \X Key)
        /\ p.eviction_index_by_identity \in SUBSET (Nat \X Key)
    BY DEF PoolType
  <1> HIDE DEF q, entry, counts, left
  <1>8. q \in PoolType
    BY <1>4, <1>5, <1>6, <1>7 DEF PoolType
  <1>9. q.messages = left /\ q.eviction_index = p.eviction_index \ {entry}
        /\ q.eviction_index_by_identity = p.eviction_index_by_identity \ {entry}
        /\ q.message_counts = counts
    BY <1>6
  <1> QED BY <1>4, <1>8, <1>9 DEF q, entry, left

LEMMA InsertMessageIs ==
    ASSUME ConstantsOk, now \in Nat, NEW p \in PoolType, NEW key \in Key, key \notin DOMAIN p.messages
    PROVE  LET m == [fragments |-> <<>>, total |-> 0, deadline |-> now + message_timeout]
               q == InsertMessage(p, key)
           IN /\ q \in PoolType
              /\ m \in MessageType
              /\ DOMAIN q.messages = DOMAIN p.messages \cup {key}
              /\ q.messages[key] = m
              /\ \A k \in DOMAIN p.messages : q.messages[k] = p.messages[k]
              /\ q.eviction_index = p.eviction_index \cup {<<m.deadline, key>>}
              /\ q.eviction_index_by_identity = p.eviction_index_by_identity \cup {<<m.deadline, key>>}
              /\ \A i \in Identity : q.message_counts[i]
                   = IF i = key[1] THEN p.message_counts[i] + 1 ELSE p.message_counts[i]
  <1> DEFINE m == [fragments |-> <<>>, total |-> 0, deadline |-> now + message_timeout]
             q == InsertMessage(p, key)
             entry == <<now + message_timeout, key>>
             counts == Counted(p.message_counts, key[1], 1)
             more == [k \in DOMAIN p.messages \cup {key} |-> IF k = key THEN m ELSE p.messages[k]]
  <1>1. PICK S \in SUBSET Key : p.messages \in [S -> MessageType]
    BY DEF PoolType
  <1>2. key[1] \in Identity
    BY DEF Key
  <1>3. p.message_counts \in [Identity -> Int]
    BY DEF PoolType
  <1>4. counts \in [Identity -> Int]
        /\ \A i \in Identity : counts[i] = IF i = key[1] THEN p.message_counts[i] + 1 ELSE p.message_counts[i]
    BY <1>2, <1>3 DEF Counted
  <1>5. now + message_timeout \in Nat
    BY DEF ConstantsOk
  <1>6. m \in MessageType
    <2>1. <<>> \in [{} -> Nat] /\ {} \in SUBSET Nat
      OBVIOUS
    <2>2. <<>> \in UNION {[T -> Nat] : T \in SUBSET Nat}
      BY <2>1
    <2> QED BY <1>5, <2>2 DEF MessageType
  <1> HIDE DEF m
  <1>7. more \in [S \cup {key} -> MessageType] /\ S \cup {key} \in SUBSET Key /\ DOMAIN p.messages = S
    BY <1>1, <1>6
  <1>8. q = [messages |-> more,
             eviction_index |-> p.eviction_index \cup {entry},
             eviction_index_by_identity |-> p.eviction_index_by_identity \cup {entry},
             message_counts |-> counts]
    <2>1. more = Put(p.messages, key, m)
      BY DEF Put
    <2>2. q = [p EXCEPT !.messages = more,
                        !.eviction_index = p.eviction_index \cup {entry},
                        !.eviction_index_by_identity = p.eviction_index_by_identity \cup {entry},
                        !.message_counts = counts]
      BY <2>1, Zenon DEF InsertMessage, m
    <2> HIDE DEF q, entry, counts, more
    <2> QED BY <2>2 DEF PoolType
  <1>9. /\ p.eviction_index \in SUBSET (Nat \X Key)
        /\ p.eviction_index_by_identity \in SUBSET (Nat \X Key)
        /\ entry \in Nat \X Key
    BY <1>5 DEF PoolType
  <1>10. m.deadline = now + message_timeout
    BY DEF m
  <1> HIDE DEF q, entry, counts, more
  <1>11. q \in PoolType
    BY <1>4, <1>7, <1>8, <1>9 DEF PoolType
  <1>12. /\ q.messages = more /\ q.eviction_index = p.eviction_index \cup {entry}
         /\ q.eviction_index_by_identity = p.eviction_index_by_identity \cup {entry}
         /\ q.message_counts = counts
    BY <1>8
  <1>13. /\ DOMAIN q.messages = DOMAIN p.messages \cup {key} /\ q.messages[key] = m
         /\ \A k \in DOMAIN p.messages : q.messages[k] = p.messages[k]
    BY <1>12 DEF more
  <1> QED BY <1>4, <1>6, <1>10, <1>11, <1>12, <1>13 DEF q, entry, m

-----------------------------------------------------------------------------
(* The tables and the limits through each operation.                       *)

LEMMA RemoveKeeps ==
    ASSUME NEW p \in PoolType, NEW key \in DOMAIN p.messages, NEW max \in Nat,
           max_messages_per_identity \in Nat,
           Tables(p), Limits(p, max)
    PROVE  LET q == RemoveMessage(p, key)
           IN /\ q \in PoolType /\ Tables(q) /\ Limits(q, max)
              /\ Cardinality(DOMAIN q.messages) < max
              /\ DOMAIN q.messages = DOMAIN p.messages \ {key}
              /\ \A k \in DOMAIN q.messages : q.messages[k] = p.messages[k]
              /\ \A i \in Identity : q.message_counts[i] <= p.message_counts[i]
  <1> DEFINE q == RemoveMessage(p, key)
  <1>1. /\ q \in PoolType
        /\ DOMAIN q.messages = DOMAIN p.messages \ {key}
        /\ \A k \in DOMAIN p.messages \ {key} : q.messages[k] = p.messages[k]
        /\ q.eviction_index = p.eviction_index \ {<<p.messages[key].deadline, key>>}
        /\ q.eviction_index_by_identity = p.eviction_index_by_identity \ {<<p.messages[key].deadline, key>>}
        /\ \A i \in Identity : q.message_counts[i]
             = IF i = key[1] THEN p.message_counts[i] - 1 ELSE p.message_counts[i]
    BY RemoveMessageIs
  <1> HIDE DEF q
  <1>2. key[1] \in Identity
    BY DEF PoolType, Key
  <1>3. /\ IsFiniteSet(DOMAIN q.messages)
        /\ Cardinality(DOMAIN q.messages) = Cardinality(DOMAIN p.messages) - 1
        /\ Cardinality(DOMAIN p.messages) \in Nat
    BY <1>1, FS_RemoveElement, FS_CardinalityType DEF Tables
  <1>4. Entries(q) = Entries(p) \ {<<p.messages[key].deadline, key>>}
    BY <1>1 DEF Entries
  <1>5. ASSUME NEW i \in Identity
        PROVE  /\ q.message_counts[i] = Cardinality(KeysOf(q, i))
               /\ q.message_counts[i] <= p.message_counts[i]
               /\ q.message_counts[i] <= max_messages_per_identity
    <2>1. /\ IsFiniteSet(KeysOf(p, i)) /\ Cardinality(KeysOf(p, i)) \in Nat
          /\ p.message_counts[i] = Cardinality(KeysOf(p, i))
          /\ p.message_counts[i] <= max_messages_per_identity
      BY FS_Subset, FS_CardinalityType DEF Tables, KeysOf, Limits
    <2>2. CASE i = key[1]
      <3>1. KeysOf(q, i) = KeysOf(p, i) \ {key} /\ key \in KeysOf(p, i)
        BY <1>1, <2>2 DEF KeysOf
      <3>2. Cardinality(KeysOf(q, i)) = Cardinality(KeysOf(p, i)) - 1
        BY <2>1, <3>1, FS_RemoveElement
      <3> QED BY <1>1, <2>1, <2>2, <3>2
    <2>3. CASE i # key[1]
      <3>1. KeysOf(q, i) = KeysOf(p, i)
        BY <1>1, <2>3 DEF KeysOf
      <3> QED BY <1>1, <2>1, <2>3, <3>1
    <2> QED BY <2>2, <2>3
  <1>6. Tables(q)
    BY <1>1, <1>3, <1>4, <1>5 DEF Tables
  <1>7. Cardinality(DOMAIN q.messages) < max
    BY <1>3 DEF Limits
  <1>8. Limits(q, max)
    BY <1>3, <1>5, <1>7 DEF Limits
  <1> QED BY <1>1, <1>5, <1>6, <1>7, <1>8 DEF q

LEMMA InsertKeeps ==
    ASSUME ConstantsOk, now \in Nat, NEW p \in PoolType, NEW key \in Key, NEW max \in Nat,
           key \notin DOMAIN p.messages, Tables(p), Limits(p, max),
           p.message_counts[key[1]] < max_messages_per_identity,
           Cardinality(DOMAIN p.messages) < max
    PROVE  Tables(InsertMessage(p, key)) /\ Limits(InsertMessage(p, key), max)
  <1> DEFINE m == [fragments |-> <<>>, total |-> 0, deadline |-> now + message_timeout]
             q == InsertMessage(p, key)
  <1>1. /\ q \in PoolType
        /\ DOMAIN q.messages = DOMAIN p.messages \cup {key}
        /\ q.messages[key] = m
        /\ \A k \in DOMAIN p.messages : q.messages[k] = p.messages[k]
        /\ q.eviction_index = p.eviction_index \cup {<<m.deadline, key>>}
        /\ q.eviction_index_by_identity = p.eviction_index_by_identity \cup {<<m.deadline, key>>}
        /\ \A i \in Identity : q.message_counts[i]
             = IF i = key[1] THEN p.message_counts[i] + 1 ELSE p.message_counts[i]
    BY InsertMessageIs
  <1> HIDE DEF q, m
  <1>2. key[1] \in Identity
    BY DEF Key
  <1>3. /\ IsFiniteSet(DOMAIN q.messages)
        /\ Cardinality(DOMAIN q.messages) = Cardinality(DOMAIN p.messages) + 1
        /\ Cardinality(DOMAIN p.messages) \in Nat
    BY <1>1, FS_AddElement, FS_CardinalityType DEF Tables
  <1>4. Entries(q) = Entries(p) \cup {<<m.deadline, key>>}
    BY <1>1 DEF Entries
  <1>5. ASSUME NEW i \in Identity
        PROVE  /\ q.message_counts[i] = Cardinality(KeysOf(q, i))
               /\ q.message_counts[i] <= max_messages_per_identity
    <2>1. /\ IsFiniteSet(KeysOf(p, i)) /\ Cardinality(KeysOf(p, i)) \in Nat
          /\ p.message_counts[i] = Cardinality(KeysOf(p, i))
          /\ p.message_counts[i] <= max_messages_per_identity
          /\ max_messages_per_identity \in Nat
      BY FS_Subset, FS_CardinalityType DEF Tables, KeysOf, Limits, ConstantsOk
    <2>2. CASE i = key[1]
      <3>1. KeysOf(q, i) = KeysOf(p, i) \cup {key} /\ key \notin KeysOf(p, i)
        BY <1>1, <2>2 DEF KeysOf
      <3>2. Cardinality(KeysOf(q, i)) = Cardinality(KeysOf(p, i)) + 1
        BY <2>1, <3>1, FS_AddElement
      <3> QED BY <1>1, <2>1, <2>2, <3>2
    <2>3. CASE i # key[1]
      <3>1. KeysOf(q, i) = KeysOf(p, i)
        BY <1>1, <2>3 DEF KeysOf
      <3> QED BY <1>1, <2>1, <2>3, <3>1
    <2> QED BY <2>2, <2>3
  <1>6. Tables(q)
    BY <1>1, <1>3, <1>4, <1>5 DEF Tables
  <1>7. Limits(q, max)
    BY <1>3, <1>5 DEF Limits
  <1> QED BY <1>6, <1>7 DEF q

LEMMA FirstStaleHeld ==
    ASSUME NEW p, Tables(p)
    PROVE  /\ FirstStale(p.eviction_index) \subseteq DOMAIN p.messages
           /\ \A i : FirstStale(OfIdentity(p, i)) \subseteq DOMAIN p.messages
  <1>1. \A x \in Entries(p) : x[2] \in DOMAIN p.messages
    BY DEF Entries
  <1>2. p.eviction_index = Entries(p) /\ p.eviction_index_by_identity = Entries(p)
    BY DEF Tables
  <1>3. FirstStale(p.eviction_index) \subseteq DOMAIN p.messages
    BY <1>1, <1>2 DEF FirstStale
  <1>4. ASSUME NEW i PROVE FirstStale(OfIdentity(p, i)) \subseteq DOMAIN p.messages
    <2>1. OfIdentity(p, i) \subseteq Entries(p)
      BY <1>2 DEF OfIdentity
    <2> QED BY <1>1, <2>1 DEF FirstStale
  <1> QED BY <1>3, <1>4

(* Either eviction takes messages away and nothing else.                   *)
LEMMA EvictKeeps ==
    ASSUME ConstantsOk, NEW p \in PoolType, NEW max \in Nat, Tables(p), Limits(p, max)
    PROVE  /\ \A i, limit : \A q \in EvictForIdentity(p, i, limit) :
                 q \in PoolType /\ Tables(q) /\ Limits(q, max) /\ Fewer(q, p)
           /\ \A q \in EvictBeforeAdmission(p, max) :
                 /\ q \in PoolType /\ Tables(q) /\ Limits(q, max) /\ Fewer(q, p)
                 /\ \A i \in Identity : q.message_counts[i] <= p.message_counts[i]
  <1>1. max_messages_per_identity \in Nat
    BY DEF ConstantsOk
  <1>2. ASSUME NEW key \in DOMAIN p.messages
        PROVE  LET q == RemoveMessage(p, key)
               IN /\ q \in PoolType /\ Tables(q) /\ Limits(q, max) /\ Fewer(q, p)
                  /\ \A i \in Identity : q.message_counts[i] <= p.message_counts[i]
    BY <1>1, RemoveKeeps DEF Fewer
  <1>3. Fewer(p, p) /\ \A i \in Identity : p.message_counts[i] <= p.message_counts[i]
    <2>1. p.message_counts \in [Identity -> Int]
      BY DEF PoolType
    <2> QED BY <2>1 DEF Fewer
  <1>4. ASSUME NEW i, NEW limit, NEW q \in EvictForIdentity(p, i, limit)
        PROVE  q \in PoolType /\ Tables(q) /\ Limits(q, max) /\ Fewer(q, p)
    <2>1. q = p \/ \E key \in FirstStale(OfIdentity(p, i)) : q = RemoveMessage(p, key)
      BY <1>4 DEF EvictForIdentity
    <2> QED BY <1>2, <1>3, <2>1, FirstStaleHeld
  <1>5. ASSUME NEW q \in EvictBeforeAdmission(p, max)
        PROVE  /\ q \in PoolType /\ Tables(q) /\ Limits(q, max) /\ Fewer(q, p)
               /\ \A i \in Identity : q.message_counts[i] <= p.message_counts[i]
    <2>1. q = p \/ \E key \in DOMAIN p.messages : q = RemoveMessage(p, key)
      BY FirstStaleHeld DEF EvictBeforeAdmission
    <2> QED BY <1>2, <1>3, <2>1
  <1> QED BY <1>4, <1>5

(* After the admission the pool holds what it held, or less, and it may    *)
(* hold the message that is admitted, without fragments.                   *)
LEMMA AdmitKeeps ==
    ASSUME ConstantsOk, now \in Nat, NEW p \in PoolType, NEW key \in Key, NEW max \in Nat,
           Tables(p), Limits(p, max), NEW q \in Admit(p, key, max)
    PROVE  /\ q \in PoolType /\ Tables(q) /\ Limits(q, max)
           /\ \A k \in DOMAIN q.messages :
                \/ k \in DOMAIN p.messages /\ q.messages[k] = p.messages[k]
                \/ k = key /\ key \notin DOMAIN p.messages /\ q.messages[k] = Fresh
  <1> DEFINE evicted == UNION {EvictForIdentity(p, key[1], limit) : limit \in 1..max_messages_per_identity}
             Result(r) ==
                /\ r \in PoolType /\ Tables(r) /\ Limits(r, max)
                /\ \A k \in DOMAIN r.messages :
                     \/ k \in DOMAIN p.messages /\ r.messages[k] = p.messages[k]
                     \/ k = key /\ key \notin DOMAIN p.messages /\ r.messages[k] = Fresh
  <1>0. max_messages_per_identity \in Nat /\ key[1] \in Identity
    BY DEF ConstantsOk, Key
  <1>1. CASE key \in DOMAIN p.messages
    BY <1>1 DEF Admit
  <1>2. CASE key \notin DOMAIN p.messages
    <2>1. \A r \in evicted : r \in PoolType /\ Tables(r) /\ Limits(r, max) /\ Fewer(r, p)
      BY EvictKeeps
    <2>2. \/ q \in evicted
          \/ \E r \in evicted : \E s \in EvictBeforeAdmission(r, max) :
               /\ r.message_counts[key[1]] < max_messages_per_identity
               /\ q = IF Cardinality(DOMAIN s.messages) >= max THEN s ELSE InsertMessage(s, key)
      BY <1>2 DEF Admit
    <2> HIDE DEF evicted
    <2>3. CASE q \in evicted
      BY <2>1, <2>3 DEF Fewer
    <2>4. ASSUME NEW r \in evicted, NEW s \in EvictBeforeAdmission(r, max),
                 r.message_counts[key[1]] < max_messages_per_identity,
                 q = IF Cardinality(DOMAIN s.messages) >= max THEN s ELSE InsertMessage(s, key)
          PROVE  Result(q)
      <3>1. r \in PoolType /\ Tables(r) /\ Limits(r, max) /\ Fewer(r, p)
        BY <2>1
      <3>2. /\ s \in PoolType /\ Tables(s) /\ Limits(s, max) /\ Fewer(s, r)
            /\ s.message_counts[key[1]] <= r.message_counts[key[1]]
        BY <1>0, <3>1, EvictKeeps
      <3>3. Fewer(s, p) /\ key \notin DOMAIN s.messages
        BY <1>2, <3>1, <3>2 DEF Fewer
      <3>4. CASE Cardinality(DOMAIN s.messages) >= max
        BY <2>4, <3>2, <3>3, <3>4 DEF Fewer
      <3>5. CASE ~ (Cardinality(DOMAIN s.messages) >= max)
        <4>1. Cardinality(DOMAIN s.messages) < max
          BY <3>2, <3>5, FS_CardinalityType DEF Tables
        <4>2. s.message_counts[key[1]] < max_messages_per_identity
          <5>1. s.message_counts[key[1]] \in Int /\ r.message_counts[key[1]] \in Int
            BY <1>0, <3>1, <3>2 DEF PoolType
          <5> QED BY <1>0, <2>4, <3>2, <5>1
        <4>3. q = InsertMessage(s, key)
          BY <2>4, <3>5
        <4>4. Tables(q) /\ Limits(q, max)
          BY <3>2, <3>3, <4>1, <4>2, <4>3, InsertKeeps
        <4>5. /\ q \in PoolType /\ DOMAIN q.messages = DOMAIN s.messages \cup {key}
              /\ q.messages[key] = Fresh
              /\ \A k \in DOMAIN s.messages : q.messages[k] = s.messages[k]
          BY <3>2, <3>3, <4>3, InsertMessageIs DEF Fresh
        <4> QED BY <1>2, <3>3, <4>4, <4>5 DEF Fewer
      <3> QED BY <3>4, <3>5
    <2> QED BY <2>2, <2>3, <2>4
  <1> QED BY <1>1, <1>2

-----------------------------------------------------------------------------
(* Decoding.                                                               *)

(* A message changes and keeps its deadline.                               *)
LEMMA ReplaceKeeps ==
    ASSUME NEW p \in PoolType, NEW key \in DOMAIN p.messages, NEW max \in Nat,
           Tables(p), Limits(p, max),
           NEW m \in MessageType, m.deadline = p.messages[key].deadline
    PROVE  LET q == [p EXCEPT !.messages = Put(@, key, m)]
           IN /\ q \in PoolType /\ Tables(q) /\ Limits(q, max)
              /\ DOMAIN q.messages = DOMAIN p.messages
              /\ \A k \in DOMAIN p.messages : q.messages[k] = IF k = key THEN m ELSE p.messages[k]
  <1> DEFINE q == [p EXCEPT !.messages = Put(@, key, m)]
             more == Put(p.messages, key, m)
  <1>1. PICK S \in SUBSET Key : p.messages \in [S -> MessageType]
    BY DEF PoolType
  <1>2. /\ more \in [S -> MessageType] /\ DOMAIN p.messages = S
        /\ \A k \in S : more[k] = IF k = key THEN m ELSE p.messages[k]
    BY <1>1 DEF Put
  <1> HIDE DEF more
  <1>3. q = [p EXCEPT !.messages = more]
    BY DEF more
  <1>4. /\ q.messages = more
        /\ q.eviction_index = p.eviction_index
        /\ q.eviction_index_by_identity = p.eviction_index_by_identity
        /\ q.message_counts = p.message_counts
        /\ q \in PoolType
    BY <1>2, <1>3 DEF PoolType
  <1> HIDE DEF q
  <1>5. Entries(q) = Entries(p)
    BY <1>2, <1>4 DEF Entries
  <1>6. \A i : KeysOf(q, i) = KeysOf(p, i)
    BY <1>2, <1>4 DEF KeysOf
  <1>7. DOMAIN q.messages = DOMAIN p.messages
    BY <1>2, <1>4
  <1>8. Tables(q)
    BY <1>4, <1>5, <1>6, <1>7 DEF Tables
  <1>9. Limits(q, max)
    BY <1>4, <1>7 DEF Limits
  <1> QED BY <1>2, <1>4, <1>7, <1>8, <1>9 DEF q

(* The three outcomes of decode: the message is dropped, or is complete    *)
(* and leaves the pool, or stays with one fragment more or none.           *)
LEMMA DecodeIs ==
    ASSUME NEW p, NEW f
    PROVE  LET s == p.messages[f.key]
               total == IF f.end THEN f.seq + 1 ELSE s.total
               fragments == Put(s.fragments, f.seq, f.message)
               r == Decode(p, f)
           IN \/ r = [pool |-> RemoveMessage(p, f.key), complete |-> {}]
              \/ r = [pool |-> p, complete |-> {}]
              \/ /\ r = [pool |-> RemoveMessage(p, f.key), complete |-> {fragments}]
                 /\ f.seq \notin DOMAIN s.fragments
                 /\ total = Cardinality(DOMAIN fragments)
              \/ r = [pool |-> [p EXCEPT !.messages =
                                  Put(@, f.key, [s EXCEPT !.fragments = fragments, !.total = total])],
                      complete |-> {}]
  BY DEF Decode

LEMMA StoredType ==
    ASSUME NEW s \in MessageType, NEW f \in FragmentType
    PROVE  LET total == IF f.end THEN f.seq + 1 ELSE s.total
               fragments == Put(s.fragments, f.seq, f.message)
               m == [s EXCEPT !.fragments = fragments, !.total = total]
           IN /\ m \in MessageType /\ m.deadline = s.deadline
              /\ m.fragments = fragments /\ m.total = total
              /\ DOMAIN fragments = DOMAIN s.fragments \cup {f.seq}
              /\ DOMAIN fragments \subseteq Nat
              /\ fragments = [x \in DOMAIN fragments |-> fragments[x]]
              /\ \A x \in DOMAIN fragments : fragments[x] = IF x = f.seq THEN f.message ELSE s.fragments[x]
  <1> DEFINE total == IF f.end THEN f.seq + 1 ELSE s.total
             fragments == Put(s.fragments, f.seq, f.message)
             m == [s EXCEPT !.fragments = fragments, !.total = total]
  <1>1. PICK S \in SUBSET Nat : s.fragments \in [S -> Nat]
    BY DEF MessageType
  <1>2. f.seq \in Nat /\ f.message \in Nat /\ f.end \in BOOLEAN
    BY DEF FragmentType
  <1>3. /\ fragments \in [S \cup {f.seq} -> Nat] /\ S \cup {f.seq} \in SUBSET Nat
        /\ DOMAIN fragments = DOMAIN s.fragments \cup {f.seq}
        /\ \A x \in DOMAIN fragments : fragments[x] = IF x = f.seq THEN f.message ELSE s.fragments[x]
    BY <1>1, <1>2 DEF Put
  <1>4. total \in Nat
    BY <1>2 DEF MessageType
  <1> HIDE DEF fragments, total
  <1>5. fragments \in UNION {[T -> Nat] : T \in SUBSET Nat}
    BY <1>3
  <1>6. /\ m \in MessageType /\ m.deadline = s.deadline
        /\ m.fragments = fragments /\ m.total = total
    BY <1>4, <1>5 DEF MessageType
  <1>7. DOMAIN fragments \subseteq Nat /\ fragments = [x \in DOMAIN fragments |-> fragments[x]]
    BY <1>3
  <1> QED BY <1>3, <1>6, <1>7 DEF fragments, total

LEMMA DecodeKeeps ==
    ASSUME ConstantsOk, NEW p \in PoolType, NEW f \in FragmentType, NEW max \in Nat,
           f.key \in DOMAIN p.messages, Tables(p), Limits(p, max)
    PROVE  LET q == Decode(p, f).pool
           IN /\ q \in PoolType /\ Tables(q) /\ Limits(q, max)
              /\ DOMAIN q.messages \subseteq DOMAIN p.messages
              /\ \A k \in DOMAIN q.messages : k # f.key => q.messages[k] = p.messages[k]
  <1> DEFINE s == p.messages[f.key]
             m == [s EXCEPT !.fragments = Put(s.fragments, f.seq, f.message),
                            !.total = IF f.end THEN f.seq + 1 ELSE s.total]
  <1>1. s \in MessageType
    BY DEF PoolType
  <1>2. m \in MessageType /\ m.deadline = s.deadline
    BY <1>1, StoredType
  <1>3. \/ Decode(p, f).pool = RemoveMessage(p, f.key)
        \/ Decode(p, f).pool = p
        \/ Decode(p, f).pool = [p EXCEPT !.messages = Put(@, f.key, m)]
    <2>1. \/ \E c : Decode(p, f) = [pool |-> RemoveMessage(p, f.key), complete |-> c]
          \/ Decode(p, f) = [pool |-> p, complete |-> {}]
          \/ Decode(p, f) = [pool |-> [p EXCEPT !.messages = Put(@, f.key, m)], complete |-> {}]
      BY DecodeIs, Zenon
    <2> HIDE DEF m
    <2> QED BY <2>1
  <1> HIDE DEF m
  <1>4. max_messages_per_identity \in Nat
    BY DEF ConstantsOk
  <1>5. CASE Decode(p, f).pool = RemoveMessage(p, f.key)
    BY <1>4, <1>5, RemoveKeeps
  <1>6. CASE Decode(p, f).pool = [p EXCEPT !.messages = Put(@, f.key, m)]
    BY <1>2, <1>6, ReplaceKeeps
  <1> QED BY <1>3, <1>5, <1>6

(* A fragment of the message that is held keeps it whole, and what comes   *)
(* out has each of its fragments.                                          *)
LEMMA DecodeExact ==
    ASSUME ConstantsOk, NEW p \in PoolType, NEW f \in FragmentType, NEW max \in Nat,
           f.key \in DOMAIN p.messages, Tables(p), Limits(p, max),
           NEW n \in DOMAIN Count, Whole(p.messages[f.key], n),
           f.message = n, f.seq < Count[n], f.end = (f.seq = Count[n] - 1)
    PROVE  /\ f.key \in DOMAIN Decode(p, f).pool.messages =>
                /\ Whole(Decode(p, f).pool.messages[f.key], n)
                /\ Decode(p, f).pool.messages[f.key].deadline = p.messages[f.key].deadline
           /\ \A c \in Decode(p, f).complete : c = [x \in 0..Count[n] - 1 |-> n]
  <1> DEFINE s == p.messages[f.key]
             total == IF f.end THEN f.seq + 1 ELSE s.total
             fragments == Put(s.fragments, f.seq, f.message)
             m == [s EXCEPT !.fragments = fragments, !.total = total]
             r == Decode(p, f)
  <1>1. s \in MessageType
    BY DEF PoolType
  <1>2. /\ m \in MessageType /\ m.deadline = s.deadline
        /\ m.fragments = fragments /\ m.total = total
        /\ DOMAIN fragments = DOMAIN s.fragments \cup {f.seq}
        /\ DOMAIN fragments \subseteq Nat
        /\ fragments = [x \in DOMAIN fragments |-> fragments[x]]
        /\ \A x \in DOMAIN fragments : fragments[x] = IF x = f.seq THEN f.message ELSE s.fragments[x]
    BY <1>1, StoredType
  <1>3. \/ r = [pool |-> RemoveMessage(p, f.key), complete |-> {}]
        \/ r = [pool |-> p, complete |-> {}]
        \/ /\ r = [pool |-> RemoveMessage(p, f.key), complete |-> {fragments}]
           /\ total = Cardinality(DOMAIN fragments)
        \/ r = [pool |-> [p EXCEPT !.messages = Put(@, f.key, m)], complete |-> {}]
    BY DecodeIs, Zenon
  <1>4. Count[n] \in Nat \ {0} /\ f.seq \in Nat /\ f.end \in BOOLEAN
    BY DEF ConstantsOk, FragmentType
  <1>5. total \in {0, Count[n]}
    <2>1. s.total \in {0, Count[n]}
      BY DEF Whole
    <2>2. f.end => f.seq + 1 = Count[n]
      <3>1. f.end => f.seq = Count[n] - 1
        BY Zenon
      <3> QED BY <1>4, <3>1
    <2> QED BY <2>1, <2>2
  <1>6. \A x \in DOMAIN fragments : fragments[x] = n /\ x < Count[n]
    BY <1>2 DEF Whole
  <1>7. total = Cardinality(DOMAIN fragments) => fragments = [x \in 0..Count[n] - 1 |-> n]
    <2> SUFFICES ASSUME total = Cardinality(DOMAIN fragments)
                 PROVE  fragments = [x \in 0..Count[n] - 1 |-> n]
      OBVIOUS
    <2> HIDE DEF fragments, total
    <2>1. /\ DOMAIN fragments \subseteq 0..Count[n] - 1
          /\ IsFiniteSet(0..Count[n] - 1) /\ Cardinality(0..Count[n] - 1) = Count[n]
      <3>1. DOMAIN fragments \subseteq 0..Count[n] - 1
        BY <1>2, <1>4, <1>6
      <3>2. 0 \in Int /\ Count[n] - 1 \in Int /\ ~ (0 > Count[n] - 1) /\ (Count[n] - 1) - 0 + 1 = Count[n]
        BY <1>4
      <3>3. /\ IsFiniteSet(0..Count[n] - 1)
            /\ Cardinality(0..Count[n] - 1) = (Count[n] - 1) - 0 + 1
        BY <3>2, FS_Interval, Zenon
      <3> QED BY <3>1, <3>2, <3>3
    <2>2. IsFiniteSet(DOMAIN fragments) /\ DOMAIN fragments # {}
      BY <1>2, <2>1, FS_Subset
    <2>3. total # 0
      BY <2>2, FS_EmptySet
    <2>4. Cardinality(DOMAIN fragments) = Cardinality(0..Count[n] - 1)
      BY <1>5, <2>1, <2>3
    <2>5. DOMAIN fragments = 0..Count[n] - 1
      BY <2>1, <2>4, FS_Subset
    <2> QED BY <1>2, <1>6, <2>5
  <1> HIDE DEF fragments, total, m
  <1>8. Whole(m, n)
    BY <1>2, <1>5, <1>6 DEF Whole
  <1> HIDE DEF r
  <1>9. CASE r = [pool |-> RemoveMessage(p, f.key), complete |-> {}]
    BY <1>9, RemoveMessageIs DEF r
  <1>10. CASE r = [pool |-> p, complete |-> {}]
    BY <1>10 DEF r
  <1>11. CASE /\ r = [pool |-> RemoveMessage(p, f.key), complete |-> {fragments}]
              /\ total = Cardinality(DOMAIN fragments)
    <2>1. f.key \notin DOMAIN r.pool.messages
      BY <1>11, RemoveMessageIs
    <2>2. r.complete = {fragments}
      BY <1>11
    <2> QED BY <1>7, <1>11, <2>1, <2>2 DEF r
  <1>12. CASE r = [pool |-> [p EXCEPT !.messages = Put(@, f.key, m)], complete |-> {}]
    <2>1. r.pool.messages[f.key] = m
      <3>1. r.pool = [p EXCEPT !.messages = Put(@, f.key, m)]
        BY <1>12
      <3>2. \A k \in DOMAIN p.messages : r.pool.messages[k] = IF k = f.key THEN m ELSE p.messages[k]
        BY <1>2, <3>1, ReplaceKeeps
      <3> QED BY <3>1, <3>2
    <2>2. r.complete = {}
      BY <1>12
    <2> QED BY <1>2, <1>8, <2>1, <2>2 DEF r
  <1> QED BY <1>3, <1>9, <1>10, <1>11, <1>12

-----------------------------------------------------------------------------
(* message_status leaves no stale message under the key, and none in the   *)
(* pool that is not selected.                                              *)
LEMMA LookedIs ==
    ASSUME ConstantsOk, IInv, NEW key \in Key, NEW pool \in Pool
    PROVE  LET p == Looked(pool, key)
           IN /\ p \in PoolType /\ Tables(p) /\ Limits(p, max_messages[pool]) /\ Fewer(p, pools[pool])
              /\ key \in DOMAIN p.messages => p.messages[key].deadline > now
              /\ pool \notin Selected(key) => key \notin DOMAIN p.messages
              /\ \A other \in Selected(key) : other # pool => key \notin DOMAIN p.messages
  <1> DEFINE p == Looked(pool, key)
  <1>1. /\ pools[pool] \in PoolType /\ Tables(pools[pool]) /\ Limits(pools[pool], max_messages[pool])
        /\ max_messages[pool] \in Nat /\ max_messages_per_identity \in Nat /\ now \in Nat
        /\ pool \in {"priority", "regular"}
    BY DEF IInv, TypeOK, ConstantsOk, Pool
  <1>2. ~ (Holds("priority", key) /\ Holds("regular", key))
    BY DEF IInv, InOnePool, Holds
  <1>3. p = IF Holds(pool, key) /\ Stale(pool, key) THEN RemoveMessage(pools[pool], key) ELSE pools[pool]
    BY <1>1, <1>2 DEF Looked
  <1>4. CASE Holds(pool, key) /\ Stale(pool, key)
    <2>1. p = RemoveMessage(pools[pool], key) /\ key \in DOMAIN pools[pool].messages
      BY <1>3, <1>4 DEF Holds
    <2>2. /\ p \in PoolType /\ Tables(p) /\ Limits(p, max_messages[pool]) /\ Fewer(p, pools[pool])
          /\ key \notin DOMAIN p.messages
      BY <1>1, <2>1, RemoveKeeps DEF Fewer
    <2> QED BY <2>2
  <1>5. CASE Holds(pool, key) /\ ~ Stale(pool, key)
    <2>1. p = pools[pool]
      BY <1>3, <1>5
    <2>2. Selected(key) = {pool}
      BY <1>1, <1>2, <1>5 DEF Selected
    <2>3. pools[pool].messages[key].deadline > now
      <3>1. pools[pool].messages[key].deadline \in Nat
        BY <1>1, <1>5 DEF PoolType, MessageType, Holds
      <3> QED BY <1>1, <1>5, <3>1 DEF Stale
    <2> QED BY <1>1, <2>1, <2>2, <2>3 DEF Fewer
  <1>6. CASE ~ Holds(pool, key)
    BY <1>1, <1>3, <1>6 DEF Holds, Fewer
  <1> QED BY <1>4, <1>5, <1>6

-----------------------------------------------------------------------------
(* One step per action.                                                    *)

(* Fragment f arrives and is given to the selected pool.                   *)
LEMMA ReceiveOk ==
    ASSUME ConstantsOk, IInv, NEW f \in FragmentType, f \in wire \/ f.key[1] \notin Correct, Receive(f)
    PROVE  IInv'
  <1> USE DEF IInv
  <1>1. PICK pool \in Selected(f.key) : \E p \in Admit(Looked(pool, f.key), f.key, max_messages[pool]) :
          LET r == IF f.key \in DOMAIN p.messages THEN Decode(p, f) ELSE [pool |-> p, complete |-> {}]
          IN /\ pools' = [x \in Pool |-> IF x = pool THEN r.pool ELSE Looked(x, f.key)]
             /\ done' = IF f.key[1] \in Correct THEN done \cup r.complete ELSE done
             /\ UNCHANGED <<now, sent, wire>>
    BY DEF Receive
  <1>2. PICK p \in Admit(Looked(pool, f.key), f.key, max_messages[pool]) :
          LET r == IF f.key \in DOMAIN p.messages THEN Decode(p, f) ELSE [pool |-> p, complete |-> {}]
          IN /\ pools' = [x \in Pool |-> IF x = pool THEN r.pool ELSE Looked(x, f.key)]
             /\ done' = IF f.key[1] \in Correct THEN done \cup r.complete ELSE done
             /\ UNCHANGED <<now, sent, wire>>
    BY <1>1
  <1> DEFINE r == IF f.key \in DOMAIN p.messages THEN Decode(p, f) ELSE [pool |-> p, complete |-> {}]
             q == r.pool
             old == Looked(pool, f.key)
             max == max_messages[pool]
  <1>3. /\ pool \in Pool /\ f.key \in Key /\ now \in Nat /\ max \in Nat
        /\ message_timeout \in Nat /\ message_timeout > 0
    BY DEF Selected, Pool, FragmentType, TypeOK, ConstantsOk
  <1>4. /\ old \in PoolType /\ Tables(old) /\ Limits(old, max) /\ Fewer(old, pools[pool])
        /\ f.key \in DOMAIN old.messages => old.messages[f.key].deadline > now
    BY <1>3, LookedIs
  <1>5. /\ p \in PoolType /\ Tables(p) /\ Limits(p, max)
        /\ \A k \in DOMAIN p.messages :
             \/ k \in DOMAIN old.messages /\ p.messages[k] = old.messages[k]
             \/ k = f.key /\ f.key \notin DOMAIN old.messages /\ p.messages[k] = Fresh
    BY <1>3, <1>4, AdmitKeeps
  <1>6. /\ q \in PoolType /\ Tables(q) /\ Limits(q, max)
        /\ DOMAIN q.messages \subseteq DOMAIN p.messages
        /\ \A k \in DOMAIN q.messages : k # f.key => q.messages[k] = p.messages[k]
    <2>1. CASE f.key \in DOMAIN p.messages
      <3>1. q = Decode(p, f).pool
        BY <2>1
      <3> QED BY <1>3, <1>5, <2>1, <3>1, DecodeKeeps
    <2>2. CASE f.key \notin DOMAIN p.messages
      <3>1. q = p
        BY <2>2
      <3> QED BY <1>5, <3>1
    <2> QED BY <2>1, <2>2
  <1>7. \A k \in DOMAIN q.messages \ {f.key} :
           k \in DOMAIN pools[pool].messages /\ q.messages[k] = pools[pool].messages[k]
    BY <1>4, <1>5, <1>6 DEF Fewer
  <1>8. \A x \in Pool \ {pool} :
          LET o == Looked(x, f.key)
          IN /\ o \in PoolType /\ Tables(o) /\ Limits(o, max_messages[x]) /\ Fewer(o, pools[x])
             /\ f.key \notin DOMAIN o.messages
    BY <1>3, LookedIs
  <1>9. /\ pools' = [x \in Pool |-> IF x = pool THEN q ELSE Looked(x, f.key)]
        /\ done' = IF f.key[1] \in Correct THEN done \cup r.complete ELSE done
        /\ now' = now /\ sent' = sent /\ wire' = wire
    BY <1>2
  <1>10. /\ pools'[pool] = q
         /\ \A x \in Pool \ {pool} : pools'[x] = Looked(x, f.key)
    BY <1>3, <1>9
  <1> HIDE DEF r, q
  <1>11. TypeOK'
    <2>1. \A x \in Pool : pools'[x] \in PoolType
      BY <1>6, <1>8, <1>10
    <2>2. pools' \in [Pool -> PoolType]
      BY <1>9, <2>1
    <2> QED BY <1>9, <2>2 DEF TypeOK
  <1>12. (\A x \in Pool : Tables(pools[x]))'
    BY <1>6, <1>8, <1>10 DEF Tables, Entries, KeysOf
  <1>13. (\A x \in Pool : Limits(pools[x], max_messages[x]))'
    BY <1>6, <1>8, <1>10 DEF Limits
  <1>14. WireExact'
    BY <1>9 DEF WireExact
  <1>15. InOnePool'
    <2>1. ASSUME NEW k PROVE ~ (k \in DOMAIN pools'["priority"].messages /\ k \in DOMAIN pools'["regular"].messages)
      <3>1. CASE k = f.key
        <4>1. \E x \in {"priority", "regular"} : x \in Pool \ {pool}
          BY <1>3 DEF Pool
        <4> QED BY <1>8, <1>10, <3>1, <4>1
      <3>2. CASE k # f.key
        <4>1. \A x \in Pool : k \in DOMAIN pools'[x].messages => k \in DOMAIN pools[x].messages
          BY <1>7, <1>8, <1>10, <3>2 DEF Fewer
        <4>2. ~ (k \in DOMAIN pools["priority"].messages /\ k \in DOMAIN pools["regular"].messages)
          BY DEF InOnePool, Holds
        <4> QED BY <4>1, <4>2 DEF Pool
      <3> QED BY <3>1, <3>2
    <2> QED BY <2>1 DEF InOnePool, Holds
  <1>16. /\ \A x \in Pool : HeldExact(pools'[x], wire, now)
         /\ f.key[1] \in Correct => \A c \in r.complete : \E n \in DOMAIN Count : c = [s \in 0..Count[n] - 1 |-> n]
    <2>1. ASSUME NEW x \in Pool, NEW k \in DOMAIN pools'[x].messages, k # f.key
          PROVE  Exact(k, pools'[x].messages[k], wire, now)
      <3>1. k \in DOMAIN pools[x].messages /\ pools'[x].messages[k] = pools[x].messages[k]
        BY <1>7, <1>8, <1>10, <2>1 DEF Fewer
      <3> QED BY <3>1 DEF HeldExact
    <2>2. ASSUME f.key[1] \in Correct
          PROVE  /\ f.key \in DOMAIN q.messages => Exact(f.key, q.messages[f.key], wire, now)
                 /\ \A c \in r.complete : \E n \in DOMAIN Count : c = [s \in 0..Count[n] - 1 |-> n]
      <3>1. CASE f.key \notin DOMAIN p.messages
        <4>1. r = [pool |-> p, complete |-> {}]
          BY <3>1 DEF r
        <4>2. r.complete = {} /\ q = p
          BY <4>1 DEF q
        <4> QED BY <3>1, <4>2
      <3>2. CASE f.key \in DOMAIN p.messages
        <4> DEFINE n == f.message
        <4>1. f \in wire
          BY <2>2
        <4>2. /\ n \in DOMAIN Count /\ f.seq < Count[n] /\ f.end = (f.seq = Count[n] - 1)
              /\ \A g \in wire : g.key = f.key => g.message = n
          BY <4>1 DEF WireExact
        <4> HIDE DEF n
        <4>3. Whole(p.messages[f.key], n)
          <5>1. CASE f.key \in DOMAIN old.messages /\ p.messages[f.key] = old.messages[f.key]
            <6>1. /\ f.key \in DOMAIN pools[pool].messages
                  /\ p.messages[f.key] = pools[pool].messages[f.key]
                  /\ p.messages[f.key].deadline > now
              BY <1>4, <5>1 DEF Fewer
            <6>2. Exact(f.key, p.messages[f.key], wire, now)
              BY <1>3, <6>1 DEF HeldExact
            <6>3. PICK k \in DOMAIN Count :
                    Whole(p.messages[f.key], k) /\ \A g \in wire : g.key = f.key => g.message = k
              BY <2>2, <6>1, <6>2 DEF Exact
            <6>4. k = n
              BY <4>1, <6>3 DEF n
            <6> QED BY <6>3, <6>4
          <5>2. CASE p.messages[f.key] = Fresh
            BY <5>2 DEF Whole, Fresh
          <5> QED BY <1>5, <3>2, <5>1, <5>2
        <4>4. f.message = n
          BY DEF n
        <4>5. r = Decode(p, f) /\ q = Decode(p, f).pool
          BY <3>2 DEF r, q
        <4>6. /\ f.key \in DOMAIN q.messages => Whole(q.messages[f.key], n)
              /\ \A c \in r.complete : c = [s \in 0..Count[n] - 1 |-> n]
          BY <1>3, <1>5, <3>2, <4>2, <4>3, <4>4, <4>5, DecodeExact
        <4> QED BY <4>2, <4>6 DEF Exact
      <3> QED BY <3>1, <3>2
    <2>3. \A x \in Pool : f.key \in DOMAIN pools'[x].messages => x = pool
      BY <1>8, <1>10
    <2>4. \A x \in Pool : HeldExact(pools'[x], wire, now)
      BY <1>10, <2>1, <2>2, <2>3 DEF HeldExact, Exact
    <2> QED BY <2>2, <2>4
  <1>17. (\A x \in Pool : HeldExact(pools[x], wire, now))'
    BY <1>9, <1>16 DEF HeldExact, Exact, Whole
  <1>18. ReassemblyExact'
    BY <1>9, <1>16 DEF ReassemblyExact
  <1> QED BY <1>11, <1>12, <1>13, <1>14, <1>15, <1>17, <1>18

(* A correct identity sends its next message: nothing of the message       *)
(* before it with the same id is on its way, and what a pool holds of it   *)
(* is stale.                                                               *)
LEMMA SendOk ==
    ASSUME ConstantsOk, IInv, NEW i \in Correct, Send(i)
    PROVE  IInv'
  <1> USE DEF IInv
  <1> DEFINE n == sent[i] + 1
             key == <<i, sent[i] % MsgIds>>
             more == {Fragment(key, s, s = Count[n] - 1, n) : s \in 0..Count[n] - 1}
  <1>1. /\ n \in DOMAIN Count
        /\ \A f \in wire : f.key # key
        /\ \A pool \in Pool : Holds(pool, key) => Stale(pool, key)
        /\ sent' = [sent EXCEPT ![i] = n]
        /\ wire' = wire \cup more
        /\ now' = now /\ pools' = pools /\ done' = done
    BY DEF Send
  <1>2. sent[i] \in Nat /\ n \in Nat /\ Count[n] \in Nat /\ now \in Nat
    BY <1>1 DEF TypeOK, ConstantsOk
  <1>3. key \in Key
    BY <1>2 DEF Key, Identity, ConstantsOk
  <1> HIDE DEF n, key
  <1>4. \A f \in more : /\ f \in FragmentType /\ f.key = key /\ f.message = n
                        /\ f.seq < Count[n] /\ f.end = (f.seq = Count[n] - 1)
    <2> SUFFICES ASSUME NEW s \in 0..Count[n] - 1
                 PROVE  LET f == Fragment(key, s, s = Count[n] - 1, n)
                        IN /\ f \in FragmentType /\ f.key = key /\ f.message = n
                           /\ f.seq < Count[n] /\ f.end = (f.seq = Count[n] - 1)
      OBVIOUS
    <2>1. s \in Nat /\ s < Count[n] /\ (s = Count[n] - 1) \in BOOLEAN
      BY <1>2
    <2> QED BY <1>2, <1>3, <2>1 DEF Fragment, FragmentType
  <1> HIDE DEF more
  <1>5. TypeOK'
    BY <1>1, <1>2, <1>4 DEF TypeOK
  <1>6. (\A pool \in Pool : Tables(pools[pool]))' /\ (\A pool \in Pool : Limits(pools[pool], max_messages[pool]))'
    BY <1>1 DEF Tables, Entries, KeysOf, Limits
  <1>7. InOnePool' /\ ReassemblyExact'
    BY <1>1 DEF InOnePool, Holds, ReassemblyExact
  <1>8. WireExact'
    <2>1. key[1] \in Correct
      BY DEF key
    <2>2. ASSUME NEW f \in wire'
          PROVE  /\ f.key[1] \in Correct /\ f.message \in DOMAIN Count
                 /\ f.seq < Count[f.message] /\ f.end = (f.seq = Count[f.message] - 1)
      <3>1. CASE f \in wire
        BY <3>1 DEF WireExact
      <3>2. CASE f \in more
        BY <1>1, <1>4, <2>1, <3>2
      <3> QED BY <1>1, <3>1, <3>2
    <2>3. ASSUME NEW f \in wire', NEW g \in wire', f.key = g.key PROVE f.message = g.message
      <3>1. CASE f \in wire /\ g \in wire
        BY <2>3, <3>1 DEF WireExact
      <3>2. CASE f \in more /\ g \in more
        BY <1>4, <3>2
      <3> QED BY <1>1, <1>4, <2>3, <3>1, <3>2
    <2> QED BY <2>2, <2>3 DEF WireExact
  <1>9. ASSUME NEW pool \in Pool, NEW k \in DOMAIN pools[pool].messages
        PROVE  Exact(k, pools[pool].messages[k], wire', now)
    <2>1. Exact(k, pools[pool].messages[k], wire, now)
      BY DEF HeldExact
    <2>2. CASE k # key
      BY <1>1, <1>4, <2>1, <2>2 DEF Exact
    <2>3. CASE k = key
      <3>1. ~ (pools[pool].messages[k].deadline > now)
        <4>1. pools[pool].messages[k].deadline \in Nat
          BY DEF TypeOK, PoolType, MessageType
        <4> QED BY <1>1, <1>2, <2>3, <4>1 DEF Holds, Stale
      <3> QED BY <2>1, <3>1 DEF Exact
    <2> QED BY <2>2, <2>3
  <1>10. (\A pool \in Pool : HeldExact(pools[pool], wire, now))'
    BY <1>1, <1>9 DEF HeldExact, Exact, Whole
  <1> QED BY <1>5, <1>6, <1>7, <1>8, <1>10

(* A fragment is lost, or time passes.                                     *)
LEMMA QuietOk ==
    ASSUME ConstantsOk, IInv, wire' \subseteq wire, now' \in Nat, now' >= now,
           UNCHANGED <<sent, pools, done>>
    PROVE  IInv'
  <1> USE DEF IInv
  <1>1. TypeOK' /\ WireExact'
    BY DEF TypeOK, WireExact
  <1>2. (\A pool \in Pool : Tables(pools[pool]))' /\ (\A pool \in Pool : Limits(pools[pool], max_messages[pool]))'
    BY DEF Tables, Entries, KeysOf, Limits
  <1>3. InOnePool' /\ ReassemblyExact'
    BY DEF InOnePool, Holds, ReassemblyExact
  <1>4. ASSUME NEW pool \in Pool, NEW k \in DOMAIN pools[pool].messages
        PROVE  Exact(k, pools[pool].messages[k], wire', now')
    <2>1. Exact(k, pools[pool].messages[k], wire, now)
      BY DEF HeldExact
    <2>2. pools[pool].messages[k].deadline > now' => pools[pool].messages[k].deadline > now
      <3>1. pools[pool].messages[k].deadline \in Nat /\ now \in Nat
        BY DEF TypeOK, PoolType, MessageType
      <3> QED BY <3>1
    <2> QED BY <2>1, <2>2 DEF Exact
  <1>5. (\A pool \in Pool : HeldExact(pools[pool], wire, now))'
    BY <1>4 DEF HeldExact, Exact, Whole
  <1> QED BY <1>1, <1>2, <1>3, <1>5

LEMMA InitOk ==
    ASSUME ConstantsOk, Init
    PROVE  IInv
  <1>1. EmptyPool \in PoolType /\ EmptyPool.messages = <<>>
        /\ EmptyPool.eviction_index = {} /\ EmptyPool.eviction_index_by_identity = {}
        /\ \A i \in Identity : EmptyPool.message_counts[i] = 0
    <2>1. <<>> \in [{} -> MessageType] /\ {} \in SUBSET Key
      OBVIOUS
    <2>2. <<>> \in UNION {[S -> MessageType] : S \in SUBSET Key}
      BY <2>1
    <2> QED BY <2>2 DEF EmptyPool, PoolType
  <1>2. /\ DOMAIN EmptyPool.messages = {} /\ Entries(EmptyPool) = {}
        /\ \A i : KeysOf(EmptyPool, i) = {}
    BY <1>1 DEF Entries, KeysOf
  <1>3. Tables(EmptyPool)
    BY <1>1, <1>2, FS_EmptySet DEF Tables
  <1>4. pools \in [Pool -> PoolType] /\ \A pool \in Pool : pools[pool] = EmptyPool
    BY <1>1 DEF Init
  <1>5. \A pool \in Pool : Limits(pools[pool], max_messages[pool])
    BY <1>1, <1>2, <1>4, FS_EmptySet DEF Limits, ConstantsOk
  <1>6. \A pool \in Pool : HeldExact(pools[pool], wire, now)
    BY <1>2, <1>4 DEF HeldExact
  <1>7. TypeOK /\ WireExact /\ ReassemblyExact
    BY <1>4 DEF Init, TypeOK, WireExact, ReassemblyExact
  <1>8. InOnePool
    BY <1>2, <1>4 DEF InOnePool, Pool
  <1> QED BY <1>3, <1>4, <1>5, <1>6, <1>7, <1>8 DEF IInv

(* The inductive invariant: each pool's tables describe one set within its *)
(* limits, no message is in both pools, and whatever is held or on its way *)
(* under a correct identity's key is of one message while it can matter.   *)
THEOREM Invariance ==
    ASSUME ConstantsOk
    PROVE  Spec => []IInv
  <1>1. Init => IInv
    BY InitOk
  <1>2. IInv /\ [Next]_vars => IInv'
    <2> SUFFICES ASSUME IInv, [Next]_vars PROVE IInv'
      OBVIOUS
    <2>0. now \in Nat
      BY DEF IInv, TypeOK
    <2>1. ASSUME NEW i \in Correct, Send(i) PROVE IInv'
      BY <2>1, SendOk
    <2>2. ASSUME NEW f \in wire, Lose(f) PROVE IInv'
      BY <2>0, <2>2, QuietOk DEF Lose
    <2>3. ASSUME NEW f \in wire \cup AnyFragment, Receive(f) PROVE IInv'
      <3>1. CASE f \in wire
        <4>1. f \in FragmentType
          BY <3>1 DEF IInv, TypeOK
        <4> QED BY <2>3, <3>1, <4>1, ReceiveOk
      <3>2. CASE f \in AnyFragment
        <4>1. /\ f.key \in Faulty \X (0..MsgIds - 1) /\ f.key \in Key
              /\ 0..MAX_FRAGMENTS \subseteq Nat
          BY <3>2 DEF AnyFragment, Key, Identity, ConstantsOk
        <4>2. f \in FragmentType
          BY <3>2, <4>1 DEF AnyFragment, FragmentType
        <4>3. f.key[1] \notin Correct
          BY <4>1 DEF ConstantsOk
        <4> QED BY <2>3, <4>2, <4>3, ReceiveOk
      <3> QED BY <3>1, <3>2
    <2>4. CASE TimePasses
      BY <2>0, <2>4, QuietOk DEF TimePasses
    <2>5. CASE UNCHANGED vars
      BY <2>0, <2>5, QuietOk DEF vars
    <2> QED BY <2>1, <2>2, <2>3, <2>4, <2>5 DEF Next
  <1> QED BY <1>1, <1>2, PTL DEF Spec

(* Messages, indices and counts of each pool agree, and no limit is        *)
(* exceeded, in whatever way messages end.                                 *)
THEOREM PoolsStayConsistent ==
    ASSUME ConstantsOk
    PROVE  Spec => []PoolsConsistent
  <1>1. IInv => PoolsConsistent
    BY DEF IInv, PoolsConsistent, Tables, Limits, Entries, KeysOf, InOnePool
  <1> QED BY <1>1, Invariance, PTL

(* A message comes out as it was sent or not at all, although its          *)
(* fragments may be lost, repeated, evicted and reordered and its id was   *)
(* used before.                                                            *)
THEOREM NoMessageIsMixed ==
    ASSUME ConstantsOk
    PROVE  Spec => []ReassemblyExact
  <1>1. IInv => ReassemblyExact
    BY DEF IInv
  <1> QED BY <1>1, Invariance, PTL
=============================================================================
