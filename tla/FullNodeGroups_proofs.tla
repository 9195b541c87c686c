----------------------- MODULE FullNodeGroups_proofs ------------------------
(***************************************************************************)
(* Theorems about FullNodeGroups, for every set of full nodes, every group *)
(* size and every distance of rounds: a full node keeps its promises, and  *)
(* publisher and members know the same groups.                             *)
(***************************************************************************)
EXTENDS FullNodeGroups, FiniteSetTheorems, WellFoundedInduction, TLAPS

LEMMA Constants ==
    ASSUME ConstantsOk
    PROVE  /\ max_group_size \in Nat /\ round_span \in Nat /\ invite_lookahead \in Nat
           /\ max_invite_wait \in Nat /\ deadline_round_dist \in Nat /\ init_empty_round_span \in Nat
           /\ max_num_group \in Nat /\ MaxRound \in Nat
           /\ round_span > 0 /\ init_empty_round_span > 0 /\ max_num_group > 0
           /\ OtherSpans \subseteq Nat \X Nat /\ OtherValidator # Publisher
  BY DEF ConstantsOk

(* Every set of numbers has a least one, every bounded one a greatest.     *)
LEMMA MinIsLeast ==
    ASSUME NEW T \in SUBSET Nat, T # {}
    PROVE  Min(T) \in T /\ \A m \in T : Min(T) <= m
  <1>1. \E n \in T : \A m \in T : ~ (<<m, n>> \in OpToRel(<, Nat))
    BY NatLessThanWellFounded, WFMin
  <1>2. OpToRel(<, Nat) = {ss \in Nat \X Nat : ss[1] < ss[2]}
    BY Zenon DEF OpToRel
  <1>3. \E n \in T : \A m \in T : ~ (<<m, n>> \in {ss \in Nat \X Nat : ss[1] < ss[2]})
    BY <1>1, <1>2, Zenon
  <1>4. \A n, m \in Nat : ~ (<<m, n>> \in {ss \in Nat \X Nat : ss[1] < ss[2]}) => n <= m
    OBVIOUS
  <1>5. \E n \in T : \A m \in T : n <= m
    BY <1>3, <1>4, Zenon
  <1> QED BY <1>5, Zenon DEF Min

LEMMA MaxIsGreatest ==
    ASSUME NEW T \in SUBSET Nat, T # {}, NEW bound \in Nat, \A m \in T : m <= bound
    PROVE  Max(T) \in T /\ \A m \in T : m <= Max(T)
  <1> DEFINE D == {bound - m : m \in T}
  <1>1. D \in SUBSET Nat /\ D # {}
    OBVIOUS
  <1>2. Min(D) \in D /\ \A d \in D : Min(D) <= d
    BY <1>1, MinIsLeast
  <1>3. PICK n \in T : Min(D) = bound - n
    BY <1>2
  <1>4. \A m \in T : n >= m
    BY <1>2, <1>3
  <1>5. \E x \in T : \A y \in T : x >= y
    BY <1>4
  <1>6. Max(T) \in T /\ \A y \in T : Max(T) >= y
    BY <1>5, Zenon DEF Max
  <1> QED BY <1>6

-----------------------------------------------------------------------------
(* The promises of full nodes.                                             *)

(* Invites and confirmed groups are records of different fields.           *)
IsPrepare(p) ==
    /\ p = [validator |-> p.validator, size |-> p.size, start |-> p.start, end |-> p.end]
    /\ p.start \in Nat /\ p.end \in Nat
IsConfirmed(c) ==
    /\ c = [validator |-> c.validator, start |-> c.start, end |-> c.end, members |-> c.members]
    /\ c.start \in Nat /\ c.end \in Nat
IsClient(c) ==
    /\ c = [round |-> c.round, pending |-> c.pending, confirmed |-> c.confirmed]
    /\ c.round \in Nat
    /\ IsFiniteSet(c.pending) /\ IsFiniteSet(c.confirmed)
    /\ \A p \in c.pending : IsPrepare(p)
    /\ \A g \in c.confirmed : IsConfirmed(g)

ClientsOk ==
    /\ client = [n \in FullNode |-> client[n]]
    /\ \A n \in FullNode : IsClient(client[n])

(* Messages carry the invite they are about.                               *)
SentOk == \A m \in sent : IsPrepare(m.prepare)

(* The rounds a client takes part in, in any round at all.                 *)
At(c, r) == {p \in c.pending \cup c.confirmed : p.start <= r /\ r < p.end}
Bounded(c) == \A r \in Nat : Cardinality(At(c, r)) <= max_num_group

LEMMA RecordsDiffer ==
    ASSUME NEW p, IsPrepare(p) PROVE ~ IsConfirmed(p)
  <1>1. "size" \in DOMAIN p
    BY DEF IsPrepare
  <1>2. IsConfirmed(p) => "size" \notin DOMAIN p
    BY DEF IsConfirmed
  <1> QED BY <1>1, <1>2

LEMMA AtFinite ==
    ASSUME NEW c, IsClient(c), NEW r PROVE IsFiniteSet(At(c, r)) /\ Cardinality(At(c, r)) \in Nat
  <1>1. IsFiniteSet(c.pending \cup c.confirmed)
    BY FS_Union DEF IsClient
  <1>2. At(c, r) \subseteq c.pending \cup c.confirmed
    BY DEF At
  <1> QED BY <1>1, <1>2, FS_Subset, FS_CardinalityType

LEMMA AddOne ==
    ASSUME NEW T, IsFiniteSet(T), NEW x
    PROVE  /\ IsFiniteSet(T \cup {x}) /\ Cardinality(T) \in Nat /\ Cardinality(T \cup {x}) \in Nat
           /\ Cardinality(T \cup {x}) <= Cardinality(T) + 1
  <1>1. IsFiniteSet(T \cup {x}) /\ Cardinality(T \cup {x}) \in {Cardinality(T), Cardinality(T) + 1}
    BY FS_AddElement
  <1>2. Cardinality(T) \in Nat /\ Cardinality(T \cup {x}) \in Nat
    BY <1>1, FS_CardinalityType
  <1> QED BY <1>1, <1>2

(* Promises that are dropped do no harm.                                   *)
LEMMA FewerPromises ==
    ASSUME NEW c, IsClient(c), Bounded(c), NEW d, d.pending \subseteq c.pending, d.confirmed \subseteq c.confirmed,
           max_num_group \in Nat
    PROVE  Bounded(d)
  <1> SUFFICES ASSUME NEW r \in Nat PROVE Cardinality(At(d, r)) <= max_num_group
    BY DEF Bounded
  <1>1. At(d, r) \subseteq At(c, r)
    BY DEF At
  <1>2. IsFiniteSet(At(c, r)) /\ Cardinality(At(c, r)) \in Nat /\ Cardinality(At(c, r)) <= max_num_group
    BY AtFinite DEF Bounded
  <1>3. Cardinality(At(d, r)) <= Cardinality(At(c, r)) /\ Cardinality(At(d, r)) \in Nat
    BY <1>1, <1>2, FS_Subset, FS_CardinalityType
  <1> QED BY <1>2, <1>3

(* An invite that passes validate_prepare_group_message.                   *)
LEMMA PrepareKeepsBound ==
    ASSUME ConstantsOk, NEW c, IsClient(c), Bounded(c), NEW p, IsPrepare(p), NEW receiving,
           ValidatePrepareGroup(c, p, receiving),
           NEW d, d.confirmed = c.confirmed, d.pending \subseteq c.pending \cup {p}
    PROVE  Bounded(d)
  <1> SUFFICES ASSUME NEW r \in Nat PROVE Cardinality(At(d, r)) <= max_num_group
    BY DEF Bounded
  <1>0. max_num_group \in Nat /\ max_num_group > 0
    BY Constants
  <1>1. CASE ~(p.start <= r /\ r < p.end)
    <2>1. At(d, r) \subseteq At(c, r)
      BY <1>1 DEF At
    <2>2. IsFiniteSet(At(c, r)) /\ Cardinality(At(c, r)) \in Nat /\ Cardinality(At(c, r)) <= max_num_group
      BY AtFinite DEF Bounded
    <2>3. Cardinality(At(d, r)) <= Cardinality(At(c, r)) /\ Cardinality(At(d, r)) \in Nat
      BY <2>1, <2>2, FS_Subset, FS_CardinalityType
    <2> QED BY <1>0, <2>2, <2>3
  <1>2. CASE p.start <= r /\ r < p.end
    <2> DEFINE confirmed == {g \in c.confirmed : Overlap(g, p)}
               pending == {q \in c.pending : Overlap(q, p)}
    <2>1. confirmed \cup pending # {} => Cardinality(confirmed) + Cardinality(pending) + 1 <= max_num_group
      BY DEF ValidatePrepareGroup
    <2>2. /\ IsFiniteSet(confirmed) /\ Cardinality(confirmed) \in Nat
          /\ IsFiniteSet(pending) /\ Cardinality(pending) \in Nat
      BY FS_Subset, FS_CardinalityType DEF IsClient
    <2>3. At(d, r) \subseteq (confirmed \cup pending) \cup {p}
      <3> SUFFICES ASSUME NEW q \in At(d, r), q # p PROVE q \in confirmed \cup pending
        OBVIOUS
      <3>1. q \in c.pending \cup c.confirmed /\ q.start <= r /\ r < q.end
        BY DEF At
      <3>2. q.start \in Nat /\ q.end \in Nat /\ p.start \in Nat /\ p.end \in Nat
        BY <3>1 DEF IsClient, IsPrepare, IsConfirmed
      <3>3. Overlap(q, p)
        BY <1>2, <3>1, <3>2 DEF Overlap
      <3> QED BY <3>1, <3>3
    <2> HIDE DEF confirmed, pending
    <2>4. /\ IsFiniteSet(confirmed \cup pending) /\ Cardinality(confirmed \cup pending) \in Nat
          /\ Cardinality(confirmed \cup pending) <= Cardinality(confirmed) + Cardinality(pending)
      <3>1. /\ IsFiniteSet(confirmed \cup pending)
            /\ Cardinality(confirmed \cup pending) =
                 Cardinality(confirmed) + Cardinality(pending) - Cardinality(confirmed \cap pending)
        BY <2>2, FS_Union
      <3>2. Cardinality(confirmed \cap pending) \in Nat /\ Cardinality(confirmed \cup pending) \in Nat
        BY <2>2, <3>1, FS_Intersection, FS_CardinalityType
      <3> QED BY <2>2, <3>1, <3>2
    <2>5. /\ IsFiniteSet((confirmed \cup pending) \cup {p})
          /\ Cardinality((confirmed \cup pending) \cup {p}) \in Nat
          /\ Cardinality((confirmed \cup pending) \cup {p}) <= Cardinality(confirmed \cup pending) + 1
      BY <2>4, AddOne
    <2>6. Cardinality(At(d, r)) <= Cardinality((confirmed \cup pending) \cup {p}) /\ Cardinality(At(d, r)) \in Nat
      BY <2>3, <2>5, FS_Subset, FS_CardinalityType
    <2>7. CASE confirmed \cup pending = {}
      <3>1. Cardinality(confirmed \cup pending) = 0
        BY <2>7, FS_EmptySet
      <3> QED BY <1>0, <2>5, <2>6, <3>1
    <2>8. CASE confirmed \cup pending # {}
      BY <1>0, <2>1, <2>2, <2>4, <2>5, <2>6, <2>8
    <2> QED BY <2>7, <2>8
  <1> QED BY <1>1, <1>2

(* A promise that is confirmed takes the place of the invite.              *)
LEMMA ConfirmKeepsBound ==
    ASSUME ConstantsOk, NEW c, IsClient(c), Bounded(c), NEW p \in c.pending, NEW g, IsConfirmed(g),
           g.start = p.start, g.end = p.end,
           NEW d, d.pending = c.pending \ {p}, d.confirmed = c.confirmed \cup {g}
    PROVE  Bounded(d)
  <1> SUFFICES ASSUME NEW r \in Nat PROVE Cardinality(At(d, r)) <= max_num_group
    BY DEF Bounded
  <1>0. max_num_group \in Nat
    BY Constants
  <1>1. IsFiniteSet(At(c, r)) /\ Cardinality(At(c, r)) \in Nat /\ Cardinality(At(c, r)) <= max_num_group
    BY AtFinite DEF Bounded
  <1>2. CASE ~(p.start <= r /\ r < p.end)
    <2>1. At(d, r) \subseteq At(c, r)
      BY <1>2 DEF At
    <2> QED BY <1>0, <1>1, <2>1, FS_Subset, FS_CardinalityType
  <1>3. CASE p.start <= r /\ r < p.end
    <2>1. p \in At(c, r)
      BY <1>3 DEF At
    <2>2. IsPrepare(p) /\ p \notin c.confirmed
      BY RecordsDiffer DEF IsClient
    <2>3. At(d, r) \subseteq (At(c, r) \ {p}) \cup {g}
      BY <2>2, RecordsDiffer DEF At
    <2>4. IsFiniteSet(At(c, r) \ {p}) /\ Cardinality(At(c, r) \ {p}) = Cardinality(At(c, r)) - 1
      BY <1>1, <2>1, FS_RemoveElement
    <2>5. /\ IsFiniteSet((At(c, r) \ {p}) \cup {g})
          /\ Cardinality((At(c, r) \ {p}) \cup {g}) <= Cardinality(At(c, r) \ {p}) + 1
          /\ Cardinality((At(c, r) \ {p}) \cup {g}) \in Nat
      BY <2>4, AddOne
    <2>6. Cardinality(At(d, r)) <= Cardinality((At(c, r) \ {p}) \cup {g}) /\ Cardinality(At(d, r)) \in Nat
      BY <2>3, <2>5, FS_Subset, FS_CardinalityType
    <2> QED BY <1>0, <1>1, <2>4, <2>5, <2>6
  <1> QED BY <1>2, <1>3

-----------------------------------------------------------------------------
(* The groups of the publisher.                                            *)

IsGroup(g) ==
    /\ g = [end |-> g.end, candidates |-> g.candidates, invited |-> g.invited, accepted |-> g.accepted,
            rejected |-> g.rejected, overflowed |-> g.overflowed, next_invite |-> g.next_invite]
    /\ g.end \in Nat /\ IsFiniteSet(g.accepted) /\ Cardinality(g.accepted) <= max_group_size

(* Groups to come follow one another.                                      *)
ScheduleOk(q) ==
    /\ q = [s \in DOMAIN q |-> q[s]] /\ DOMAIN q \in SUBSET Nat
    /\ \A s \in DOMAIN q : IsGroup(q[s]) /\ s < q[s].end /\ s <= MaxRound + invite_lookahead
    /\ \A s, t \in DOMAIN q : s < t => q[s].end <= t

CurrentOk(p) ==
    /\ p.current = [kind |-> p.current.kind, start |-> p.current.start, end |-> p.current.end, members |-> p.current.members]
    /\ p.current.start \in Nat /\ p.current.end \in Nat
    /\ IsFiniteSet(p.current.members) /\ Cardinality(p.current.members) <= max_group_size
    /\ p.current.kind = "init" => p.schedule = <<>>
    /\ p.current.kind # "init" => p.current.start <= p.round /\ p.current.start < p.current.end
    /\ p.current.kind # "init" => \A s \in DOMAIN p.schedule : p.current.start < s
    /\ p.current.kind = "active" => \A s \in DOMAIN p.schedule : p.current.end <= s

PubOk(p) ==
    /\ p = [round |-> p.round, schedule |-> p.schedule, current |-> p.current]
    /\ p.round \in Nat
    /\ ScheduleOk(p.schedule) /\ CurrentOk(p)

(* What a confirmation says of a group is what the publisher has, as long  *)
(* as it has the group.                                                    *)
Told(p, start, end, members) ==
    \/ p.current.kind # "init" /\ start < p.current.start
    \/ /\ p.current.kind = "active" /\ start = p.current.start
       /\ end = p.current.end /\ members = p.current.members
    \/ /\ start \in DOMAIN p.schedule /\ p.schedule[start].next_invite = Locked
       /\ end = p.schedule[start].end /\ members = p.schedule[start].accepted /\ members # {}
ConfirmsOk(p, messages) ==
    \A m \in messages : m.type = "confirm" => Told(p, m.prepare.start, m.prepare.end, m.peers)

(* What was told stays true.                                               *)
Keeps(p, t) == \A s \in Nat : \A end, members : Told(p, s, end, members) => Told(t, s, end, members)

LEMMA EmptyFunction ==
    ASSUME NEW q, q = [s \in DOMAIN q |-> q[s]] PROVE q = <<>> <=> DOMAIN q = {}
  OBVIOUS

(* enter_round: what is over is dropped, in the order of the rounds.       *)
LEMMA EnterOk ==
    ASSUME ConstantsOk, NEW p, PubOk(p), NEW r \in Nat, p.round <= r,
           NEW t, t = [EnterGroup(p, r) EXCEPT !.round = r]
    PROVE  /\ PubOk(t) /\ t.round = r /\ t.current.kind # "init"
           /\ Keeps(p, t)
  <1> DEFINE left == Restrict(p.schedule, {s \in DOMAIN p.schedule : p.schedule[s].end > r})
             first == Min(DOMAIN left)
             over == p.current.kind = "init" \/ ~(r \in p.current.start..p.current.end - 1)
  <1>0. /\ p = [round |-> p.round, schedule |-> p.schedule, current |-> p.current] /\ p.round \in Nat
        /\ ScheduleOk(p.schedule) /\ CurrentOk(p)
        /\ p.current.start \in Nat /\ p.current.end \in Nat
        /\ init_empty_round_span \in Nat /\ init_empty_round_span > 0 /\ max_group_size \in Nat
    BY Constants DEF PubOk, CurrentOk
  <1>1. CASE ~over
    <2>1. EnterGroup(p, r) = p
      BY <1>1 DEF EnterGroup
    <2>2. t.schedule = p.schedule /\ t.current = p.current /\ t.round = r
          /\ t = [round |-> t.round, schedule |-> t.schedule, current |-> t.current]
      BY <1>0, <2>1
    <2>3. t.current.kind # "init" /\ p.current.start <= r
      BY <1>0, <1>1, <2>2
    <2>4. CurrentOk(t)
      BY <1>0, <2>2, <2>3 DEF CurrentOk
    <2> QED BY <1>0, <2>2, <2>3, <2>4 DEF PubOk, Keeps, Told
  <1>2. CASE over
    <2>1. p.current.kind # "init" => p.current.end <= r /\ p.current.start < r
      BY <1>0, <1>2 DEF CurrentOk
    <2>2. /\ left = [s \in DOMAIN left |-> left[s]] /\ DOMAIN left \subseteq DOMAIN p.schedule
          /\ DOMAIN left \in SUBSET Nat
          /\ \A s \in DOMAIN p.schedule : s \in DOMAIN left <=> p.schedule[s].end > r
          /\ \A s \in DOMAIN left : left[s] = p.schedule[s]
      BY <1>0 DEF Restrict, ScheduleOk
    <2> HIDE DEF left
    <2>3. ScheduleOk(left)
      BY <1>0, <2>2 DEF ScheduleOk
    <2>4. \A s \in DOMAIN p.schedule : s \in Nat /\ p.schedule[s].end \in Nat /\ s < p.schedule[s].end
      BY <1>0 DEF ScheduleOk, IsGroup
    <2>5. left = <<>> <=> DOMAIN left = {}
      BY <2>2, EmptyFunction
    <2>6. DOMAIN left # {} => first \in DOMAIN left /\ \A s \in DOMAIN left : first <= s
      BY <2>2, MinIsLeast
    <2>7. CASE left = <<>> \/ first > r
      <3>1. EnterGroup(p, r) = [p EXCEPT !.schedule = left, !.current = Inactive(r, r + init_empty_round_span)]
        BY <1>2, <2>7 DEF EnterGroup, left
      <3>2. /\ t.schedule = left /\ t.round = r
            /\ t.current = [kind |-> "inactive", start |-> r, end |-> r + init_empty_round_span, members |-> {}]
            /\ t = [round |-> t.round, schedule |-> t.schedule, current |-> t.current]
        BY <1>0, <3>1 DEF Inactive
      <3>3. \A s \in DOMAIN left : r < s
        BY <2>2, <2>5, <2>6, <2>7
      <3>4. IsFiniteSet({}) /\ Cardinality({}) = 0
        BY FS_EmptySet
      <3>5. CurrentOk(t)
        <4>1. /\ t.current.kind = "inactive" /\ t.current.start = r /\ t.current.members = {}
              /\ t.current.end = r + init_empty_round_span
              /\ t.current = [kind |-> t.current.kind, start |-> t.current.start, end |-> t.current.end,
                              members |-> t.current.members]
          BY <3>2
        <4>2. /\ t.current.start \in Nat /\ t.current.end \in Nat /\ t.current.start < t.current.end
              /\ IsFiniteSet(t.current.members) /\ Cardinality(t.current.members) <= max_group_size
          <5>1. IsFiniteSet(t.current.members) /\ Cardinality(t.current.members) = 0
            BY <3>4, <4>1, Zenon
          <5>2. 0 <= max_group_size /\ r + init_empty_round_span \in Nat /\ r < r + init_empty_round_span
            BY <1>0
          <5> QED BY <4>1, <5>1, <5>2, Zenon
        <4>3. t.current.start <= t.round /\ \A s \in DOMAIN t.schedule : t.current.start < s
          BY <3>2, <3>3, <4>1
        <4>4. t.current.kind # "init" /\ t.current.kind # "active"
          BY <4>1
        <4> QED BY <4>1, <4>2, <4>3, <4>4, Zenon DEF CurrentOk
      <3>6. ASSUME NEW start \in Nat, NEW end, NEW members, Told(p, start, end, members)
            PROVE  start < r \/ (start \in DOMAIN left /\ left[start] = p.schedule[start])
        <4>1. CASE p.current.kind # "init" /\ start <= p.current.start
          BY <1>0, <2>1, <4>1
        <4>2. CASE start \in DOMAIN p.schedule
          BY <2>2, <2>4, <4>2
        <4> QED BY <1>0, <3>6, <4>1, <4>2 DEF Told
      <3>7. ASSUME NEW start \in Nat, NEW end, NEW members, Told(p, start, end, members)
            PROVE  Told(t, start, end, members)
        <4>1. CASE start < r
          BY <3>2, <4>1 DEF Told
        <4>2. CASE ~(start < r)
          <5>1. start \in DOMAIN left /\ left[start] = p.schedule[start]
            BY <3>6, <3>7, <4>2
          <5>2. ~(p.current.kind # "init" /\ start <= p.current.start)
            BY <1>0, <2>1, <4>2
          <5> QED BY <1>0, <3>2, <3>7, <5>1, <5>2 DEF Told
        <4> QED BY <4>1, <4>2
      <3> QED BY <1>0, <2>3, <3>2, <3>5, <3>7 DEF PubOk, Keeps
    <2>8. CASE ~(left = <<>> \/ first > r)
      <3> DEFINE rest == Without(left, first)
                 g == left[first]
                 now == Finalized(first, g)
      <3>1. EnterGroup(p, r) = [p EXCEPT !.schedule = rest, !.current = now]
        BY <1>2, <2>8 DEF EnterGroup, left
      <3>2. first \in DOMAIN left /\ first \in Nat /\ first <= r /\ \A s \in DOMAIN left : first <= s
        <4>1. first \in DOMAIN left /\ \A s \in DOMAIN left : first <= s
          BY <2>5, <2>6, <2>8
        <4> HIDE DEF first
        <4>2. first \in Nat
          BY <2>2, <4>1
        <4> QED BY <2>8, <4>1, <4>2
      <3>3. IsGroup(g) /\ first < g.end /\ g = p.schedule[first] /\ g.end \in Nat
            /\ \A s \in DOMAIN left : first < s => g.end <= s
        BY <2>2, <2>3, <3>2 DEF ScheduleOk, IsGroup
      <3>4. /\ rest = [s \in DOMAIN rest |-> rest[s]] /\ DOMAIN rest = DOMAIN left \ {first}
            /\ \A s \in DOMAIN rest : rest[s] = left[s]
        BY DEF Without, Restrict
      <3>5. /\ now = [kind |-> now.kind, start |-> now.start, end |-> now.end, members |-> now.members]
            /\ now.start = first /\ now.end = g.end /\ now.members = g.accepted
            /\ now.kind = (IF g.accepted = {} THEN "inactive" ELSE "active")
        BY DEF Finalized, Inactive
      <3> HIDE DEF rest, now, g
      <3>6. t.schedule = rest /\ t.round = r /\ t.current = now
            /\ t = [round |-> t.round, schedule |-> t.schedule, current |-> t.current]
        BY <1>0, <3>1
      <3>7. ScheduleOk(rest)
        BY <2>3, <3>4 DEF ScheduleOk
      <3>8. \A s \in DOMAIN rest : s \in Nat /\ first < s /\ g.end <= s
        BY <2>2, <3>2, <3>3, <3>4
      <3>9. CurrentOk(t)
        BY <1>0, <3>2, <3>3, <3>5, <3>6, <3>8 DEF CurrentOk, IsGroup
      <3>10. p.current.kind # "init" => p.current.start < first
        BY <1>0, <2>2, <3>2 DEF CurrentOk
      <3>11. \A s \in DOMAIN p.schedule : s \in DOMAIN left \/ s < first
        <4> SUFFICES ASSUME NEW s \in DOMAIN p.schedule, s \notin DOMAIN left PROVE s < first
          OBVIOUS
        <4>1. p.schedule[s].end <= r /\ s \in Nat /\ s < p.schedule[s].end /\ p.schedule[s].end \in Nat
          BY <2>2, <2>4
        <4>2. first \in DOMAIN p.schedule /\ p.schedule[first].end > r /\ p.schedule[first].end \in Nat
          BY <2>2, <2>4, <3>2
        <4>3. first < s => p.schedule[first].end <= s
          BY <1>0, <4>2 DEF ScheduleOk
        <4>4. first # s
          BY <3>2
        <4> QED BY <3>2, <4>1, <4>2, <4>3, <4>4
      <3>12. ASSUME NEW start \in Nat, NEW end, NEW members, Told(p, start, end, members)
             PROVE  Told(t, start, end, members)
        <4>1. CASE start < first
          BY <3>5, <3>6, <4>1 DEF Told
        <4>2. CASE ~(start < first)
          <5>1. ~(p.current.kind # "init" /\ start <= p.current.start)
            BY <1>0, <3>2, <3>10, <4>2
          <5>2. /\ start \in DOMAIN p.schedule /\ p.schedule[start].next_invite = Locked
                /\ end = p.schedule[start].end /\ members = p.schedule[start].accepted /\ members # {}
            BY <1>0, <3>12, <5>1 DEF Told
          <5>3. start \in DOMAIN left /\ left[start] = p.schedule[start]
            BY <2>2, <3>11, <4>2, <5>2
          <5>4. CASE start = first
            <6>1. end = g.end /\ members = g.accepted /\ g.accepted # {}
              BY <3>3, <5>2, <5>4
            <6> QED BY <3>5, <3>6, <5>4, <6>1 DEF Told
          <5>5. CASE start # first
            BY <3>4, <3>6, <5>2, <5>3, <5>5 DEF Told
          <5> QED BY <5>4, <5>5
        <4> QED BY <4>1, <4>2
      <3> QED BY <1>0, <3>5, <3>6, <3>7, <3>9, <3>12 DEF PubOk, Keeps
    <2> QED BY <2>7, <2>8
  <1> QED BY <1>1, <1>2

(* A group is added after the others, or stands where it stood.            *)
Fits(p, start, g) ==
    /\ start \in Nat /\ start <= MaxRound + invite_lookahead /\ IsGroup(g) /\ start < g.end
    /\ p.current.start < start /\ (p.current.kind = "active" => p.current.end <= start)
    /\ \A s \in DOMAIN p.schedule : (s < start => p.schedule[s].end <= start) /\ (start < s => g.end <= s)

LEMMA PutGroupOk ==
    ASSUME NEW p, PubOk(p), p.current.kind # "init", NEW start, NEW g, Fits(p, start, g),
           NEW t, t = [p EXCEPT !.schedule = Put(@, start, g)]
    PROVE  /\ PubOk(t) /\ t.current = p.current /\ t.schedule = Put(p.schedule, start, g)
           /\ \A s \in Nat : \A end, members : s # start /\ Told(p, s, end, members) => Told(t, s, end, members)
  <1> DEFINE q == Put(p.schedule, start, g)
  <1>0. /\ p = [round |-> p.round, schedule |-> p.schedule, current |-> p.current] /\ p.round \in Nat
        /\ ScheduleOk(p.schedule) /\ CurrentOk(p)
    BY DEF PubOk
  <1>1. /\ q = [y \in DOMAIN q |-> q[y]] /\ DOMAIN q = DOMAIN p.schedule \cup {start}
        /\ q[start] = g /\ \A y \in DOMAIN p.schedule : y # start => q[y] = p.schedule[y]
    BY DEF Put
  <1>2. t = [p EXCEPT !.schedule = q]
    OBVIOUS
  <1> HIDE DEF q
  <1>3. t.schedule = q /\ t.current = p.current /\ t.round = p.round
        /\ t = [round |-> t.round, schedule |-> t.schedule, current |-> t.current]
    BY <1>0, <1>2
  <1>4. start \in Nat
    BY DEF Fits
  <1>5. ScheduleOk(q)
    <2>1. DOMAIN q \in SUBSET Nat
      BY <1>0, <1>1, <1>4 DEF ScheduleOk
    <2>2. ASSUME NEW s \in DOMAIN q
          PROVE  IsGroup(q[s]) /\ s < q[s].end /\ s <= MaxRound + invite_lookahead
      <3>1. CASE s = start
        BY <1>1, <3>1 DEF Fits
      <3>2. CASE s # start
        BY <1>0, <1>1, <2>2, <3>2 DEF ScheduleOk
      <3> QED BY <3>1, <3>2
    <2>3. ASSUME NEW s \in DOMAIN q, NEW u \in DOMAIN q, s < u PROVE q[s].end <= u
      <3>1. s # u
        BY <2>1, <2>3
      <3>2. CASE s = start
        BY <1>1, <2>3, <3>1, <3>2 DEF Fits
      <3>3. CASE u = start
        BY <1>1, <2>3, <3>1, <3>3 DEF Fits
      <3>4. CASE s # start /\ u # start
        BY <1>0, <1>1, <2>3, <3>4 DEF ScheduleOk
      <3> QED BY <3>2, <3>3, <3>4
    <2> QED BY <1>1, <2>1, <2>2, <2>3 DEF ScheduleOk
  <1>6. CurrentOk(t)
    <2>1. \A s \in DOMAIN q : p.current.start < s
      BY <1>0, <1>1 DEF Fits, CurrentOk
    <2>2. p.current.kind = "active" => \A s \in DOMAIN q : p.current.end <= s
      BY <1>0, <1>1 DEF Fits, CurrentOk
    <2> QED BY <1>0, <1>3, <2>1, <2>2 DEF CurrentOk
  <1>7. ASSUME NEW s \in Nat, NEW end, NEW members, s # start, Told(p, s, end, members)
        PROVE  Told(t, s, end, members)
    BY <1>1, <1>3, <1>7 DEF Told
  <1> QED BY <1>0, <1>3, <1>5, <1>6, <1>7 DEF PubOk, q

(* Nothing was told of a group that is not locked.                         *)
LEMMA Untold ==
    ASSUME NEW p, PubOk(p), p.current.kind # "init", NEW start \in Nat, p.current.start < start,
           start \in DOMAIN p.schedule => p.schedule[start].next_invite # Locked
    PROVE  \A s \in Nat : \A end, members : Told(p, s, end, members) => s # start
  <1>1. p.current.start \in Nat
    BY DEF PubOk, CurrentOk
  <1> QED BY <1>1 DEF Told

(* advance_invites: the group is locked with the members it is confirmed   *)
(* to, or more nodes are invited.                                          *)
LEMMA StepOk ==
    ASSUME ConstantsOk, NEW p, PubOk(p), p.current.kind # "init", NEW start, NEW g, Fits(p, start, g),
           start \in DOMAIN p.schedule => p.schedule[start].next_invite # Locked,
           SentOk, ConfirmsOk(p, sent), NEW r, Step(p, start, g, r)
    PROVE  PubOk(pub') /\ ConfirmsOk(pub', sent') /\ SentOk' /\ Keeps(p, pub')
  <1> DEFINE a == Advance(start, g, r)
             prepare == Prepare(Publisher, start, g.end)
  <1>0. start \in Nat /\ g.end \in Nat /\ p.current.start < start
    BY DEF Fits, IsGroup
  <1>1. IsPrepare(prepare) /\ prepare.start = start /\ prepare.end = g.end
    BY <1>0 DEF Prepare, IsPrepare
  <1>2. /\ a.group.end = g.end /\ a.group.accepted = g.accepted
        /\ IsGroup(a.group)
    BY DEF Advance, Fits, IsGroup
  <1>3. \A m \in a.out : m.prepare = prepare /\ m.type \in {"confirm", "prepare"}
    BY DEF Advance
  <1>4. \A m \in a.out : m.type = "confirm" =>
            a.group.next_invite = Locked /\ m.peers = g.accepted /\ g.accepted # {}
    BY DEF Advance, Fits, IsGroup
  <1>5. pub' = [p EXCEPT !.schedule = Put(@, start, a.group)] /\ sent' = sent \cup a.out
    BY DEF Step
  <1> HIDE DEF a, prepare
  <1>6. Fits(p, start, a.group)
    BY <1>2 DEF Fits
  <1>7. /\ PubOk(pub') /\ pub'.current = p.current /\ pub'.schedule = Put(p.schedule, start, a.group)
        /\ \A s \in Nat : \A end, members : s # start /\ Told(p, s, end, members) => Told(pub', s, end, members)
    BY <1>5, <1>6, PutGroupOk
  <1>8. SentOk' /\ Keeps(p, pub')
    <2>1. SentOk'
      BY <1>1, <1>3, <1>5 DEF SentOk
    <2>2. Keeps(p, pub')
      BY <1>0, <1>7, Untold DEF Keeps
    <2> QED BY <2>1, <2>2
  <1>9. ASSUME NEW m \in sent', m.type = "confirm"
        PROVE  Told(pub', m.prepare.start, m.prepare.end, m.peers)
    <2>1. CASE m \in sent
      <3>1. Told(p, m.prepare.start, m.prepare.end, m.peers) /\ m.prepare.start \in Nat
        BY <1>9, <2>1 DEF ConfirmsOk, SentOk, IsPrepare
      <3> QED BY <1>8, <3>1 DEF Keeps
    <2>2. CASE m \in a.out
      <3>1. m.prepare = prepare /\ a.group.next_invite = Locked /\ m.peers = g.accepted /\ g.accepted # {}
        BY <1>3, <1>4, <1>9, <2>2
      <3>2. start \in DOMAIN pub'.schedule /\ pub'.schedule[start] = a.group
        BY <1>7 DEF Put
      <3> QED BY <1>1, <1>2, <3>1, <3>2 DEF Told
    <2> QED BY <1>5, <1>9, <2>1, <2>2
  <1> QED BY <1>7, <1>8, <1>9 DEF ConfirmsOk

LEMMA EntersRoundOk ==
    ASSUME ConstantsOk, PubOk(pub), SentOk, ConfirmsOk(pub, sent), NEW r \in 0..MaxRound, PublisherEntersRound(r)
    PROVE  PubOk(pub') /\ ConfirmsOk(pub', sent') /\ SentOk' /\ Keeps(pub, pub')
  <1> DEFINE p == [EnterGroup(pub, r) EXCEPT !.round = r]
  <1>0. /\ r \in Nat /\ r <= MaxRound /\ MaxRound \in Nat /\ invite_lookahead \in Nat /\ max_invite_wait \in Nat
        /\ round_span \in Nat /\ round_span > 0 /\ max_group_size \in Nat
    BY Constants
  <1>1. pub.round <= r
    BY <1>0 DEF PublisherEntersRound, PubOk
  <1>2. PubOk(p) /\ p.current.kind # "init" /\ Keeps(pub, p)
    BY <1>0, <1>1, EnterOk
  <1>3. \/ Due(p, r) # {} /\ Step(p, Min(Due(p, r)), p.schedule[Min(Due(p, r))], r)
        \/ /\ ScheduleEnd(p) < r + invite_lookahead
           /\ \E c \in Candidates : Step(p, ScheduleEnd(p), NewGroup(ScheduleEnd(p), c), r)
        \/ pub' = p /\ UNCHANGED sent
    BY DEF PublisherEntersRound
  <1> HIDE DEF p
  <1>4. ConfirmsOk(p, sent)
    BY <1>2 DEF ConfirmsOk, Keeps, SentOk, IsPrepare
  <1>5. /\ ScheduleOk(p.schedule) /\ CurrentOk(p) /\ DOMAIN p.schedule \in SUBSET Nat
        /\ p.current.start \in Nat /\ p.current.end \in Nat /\ p.current.start < p.current.end
    BY <1>2 DEF PubOk, ScheduleOk, CurrentOk
  <1>6. \A s \in DOMAIN p.schedule : /\ s \in Nat /\ p.schedule[s].end \in Nat /\ s < p.schedule[s].end
                                     /\ IsGroup(p.schedule[s]) /\ s <= MaxRound + invite_lookahead
                                     /\ p.current.start < s /\ (p.current.kind = "active" => p.current.end <= s)
    BY <1>2, <1>5 DEF ScheduleOk, CurrentOk, IsGroup
  <1>7. CASE Due(p, r) # {} /\ Step(p, Min(Due(p, r)), p.schedule[Min(Due(p, r))], r)
    <2> DEFINE s == Min(Due(p, r))
    <2>1. Due(p, r) \in SUBSET Nat
      BY <1>5 DEF Due
    <2>2. s \in Due(p, r)
      BY <1>7, <2>1, MinIsLeast
    <2> HIDE DEF s
    <2>3. s \in DOMAIN p.schedule /\ p.schedule[s].next_invite <= r
      BY <2>2 DEF Due
    <2>4. p.schedule[s].next_invite # Locked
      BY <1>0, <2>3 DEF Locked
    <2>5. Fits(p, s, p.schedule[s])
      BY <1>5, <1>6, <2>3 DEF Fits, ScheduleOk
    <2>6. Step(p, s, p.schedule[s], r)
      BY <1>7 DEF s
    <2>7. PubOk(pub') /\ ConfirmsOk(pub', sent') /\ SentOk' /\ Keeps(p, pub')
      BY <1>2, <1>4, <2>4, <2>5, <2>6, StepOk
    <2> QED BY <1>2, <2>7 DEF Keeps
  <1>8. ASSUME ScheduleEnd(p) < r + invite_lookahead, NEW c \in Candidates,
               Step(p, ScheduleEnd(p), NewGroup(ScheduleEnd(p), c), r)
        PROVE  PubOk(pub') /\ ConfirmsOk(pub', sent') /\ SentOk' /\ Keeps(pub, pub')
    <2> DEFINE e == ScheduleEnd(p)
    <2>1. /\ e \in Nat /\ p.current.start < e /\ (p.current.kind = "active" => p.current.end <= e)
          /\ \A s \in DOMAIN p.schedule : s < e /\ p.schedule[s].end <= e
      <3>1. p.schedule = <<>> <=> DOMAIN p.schedule = {}
        BY <1>5, EmptyFunction DEF ScheduleOk
      <3>2. CASE p.schedule = <<>>
        <4>1. e = p.current.end
          BY <3>2 DEF ScheduleEnd
        <4> QED BY <1>5, <3>1, <3>2, <4>1
      <3>3. CASE p.schedule # <<>>
        <4> DEFINE t == Max(DOMAIN p.schedule)
        <4>1. t \in DOMAIN p.schedule /\ \A s \in DOMAIN p.schedule : s <= t
          <5>1. MaxRound + invite_lookahead \in Nat /\ DOMAIN p.schedule # {}
            BY <1>0, <3>1, <3>3
          <5>2. \A s \in DOMAIN p.schedule : s <= MaxRound + invite_lookahead
            BY <1>6
          <5> QED BY <1>5, <5>1, <5>2, MaxIsGreatest
        <4>2. e = p.schedule[t].end
          BY <3>3 DEF ScheduleEnd
        <4> HIDE DEF t, e
        <4>3. \A s \in DOMAIN p.schedule : s < t => p.schedule[s].end <= t
          BY <1>5, <4>1 DEF ScheduleOk
        <4>4. t \in Nat /\ e \in Nat /\ t < e
          BY <1>6, <4>1, <4>2
        <4>5. ASSUME NEW s \in DOMAIN p.schedule PROVE s < e /\ p.schedule[s].end <= e
          BY <1>6, <4>1, <4>2, <4>3, <4>4, <4>5
        <4> QED BY <1>5, <1>6, <4>1, <4>4, <4>5
      <3> QED BY <3>2, <3>3
    <2>2. e < r + invite_lookahead /\ Step(p, e, NewGroup(e, c), r)
      BY <1>8
    <2> HIDE DEF e
    <2>3. IsGroup(NewGroup(e, c)) /\ NewGroup(e, c).end = e + round_span
      <3>1. IsFiniteSet({}) /\ Cardinality({}) = 0
        BY FS_EmptySet
      <3> QED BY <1>0, <2>1, <3>1 DEF NewGroup, IsGroup
    <2>4. e \notin DOMAIN p.schedule
      BY <2>1
    <2>5. Fits(p, e, NewGroup(e, c))
      BY <1>0, <1>5, <1>6, <2>1, <2>2, <2>3 DEF Fits
    <2>6. PubOk(pub') /\ ConfirmsOk(pub', sent') /\ SentOk' /\ Keeps(p, pub')
      BY <1>2, <1>4, <2>2, <2>4, <2>5, StepOk
    <2> QED BY <1>2, <2>6 DEF Keeps
  <1>9. CASE pub' = p /\ UNCHANGED sent
    BY <1>2, <1>4, <1>9 DEF SentOk
  <1> QED BY <1>3, <1>7, <1>8, <1>9

(* An answer changes a group that is not locked.                           *)
LEMMA ResponseOk ==
    ASSUME ConstantsOk, PubOk(pub), SentOk, ConfirmsOk(pub, sent), NEW m \in sent, OnCandidateResponse(m)
    PROVE  PubOk(pub') /\ ConfirmsOk(pub', sent') /\ SentOk' /\ Keeps(pub, pub')
  <1> DEFINE start == m.prepare.start
             g == pub.schedule[start]
             full == Cardinality(g.accepted) >= max_group_size
             field == IF ~m.accept THEN "rejected" ELSE IF full THEN "overflowed" ELSE "accepted"
             h == [g EXCEPT ![field] = @ \cup {m.from}]
  <1>1. /\ start \in DOMAIN pub.schedule /\ g.next_invite # Locked
        /\ pub' = [pub EXCEPT !.schedule = Put(@, start, h)]
        /\ sent' = IF field = "overflowed" THEN sent \cup {[type |-> "no_confirm", to |-> m.from, prepare |-> m.prepare]}
                   ELSE sent
    BY DEF OnCandidateResponse
  <1>2. ScheduleOk(pub.schedule) /\ CurrentOk(pub)
    BY DEF PubOk
  <1>3. IsGroup(g) /\ start \in Nat /\ max_group_size \in Nat
    BY <1>1, <1>2, Constants DEF ScheduleOk
  <1>4. pub.current.kind # "init"
    BY <1>1, <1>2 DEF CurrentOk
  <1>5. field \in {"rejected", "overflowed", "accepted"} /\ (field = "accepted" => ~full)
    OBVIOUS
  <1>6. IsGroup(h) /\ h.end = g.end
    <2>1. CASE field = "accepted"
      <3>1. h = [g EXCEPT !.accepted = @ \cup {m.from}]
        BY <2>1
      <3>2. /\ IsFiniteSet(g.accepted \cup {m.from}) /\ Cardinality(g.accepted) \in Nat
            /\ Cardinality(g.accepted \cup {m.from}) \in Nat
            /\ Cardinality(g.accepted \cup {m.from}) <= Cardinality(g.accepted) + 1
        BY <1>3, AddOne DEF IsGroup
      <3>3. Cardinality(g.accepted \cup {m.from}) <= max_group_size
        BY <1>3, <1>5, <2>1, <3>2
      <3> HIDE DEF h, g
      <3> QED BY <1>3, <3>1, <3>2, <3>3 DEF IsGroup
    <2>2. CASE field = "rejected"
      <3>1. h = [g EXCEPT !.rejected = @ \cup {m.from}]
        BY <2>2
      <3> HIDE DEF h, g
      <3> QED BY <1>3, <3>1 DEF IsGroup
    <2>3. CASE field = "overflowed"
      <3>1. h = [g EXCEPT !.overflowed = @ \cup {m.from}]
        BY <2>3
      <3> HIDE DEF h, g
      <3> QED BY <1>3, <3>1 DEF IsGroup
    <2> QED BY <1>5, <2>1, <2>2, <2>3
  <1>7. \A x \in sent' : x \in sent \/ (x.type = "no_confirm" /\ x.prepare = m.prepare)
    BY <1>1
  <1> HIDE DEF h, field
  <1>8. Fits(pub, start, h)
    BY <1>1, <1>2, <1>3, <1>4, <1>6 DEF Fits, ScheduleOk, CurrentOk
  <1>9. PubOk(pub') /\ \A s \in Nat : \A end, members : s # start /\ Told(pub, s, end, members) => Told(pub', s, end, members)
    BY <1>1, <1>4, <1>8, PutGroupOk
  <1>10. Keeps(pub, pub')
    BY <1>1, <1>3, <1>4, <1>8, <1>9, Untold DEF Keeps, Fits
  <1>11. SentOk'
    BY <1>7 DEF SentOk
  <1>12. ConfirmsOk(pub', sent')
    BY <1>7, <1>10 DEF ConfirmsOk, Keeps, SentOk, IsPrepare
  <1> QED BY <1>9, <1>10, <1>11, <1>12

-----------------------------------------------------------------------------
(* The full nodes.                                                         *)

(* A confirmed group of the publisher is as it was told.                   *)
ClientsTold ==
    \A n \in FullNode : \A c \in client[n].confirmed :
      c.validator = Publisher => Told(pub, c.start, c.end, c.members)
ClientsBounded == \A n \in FullNode : Bounded(client[n])

LEMMA OthersOk ==
    ASSUME ConstantsOk, NEW n, NEW m \in OthersMessages(n)
    PROVE  IsPrepare(m.prepare) /\ m.prepare.validator # Publisher /\ m.to = n
  <1> DEFINE prepares == {Prepare(OtherValidator, s[1], s[2]) : s \in OtherSpans}
  <1>1. m.prepare \in prepares /\ m.to = n
    BY DEF OthersMessages
  <1>2. PICK s \in OtherSpans : m.prepare = Prepare(OtherValidator, s[1], s[2])
    BY <1>1
  <1>3. s[1] \in Nat /\ s[2] \in Nat /\ OtherValidator # Publisher
    BY Constants
  <1> QED BY <1>1, <1>2, <1>3 DEF Prepare, IsPrepare

LEMMA InboxOk ==
    ASSUME ConstantsOk, SentOk, NEW n, NEW m \in Inbox(n)
    PROVE  IsPrepare(m.prepare) /\ m.to = n /\ (m \in sent \/ m.prepare.validator # Publisher)
  BY OthersOk DEF Inbox, SentOk

(* One full node changes.                                                  *)
LEMMA ClientChanges ==
    ASSUME ClientsOk, ClientsBounded, ClientsTold, NEW n \in FullNode, NEW d,
           client' = [client EXCEPT ![n] = d], pub' = pub, IsClient(d), Bounded(d),
           \A c \in d.confirmed : c.validator = Publisher => Told(pub, c.start, c.end, c.members)
    PROVE  ClientsOk' /\ ClientsBounded' /\ ClientsTold'
  <1>1. client' = [x \in FullNode |-> client'[x]] /\ \A x \in FullNode : client'[x] = IF x = n THEN d ELSE client[x]
    BY DEF ClientsOk
  <1>2. ClientsOk'
    BY <1>1 DEF ClientsOk
  <1>3. ClientsBounded'
    BY <1>1 DEF ClientsBounded
  <1>4. ClientsTold'
    BY <1>1 DEF ClientsTold
  <1> QED BY <1>2, <1>3, <1>4

LEMMA ClientRoundOk ==
    ASSUME ConstantsOk, ClientsOk, ClientsBounded, ClientsTold, NEW n \in FullNode, NEW r \in 0..MaxRound,
           ClientEntersRound(n, r)
    PROVE  ClientsOk' /\ ClientsBounded' /\ ClientsTold'
  <1> DEFINE c == client[n]
             d == [round |-> r, pending |-> {p \in c.pending : p.start > r}, confirmed |-> {g \in c.confirmed : g.end > r}]
  <1>1. client' = [client EXCEPT ![n] = d] /\ pub' = pub
    BY DEF ClientEntersRound
  <1>2. IsClient(c) /\ Bounded(c) /\ r \in Nat /\ max_num_group \in Nat
    BY Constants DEF ClientsOk, ClientsBounded
  <1>3. d.round = r /\ d.pending \subseteq c.pending /\ d.confirmed \subseteq c.confirmed
        /\ d = [round |-> d.round, pending |-> d.pending, confirmed |-> d.confirmed]
    OBVIOUS
  <1>4. \A g \in c.confirmed : g.validator = Publisher => Told(pub, g.start, g.end, g.members)
    BY DEF ClientsTold
  <1> HIDE DEF c, d
  <1>5. IsFiniteSet(d.pending) /\ IsFiniteSet(d.confirmed)
    BY <1>2, <1>3, FS_Subset DEF IsClient
  <1>6. IsClient(d)
    BY <1>2, <1>3, <1>5 DEF IsClient
  <1>7. Bounded(d)
    BY <1>2, <1>3, FewerPromises
  <1> QED BY <1>1, <1>3, <1>4, <1>6, <1>7, ClientChanges

LEMMA PrepareGroupOk ==
    ASSUME ConstantsOk, ClientsOk, ClientsBounded, ClientsTold, SentOk, NEW n \in FullNode, NEW m \in Inbox(n),
           NEW receiving \in BOOLEAN, HandlePrepareGroup(m, receiving), ConfirmsOk(pub, sent)
    PROVE  ClientsOk' /\ ClientsBounded' /\ ClientsTold' /\ SentOk' /\ pub' = pub /\ ConfirmsOk(pub, sent')
  <1>0. IsPrepare(m.prepare) /\ m.to = n
    BY InboxOk
  <1> DEFINE c == client[n]
             Others == {p \in c.pending : <<p.start, p.validator>> # <<m.prepare.start, m.prepare.validator>>}
             d == [c EXCEPT !.pending = Others \cup {m.prepare}]
             answer == [type |-> "response", from |-> n, prepare |-> m.prepare,
                        accept |-> ValidatePrepareGroup(c, m.prepare, receiving)]
  <1>1. /\ client' = IF ValidatePrepareGroup(c, m.prepare, receiving) THEN [client EXCEPT ![n].pending = Others \cup {m.prepare}]
                     ELSE client
        /\ sent' \in {sent, sent \cup {answer}} /\ pub' = pub
    BY <1>0 DEF HandlePrepareGroup
  <1>2. IsClient(c) /\ Bounded(c)
    BY DEF ClientsOk, ClientsBounded
  <1>3. \A g \in c.confirmed : g.validator = Publisher => Told(pub, g.start, g.end, g.members)
    BY DEF ClientsTold
  <1>4. answer.type = "response" /\ answer.prepare = m.prepare
    OBVIOUS
  <1> HIDE DEF answer
  <1>5. SentOk' /\ ConfirmsOk(pub, sent')
    BY <1>0, <1>1, <1>4 DEF SentOk, ConfirmsOk
  <1>6. CASE ValidatePrepareGroup(c, m.prepare, receiving)
    <2>1. client' = [client EXCEPT ![n] = d]
      BY <1>1, <1>6
    <2>2. d.round = c.round /\ d.pending = Others \cup {m.prepare} /\ d.confirmed = c.confirmed
          /\ d = [round |-> d.round, pending |-> d.pending, confirmed |-> d.confirmed]
      BY <1>2 DEF IsClient
    <2>3. Others \subseteq c.pending
      OBVIOUS
    <2> HIDE DEF c, d, Others
    <2>4. IsFiniteSet(d.pending)
      BY <1>2, <2>2, <2>3, FS_Subset, AddOne DEF IsClient
    <2>5. IsClient(d)
      BY <1>0, <1>2, <2>2, <2>3, <2>4 DEF IsClient
    <2>6. Bounded(d)
      BY <1>0, <1>2, <1>6, <2>2, <2>3, PrepareKeepsBound
    <2>7. ClientsOk' /\ ClientsBounded' /\ ClientsTold'
      BY <1>1, <1>3, <2>1, <2>2, <2>5, <2>6, ClientChanges
    <2> QED BY <1>1, <1>5, <2>7
  <1>7. CASE ~ValidatePrepareGroup(c, m.prepare, receiving)
    BY <1>1, <1>5, <1>7 DEF ClientsOk, ClientsBounded, ClientsTold
  <1> QED BY <1>6, <1>7

LEMMA ConfirmGroupOk ==
    ASSUME ConstantsOk, ClientsOk, ClientsBounded, ClientsTold, SentOk, ConfirmsOk(pub, sent),
           NEW n \in FullNode, NEW m \in Inbox(n), HandleConfirmGroup(m)
    PROVE  ClientsOk' /\ ClientsBounded' /\ ClientsTold' /\ pub' = pub /\ sent' = sent
  <1>0. IsPrepare(m.prepare) /\ m.to = n /\ (m \in sent \/ m.prepare.validator # Publisher)
    BY InboxOk
  <1> DEFINE c == client[n]
             p == m.prepare
             g == [validator |-> p.validator, start |-> p.start, end |-> p.end, members |-> m.peers]
             d == [c EXCEPT !.pending = @ \ {p}, !.confirmed = @ \cup {g}]
  <1>1. /\ m.type = "confirm" /\ p \in c.pending /\ pub' = pub /\ sent' = sent
        /\ client' = [client EXCEPT ![n].pending = @ \ {p}, ![n].confirmed = @ \cup {g}]
    BY <1>0 DEF HandleConfirmGroup
  <1>2. IsClient(c) /\ Bounded(c)
    BY DEF ClientsOk, ClientsBounded
  <1>3. client' = [client EXCEPT ![n] = d]
    BY <1>1
  <1>4. d.round = c.round /\ d.pending = c.pending \ {p} /\ d.confirmed = c.confirmed \cup {g}
        /\ d = [round |-> d.round, pending |-> d.pending, confirmed |-> d.confirmed]
    <2>1. c = [round |-> c.round, pending |-> c.pending, confirmed |-> c.confirmed]
      BY <1>2 DEF IsClient
    <2> DEFINE P == c.pending \ {p}
               C == c.confirmed \cup {g}
    <2>2. d = [c EXCEPT !.pending = P, !.confirmed = C]
      OBVIOUS
    <2> HIDE DEF c, d, P, C
    <2>3. d.round = c.round /\ d.pending = P /\ d.confirmed = C
          /\ d = [round |-> d.round, pending |-> d.pending, confirmed |-> d.confirmed]
      BY <2>1, <2>2
    <2> QED BY <2>3 DEF P, C
  <1>5. IsConfirmed(g) /\ g.start = p.start /\ g.end = p.end /\ g.members = m.peers /\ g.validator = p.validator
    BY <1>0 DEF IsConfirmed, IsPrepare
  <1>6. \A x \in c.confirmed : x.validator = Publisher => Told(pub, x.start, x.end, x.members)
    BY DEF ClientsTold
  <1>7. g.validator = Publisher => Told(pub, g.start, g.end, g.members)
    BY <1>0, <1>1, <1>5 DEF ConfirmsOk
  <1> HIDE DEF c, d, g, p
  <1>8. IsFiniteSet(d.pending) /\ IsFiniteSet(d.confirmed)
    BY <1>2, <1>4, FS_Subset, AddOne DEF IsClient
  <1>9. IsClient(d)
    BY <1>2, <1>4, <1>5, <1>8 DEF IsClient
  <1>10. Bounded(d)
    BY <1>1, <1>2, <1>4, <1>5, ConfirmKeepsBound
  <1>11. ClientsOk' /\ ClientsBounded' /\ ClientsTold'
    BY <1>1, <1>3, <1>4, <1>6, <1>7, <1>9, <1>10, ClientChanges
  <1> QED BY <1>1, <1>11

LEMMA NoConfirmOk ==
    ASSUME ConstantsOk, ClientsOk, ClientsBounded, ClientsTold, SentOk,
           NEW n \in FullNode, NEW m \in Inbox(n), HandleNoConfirm(m)
    PROVE  ClientsOk' /\ ClientsBounded' /\ ClientsTold' /\ pub' = pub /\ sent' = sent
  <1>0. m.to = n
    BY InboxOk
  <1> DEFINE c == client[n]
             d == [c EXCEPT !.pending = @ \ {m.prepare}]
  <1>1. client' = [client EXCEPT ![n].pending = @ \ {m.prepare}] /\ pub' = pub /\ sent' = sent
    BY <1>0 DEF HandleNoConfirm
  <1>2. IsClient(c) /\ Bounded(c) /\ max_num_group \in Nat
    BY Constants DEF ClientsOk, ClientsBounded
  <1>3. client' = [client EXCEPT ![n] = d]
    BY <1>1
  <1>4. d.round = c.round /\ d.pending = c.pending \ {m.prepare} /\ d.confirmed = c.confirmed
        /\ d = [round |-> d.round, pending |-> d.pending, confirmed |-> d.confirmed]
    BY <1>2 DEF IsClient
  <1>5. \A x \in c.confirmed : x.validator = Publisher => Told(pub, x.start, x.end, x.members)
    BY DEF ClientsTold
  <1> HIDE DEF c, d
  <1>6. IsFiniteSet(d.pending)
    BY <1>2, <1>4, FS_Subset DEF IsClient
  <1>7. IsClient(d) /\ Bounded(d)
    BY <1>2, <1>4, <1>6, FewerPromises DEF IsClient
  <1>8. ClientsOk' /\ ClientsBounded' /\ ClientsTold'
    BY <1>1, <1>3, <1>4, <1>5, <1>7, ClientChanges
  <1> QED BY <1>1, <1>8

-----------------------------------------------------------------------------
IInv == PubOk(pub) /\ SentOk /\ ConfirmsOk(pub, sent) /\ ClientsOk /\ ClientsBounded /\ ClientsTold

LEMMA InitOk ==
    ASSUME ConstantsOk, Init PROVE IInv
  <1>0. max_group_size \in Nat /\ max_num_group \in Nat
    BY Constants
  <1>1. IsFiniteSet({}) /\ Cardinality({}) = 0
    BY FS_EmptySet
  <1>2. PubOk(pub)
    <2>1. /\ pub.round = 0 /\ pub.schedule = <<>> /\ DOMAIN pub.schedule = {}
          /\ pub.current = [kind |-> "init", start |-> 0, end |-> 0, members |-> {}]
          /\ pub = [round |-> pub.round, schedule |-> pub.schedule, current |-> pub.current]
          /\ pub.schedule = [s \in DOMAIN pub.schedule |-> pub.schedule[s]]
      BY DEF Init
    <2>2. ScheduleOk(pub.schedule)
      BY <2>1 DEF ScheduleOk
    <2>3. CurrentOk(pub)
      <3>1. pub.current.kind = "init" /\ pub.current.start = 0 /\ pub.current.end = 0 /\ pub.current.members = {}
            /\ pub.current = [kind |-> pub.current.kind, start |-> pub.current.start, end |-> pub.current.end,
                              members |-> pub.current.members]
        BY <2>1
      <3>2. IsFiniteSet(pub.current.members) /\ Cardinality(pub.current.members) = 0
        BY <1>1, <3>1, Zenon
      <3> QED BY <1>0, <2>1, <3>1, <3>2 DEF CurrentOk
    <2> QED BY <2>1, <2>2, <2>3 DEF PubOk
  <1>3. SentOk /\ ConfirmsOk(pub, sent)
    BY DEF Init, SentOk, ConfirmsOk
  <1>4. \A n \in FullNode : client[n].round = 0 /\ client[n].pending = {} /\ client[n].confirmed = {}
          /\ client[n] = [round |-> client[n].round, pending |-> client[n].pending, confirmed |-> client[n].confirmed]
    BY DEF Init
  <1>5. ClientsOk
    <2>1. ASSUME NEW n \in FullNode PROVE IsClient(client[n])
      <3>1. IsFiniteSet(client[n].pending) /\ IsFiniteSet(client[n].confirmed)
        BY <1>1, <1>4, Zenon
      <3> QED BY <1>4, <3>1 DEF IsClient
    <2> QED BY <2>1 DEF Init, ClientsOk
  <1>6. ClientsBounded
    <2> SUFFICES ASSUME NEW n \in FullNode, NEW r \in Nat PROVE Cardinality(At(client[n], r)) <= max_num_group
      BY DEF ClientsBounded, Bounded
    <2>1. At(client[n], r) = {}
      BY <1>4 DEF At
    <2>2. Cardinality(At(client[n], r)) = 0
      BY <1>1, <2>1
    <2> QED BY <1>0, <2>2
  <1>7. ClientsTold
    BY <1>4 DEF ClientsTold
  <1> QED BY <1>2, <1>3, <1>5, <1>6, <1>7 DEF IInv

LEMMA NextOk ==
    ASSUME ConstantsOk, IInv, Next PROVE IInv'
  <1>0. PubOk(pub) /\ SentOk /\ ConfirmsOk(pub, sent) /\ ClientsOk /\ ClientsBounded /\ ClientsTold
    BY DEF IInv
  <1>1. ASSUME PubOk(pub'), ConfirmsOk(pub', sent'), SentOk', Keeps(pub, pub'), client' = client PROVE IInv'
    <2>1. PubOk(pub)' /\ ConfirmsOk(pub, sent)' /\ ClientsOk' /\ ClientsBounded'
      BY <1>0, <1>1 DEF ClientsOk, ClientsBounded
    <2>2. ClientsTold'
      BY <1>0, <1>1 DEF ClientsTold, ClientsOk, IsClient, IsConfirmed, Keeps
    <2> QED BY <1>1, <2>1, <2>2 DEF IInv
  <1>2. ASSUME ClientsOk', ClientsBounded', ClientsTold', SentOk', pub' = pub, ConfirmsOk(pub, sent') PROVE IInv'
    <2>1. PubOk(pub)' /\ ConfirmsOk(pub, sent)'
      BY <1>0, <1>2
    <2> QED BY <1>2, <2>1 DEF IInv
  <1>3. ASSUME NEW r \in 0..MaxRound, PublisherEntersRound(r) PROVE IInv'
    <2>1. client' = client
      BY <1>3 DEF PublisherEntersRound
    <2> QED BY <1>0, <1>1, <1>3, <2>1, EntersRoundOk
  <1>4. ASSUME NEW m \in sent, OnCandidateResponse(m) PROVE IInv'
    <2>1. client' = client
      BY <1>4 DEF OnCandidateResponse
    <2> QED BY <1>0, <1>1, <1>4, <2>1, ResponseOk
  <1>5. ASSUME NEW n \in FullNode, NEW r \in 0..MaxRound, ClientEntersRound(n, r) PROVE IInv'
    <2>1. pub' = pub /\ sent' = sent
      BY <1>5 DEF ClientEntersRound
    <2>2. SentOk' /\ ConfirmsOk(pub, sent')
      BY <1>0, <2>1 DEF SentOk
    <2> QED BY <1>0, <1>2, <1>5, <2>1, <2>2, ClientRoundOk
  <1>6. ASSUME NEW n \in FullNode, NEW m \in Inbox(n), NEW receiving \in BOOLEAN, HandlePrepareGroup(m, receiving)
        PROVE  IInv'
    BY <1>0, <1>2, <1>6, PrepareGroupOk
  <1>7. ASSUME NEW n \in FullNode, NEW m \in Inbox(n), HandleConfirmGroup(m) PROVE IInv'
    <2>1. ClientsOk' /\ ClientsBounded' /\ ClientsTold' /\ pub' = pub /\ sent' = sent
      BY <1>0, <1>7, ConfirmGroupOk
    <2>2. SentOk' /\ ConfirmsOk(pub, sent')
      BY <1>0, <2>1 DEF SentOk
    <2> QED BY <1>2, <2>1, <2>2
  <1>8. ASSUME NEW n \in FullNode, NEW m \in Inbox(n), HandleNoConfirm(m) PROVE IInv'
    <2>1. ClientsOk' /\ ClientsBounded' /\ ClientsTold' /\ pub' = pub /\ sent' = sent
      BY <1>0, <1>8, NoConfirmOk
    <2>2. SentOk' /\ ConfirmsOk(pub, sent')
      BY <1>0, <2>1 DEF SentOk
    <2> QED BY <1>2, <2>1, <2>2
  <1> QED BY <1>3, <1>4, <1>5, <1>6, <1>7, <1>8 DEF Next

(* The inductive invariant holds, whatever is lost, late or repeated and   *)
(* whatever the other validator sends.                                     *)
THEOREM Invariance ==
    ASSUME ConstantsOk
    PROVE  Spec => []IInv
  <1>1. Init => IInv
    BY InitOk
  <1>2. IInv /\ [Next]_vars => IInv'
    <2> SUFFICES ASSUME IInv, [Next]_vars PROVE IInv'
      OBVIOUS
    <2>1. CASE Next
      BY <2>1, NextOk
    <2>2. CASE UNCHANGED vars
      BY <2>2 DEF vars, IInv, SentOk, ClientsOk, ClientsBounded, ClientsTold
    <2> QED BY <2>1, <2>2
  <1> QED BY <1>1, <1>2, PTL DEF Spec

(* No full node is in more than max_num_group groups in a round, counting  *)
(* those it was only invited to.                                           *)
THEOREM PromisesStayBounded ==
    ASSUME ConstantsOk
    PROVE  Spec => []PromisesBounded
  <1>1. IInv => PromisesBounded
    <2> SUFFICES ASSUME IInv, NEW n \in FullNode, NEW r \in 1..MaxRound + round_span
                 PROVE  Cardinality(Promised(n, r)) <= max_num_group
      BY DEF PromisesBounded
    <2>1. IsClient(client[n]) /\ Bounded(client[n]) /\ r \in Nat
      BY Constants DEF IInv, ClientsOk, ClientsBounded
    <2>2. Promised(n, r) = At(client[n], r)
      <3>1. \A p \in client[n].pending \cup client[n].confirmed : p.start \in Nat /\ p.end \in Nat
        BY <2>1 DEF IsClient, IsPrepare, IsConfirmed
      <3>2. \A p \in client[n].pending \cup client[n].confirmed : r \in p.start..p.end - 1 <=> p.start <= r /\ r < p.end
        BY <2>1, <3>1
      <3> QED BY <3>2 DEF Promised, At
    <2> QED BY <2>1, <2>2 DEF Bounded
  <1> QED BY <1>1, Invariance, PTL

(* The publisher's groups never share a round, keep to the size, and are   *)
(* the groups their members were told of.                                  *)
THEOREM GroupsStayAgreed ==
    ASSUME ConstantsOk
    PROVE  Spec => []GroupsAgree
  <1>1. IInv => GroupsAgree
    <2> SUFFICES ASSUME IInv PROVE GroupsAgree
      OBVIOUS
    <2>0. /\ ScheduleOk(pub.schedule) /\ CurrentOk(pub) /\ ClientsTold /\ ClientsOk
          /\ pub.current.start \in Nat /\ pub.current.end \in Nat
      BY DEF IInv, PubOk, CurrentOk
    <2>1. ASSUME NEW s \in DOMAIN pub.schedule
          PROVE  /\ Finalized(s, pub.schedule[s]).start = s
                 /\ Finalized(s, pub.schedule[s]).end = pub.schedule[s].end
                 /\ Finalized(s, pub.schedule[s]).members = pub.schedule[s].accepted
                 /\ s \in Nat /\ pub.schedule[s].end \in Nat /\ IsGroup(pub.schedule[s])
                 /\ pub.current.kind # "init"
      <3>1. s \in Nat /\ pub.schedule[s].end \in Nat /\ IsGroup(pub.schedule[s])
        BY <2>0 DEF ScheduleOk, IsGroup
      <3>2. pub.current.kind # "init"
        BY <2>0 DEF CurrentOk
      <3> QED BY <3>1, <3>2 DEF Finalized, Inactive
    <2>2. \A g \in Groups : g = pub.current \/ \E s \in DOMAIN pub.schedule : g = Finalized(s, pub.schedule[s])
      BY DEF Groups
    <2>3. ASSUME NEW s \in DOMAIN pub.schedule, NEW t \in DOMAIN pub.schedule, s # t
          PROVE  ~Overlap(Finalized(s, pub.schedule[s]), Finalized(t, pub.schedule[t]))
      <3>1. s < t \/ t < s
        BY <2>1, <2>3
      <3>2. (s < t => pub.schedule[s].end <= t) /\ (t < s => pub.schedule[t].end <= s)
        BY <2>0 DEF ScheduleOk
      <3> QED BY <2>1, <3>1, <3>2 DEF Overlap
    <2>4. ASSUME NEW s \in DOMAIN pub.schedule, pub.current.kind = "active"
          PROVE  /\ ~Overlap(Finalized(s, pub.schedule[s]), pub.current)
                 /\ ~Overlap(pub.current, Finalized(s, pub.schedule[s]))
      <3>1. pub.current.end <= s
        BY <2>0, <2>4 DEF CurrentOk
      <3> QED BY <2>0, <2>1, <3>1 DEF Overlap
    <2>5. \A g, h \in {x \in Groups : x.kind = "active"} : g # h => ~Overlap(g, h)
      BY <2>2, <2>3, <2>4
    <2>6. \A g \in Groups : Cardinality(g.members) <= max_group_size
      <3>1. Cardinality(pub.current.members) <= max_group_size
        BY <2>0 DEF CurrentOk
      <3>2. ASSUME NEW s \in DOMAIN pub.schedule
            PROVE  Cardinality(Finalized(s, pub.schedule[s]).members) <= max_group_size
        <4>1. /\ Finalized(s, pub.schedule[s]).members = pub.schedule[s].accepted
              /\ Cardinality(pub.schedule[s].accepted) <= max_group_size
          BY <2>1 DEF IsGroup
        <4> QED BY <4>1, Zenon
      <3> QED BY <2>2, <3>1, <3>2, Zenon
    <2>7. ASSUME NEW n \in FullNode, NEW c \in client[n].confirmed, NEW g \in Groups,
                 c.validator = Publisher, g.kind # "init", c.start = g.start, c.end = g.end
          PROVE  c.members = g.members
      <3>1. Told(pub, c.start, c.end, c.members) /\ c.start \in Nat
        BY <2>0, <2>7 DEF ClientsTold, ClientsOk, IsClient, IsConfirmed
      <3>2. \A s \in DOMAIN pub.schedule : pub.current.start < s
        BY <2>0, <2>1 DEF CurrentOk
      <3>3. CASE g = pub.current
        <4>1. c.start = pub.current.start
          BY <2>7, <3>3
        <4>2. c.start \notin DOMAIN pub.schedule /\ ~(c.start < pub.current.start)
          BY <2>0, <3>2, <4>1
        <4> QED BY <3>1, <3>3, <4>2 DEF Told
      <3>4. ASSUME NEW s \in DOMAIN pub.schedule, g = Finalized(s, pub.schedule[s]) PROVE c.members = g.members
        <4>1. c.start = s /\ pub.current.start < s /\ s \in Nat
          BY <2>1, <2>7, <3>2, <3>4
        <4>2. ~(c.start < pub.current.start) /\ c.start # pub.current.start
          BY <2>0, <4>1
        <4> QED BY <2>1, <3>1, <3>4, <4>1, <4>2 DEF Told
      <3> QED BY <2>2, <3>3, <3>4
    <2> QED BY <2>5, <2>6, <2>7 DEF GroupsAgree
  <1> QED BY <1>1, Invariance, PTL
=============================================================================
