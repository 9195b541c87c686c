--------------------------- MODULE FullNodeGroups ---------------------------
(***************************************************************************)
(* Secondary raptorcast: a validator forms groups of full nodes for future *)
(* spans of rounds by inviting them, and full nodes join groups of several *)
(* validators.  Messages are lost, late, duplicated and reordered, rounds  *)
(* are skipped, and the other validators send what they like.              *)
(* Source: monad-raptorcast/src/raptorcast_secondary/publisher.rs,         *)
(* client.rs and mod.rs.                                                   *)
(***************************************************************************)
EXTENDS Integers, Sequences, FiniteSets, FiniteSetsExt, SequencesExt, Functions

CONSTANTS
    Publisher, OtherValidator,  \* the validator modelled and one that is free
    FullNode,
    Prioritized,                \* sequence of full nodes that are asked first
    max_group_size, round_span, invite_lookahead, max_invite_wait,
    deadline_round_dist, init_empty_round_span,
    max_num_group,              \* groups a full node takes part in at a time
    invite_future_dist_min, invite_future_dist_max,
    OtherSpans,                 \* <<start, end>> of the other validator's groups
    MaxRound                    \* bound

VARIABLES
    pub,     \* [round, current, schedule]
    client,  \* full node -> [round, pending, confirmed]
    sent     \* messages of the publisher and to it

vars == <<pub, client, sent>>

ConstantsOk ==
    /\ {max_group_size, round_span, invite_lookahead, max_invite_wait, deadline_round_dist,
        init_empty_round_span, max_num_group, MaxRound} \subseteq Nat
    /\ OtherSpans \subseteq Nat \X Nat /\ OtherValidator # Publisher
    /\ max_num_group > 0 /\ round_span > 0 /\ init_empty_round_span > 0
    /\ init_empty_round_span >= max_invite_wait + deadline_round_dist
    /\ invite_lookahead >= max_invite_wait + deadline_round_dist

Locked == MaxRound + max_invite_wait + 1   \* TimePoint::MAX, later than any invite
Without(f, x) == Restrict(f, DOMAIN f \ {x})
Put(f, x, v) == [y \in DOMAIN f \cup {x} |-> IF y = x THEN v ELSE f[y]]
Overlap(a, b) == a.start < b.end /\ b.start < a.end

Prepare(validator, start, end) ==
    [validator |-> validator, size |-> max_group_size, start |-> start, end |-> end]

Init ==
    /\ pub = [round |-> 0, schedule |-> <<>>, current |-> [kind |-> "init", start |-> 0, end |-> 0, members |-> {}]]
    /\ client = [n \in FullNode |-> [round |-> 0, pending |-> {}, confirmed |-> {}]]
    /\ sent = {}

-----------------------------------------------------------------------------
(* Publisher.                                                              *)
Inactive(start, end) == [kind |-> "inactive", start |-> start, end |-> end, members |-> {}]

(* to_finalized_group                                                      *)
Finalized(start, g) ==
    IF g.accepted = {} THEN Inactive(start, g.end)
    ELSE [kind |-> "active", start |-> start, end |-> g.end, members |-> g.accepted]

(* enter_round: the group of the round, if one was formed.                 *)
EnterGroup(p, r) ==
    LET left == Restrict(p.schedule, {s \in DOMAIN p.schedule : p.schedule[s].end > r})
        first == Min(DOMAIN left)
    IN IF p.current.kind # "init" /\ r \in p.current.start..p.current.end - 1 THEN p
       ELSE IF left = <<>> \/ first > r
       THEN [p EXCEPT !.schedule = left, !.current = Inactive(r, r + init_empty_round_span)]
       ELSE [p EXCEPT !.schedule = Without(left, first), !.current = Finalized(first, left[first])]

(* new_randomized: the prioritized nodes, then those that discovery knows  *)
(* at the moment, in random order.                                         *)
Candidates ==
    {Prioritized \o c : c \in UNION {SetToSeqs(S) : S \in SUBSET (FullNode \ ToSet(Prioritized))}}
NewGroup(start, candidates) ==
    [end |-> start + round_span, candidates |-> candidates, invited |-> 0,
     accepted |-> {}, rejected |-> {}, overflowed |-> {}, next_invite |-> 0]

(* advance_invites: lock and confirm the group, or invite more nodes.      *)
Locks(start, g, r) ==
    \/ Cardinality(g.accepted) >= max_group_size
    \/ g.invited >= Len(g.candidates)
    \/ r + deadline_round_dist >= start
Advance(start, g, r) ==
    LET prepare == Prepare(Publisher, start, g.end)
        upto == Min({Len(g.candidates), g.invited + max_group_size - Cardinality(g.accepted)})
    IN IF Locks(start, g, r)
       THEN [group |-> [g EXCEPT !.next_invite = Locked],
             out |-> {[type |-> "confirm", to |-> n, prepare |-> prepare, peers |-> g.accepted] : n \in g.accepted}]
       ELSE [group |-> [g EXCEPT !.next_invite = r + max_invite_wait, !.invited = upto],
             out |-> {[type |-> "prepare", to |-> g.candidates[i], prepare |-> prepare] : i \in g.invited + 1..upto}]

(* step_until serves one group in a round, or begins a new one.            *)
ScheduleEnd(p) ==
    IF p.schedule = <<>> THEN p.current.end ELSE p.schedule[Max(DOMAIN p.schedule)].end
Due(p, r) == {s \in DOMAIN p.schedule : p.schedule[s].next_invite <= r}
Step(p, start, g, r) ==
    LET a == Advance(start, g, r)
    IN pub' = [p EXCEPT !.schedule = Put(@, start, a.group)] /\ sent' = sent \cup a.out

PublisherEntersRound(r) ==
    LET p == [EnterGroup(pub, r) EXCEPT !.round = r]
    IN /\ r >= pub.round /\ r <= MaxRound
       /\ \/ Due(p, r) # {} /\ Step(p, Min(Due(p, r)), p.schedule[Min(Due(p, r))], r)
          \/ /\ Due(p, r) = {} /\ ScheduleEnd(p) < r + invite_lookahead
             /\ \E c \in Candidates : Step(p, ScheduleEnd(p), NewGroup(ScheduleEnd(p), c), r)
          \/ /\ Due(p, r) = {} /\ ScheduleEnd(p) >= r + invite_lookahead
             /\ pub' = p /\ UNCHANGED sent
       /\ UNCHANGED client

(* Mutant: a locked group still takes answers                              *)
OnCandidateResponseLate(m) ==
    LET start == m.prepare.start
        g == pub.schedule[start]
        field == IF ~m.accept THEN "rejected"
                 ELSE IF Cardinality(g.accepted) >= max_group_size THEN "overflowed" ELSE "accepted"
    IN /\ m.type = "response" /\ start \in DOMAIN pub.schedule
       /\ m.from \in {g.candidates[i] : i \in 1..g.invited} \ (g.accepted \cup g.rejected \cup g.overflowed)
       /\ pub' = [pub EXCEPT !.schedule[start][field] = @ \cup {m.from}]
       /\ UNCHANGED <<client, sent>>

(* on_candidate_response                                                   *)
OnCandidateResponse(m) ==
    LET start == m.prepare.start
        g == pub.schedule[start]
        full == Cardinality(g.accepted) >= max_group_size
        field == IF ~m.accept THEN "rejected" ELSE IF full THEN "overflowed" ELSE "accepted"
    IN /\ m.type = "response" /\ start \in DOMAIN pub.schedule
       /\ g.next_invite # Locked
       /\ m.from \in {g.candidates[i] : i \in 1..g.invited} \ (g.accepted \cup g.rejected \cup g.overflowed)
       /\ pub' = [pub EXCEPT !.schedule = Put(@, start, [g EXCEPT ![field] = @ \cup {m.from}])]
       /\ sent' = IF field = "overflowed" THEN sent \cup {[type |-> "no_confirm", to |-> m.from, prepare |-> m.prepare]}
                  ELSE sent
       /\ UNCHANGED client

-----------------------------------------------------------------------------
(* Full nodes.  Another validator's messages are any that pass as its own. *)
OthersMessages(n) ==
    LET prepares == {Prepare(OtherValidator, s[1], s[2]) : s \in OtherSpans}
    IN {[type |-> t, to |-> n, prepare |-> p] : t \in {"prepare", "no_confirm"}, p \in prepares}
       \cup {[type |-> "confirm", to |-> n, prepare |-> p, peers |-> S] : p \in prepares, S \in {{n}, FullNode}}

ClientEntersRound(n, r) ==
    LET c == client[n]
    IN /\ r > c.round /\ r <= MaxRound
       /\ client' = [client EXCEPT ![n] = [round |-> r, pending |-> {p \in c.pending : p.start > r},
                                           confirmed |-> {g \in c.confirmed : g.end > r}]]
       /\ UNCHANGED <<pub, sent>>

(* Mutant: invitations that were accepted do not count                     *)
ValidatePrepareGroupConfirmed(c, p, receiving) ==
    LET confirmed == {g \in c.confirmed : Overlap(g, p)}
    IN /\ p.start < p.end /\ p.start > c.round
       /\ receiving => p.start - c.round \in invite_future_dist_min..invite_future_dist_max
       /\ \A g \in confirmed : g.validator # p.validator
       /\ confirmed # {} => Cardinality(confirmed) + 1 <= max_num_group

(* validate_prepare_group_message; `receiving': proposals came lately.     *)
ValidatePrepareGroup(c, p, receiving) ==
    LET confirmed == {g \in c.confirmed : Overlap(g, p)}
        pending == {q \in c.pending : Overlap(q, p)}
    IN /\ p.start < p.end /\ p.start > c.round
       /\ receiving => p.start - c.round \in invite_future_dist_min..invite_future_dist_max
       /\ \A g \in confirmed : g.validator # p.validator
       /\ confirmed \cup pending # {} => Cardinality(confirmed) + Cardinality(pending) + 1 <= max_num_group

(* An invite replaces the one of the same validator and start.             *)
HandlePrepareGroup(m, receiving) ==
    LET n == m.to
        accept == ValidatePrepareGroup(client[n], m.prepare, receiving)
        Others == {p \in client[n].pending : <<p.start, p.validator>> # <<m.prepare.start, m.prepare.validator>>}
    IN /\ m.type = "prepare"
       /\ client' = IF accept THEN [client EXCEPT ![n].pending = Others \cup {m.prepare}] ELSE client
       /\ sent' = IF m.prepare.validator # Publisher THEN sent
                  ELSE sent \cup {[type |-> "response", from |-> n, prepare |-> m.prepare, accept |-> accept]}
       /\ UNCHANGED pub

HandleConfirmGroup(m) ==
    LET n == m.to
        p == m.prepare
    IN /\ m.type = "confirm"
       /\ p.start < p.end /\ p.start > client[n].round
       /\ p \in client[n].pending
       /\ Cardinality(m.peers) <= p.size /\ n \in m.peers
       /\ client' = [client EXCEPT ![n].pending = @ \ {p},
                         ![n].confirmed = @ \cup {[validator |-> p.validator, start |-> p.start, end |-> p.end, members |-> m.peers]}]
       /\ UNCHANGED <<pub, sent>>

HandleNoConfirm(m) ==
    /\ m.type = "no_confirm"
    /\ m.prepare \in client[m.to].pending
    /\ client' = [client EXCEPT ![m.to].pending = @ \ {m.prepare}]
    /\ UNCHANGED <<pub, sent>>

Inbox(n) == {m \in sent : "to" \in DOMAIN m /\ m.to = n} \cup OthersMessages(n)

Next ==
    \/ \E r \in 0..MaxRound : PublisherEntersRound(r)
    \/ \E m \in sent : OnCandidateResponse(m)
    \/ \E n \in FullNode, r \in 0..MaxRound : ClientEntersRound(n, r)
    \/ \E n \in FullNode : \E m \in Inbox(n), receiving \in BOOLEAN : HandlePrepareGroup(m, receiving)
    \/ \E n \in FullNode : \E m \in Inbox(n) : HandleConfirmGroup(m)
    \/ \E n \in FullNode : \E m \in Inbox(n) : HandleNoConfirm(m)

Spec == Init /\ [][Next]_vars

-----------------------------------------------------------------------------
(* The groups of a publisher, the current one and those to come, never     *)
(* share a round and keep to the size, and a full node that holds a        *)
(* confirmed group knows it as the publisher uses it: no answer, however   *)
(* late, changes a group that some member was told of.                     *)
Groups == {Finalized(s, pub.schedule[s]) : s \in DOMAIN pub.schedule} \cup {pub.current}
GroupsAgree ==
    /\ \A g, h \in {x \in Groups : x.kind = "active"} : g # h => ~Overlap(g, h)
    /\ \A g \in Groups : Cardinality(g.members) <= max_group_size
    /\ \A n \in FullNode : \A c \in client[n].confirmed : \A g \in Groups :
         (c.validator = Publisher /\ g.kind # "init" /\ c.start = g.start /\ c.end = g.end) => c.members = g.members

(* A full node never promises more than it may serve: in no round is it in *)
(* more than max_num_group groups, counting those it was only invited to.  *)
Promised(n, r) == {p \in client[n].pending \cup client[n].confirmed : r \in p.start..p.end - 1}
PromisesBounded ==
    \A n \in FullNode, r \in 1..MaxRound + round_span : Cardinality(Promised(n, r)) <= max_num_group
=============================================================================
