--------------------------- MODULE MonadBFT_proofs ---------------------------
(***************************************************************************)
(* Theorems about MonadBFT, for every set of validators, quorums, blocks   *)
(* and leaders that meets the assumptions of ConsensusTypes and MonadBFT.  *)
(*                                                                         *)
(* The operators a handler is composed of act on a handler state, so each  *)
(* invariant is proved in two steps: every operator preserves a predicate  *)
(* on handler states, and finishing a handler in a state with the          *)
(* predicate re-establishes the invariant.                                 *)
(***************************************************************************)
EXTENDS MonadBFT, NaturalsInduction, WellFoundedInduction, TLAPS

Timeout_ == [node : Honest, round : Nat, info : Rank]
NoEndorse_ == [node : Honest, round : Nat, tip_qc_round : Nat]
Creating_ == [node : Honest, round : Nat, tip : Block, tc : RoundCertificate]

(* The type of a running handler's state *)
HandlerState ==
    [ safety : SafetyState, cert : RoundCertificate, root : Block,
      votes : SUBSET Vote_, timeouts : SUBSET Timeout_, nes : SUBSET NoEndorse_,
      proposals : SUBSET Proposal_, recoveries : SUBSET TipTc,
      creating : SUBSET Creating_ ]

-----------------------------------------------------------------------------
(* Types of the helpers *)

(* Every Safety method returns a Safety value. *)
LEMMA SafetyType ==
    ASSUME NEW s \in SafetyState, NEW c \in RoundCertificate,
           NEW r \in Nat, NEW t \in Block
    PROVE  /\ SafetyNew(c) \in SafetyState
           /\ SafetyProcessCertificate(s, c) \in SafetyState
           /\ Vote(s, r, t) \in SafetyState
           /\ NoEndorse(s, r, t) \in SafetyState
           /\ Timeout(s, r) \in SafetyState
           /\ Propose(s, r) \in SafetyState
           /\ RecoveryRequest(s, r) \in SafetyState
  <1> USE BlockAssumption DEF SafetyState, RoundCertificate, HighNoEndorse, GENESIS_ROUND
  <1>1. SafetyNew(c) \in SafetyState
    BY DEF SafetyNew
  <1>2. SafetyProcessCertificate(s, c) \in SafetyState
    BY DEF SafetyProcessCertificate, Maximum
  <1>3. Vote(s, r, t) \in SafetyState
    BY DEF Vote
  <1>4. NoEndorse(s, r, t) \in SafetyState
    BY DEF NoEndorse
  <1>5. /\ Timeout(s, r) \in SafetyState
        /\ Propose(s, r) \in SafetyState
        /\ RecoveryRequest(s, r) \in SafetyState
    BY DEF Timeout, Propose, RecoveryRequest
  <1> QED BY <1>1, <1>2, <1>3, <1>4, <1>5

(* What can be assembled from the signatures sent are certificates,        *)
(* proposals and recovery requests of the source's types.                  *)
LEMMA CertificateType ==
    ASSUME TypeOK
    PROVE  /\ NoTc \in RoundCertificate
           /\ \A q \in Qcs : q.id \in Block /\ q.round \in Nat
           /\ Tcs(Tips) \subseteq RoundCertificate
           /\ ValidRecoveries(Tcs(Tips)) \subseteq TipTc
           /\ ValidProposals(Tips, Tcs(Tips)) \subseteq Proposal_
  <1>1. NoTc \in RoundCertificate
    BY DEF NoTc, TcCert, RoundCertificate
  <1>2. \A q \in Qcs : q.id \in Block /\ q.round \in Nat
    BY DEF Qcs, TypeOK, Vote_
  <1>3. Tcs(Tips) \subseteq RoundCertificate
    <2> SUFFICES ASSUME NEW c \in Tcs(Tips) PROVE c \in RoundCertificate
      OBVIOUS
    <2> DEFINE rounds == {t.round : t \in timeouts}
    <2>1. rounds \subseteq Nat
      BY DEF TypeOK
    <2>2. Tips \subseteq Block
      BY DEF Tips
    <2>3. CASE \E rq \in rounds \X Round : c = TcCert(rq[1], None, rq[2])
      BY <2>1, <2>3, RoundAssumption DEF TcCert, RoundCertificate, Round
    <2>4. CASE \E rb \in rounds \X Tips : c = TcCert(rb[1], rb[2], qc_round[rb[2]])
      BY <2>1, <2>2, <2>4, BlockAssumption DEF TcCert, RoundCertificate
    <2> QED BY <2>3, <2>4 DEF Tcs
  <1>4. ValidRecoveries(Tcs(Tips)) \subseteq TipTc
    BY <1>3 DEF ValidRecoveries, TypeOK, TipTc, RoundCertificate
  <1>5. ValidProposals(Tips, Tcs(Tips)) \subseteq Proposal_
    BY <1>1, <1>3, RoundAssumption DEF ValidProposals, TypeOK, Proposal_, Tips
  <1> QED BY <1>1, <1>2, <1>3, <1>4, <1>5

-----------------------------------------------------------------------------
(* Type correctness *)

(* The types of the fields of a handler's state, spelled out *)
LEMMA HandlerFields ==
    ASSUME NEW st \in HandlerState
    PROVE  /\ st.safety \in SafetyState
           /\ st.safety.maybe_high_tip \in Block \cup {None}
           /\ st.safety.high_certificate_qc_round \in Nat
           /\ st.safety.highest_vote \in Nat
           /\ st.safety.highest_no_endorse \in HighNoEndorse
           /\ st.safety.highest_no_endorse.round \in Nat
           /\ st.safety.highest_no_endorse.tip \in Block
           /\ st.safety.highest_propose \in Nat
           /\ st.cert \in RoundCertificate
           /\ st.cert.round \in Nat
           /\ st.cert.qc_round \in Nat
           /\ st.cert.tip \in Block \cup {None}
  BY DEF HandlerState, SafetyState, RoundCertificate, HighNoEndorse

(* ... and of a validator's state between handlers *)
LEMMA NodeFields ==
    ASSUME TypeOK, NEW n \in Honest
    PROVE  /\ safety[n] \in SafetyState /\ cert[n] \in RoundCertificate
           /\ root[n] \in Block
           /\ safety[n].maybe_high_tip \in Block \cup {None}
           /\ safety[n].high_certificate_qc_round \in Nat
           /\ safety[n].highest_vote \in Nat
           /\ safety[n].highest_no_endorse.round \in Nat
           /\ safety[n].highest_no_endorse.tip \in Block
           /\ safety[n].highest_propose \in Nat
           /\ cert[n].round \in Nat /\ cert[n].qc_round \in Nat
           /\ cert[n].tip \in Block \cup {None}
           /\ forkpoint[n].cert \in RoundCertificate /\ forkpoint[n].cert.round \in Nat
           /\ forkpoint[n].root \in Block
  BY DEF TypeOK, SafetyState, RoundCertificate, HighNoEndorse

(* The operators a handler is composed of keep its state well typed. *)
LEMMA BeginType ==
    ASSUME TypeOK, NEW n \in Honest
    PROVE  Begin(n) \in HandlerState
  BY DEF Begin, TypeOK, HandlerState

LEMMA AdvanceType ==
    ASSUME NEW st \in HandlerState, NEW c \in RoundCertificate
    PROVE  ProcessCertificate(st, c) \in HandlerState
  <1>1. SafetyProcessCertificate(st.safety, c) \in SafetyState
    BY HandlerFields, SafetyType, BlockAssumption
  <1> QED BY <1>1 DEF ProcessCertificate, HandlerState

LEMMA CommitType ==
    ASSUME NEW st \in HandlerState, NEW b \in Block, NEW r
    PROVE  TryCommit(st, b, r) \subseteq HandlerState
  BY BlockAssumption DEF TryCommit, HandlerState

LEMMA FreshType ==
    ASSUME TypeOK, NEW n \in Honest, NEW st \in HandlerState, NEW r \in Nat
    PROVE  TryProposeFresh(n, st, r) \subseteq HandlerState
  <1>1. (IF st.cert.tc THEN st.cert ELSE NoTc) \in RoundCertificate
    BY HandlerFields, CertificateType
  <1>2. Propose(st.safety, r) \in SafetyState
    BY HandlerFields, SafetyType, BlockAssumption
  <1> SUFFICES ASSUME NEW x \in Block
               PROVE  [st EXCEPT !.safety = Propose(@, r),
                          !.creating = @ \cup {[node |-> n, round |-> r, tip |-> x,
                             tc |-> IF st.cert.tc THEN st.cert ELSE NoTc]}] \in HandlerState
    BY DEF TryProposeFresh
  <1>3. [node |-> n, round |-> r, tip |-> x,
         tc |-> IF st.cert.tc THEN st.cert ELSE NoTc] \in Creating_
    BY <1>1 DEF Creating_
  <1> QED BY <1>2, <1>3 DEF HandlerState

LEMMA ReproposeType ==
    ASSUME NEW st \in HandlerState, NEW r \in Nat, st.cert.tip # None
    PROVE  TryRepropose(st, r) \subseteq HandlerState
  <1>1. Propose(st.safety, r) \in SafetyState /\ RecoveryRequest(st.safety, r) \in SafetyState
    BY HandlerFields, SafetyType, BlockAssumption
  <1>2. [round |-> r, tip |-> st.cert.tip, tc |-> st.cert] \in Proposal_
    BY HandlerFields DEF Proposal_
  <1>3. st.cert \in TipTc
    BY HandlerFields DEF TipTc
  <1>4. [st EXCEPT !.safety = Propose(@, r),
            !.proposals = @ \cup {[round |-> r, tip |-> st.cert.tip, tc |-> st.cert]}]
        \in HandlerState
    BY <1>1, <1>2 DEF HandlerState
  <1>5. [st EXCEPT !.safety = RecoveryRequest(@, r),
            !.recoveries = @ \cup {st.cert}] \in HandlerState
    BY <1>1, <1>3 DEF HandlerState
  <1> QED BY <1>4, <1>5 DEF TryRepropose

LEMMA VoteType ==
    ASSUME NEW n \in Honest, NEW st \in HandlerState, NEW p \in Proposal_
    PROVE  TryVote(n, st, p) \subseteq HandlerState
  <1>1. p.round \in Nat /\ p.tip \in Block
    BY DEF Proposal_
  <1>2. Vote(st.safety, p.round, p.tip) \in SafetyState
    BY <1>1, HandlerFields, SafetyType
  <1>3. [node |-> n, id |-> p.tip, round |-> p.round] \in Vote_
    BY <1>1 DEF Vote_
  <1>4. [st EXCEPT !.safety = Vote(@, p.round, p.tip),
            !.votes = @ \cup {[node |-> n, id |-> p.tip, round |-> p.round]}]
        \in HandlerState
    BY <1>2, <1>3 DEF HandlerState
  <1> QED BY <1>4 DEF TryVote

LEMMA TimeoutType ==
    ASSUME NEW n \in Honest, NEW st \in HandlerState
    PROVE  LocalTimeout(n, st) \in HandlerState
  <1> DEFINE k == st.cert.round + 1
             tip == st.safety.maybe_high_tip
  <1>1. k \in Nat /\ tip \in Block \cup {None}
    BY HandlerFields
  <1>2. Timeout(st.safety, k) \in SafetyState
    BY <1>1, HandlerFields, SafetyType, BlockAssumption
  <1>3. ExtendRank(tip, st.cert.qc_round) \in Rank
    BY <1>1, HandlerFields, BlockAssumption DEF ExtendRank, QcRank, TipRank, Rank, GENESIS_ROUND
  <1>4. [node |-> n, round |-> k, info |-> ExtendRank(tip, st.cert.qc_round)] \in Timeout_
    BY <1>1, <1>3 DEF Timeout_
  <1>5. tip # None => [node |-> n, id |-> tip, round |-> k] \in Vote_
    BY <1>1 DEF Vote_
  <1> HIDE DEF k, tip
  <1> QED BY <1>2, <1>4, <1>5 DEF LocalTimeout, k, tip, HandlerState

LEMMA NoEndorseType ==
    ASSUME NEW n \in Honest, NEW st \in HandlerState, NEW t \in TipTc
    PROVE  NoEndorseTip(n, st, t) \subseteq HandlerState
  <1>1. t.round + 1 \in Nat /\ t.qc_round \in Nat /\ t.tip \in Block
    BY DEF RoundCertificate, TipTc
  <1>2. NoEndorse(st.safety, t.round + 1, t.tip) \in SafetyState
    BY <1>1, HandlerFields, SafetyType
  <1>3. [node |-> n, round |-> t.round + 1, tip_qc_round |-> t.qc_round] \in NoEndorse_
    BY <1>1 DEF NoEndorse_
  <1>4. [st EXCEPT !.safety = NoEndorse(@, t.round + 1, t.tip),
            !.nes = @ \cup {[node |-> n, round |-> t.round + 1,
                             tip_qc_round |-> t.qc_round]}] \in HandlerState
    BY <1>2, <1>3 DEF HandlerState
  <1> QED BY <1>4 DEF NoEndorseTip

-----------------------------------------------------------------------------
(* The inductive invariant, as predicates on one validator n with Safety s *)
(* and high certificate c, and on the sets of signed messages.             *)

(* A validator has acted in no round above its current one, and its high   *)
(* tip is above every QC its Safety has seen.                              *)
RoundBounds(s, c) ==
    /\ s.highest_vote <= c.round + 1
    /\ s.highest_no_endorse.round <= c.round + 1
    /\ s.highest_propose <= c.round + 1
    /\ s.maybe_high_tip # None =>
          block_round[s.maybe_high_tip] > s.high_certificate_qc_round

(* highest_vote bounds the votes signed; a vote of the current round is    *)
(* for the high tip, unless the high tip was dropped; one block per round. *)
VotesOk(n, s, c, vs) ==
    /\ \A v \in vs : v.node = n =>
          /\ v.round <= s.highest_vote
          /\ v.round = c.round + 1 => s.maybe_high_tip \in {None, v.id}
    /\ \A v, w \in vs :
          v.node = n /\ w.node = n /\ v.round = w.round => v.id = w.id

(* Was the block never voted for ahead of its round, as far as n knows?    *)
InTime(n, b, vs) ==
    \A v \in vs : v.node = n /\ v.id = b => block_round[b] <= v.round

(* highest_no_endorse bounds the no-endorsements signed and remembers the  *)
(* tip of the last one as long as a vote may follow it; the high tip was   *)
(* voted for; votes and no-endorsements of a round are compatible.         *)
NesOk(n, s, vs, es) ==
    /\ \A e \in es : e.node = n =>
          /\ e.round <= s.highest_no_endorse.round
          /\ e.round = s.highest_no_endorse.round /\ s.highest_vote < e.round =>
                qc_round[s.highest_no_endorse.tip] = e.tip_qc_round
    /\ s.maybe_high_tip # None =>
          \E v \in vs : v.node = n /\ v.id = s.maybe_high_tip
    /\ \A v \in vs, e \in es :
          /\ v.node = n /\ e.node = n /\ v.round = e.round
          /\ InTime(n, v.id, vs)
          => qc_round[v.id] = e.tip_qc_round

(* highest_propose bounds the proposals made or being built, one a round.  *)
ProposalsOk(n, s, ps, cs) ==
    /\ \A p \in ps \cup cs : leader[p.round] = n => p.round <= s.highest_propose
    /\ \A p1, p2 \in ps \cup cs :
          leader[p1.round] = n /\ p1.round = p2.round => p1.tip = p2.tip /\ p1.tc = p2.tc

Local(n, s, c, vs, es, ps, cs) ==
    /\ VotesOk(n, s, c, vs)
    /\ NesOk(n, s, vs, es)
    /\ ProposalsOk(n, s, ps, cs)

(* A certificate names the QC round of its tip; a proposal that re-uses or *)
(* abandons a TC's tip has that tip's QC.                                  *)
CertOk(c) == c.tip \in Block => c.qc_round = qc_round[c.tip]
ProposalOk(p) ==
    CertOk(p.tc) /\ (p.tc.tip \in Block => qc_round[p.tip] = qc_round[p.tc.tip])

(* A forkpoint is never ahead of its validator. *)
ForkpointOk(n) ==
    /\ CertOk(forkpoint[n].cert)
    /\ forkpoint[n].cert.round <= cert[n].round

IInv ==
    /\ TypeOK
    /\ behind \subseteq Crashing
    /\ \A v \in votes : v.round > GENESIS_ROUND
    /\ \A c \in recoveries : CertOk(c)
    /\ \A p \in proposals \cup creating : ProposalOk(p) /\ leader[p.round] \in Honest
    /\ \A p \in creating : leader[p.round] = p.node
    /\ \A n \in Honest :
          /\ CertOk(cert[n])
          /\ ForkpointOk(n)
          /\ RoundBounds(safety[n], cert[n])
          /\ n \in Stable => Local(n, safety[n], cert[n], votes, nes, proposals, creating)

(* The same, of a running handler of validator n.  What it has emitted is  *)
(* its own, and it has not gone back.                                      *)
Emitted(n, st) ==
    /\ \A v \in st.votes : v.node = n /\ v.round > GENESIS_ROUND
    /\ \A e \in st.nes : e.node = n
    /\ \A p \in st.proposals : ProposalOk(p) /\ leader[p.round] = n
    /\ \A p \in st.creating : ProposalOk(p) /\ leader[p.round] = n /\ p.node = n
    /\ \A c \in st.recoveries : CertOk(c)

Ahead(n, st) ==
    /\ st.cert.round >= cert[n].round
    /\ st.safety.highest_vote >= safety[n].highest_vote
    /\ st.safety.highest_no_endorse.round >= safety[n].highest_no_endorse.round
    /\ st.safety.highest_propose >= safety[n].highest_propose

Good(n, st) ==
    /\ st \in HandlerState
    /\ Emitted(n, st)
    /\ Ahead(n, st)
    /\ CertOk(st.cert)
    /\ RoundBounds(st.safety, st.cert)
    /\ n \in Stable =>
          Local(n, st.safety, st.cert, votes \cup st.votes, nes \cup st.nes,
                proposals \cup st.proposals, creating \cup st.creating)

-----------------------------------------------------------------------------
(* Each operator keeps a handler's state good. *)

(* process_certificate: the current round moves past every round voted in, *)
(* and the high tip stays or is dropped.                                   *)
LEMMA GoodAdvance ==
    ASSUME IInv, NEW n \in Honest, NEW st, Good(n, st),
           NEW c \in RoundCertificate, CertOk(c)
    PROVE  Good(n, ProcessCertificate(st, c))
  <1>1. CASE c.round <= st.cert.round
    BY <1>1 DEF ProcessCertificate
  <1>2. CASE ~ (c.round <= st.cert.round)
    <2> DEFINE st2 == ProcessCertificate(st, c)
    <2>0. st \in HandlerState /\ c.round \in Nat /\ c.qc_round \in Nat
      BY DEF Good, RoundCertificate
    <2>1. /\ st2 \in HandlerState
          /\ st2.safety = SafetyProcessCertificate(st.safety, c)
          /\ st2.cert = c
          /\ st2.votes = st.votes /\ st2.nes = st.nes
          /\ st2.proposals = st.proposals /\ st2.creating = st.creating
          /\ st2.recoveries = st.recoveries
      BY <1>2, <2>0, AdvanceType DEF HandlerState, ProcessCertificate
    <2>2. /\ st2.safety.highest_vote = st.safety.highest_vote
          /\ st2.safety.highest_no_endorse = st.safety.highest_no_endorse
          /\ st2.safety.highest_propose = st.safety.highest_propose
          /\ st2.safety.maybe_high_tip \in {None, st.safety.maybe_high_tip}
          /\ st2.safety.maybe_high_tip # None =>
                block_round[st2.safety.maybe_high_tip] > st2.safety.high_certificate_qc_round
      BY <2>0, <2>1, HandlerFields, BlockAssumption
      DEF SafetyProcessCertificate, SafetyState, Maximum
    <2> HIDE DEF st2
    <2>3. Emitted(n, st2) /\ CertOk(st2.cert)
      BY <2>1 DEF Good, Emitted
    <2>4. Ahead(n, st2) /\ RoundBounds(st2.safety, st2.cert)
      BY <1>2, <2>0, <2>1, <2>2, HandlerFields, NodeFields
      DEF Good, Ahead, RoundBounds, IInv
    <2>5. ASSUME n \in Stable
          PROVE  Local(n, st2.safety, st2.cert, votes \cup st2.votes, nes \cup st2.nes,
                       proposals \cup st2.proposals, creating \cup st2.creating)
      <3>1. VotesOk(n, st2.safety, c, votes \cup st.votes)
        BY <1>2, <2>0, <2>2, <2>5, HandlerFields
        DEF Good, Local, VotesOk, RoundBounds, IInv, TypeOK, Vote_, HandlerState
      <3>2. NesOk(n, st2.safety, votes \cup st.votes, nes \cup st.nes)
        BY <2>2, <2>5 DEF Good, Local, NesOk
      <3>3. ProposalsOk(n, st2.safety, proposals \cup st.proposals, creating \cup st.creating)
        BY <2>2, <2>5 DEF Good, Local, ProposalsOk
      <3> QED BY <2>1, <3>1, <3>2, <3>3 DEF Local
    <2> QED BY <2>1, <2>3, <2>4, <2>5 DEF Good, st2
  <1> QED BY <1>1, <1>2

(* try_commit changes nothing but the root. *)
LEMMA GoodCommit ==
    ASSUME IInv, NEW n \in Honest, NEW st, Good(n, st),
           NEW b \in Block, NEW r, NEW st2 \in TryCommit(st, b, r)
    PROVE  Good(n, st2)
  <1>1. st2 \in HandlerState
    BY CommitType DEF Good
  <1>2. /\ st2.safety = st.safety /\ st2.cert = st.cert
        /\ st2.votes = st.votes /\ st2.nes = st.nes
        /\ st2.proposals = st.proposals /\ st2.creating = st.creating
        /\ st2.recoveries = st.recoveries
    BY DEF TryCommit, Good, HandlerState
  <1> QED BY <1>1, <1>2 DEF Good, Emitted, Ahead

(* try_propose with the parts of Good it leaves alone: what it emits is a  *)
(* proposal of a round not proposed in before, or a recovery request.      *)
LEMMA GoodEmit ==
    ASSUME IInv, NEW n \in Honest, NEW st, Good(n, st), NEW st2 \in HandlerState,
           NEW r \in Nat, r = st.cert.round + 1, leader[r] = n,
           IsSafeToPropose(st.safety, r),
           st2.cert = st.cert, st2.votes = st.votes, st2.nes = st.nes,
           st2.safety.maybe_high_tip = st.safety.maybe_high_tip,
           st2.safety.high_certificate_qc_round = st.safety.high_certificate_qc_round,
           st2.safety.highest_vote = st.safety.highest_vote,
           st2.safety.highest_no_endorse = st.safety.highest_no_endorse,
           \A c \in st2.recoveries : CertOk(c),
           \/ /\ st2.safety.highest_propose = st.safety.highest_propose
              /\ st2.proposals = st.proposals /\ st2.creating = st.creating
           \/ /\ st2.safety.highest_propose = r
              /\ \E p : /\ p.round = r /\ ProposalOk(p)
                       /\ \/ /\ st2.proposals = st.proposals \cup {p}
                             /\ st2.creating = st.creating
                          \/ /\ st2.creating = st.creating \cup {p}
                             /\ p.node = n
                             /\ st2.proposals = st.proposals
    PROVE  Good(n, st2)
  <1>1. Emitted(n, st2) /\ CertOk(st2.cert)
    BY DEF Good, Emitted
  <1>2. Ahead(n, st2) /\ RoundBounds(st2.safety, st2.cert)
    BY HandlerFields, NodeFields DEF Good, Ahead, RoundBounds, IsSafeToPropose, Maximum, IInv
  <1>3. ASSUME n \in Stable
        PROVE  Local(n, st2.safety, st2.cert, votes \cup st2.votes, nes \cup st2.nes,
                     proposals \cup st2.proposals, creating \cup st2.creating)
    <2>1. VotesOk(n, st2.safety, st.cert, votes \cup st.votes)
      BY <1>3 DEF Good, Local, VotesOk
    <2>2. NesOk(n, st2.safety, votes \cup st.votes, nes \cup st.nes)
      BY <1>3 DEF Good, Local, NesOk
    <2>3. ProposalsOk(n, st2.safety, proposals \cup st2.proposals, creating \cup st2.creating)
      <3> DEFINE old == proposals \cup st.proposals \cup (creating \cup st.creating)
                 new == proposals \cup st2.proposals \cup (creating \cup st2.creating)
      <3>1. \A p \in old : p.round \in Nat
        BY DEF IInv, TypeOK, Good, HandlerState, Proposal_, Creating_
      <3>2. st.safety.highest_propose \in Nat /\ st.safety.highest_propose < r
        BY HandlerFields DEF Good, IsSafeToPropose, Maximum
      <3>3. \A p \in old : leader[p.round] = n => p.round <= st.safety.highest_propose
        BY <1>3 DEF Good, Local, ProposalsOk
      <3>4. \A p \in old : leader[p.round] = n => p.round # r
        BY <3>1, <3>2, <3>3
      <3>5. \A p1, p2 \in old :
               leader[p1.round] = n /\ p1.round = p2.round => p1.tip = p2.tip /\ p1.tc = p2.tc
        BY <1>3 DEF Good, Local, ProposalsOk
      <3>6. CASE /\ st2.safety.highest_propose = st.safety.highest_propose
                 /\ st2.proposals = st.proposals /\ st2.creating = st.creating
        BY <1>3, <3>6 DEF Good, Local, ProposalsOk
      <3>7. ASSUME st2.safety.highest_propose = r,
                   NEW p, p.round = r, new = old \cup {p}
            PROVE  ProposalsOk(n, st2.safety, proposals \cup st2.proposals,
                               creating \cup st2.creating)
        <4>1. \A x \in new : leader[x.round] = n => x.round <= r
          BY <3>1, <3>2, <3>3, <3>7
        <4>2. \A p1, p2 \in new :
                 leader[p1.round] = n /\ p1.round = p2.round => p1.tip = p2.tip /\ p1.tc = p2.tc
          BY <3>4, <3>5, <3>7
        <4> QED BY <3>7, <4>1, <4>2 DEF ProposalsOk
      <3> QED BY <3>6, <3>7
    <2> QED BY <2>1, <2>2, <2>3 DEF Local
  <1> QED BY <1>1, <1>2, <1>3 DEF Good

LEMMA GoodPropose ==
    ASSUME IInv, NEW n \in Honest, NEW st, Good(n, st), NEW st2 \in TryPropose(n, st)
    PROVE  Good(n, st2)
  <1> DEFINE r == st.cert.round + 1
  <1>0. st \in HandlerState /\ r \in Nat /\ TypeOK
    BY HandlerFields DEF Good, IInv
  <1>1. CASE st2 = st
    BY <1>1
  <1>2. CASE /\ leader[r] = n /\ IsSafeToPropose(st.safety, r)
             /\ st.cert.tip # None /\ st2 \in TryRepropose(st, r)
    <2>1. st2 \in HandlerState
      BY <1>0, <1>2, ReproposeType
    <2>2. CASE st2 = [st EXCEPT !.safety = Propose(@, r),
                         !.proposals = @ \cup {[round |-> r, tip |-> st.cert.tip, tc |-> st.cert]}]
      <3> DEFINE p == [round |-> r, tip |-> st.cert.tip, tc |-> st.cert]
      <3>1. p.round = r /\ ProposalOk(p)
        BY DEF ProposalOk, Good
      <3>2. st2.safety = Propose(st.safety, r) /\ st2.proposals = st.proposals \cup {p}
            /\ st2.cert = st.cert /\ st2.votes = st.votes /\ st2.nes = st.nes
            /\ st2.creating = st.creating /\ st2.recoveries = st.recoveries
        BY <1>0, <2>2 DEF HandlerState
      <3>3. /\ st2.safety.highest_propose = r
            /\ st2.safety.maybe_high_tip = st.safety.maybe_high_tip
            /\ st2.safety.high_certificate_qc_round = st.safety.high_certificate_qc_round
            /\ st2.safety.highest_vote = st.safety.highest_vote
            /\ st2.safety.highest_no_endorse = st.safety.highest_no_endorse
        BY <1>0, <3>2, HandlerFields DEF Propose, SafetyState
      <3>4. \A c \in st2.recoveries : CertOk(c)
        BY <3>2 DEF Good, Emitted
      <3> HIDE DEF p, r
      <3> QED BY <1>0, <1>2, <2>1, <3>1, <3>2, <3>3, <3>4, GoodEmit DEF r
    <2>3. CASE st2 = [st EXCEPT !.safety = RecoveryRequest(@, r),
                         !.recoveries = @ \cup {st.cert}]
      <3>2. st2.safety = RecoveryRequest(st.safety, r) /\ st2.proposals = st.proposals
            /\ st2.cert = st.cert /\ st2.votes = st.votes /\ st2.nes = st.nes
            /\ st2.creating = st.creating /\ st2.recoveries = st.recoveries \cup {st.cert}
        BY <1>0, <2>3 DEF HandlerState
      <3>3. /\ st2.safety.highest_propose = st.safety.highest_propose
            /\ st2.safety.maybe_high_tip = st.safety.maybe_high_tip
            /\ st2.safety.high_certificate_qc_round = st.safety.high_certificate_qc_round
            /\ st2.safety.highest_vote = st.safety.highest_vote
            /\ st2.safety.highest_no_endorse = st.safety.highest_no_endorse
        BY <1>0, <3>2, HandlerFields DEF RecoveryRequest, SafetyState
      <3>4. \A c \in st2.recoveries : CertOk(c)
        BY <3>2 DEF Good, Emitted
      <3> HIDE DEF r
      <3> QED BY <1>0, <1>2, <2>1, <3>2, <3>3, <3>4, GoodEmit DEF r
    <2> QED BY <1>1, <1>2, <2>2, <2>3 DEF TryRepropose
  <1>3. CASE /\ leader[r] = n /\ IsSafeToPropose(st.safety, r)
             /\ st2 \in TryProposeFresh(n, st, r)
    <2>1. st2 \in HandlerState
      BY <1>0, <1>3, FreshType
    <2>2. CASE st2 # st
      <3> DEFINE tc == IF st.cert.tc THEN st.cert ELSE NoTc
                 p(x) == [node |-> n, round |-> r, tip |-> x, tc |-> tc]
      <3>1. PICK x \in Block :
                /\ qc_round[x] = st.cert.qc_round
                /\ st2 = [st EXCEPT !.safety = Propose(@, r), !.creating = @ \cup {p(x)}]
        BY <1>3, <2>2 DEF TryProposeFresh
      <3>2. p(x).round = r /\ p(x).node = n /\ ProposalOk(p(x))
        BY <3>1, BlockAssumption DEF ProposalOk, Good, CertOk, NoTc, TcCert
      <3>3. st2.safety = Propose(st.safety, r) /\ st2.creating = st.creating \cup {p(x)}
            /\ st2.cert = st.cert /\ st2.votes = st.votes /\ st2.nes = st.nes
            /\ st2.proposals = st.proposals /\ st2.recoveries = st.recoveries
        BY <1>0, <3>1 DEF HandlerState
      <3>4. /\ st2.safety.highest_propose = r
            /\ st2.safety.maybe_high_tip = st.safety.maybe_high_tip
            /\ st2.safety.high_certificate_qc_round = st.safety.high_certificate_qc_round
            /\ st2.safety.highest_vote = st.safety.highest_vote
            /\ st2.safety.highest_no_endorse = st.safety.highest_no_endorse
        BY <1>0, <3>3, HandlerFields DEF Propose, SafetyState
      <3>5. \A c \in st2.recoveries : CertOk(c)
        BY <3>3 DEF Good, Emitted
      <3> HIDE DEF p, r, tc
      <3> QED BY <1>0, <1>3, <2>1, <3>2, <3>3, <3>4, <3>5, GoodEmit DEF r
    <2> QED BY <2>2
  <1> QED BY <1>1, <1>2, <1>3 DEF TryPropose

(* process_qc and process_tc advance the round and try to propose. *)
LEMMA GoodProcess ==
    ASSUME IInv, NEW n \in Honest, NEW st, Good(n, st)
    PROVE  /\ \A b \in Block, r \in Nat : \A st2 \in ProcessQc(n, st, b, r) : Good(n, st2)
           /\ \A c \in RoundCertificate :
                CertOk(c) => \A st2 \in ProcessTc(n, st, c) : Good(n, st2)
  <1>1. ASSUME NEW b \in Block, NEW r \in Nat, NEW st2 \in ProcessQc(n, st, b, r)
        PROVE  Good(n, st2)
    <2>1. QcCert(r) \in RoundCertificate /\ CertOk(QcCert(r))
      BY BlockAssumption DEF QcCert, RoundCertificate, CertOk
    <2>2. ASSUME NEW s \in TryCommit(st, b, r),
                 NEW t \in TryPropose(n, ProcessCertificate(s, QcCert(r)))
          PROVE  Good(n, t)
      <3>1. Good(n, s)
        BY GoodCommit
      <3>2. Good(n, ProcessCertificate(s, QcCert(r)))
        BY <2>1, <3>1, GoodAdvance
      <3> QED BY <3>2, GoodPropose
    <2> QED BY <2>2 DEF ProcessQc
  <1>2. ASSUME NEW c \in RoundCertificate, CertOk(c), NEW st2 \in ProcessTc(n, st, c)
        PROVE  Good(n, st2)
    <2>1. Good(n, ProcessCertificate(st, c))
      BY <1>2, GoodAdvance
    <2> QED BY <1>2, <2>1, GoodPropose DEF ProcessTc
  <1> QED BY <1>1, <1>2

(* try_vote: the round is above every round voted in, and a no-endorsement *)
(* of that round was for the tip the proposal's TC carries, so the block   *)
(* voted for has that tip's QC.                                            *)
LEMMA GoodVote ==
    ASSUME IInv, NEW n \in Honest, NEW st, Good(n, st),
           NEW p \in Proposal_, ProposalOk(p), NEW st2 \in TryVote(n, st, p)
    PROVE  Good(n, st2)
  <1>0. st \in HandlerState /\ p.round \in Nat /\ p.tip \in Block
    BY DEF Good, Proposal_
  <1> DEFINE new == [node |-> n, id |-> p.tip, round |-> p.round]
             vs == votes \cup st.votes
             es == nes \cup st.nes
  <1>1. CASE st2 = st
    BY <1>1
  <1>2. CASE /\ p.round = st.cert.round + 1
             /\ IsSafeToVote(st.safety, p.round, p.tc.tip)
             /\ st2 = [st EXCEPT !.safety = Vote(@, p.round, p.tip), !.votes = @ \cup {new}]
    <2>1. /\ st2 \in HandlerState
          /\ st2.safety = Vote(st.safety, p.round, p.tip)
          /\ st2.votes = st.votes \cup {new}
          /\ st2.cert = st.cert /\ st2.nes = st.nes
          /\ st2.proposals = st.proposals /\ st2.creating = st.creating
          /\ st2.recoveries = st.recoveries
      BY <1>0, <1>2, VoteType DEF HandlerState
    <2>2. /\ st2.safety.highest_vote = p.round
          /\ st2.safety.highest_no_endorse = st.safety.highest_no_endorse
          /\ st2.safety.highest_propose = st.safety.highest_propose
          /\ st2.safety.maybe_high_tip \in {None, p.tip}
          /\ st2.safety.maybe_high_tip # None =>
                block_round[st2.safety.maybe_high_tip] > st2.safety.high_certificate_qc_round
      BY <1>0, <2>1, HandlerFields DEF Vote, SafetyState
    <2>3. p.round > st.safety.highest_vote
      BY <1>2 DEF IsSafeToVote
    <2>4. Emitted(n, st2) /\ CertOk(st2.cert)
      <3>1. p.round > GENESIS_ROUND
        BY <1>0, <1>2, HandlerFields DEF GENESIS_ROUND
      <3> QED BY <2>1, <3>1 DEF Good, Emitted
    <2>5. Ahead(n, st2) /\ RoundBounds(st2.safety, st2.cert)
      BY <1>0, <1>2, <2>1, <2>2, <2>3, HandlerFields, NodeFields
      DEF Good, Ahead, RoundBounds, IInv
    <2>6. ASSUME n \in Stable
          PROVE  Local(n, st2.safety, st.cert, vs \cup {new}, es,
                       proposals \cup st.proposals, creating \cup st.creating)
      <3>0. \A v \in vs : v.round \in Nat /\ v.id \in Block
        BY <1>0 DEF IInv, TypeOK, Vote_, HandlerState
      <3>1. \A v \in vs : v.node = n => v.round < p.round
        BY <1>0, <2>3, <2>6, <3>0, HandlerFields DEF Good, Local, VotesOk
      <3>2. VotesOk(n, st2.safety, st.cert, vs \cup {new})
        <4>1. \A v \in vs \cup {new} : v.node = n =>
                 /\ v.round <= p.round
                 /\ v.round = p.round => v.id = p.tip
          BY <1>0, <3>0, <3>1
        <4>2. \A v, w \in vs \cup {new} :
                 v.node = n /\ w.node = n /\ v.round = w.round => v.id = w.id
          BY <1>0, <2>6, <3>0, <3>1 DEF Good, Local, VotesOk
        <4> QED BY <1>2, <2>2, <4>1, <4>2 DEF VotesOk
      <3>3. NesOk(n, st2.safety, vs \cup {new}, es)
        <4> DEFINE ne == st.safety.highest_no_endorse
        <4>0. \A e \in es : e.round \in Nat
          BY <1>0 DEF IInv, TypeOK, NoEndorse_, HandlerState
        <4>1. \A e \in es : e.node = n => e.round <= ne.round
          BY <2>6 DEF Good, Local, NesOk
        <4>2. ne.round <= p.round
          BY <1>2 DEF Good, RoundBounds
        <4>3. ASSUME NEW e \in es, e.node = n, e.round = p.round
              PROVE  qc_round[p.tip] = e.tip_qc_round
          <5>1. e.round = ne.round /\ st.safety.highest_vote < e.round
            BY <1>0, <2>3, <4>0, <4>1, <4>2, <4>3, HandlerFields
          <5>2. qc_round[ne.tip] = e.tip_qc_round
            BY <2>6, <4>3, <5>1 DEF Good, Local, NesOk
          <5>3. p.tc.tip = ne.tip
            BY <1>2, <4>3, <5>1 DEF IsSafeToVote
          <5>4. ne.tip \in Block
            BY <1>0, HandlerFields
          <5> QED BY <5>2, <5>3, <5>4 DEF ProposalOk
        <4>4. ASSUME NEW v \in vs \cup {new}, NEW e \in es,
                     v.node = n, e.node = n, v.round = e.round, InTime(n, v.id, vs \cup {new})
              PROVE  qc_round[v.id] = e.tip_qc_round
          <5>1. CASE v = new
            BY <4>3, <4>4, <5>1
          <5>2. CASE v \in vs
            <6>1. InTime(n, v.id, vs)
              BY <4>4 DEF InTime
            <6> QED BY <2>6, <4>4, <5>2, <6>1 DEF Good, Local, NesOk
          <5> QED BY <5>1, <5>2
        <4>5. st2.safety.maybe_high_tip # None =>
                \E v \in vs \cup {new} : v.node = n /\ v.id = st2.safety.maybe_high_tip
          <5>1. new.node = n /\ new.id = p.tip
            OBVIOUS
          <5> HIDE DEF new
          <5> QED BY <2>2, <5>1
        <4>6. \A e \in es : e.node = n =>
                 (e.round = ne.round /\ p.round < e.round => qc_round[ne.tip] = e.tip_qc_round)
          BY <1>0, <4>0, <4>2, HandlerFields
        <4> HIDE DEF ne
        <4> QED BY <2>2, <4>1, <4>4, <4>5, <4>6 DEF NesOk, ne
      <3>4. ProposalsOk(n, st2.safety, proposals \cup st.proposals, creating \cup st.creating)
        BY <2>2, <2>6 DEF Good, Local, ProposalsOk
      <3> QED BY <3>2, <3>3, <3>4 DEF Local
    <2>7. votes \cup st2.votes = vs \cup {new}
      BY <2>1
    <2> HIDE DEF vs, es, new
    <2> QED BY <2>1, <2>4, <2>5, <2>6, <2>7 DEF Good, es
  <1> QED BY <1>1, <1>2 DEF TryVote

(* local_timeout_round: a vote in the timeout message is for the high tip. *)
(* If the validator has voted in this round, it was for that tip; if it    *)
(* has no-endorsed in this round, the tip is of this round, so its earlier *)
(* vote for the tip was, if in time, of this round too.                    *)
LEMMA GoodTimeout ==
    ASSUME IInv, NEW n \in Honest, NEW st, Good(n, st)
    PROVE  Good(n, LocalTimeout(n, st))
  <1> DEFINE st2 == LocalTimeout(n, st)
             r == st.cert.round + 1
             tip == st.safety.maybe_high_tip
             new == IF tip # None /\ MayIncludeVote(st.safety, r)
                    THEN {[node |-> n, id |-> tip, round |-> r]} ELSE {}
             vs == votes \cup st.votes
             es == nes \cup st.nes
  <1>0. st \in HandlerState /\ r \in Nat /\ tip \in Block \cup {None}
    BY HandlerFields DEF Good
  <1>1. /\ st2 \in HandlerState
        /\ st2.safety = Timeout(st.safety, r)
        /\ st2.votes = st.votes \cup new
        /\ st2.cert = st.cert /\ st2.nes = st.nes
        /\ st2.proposals = st.proposals /\ st2.creating = st.creating
        /\ st2.recoveries = st.recoveries
    BY <1>0, TimeoutType DEF HandlerState, LocalTimeout
  <1> HIDE DEF st2
  <1>2. /\ st2.safety.highest_vote = r
        /\ st2.safety.highest_no_endorse = st.safety.highest_no_endorse
        /\ st2.safety.highest_propose = st.safety.highest_propose
        /\ st2.safety.maybe_high_tip = tip
        /\ st2.safety.high_certificate_qc_round = st.safety.high_certificate_qc_round
    BY <1>0, <1>1, HandlerFields DEF Timeout, SafetyState
  <1>3. \A v \in new : /\ v.node = n /\ v.id = tip /\ v.round = r
                       /\ tip \in Block /\ MayIncludeVote(st.safety, r)
    BY <1>0
  <1> HIDE DEF new
  <1>4. Emitted(n, st2) /\ CertOk(st2.cert)
    <2>1. r > GENESIS_ROUND
      BY <1>0, HandlerFields DEF GENESIS_ROUND
    <2> QED BY <1>1, <1>3, <2>1 DEF Good, Emitted
  <1>5. Ahead(n, st2) /\ RoundBounds(st2.safety, st2.cert)
    BY <1>0, <1>1, <1>2, HandlerFields, NodeFields DEF Good, Ahead, RoundBounds, IInv
  <1>6. ASSUME n \in Stable
        PROVE  Local(n, st2.safety, st.cert, vs \cup new, es,
                     proposals \cup st.proposals, creating \cup st.creating)
    <2>0. /\ \A v \in vs : v.round \in Nat /\ v.id \in Block
          /\ \A e \in es : e.round \in Nat
      BY <1>0 DEF IInv, TypeOK, Vote_, NoEndorse_, HandlerState
    <2>1. \A v \in vs : v.node = n =>
             v.round <= r /\ (v.round = r => tip \in {None, v.id})
      BY <1>0, <1>6, <2>0, HandlerFields DEF Good, Local, VotesOk, RoundBounds
    <2>2. VotesOk(n, st2.safety, st.cert, vs \cup new)
      <3>1. \A v \in vs \cup new : v.node = n =>
               v.round <= r /\ (v.round = r => tip \in {None, v.id})
        BY <1>0, <1>3, <2>1
      <3>2. \A v, w \in vs \cup new :
               v.node = n /\ w.node = n /\ v.round = w.round => v.id = w.id
        <4>1. \A v, w \in vs :
                 v.node = n /\ w.node = n /\ v.round = w.round => v.id = w.id
          BY <1>6 DEF Good, Local, VotesOk
        <4>2. \A v \in vs \cup new, w \in new :
                 v.node = n /\ v.round = w.round => v.id = w.id
          BY <1>3, <3>1, BlockAssumption
        <4> QED BY <1>3, <4>1, <4>2
      <3> QED BY <1>2, <3>1, <3>2 DEF VotesOk
    <2>3. NesOk(n, st2.safety, vs \cup new, es)
      <3> DEFINE ne == st.safety.highest_no_endorse
      <3>1. \A e \in es : e.node = n => e.round <= ne.round
        BY <1>6 DEF Good, Local, NesOk
      <3>2. ne.round \in Nat /\ ne.round <= r
        BY <1>0, HandlerFields DEF Good, RoundBounds
      <3>3. ASSUME NEW v \in vs, NEW e \in es, v.node = n, e.node = n,
                   v.round = e.round, InTime(n, v.id, vs)
            PROVE  qc_round[v.id] = e.tip_qc_round
        BY <1>6, <3>3 DEF Good, Local, NesOk
      <3>4. tip # None => \E v \in vs : v.node = n /\ v.id = tip
        BY <1>6 DEF Good, Local, NesOk
      <3>5. ASSUME NEW e \in es, e.node = n, e.round = r, InTime(n, tip, vs),
                   tip \in Block, MayIncludeVote(st.safety, r)
            PROVE  qc_round[tip] = e.tip_qc_round
        <4>1. ne.round = r
          BY <1>0, <2>0, <3>1, <3>2, <3>5
        <4>2. block_round[tip] = r
          BY <1>0, <3>5, <4>1 DEF MayIncludeVote
        <4>3. PICK v \in vs : v.node = n /\ v.id = tip
          BY <3>4, <3>5, BlockAssumption
        <4>4. v.round = r
          BY <1>0, <2>0, <2>1, <3>5, <4>2, <4>3 DEF InTime
        <4> QED BY <3>3, <3>5, <4>3, <4>4
      <3>6. ASSUME NEW v \in vs \cup new, NEW e \in es, v.node = n, e.node = n,
                   v.round = e.round, InTime(n, v.id, vs \cup new)
            PROVE  qc_round[v.id] = e.tip_qc_round
        <4>1. InTime(n, v.id, vs)
          BY <3>6 DEF InTime
        <4> QED BY <1>3, <3>3, <3>5, <3>6, <4>1
      <3>7. \A e \in es : e.node = n =>
               (e.round = ne.round /\ r < e.round => qc_round[ne.tip] = e.tip_qc_round)
        BY <1>0, <2>0, <3>2
      <3> HIDE DEF ne, vs, es, r, tip
      <3> QED BY <1>2, <3>1, <3>4, <3>6, <3>7 DEF NesOk, ne
    <2>4. ProposalsOk(n, st2.safety, proposals \cup st.proposals, creating \cup st.creating)
      BY <1>2, <1>6 DEF Good, Local, ProposalsOk
    <2> QED BY <2>2, <2>3, <2>4 DEF Local
  <1>7. votes \cup st2.votes = vs \cup new
    BY <1>1
  <1> HIDE DEF vs, es
  <1>8. Good(n, st2)
    BY <1>1, <1>4, <1>5, <1>6, <1>7 DEF Good, es
  <1> QED BY <1>8 DEF st2

(* handle_round_recovery_message no-endorses only in a round above every   *)
(* round voted or no-endorsed in.                                          *)
LEMMA GoodNoEndorse ==
    ASSUME IInv, NEW n \in Honest, NEW st, Good(n, st),
           NEW t \in TipTc, CertOk(t), NEW st2 \in NoEndorseTip(n, st, t)
    PROVE  Good(n, st2)
  <1> DEFINE r == t.round + 1
             new == [node |-> n, round |-> r, tip_qc_round |-> t.qc_round]
             vs == votes \cup st.votes
             es == nes \cup st.nes
  <1>0. st \in HandlerState /\ r \in Nat /\ t.tip \in Block
    BY DEF Good, TipTc, RoundCertificate
  <1>1. CASE st2 = st
    BY <1>1
  <1>2. CASE /\ r = st.cert.round + 1 /\ IsSafeToNoEndorse(st.safety, r)
             /\ st2 = [st EXCEPT !.safety = NoEndorse(@, r, t.tip), !.nes = @ \cup {new}]
    <2>1. /\ st2 \in HandlerState
          /\ st2.safety = NoEndorse(st.safety, r, t.tip)
          /\ st2.nes = st.nes \cup {new}
          /\ st2.cert = st.cert /\ st2.votes = st.votes
          /\ st2.proposals = st.proposals /\ st2.creating = st.creating
          /\ st2.recoveries = st.recoveries
      BY <1>0, <1>2, NoEndorseType DEF HandlerState
    <2>2. /\ st2.safety.highest_no_endorse = [round |-> r, tip |-> t.tip]
          /\ st2.safety.highest_vote = st.safety.highest_vote
          /\ st2.safety.highest_propose = st.safety.highest_propose
          /\ st2.safety.maybe_high_tip = st.safety.maybe_high_tip
          /\ st2.safety.high_certificate_qc_round = st.safety.high_certificate_qc_round
      BY <1>0, <2>1, HandlerFields DEF NoEndorse, SafetyState
    <2>3. r > st.safety.highest_no_endorse.round /\ r > st.safety.highest_vote
      BY <1>0, <1>2, HandlerFields DEF IsSafeToNoEndorse, Maximum
    <2>4. Emitted(n, st2) /\ CertOk(st2.cert)
      BY <2>1 DEF Good, Emitted
    <2>5. Ahead(n, st2) /\ RoundBounds(st2.safety, st2.cert)
      BY <1>0, <1>2, <2>1, <2>2, <2>3, HandlerFields, NodeFields
      DEF Good, Ahead, RoundBounds, IInv
    <2>6. ASSUME n \in Stable
          PROVE  Local(n, st2.safety, st.cert, vs, es \cup {new},
                       proposals \cup st.proposals, creating \cup st.creating)
      <3>0. /\ \A v \in vs : v.round \in Nat
            /\ \A e \in es : e.round \in Nat
        BY <1>0 DEF IInv, TypeOK, Vote_, NoEndorse_, HandlerState
      <3>1. VotesOk(n, st2.safety, st.cert, vs)
        BY <2>2, <2>6 DEF Good, Local, VotesOk
      <3>2. NesOk(n, st2.safety, vs, es \cup {new})
        <4>1. \A e \in es : e.node = n => e.round < r
          BY <1>0, <2>3, <2>6, <3>0, HandlerFields DEF Good, Local, NesOk
        <4>2. \A v \in vs : v.node = n => v.round < r
          BY <1>0, <2>3, <2>6, <3>0, HandlerFields DEF Good, Local, VotesOk
        <4>3. \A e \in es \cup {new} : e.node = n =>
                 (e.round <= r /\ (e.round = r => qc_round[t.tip] = e.tip_qc_round))
          BY <1>0, <3>0, <4>1 DEF CertOk
        <4>4. ASSUME NEW v \in vs, NEW e \in es \cup {new}, v.node = n, e.node = n,
                     v.round = e.round, InTime(n, v.id, vs)
              PROVE  qc_round[v.id] = e.tip_qc_round
          <5>1. e \in es
            BY <1>0, <3>0, <4>2, <4>4
          <5> QED BY <2>6, <4>4, <5>1 DEF Good, Local, NesOk
        <4>5. st2.safety.maybe_high_tip # None =>
                \E v \in vs : v.node = n /\ v.id = st2.safety.maybe_high_tip
          BY <2>2, <2>6 DEF Good, Local, NesOk
        <4>6. /\ st2.safety.highest_no_endorse.round = r
              /\ st2.safety.highest_no_endorse.tip = t.tip
          BY <2>2
        <4> HIDE DEF vs, es, new, r
        <4> QED BY <4>3, <4>4, <4>5, <4>6 DEF NesOk
      <3>3. ProposalsOk(n, st2.safety, proposals \cup st.proposals, creating \cup st.creating)
        BY <2>2, <2>6 DEF Good, Local, ProposalsOk
      <3> QED BY <3>1, <3>2, <3>3 DEF Local
    <2>7. nes \cup st2.nes = es \cup {new}
      BY <2>1
    <2> HIDE DEF vs, es, new
    <2> QED BY <2>1, <2>4, <2>5, <2>6, <2>7 DEF Good, vs
  <1> QED BY <1>1, <1>2 DEF NoEndorseTip

-----------------------------------------------------------------------------
(* From handlers to steps *)

LEMMA GoodBegin ==
    ASSUME IInv, NEW n \in Honest
    PROVE  Good(n, Begin(n))
  <1> DEFINE st == Begin(n)
  <1>1. /\ st \in HandlerState
        /\ st.safety = safety[n] /\ st.cert = cert[n]
        /\ st.votes = {} /\ st.nes = {} /\ st.proposals = {}
        /\ st.creating = {} /\ st.recoveries = {}
    BY BeginType DEF Begin, IInv
  <1>2. /\ votes \cup {} = votes /\ nes \cup {} = nes
        /\ proposals \cup {} = proposals /\ creating \cup {} = creating
    OBVIOUS
  <1>3. Emitted(n, st)
    BY <1>1 DEF Emitted
  <1>4. Ahead(n, st)
    BY <1>1, NodeFields DEF Ahead, IInv
  <1> HIDE DEF st
  <1>5. Good(n, st)
    BY <1>1, <1>2, <1>3, <1>4 DEF Good, IInv
  <1> QED BY <1>5 DEF st

(* Certificates and proposals that pass validation are consistent. *)
LEMMA ValidOk ==
    ASSUME IInv
    PROVE  /\ \A c \in Tcs(Tips) \cup ValidRecoveries(Tcs(Tips)) : CertOk(c)
           /\ \A p \in ValidProposals(Tips, Tcs(Tips)) : ProposalOk(p)
  <1>1. \A c \in Tcs(Tips) : CertOk(c)
    <2> SUFFICES ASSUME NEW c \in Tcs(Tips) PROVE CertOk(c)
      OBVIOUS
    <2> DEFINE rounds == {t.round : t \in timeouts}
    <2>1. CASE \E rq \in rounds \X Round : c = TcCert(rq[1], None, rq[2])
      BY <2>1, BlockAssumption DEF TcCert, CertOk
    <2>2. CASE \E rb \in rounds \X Tips : c = TcCert(rb[1], rb[2], qc_round[rb[2]])
      BY <2>2 DEF TcCert, CertOk
    <2> QED BY <2>1, <2>2 DEF Tcs
  <1>2. \A c \in ValidRecoveries(Tcs(Tips)) : CertOk(c)
    BY <1>1 DEF ValidRecoveries, IInv
  <1>3. ASSUME NEW p \in ValidProposals(Tips, Tcs(Tips)) PROVE ProposalOk(p)
    <2>1. CASE p \in proposals
      BY <2>1 DEF IInv
    <2>2. CASE p.tc \in {NoTc} \cup Tcs(Tips) /\ WellFormedProposal(p)
      <3>1. CASE p.tc = NoTc
        BY <3>1, BlockAssumption DEF NoTc, TcCert, ProposalOk, CertOk
      <3>2. CASE p.tc # NoTc
        BY <1>1, <2>2, <3>2 DEF WellFormedProposal, ProposalOk, CertOk
      <3> QED BY <3>1, <3>2
    <2> QED BY <2>1, <2>2 DEF ValidProposals
  <1> QED BY <1>1, <1>2, <1>3

(* What other validators sign does not concern m's part of the invariant, *)
(* nor do proposals that are dropped before they are published.           *)
LEMMA LocalOthers ==
    ASSUME NEW m, NEW s, NEW c, NEW vs, NEW es, NEW ps, NEW cs,
           Local(m, s, c, vs, es, ps, cs),
           NEW vs2, NEW es2, NEW ps2, NEW cs2,
           vs \subseteq vs2, es \subseteq es2,
           \A v \in vs2 : v.node = m => v \in vs,
           \A e \in es2 : e.node = m => e \in es,
           \A p \in ps2 \cup cs2 : leader[p.round] = m => p \in ps \cup cs
    PROVE  Local(m, s, c, vs2, es2, ps2, cs2)
  <1>1. VotesOk(m, s, c, vs2)
    BY DEF Local, VotesOk
  <1>2. \A b : InTime(m, b, vs2) => InTime(m, b, vs)
    BY DEF InTime
  <1>3. NesOk(m, s, vs2, es2)
    BY <1>2 DEF Local, NesOk
  <1>4. ProposalsOk(m, s, ps2, cs2)
    BY DEF Local, ProposalsOk
  <1> QED BY <1>1, <1>3, <1>4 DEF Local

(* handle_proposal_message is made of the operators above. *)
LEMMA HandledInSteps ==
    ASSUME NEW n, NEW st, NEW p, NEW st2 \in ProposalHandled(n, st, p)
    PROVE  \E s1, s2, s3, s4 :
              /\ s1 \in ProcessQc(n, st, parent[p.tip], qc_round[p.tip])
              /\ s2 \in IF p.tc = NoTc THEN {s1} ELSE ProcessTc(n, s1, p.tc)
              /\ s3 \in TryCommit(s2, parent[p.tip], qc_round[p.tip])
              /\ s4 \in TryVote(n, s3, p)
              /\ st2 \in TryPropose(n, s4)
  <1> DEFINE b == parent[p.tip]
             r == qc_round[p.tip]
             processed == ProcessQc(n, st, b, r)
             certified == UNION {IF p.tc = NoTc THEN {s} ELSE ProcessTc(n, s, p.tc) : s \in processed}
             added == UNION {TryCommit(s, b, r) : s \in certified}
             voted == UNION {TryVote(n, s, p) : s \in added}
  <1>1. st2 \in UNION {TryPropose(n, s) : s \in voted}
    BY DEF ProposalHandled
  <1> HIDE DEF b, r, processed, certified, added, voted
  <1>2. PICK s4 \in voted : st2 \in TryPropose(n, s4)
    BY <1>1
  <1>3. PICK s3 \in added : s4 \in TryVote(n, s3, p)
    BY <1>2 DEF voted
  <1>4. PICK s2 \in certified : s3 \in TryCommit(s2, b, r)
    BY <1>3 DEF added
  <1>5. PICK s1 \in processed : s2 \in IF p.tc = NoTc THEN {s1} ELSE ProcessTc(n, s1, p.tc)
    BY <1>4 DEF certified
  <1> QED BY <1>2, <1>3, <1>4, <1>5 DEF processed, b, r

LEMMA GoodProposal ==
    ASSUME IInv, NEW n \in Honest, NEW st, Good(n, st),
           NEW p \in Proposal_, ProposalOk(p), NEW st2 \in ProposalHandled(n, st, p)
    PROVE  Good(n, st2)
  <1> DEFINE b == parent[p.tip]
             r == qc_round[p.tip]
             c == p.tc
  <1>1. b \in Block /\ r \in Nat /\ c \in RoundCertificate /\ CertOk(c)
    BY BlockAssumption DEF Proposal_, ProposalOk
  <1>2. PICK s1, s2, s3, s4 :
          /\ s1 \in ProcessQc(n, st, b, r)
          /\ s2 \in IF c = NoTc THEN {s1} ELSE ProcessTc(n, s1, c)
          /\ s3 \in TryCommit(s2, b, r)
          /\ s4 \in TryVote(n, s3, p)
          /\ st2 \in TryPropose(n, s4)
    BY HandledInSteps
  <1> HIDE DEF b, r, c
  <1>3. Good(n, s1)
    BY <1>1, <1>2, GoodProcess
  <1>4. Good(n, s2)
    BY <1>1, <1>2, <1>3, GoodProcess
  <1>5. Good(n, s3)
    BY <1>1, <1>2, <1>4, GoodCommit
  <1>6. Good(n, s4)
    BY <1>2, <1>5, GoodVote
  <1> QED BY <1>2, <1>6, GoodPropose

(* A set of numbers has a least one.                                       *)
LEMMA LeastNumber ==
    ASSUME NEW T \in SUBSET Nat, T # {}
    PROVE  \E n \in T : \A m \in T : n <= m
  <1>1. \E n \in T : \A m \in T : ~ (<<m, n>> \in OpToRel(<, Nat))
    BY NatLessThanWellFounded, WFMin
  <1>2. OpToRel(<, Nat) = {ss \in Nat \X Nat : ss[1] < ss[2]}
    BY Zenon DEF OpToRel
  <1>3. \E n \in T : \A m \in T : ~ (<<m, n>> \in {ss \in Nat \X Nat : ss[1] < ss[2]})
    BY <1>1, <1>2, Zenon
  <1>4. \A n, m \in Nat : ~ (<<m, n>> \in {ss \in Nat \X Nat : ss[1] < ss[2]}) => n <= m
    OBVIOUS
  <1> QED BY <1>3, <1>4, Zenon

(* What holds of 0, and of each number after one it holds of, holds of all *)
(* numbers.                                                                *)
LEMMA CountingUp ==
    ASSUME NEW T, 0 \in T, \A k \in Nat : k \in T => k + 1 \in T
    PROVE  \A k \in Nat : k \in T
  <1> DEFINE Bad == {k \in Nat : k \notin T}
  <1>1. SUFFICES ASSUME Bad # {} PROVE FALSE
    OBVIOUS
  <1>2. PICK k \in Bad : \A m \in Bad : k <= m
    BY <1>1, LeastNumber
  <1>3. k \in Nat /\ k # 0
    BY <1>2
  <1>4. k - 1 \in Nat /\ k - 1 \in T
    BY <1>2, <1>3
  <1>5. (k - 1) + 1 \in T
    BY <1>4
  <1> QED BY <1>2, <1>3, <1>5

(* Handling cached proposals one after the other stays in any set that     *)
(* handling one of them does not leave.                                    *)
LEMMA ReplayedIn ==
    ASSUME NEW n, NEW st, NEW ps, NEW S, st \in S,
           \A s \in S, p \in ps : ProposalHandled(n, s, p) \subseteq S
    PROVE  Replayed(n, st, ps) \subseteq S
  <1> DEFINE E(T) == T \cup UNION {UNION {ProposalHandled(n, s, p) : p \in ps} : s \in T}
             Is(f, k) == f = [i \in 0..k |-> IF i = 0 THEN {st} ELSE E(f[i - 1])]
             after == CHOOSE f : Is(f, MaxCached)
  <1>0. MaxCached \in Nat
    BY LeaderAssumption
  <1>1. Replayed(n, st, ps) = after[MaxCached]
    BY DEF Replayed
  <1>2. \A T : T \subseteq S => E(T) \subseteq S
    OBVIOUS
  <1> HIDE DEF E
  <1> DEFINE Known == {k \in Nat : \E f : Is(f, k)}
  <1>3. 0 \in Known
    <2> DEFINE f == [i \in 0..0 |-> {st}]
    <2>1. \A i \in 0..0 : i = 0
      OBVIOUS
    <2>2. Is(f, 0)
      BY <2>1, Zenon
    <2> QED BY <2>2
  <1>4. ASSUME NEW k \in Nat, k \in Known PROVE k + 1 \in Known
    <2>1. PICK g : Is(g, k)
      BY <1>4
    <2> DEFINE f == [i \in 0..k + 1 |-> IF i = k + 1 THEN E(g[k]) ELSE g[i]]
    <2>2. ASSUME NEW i \in 0..k + 1
          PROVE  f[i] = IF i = 0 THEN {st} ELSE E(f[i - 1])
      <3>1. CASE i = k + 1
        <4>1. f[i] = E(g[k]) /\ i - 1 = k /\ k \in 0..k + 1 /\ k # k + 1 /\ i # 0
          BY <3>1
        <4>2. f[k] = g[k]
          BY <4>1
        <4> QED BY <4>1, <4>2
      <3>2. CASE i # k + 1
        <4>1. i \in 0..k /\ f[i] = g[i]
          BY <3>2
        <4>2. g[i] = IF i = 0 THEN {st} ELSE E(g[i - 1])
          BY <2>1, <4>1, Zenon
        <4>3. CASE i = 0
          BY <4>1, <4>2, <4>3
        <4>4. CASE i # 0
          <5>1. i - 1 \in 0..k + 1 /\ i - 1 # k + 1
            BY <4>1, <4>4
          <5>2. f[i - 1] = g[i - 1]
            BY <5>1
          <5> QED BY <4>1, <4>2, <4>4, <5>2
        <4> QED BY <4>3, <4>4
      <3> QED BY <3>1, <3>2
    <2>3. f = [i \in 0..k + 1 |-> f[i]]
      OBVIOUS
    <2> HIDE DEF f
    <2>4. Is(f, k + 1)
      BY <2>2, <2>3, Zenon
    <2> QED BY <2>4
  <1>5. \E f : Is(f, MaxCached)
    <2> HIDE DEF Known
    <2>1. MaxCached \in Known
      BY <1>0, <1>3, <1>4, CountingUp
    <2> QED BY <2>1 DEF Known
  <1>6. Is(after, MaxCached)
    BY <1>5, Zenon
  <1>7. \A i \in 0..MaxCached : after[i] = IF i = 0 THEN {st} ELSE E(after[i - 1])
    BY <1>6, Zenon
  <1> HIDE DEF after
  <1> DEFINE Inside == {k \in Nat : k <= MaxCached => after[k] \subseteq S}
  <1>8. 0 \in Inside
    <2>1. after[0] = {st}
      BY <1>0, <1>7
    <2> QED BY <2>1
  <1>9. ASSUME NEW k \in Nat, k \in Inside PROVE k + 1 \in Inside
    <2> SUFFICES ASSUME k + 1 <= MaxCached PROVE after[k + 1] \subseteq S
      OBVIOUS
    <2>1. after[k] \subseteq S
      BY <1>0, <1>9
    <2>2. k + 1 \in 0..MaxCached /\ k + 1 # 0 /\ (k + 1) - 1 = k
      BY <1>0
    <2>3. after[k + 1] = E(after[k])
      BY <1>7, <2>2
    <2> QED BY <1>2, <2>1, <2>3
  <1>10. MaxCached \in Inside
    <2> HIDE DEF Inside
    <2> QED BY <1>0, <1>8, <1>9, CountingUp
  <1> QED BY <1>0, <1>1, <1>10

(* maybe_start_consensus: a timeout, then the cached proposals. *)
LEMMA GoodStart ==
    ASSUME IInv, NEW n \in Honest,
           NEW st \in Replayed(n, LocalTimeout(n, Begin(n)), ValidProposals(Tips, Tcs(Tips)))
    PROVE  Good(n, st)
  <1> DEFINE S == {s \in HandlerState : Good(n, s)}
             ps == ValidProposals(Tips, Tcs(Tips))
             st0 == LocalTimeout(n, Begin(n))
  <1>1. st0 \in S
    BY GoodBegin, GoodTimeout DEF Good
  <1>2. ASSUME NEW s \in S, NEW p \in ps, NEW s2 \in ProposalHandled(n, s, p) PROVE s2 \in S
    <2>1. p \in Proposal_ /\ ProposalOk(p)
      BY CertificateType, ValidOk DEF IInv
    <2>2. Good(n, s2)
      BY <2>1, GoodProposal
    <2> QED BY <2>2 DEF Good
  <1> HIDE DEF S, ps, st0
  <1>3. Replayed(n, st0, ps) \subseteq S
    BY <1>1, <1>2, ReplayedIn
  <1> QED BY <1>3 DEF S, ps, st0

(* A new Safety bars the validator from the round of its certificate,      *)
(* whatever it did in it, and has no high tip.                             *)
LEMMA SafetyNewOk ==
    ASSUME IInv, NEW n \in Honest, NEW st, Good(n, st)
    PROVE  /\ SafetyNew(st.cert).highest_vote >= st.safety.highest_vote
           /\ SafetyNew(st.cert).highest_no_endorse.round >= st.safety.highest_no_endorse.round
           /\ SafetyNew(st.cert).highest_propose >= st.safety.highest_propose
           /\ n \in Stable =>
                 Local(n, SafetyNew(st.cert), st.cert, votes \cup st.votes, nes \cup st.nes,
                       proposals \cup st.proposals, creating \cup st.creating)
  <1> DEFINE s == SafetyNew(st.cert)
             r == st.cert.round + 1
             vs == votes \cup st.votes
             es == nes \cup st.nes
             ps == proposals \cup st.proposals
             cs == creating \cup st.creating
  <1>0. TypeOK /\ st \in HandlerState /\ r \in Nat
    BY HandlerFields DEF IInv, Good
  <1>2. /\ s.highest_vote = r /\ s.highest_no_endorse.round = r
        /\ s.highest_propose = r /\ s.maybe_high_tip = None
    BY DEF SafetyNew
  <1> HIDE DEF s
  <1>4. /\ s.highest_vote >= st.safety.highest_vote
        /\ s.highest_no_endorse.round >= st.safety.highest_no_endorse.round
        /\ s.highest_propose >= st.safety.highest_propose
    BY <1>0, <1>2, HandlerFields DEF Good, RoundBounds
  <1>5. ASSUME n \in Stable PROVE Local(n, s, st.cert, vs, es, ps, cs)
    <2>0. /\ \A v \in vs : v.round \in Nat
          /\ \A e \in es : e.round \in Nat
          /\ \A p \in ps \cup cs : p.round \in Nat
      BY <1>0 DEF TypeOK, Vote_, Proposal_, HandlerState, NoEndorse_, Creating_
    <2>1. Local(n, st.safety, st.cert, vs, es, ps, cs)
      BY <1>5 DEF Good
    <2> HIDE DEF vs, es, ps, cs
    <2>2. VotesOk(n, s, st.cert, vs)
      BY <1>0, <1>2, <1>4, <2>0, <2>1, HandlerFields DEF Local, VotesOk
    <2>3. NesOk(n, s, vs, es)
      <3>1. \A e \in es : e.node = n => e.round <= r
        BY <1>0, <1>2, <1>4, <2>0, <2>1, HandlerFields DEF Local, NesOk
      <3>2. \A e \in es : ~ (e.round = r /\ r < e.round)
        BY <1>0, <2>0
      <3> HIDE DEF r
      <3> QED BY <1>2, <2>1, <3>1, <3>2 DEF Local, NesOk
    <2>4. ProposalsOk(n, s, ps, cs)
      BY <1>0, <1>2, <1>4, <2>0, <2>1, HandlerFields DEF Local, ProposalsOk
    <2> QED BY <2>2, <2>3, <2>4 DEF Local
  <1> QED BY <1>4, <1>5 DEF s, vs, es, ps, cs

(* ... and any certificate may be the one it starts from. *)
LEMMA SafetyNewBounds ==
    ASSUME NEW c \in RoundCertificate
    PROVE  SafetyNew(c) \in SafetyState /\ RoundBounds(SafetyNew(c), c)
  BY BlockAssumption DEF SafetyNew, SafetyState, RoundCertificate, HighNoEndorse, RoundBounds

(* The step NeverBack speaks of *)
Forward(n) ==
    /\ cert'[n].round >= cert[n].round
    /\ safety'[n].highest_vote >= safety[n].highest_vote
    /\ safety'[n].highest_no_endorse.round >= safety[n].highest_no_endorse.round
    /\ safety'[n].highest_propose >= safety[n].highest_propose

NoStepBack ==
    \A n \in Honest :
       /\ forkpoint'[n].cert.round >= forkpoint[n].cert.round
       /\ cert'[n].round >= forkpoint'[n].cert.round
       /\ n \in syncing \/ n \notin syncing' \/ forkpoint[n].cert = cert[n] => Forward(n)

(* Writing back a handler state that is well formed, and for a validator   *)
(* that stays stable also consistent with all it has sent, preserves the   *)
(* invariant, whichever of the proposals being built are dropped.          *)
LEMMA WriteOk ==
    ASSUME IInv, NEW n \in Honest, NEW st \in HandlerState, Emitted(n, st),
           CertOk(st.cert), RoundBounds(st.safety, st.cert),
           n \in Stable' => Local(n, st.safety, st.cert, votes \cup st.votes, nes \cup st.nes,
                                  proposals \cup st.proposals, creating \cup st.creating),
           Write(n, st), creating' \subseteq creating \cup st.creating,
           TypeOK => crashes' \in Nat /\ syncing' \subseteq Honest,
           behind \subseteq behind', behind' \subseteq behind \cup (Crashing \cap {n}),
           NEW fork \in [cert : RoundCertificate, root : Block],
           forkpoint' = [forkpoint EXCEPT ![n] = fork],
           CertOk(fork.cert), fork.cert.round <= st.cert.round
    PROVE  IInv'
  <1>0. /\ TypeOK
        /\ votes' = votes \cup st.votes /\ timeouts' = timeouts \cup st.timeouts
        /\ nes' = nes \cup st.nes /\ proposals' = proposals \cup st.proposals
        /\ recoveries' = recoveries \cup st.recoveries
        /\ safety' = [safety EXCEPT ![n] = st.safety]
        /\ cert' = [cert EXCEPT ![n] = st.cert]
        /\ root' = [root EXCEPT ![n] = st.root]
    BY DEF IInv, Write
  <1>1. /\ votes' \subseteq Vote_ /\ timeouts' \subseteq Timeout_ /\ nes' \subseteq NoEndorse_
        /\ proposals' \subseteq Proposal_ /\ recoveries' \subseteq TipTc
        /\ \A v \in votes' : v.round > GENESIS_ROUND
        /\ \A c \in recoveries' : CertOk(c)
        /\ \A p \in proposals' : ProposalOk(p) /\ leader[p.round] \in Honest
    BY <1>0 DEF TypeOK, HandlerState, Timeout_, NoEndorse_, IInv, Emitted
  <1>2. creating' \subseteq Creating_
    BY <1>0 DEF TypeOK, HandlerState, Creating_
  <1>3. TypeOK'
    BY <1>0, <1>1, <1>2 DEF TypeOK, HandlerState, Timeout_, NoEndorse_, Creating_
  <1>4. \A p \in creating' : /\ ProposalOk(p) /\ leader[p.round] \in Honest
                            /\ leader[p.round] = p.node
    BY <1>0 DEF IInv, Emitted
  <1>5. /\ safety'[n] = st.safety /\ cert'[n] = st.cert /\ forkpoint'[n] = fork
        /\ \A m \in Honest \ {n} : /\ safety'[m] = safety[m] /\ cert'[m] = cert[m]
                                   /\ forkpoint'[m] = forkpoint[m]
    BY <1>0 DEF TypeOK
  <1>6. ASSUME NEW m \in Honest
        PROVE  /\ CertOk(cert'[m])
               /\ ForkpointOk(m)'
               /\ RoundBounds(safety'[m], cert'[m])
               /\ m \in Stable' =>
                     Local(m, safety'[m], cert'[m], votes', nes', proposals', creating')
    <2>1. CASE m = n
      <3>1. n \in Stable' => Local(n, st.safety, st.cert, votes', nes',
                                  proposals', creating \cup st.creating)
        BY <1>0
      <3>2. n \in Stable' => Local(n, st.safety, st.cert, votes', nes', proposals', creating')
        BY <3>1, LocalOthers
      <3> QED BY <1>5, <2>1, <3>2 DEF ForkpointOk
    <2>2. CASE m # n
      <3>1. /\ \A v \in votes' : v.node = m => v \in votes
            /\ \A e \in nes' : e.node = m => e \in nes
            /\ \A p \in proposals' \cup creating' :
                  leader[p.round] = m => p \in proposals \cup creating
        BY <1>0, <2>2 DEF Emitted
      <3>2. m \in Stable => Local(m, safety[m], cert[m], votes', nes', proposals', creating')
        BY <1>0, <3>1, LocalOthers DEF IInv
      <3>3. m \in Stable' => m \in Stable
        BY DEF Stable
      <3> QED BY <1>5, <2>2, <3>2, <3>3 DEF IInv, ForkpointOk
    <2> QED BY <2>1, <2>2
  <1>7. behind' \subseteq Crashing
    BY DEF IInv
  <1> QED BY <1>1, <1>3, <1>4, <1>6, <1>7 DEF IInv

(* A handler has not gone back when it ends. *)
LEMMA WriteForward ==
    ASSUME IInv, NEW n \in Honest, NEW st, Write(n, st), NEW fork,
           forkpoint' = [forkpoint EXCEPT ![n] = fork],
           fork.cert.round \in Nat, st.cert.round \in Nat,
           fork.cert.round >= forkpoint[n].cert.round, st.cert.round >= fork.cert.round,
           n \in syncing \/ n \notin syncing' \/ forkpoint[n].cert = cert[n] => Ahead(n, st)
    PROVE  NoStepBack
  <1>0. TypeOK
    BY DEF IInv
  <1>1. /\ safety'[n] = st.safety /\ cert'[n] = st.cert /\ forkpoint'[n] = fork
        /\ \A m \in Honest \ {n} : /\ safety'[m] = safety[m] /\ cert'[m] = cert[m]
                                   /\ forkpoint'[m] = forkpoint[m]
    BY <1>0 DEF TypeOK, Write
  <1> SUFFICES ASSUME NEW m \in Honest
               PROVE  /\ forkpoint'[m].cert.round >= forkpoint[m].cert.round
                      /\ cert'[m].round >= forkpoint'[m].cert.round
                      /\ m \in syncing \/ m \notin syncing' \/ forkpoint[m].cert = cert[m] => Forward(m)
    BY DEF NoStepBack
  <1>2. CASE m = n
    BY <1>1, <1>2 DEF Forward, Ahead
  <1>3. CASE m # n
    <2>1. cert[m].round >= forkpoint[m].cert.round
      BY <1>0, NodeFields DEF IInv, ForkpointOk
    <2> QED BY <1>0, <1>1, <1>3, <2>1, NodeFields DEF Forward
  <1> QED BY <1>2, <1>3

(* What a crash leaves: the messages sent, and the state of the forkpoint. *)
Restarted(n, st) ==
    [st EXCEPT !.safety = SafetyNew(forkpoint[n].cert),
               !.cert = forkpoint[n].cert, !.root = forkpoint[n].root]

LEMMA RestartedFields ==
    ASSUME IInv, NEW n \in Honest, NEW st \in HandlerState
    PROVE  LET new == Restarted(n, st) IN
              /\ new \in HandlerState
              /\ new.safety = SafetyNew(forkpoint[n].cert) /\ new.cert = forkpoint[n].cert
              /\ new.root = forkpoint[n].root
              /\ new.votes = st.votes /\ new.nes = st.nes /\ new.proposals = st.proposals
              /\ new.creating = st.creating /\ new.recoveries = st.recoveries
              /\ new.timeouts = st.timeouts
  <1>1. /\ forkpoint[n].cert \in RoundCertificate /\ forkpoint[n].root \in Block
        /\ SafetyNew(forkpoint[n].cert) \in SafetyState
    BY NodeFields, SafetyNewBounds DEF IInv
  <1> QED BY <1>1 DEF HandlerState, Restarted

(* A crash preserves the invariant: if the forkpoint holds the handler's   *)
(* certificate, a new Safety rules out every round acted in, and if not,   *)
(* the validator is no longer a stable one.                                *)
LEMMA CrashOk ==
    ASSUME IInv, NEW n \in Honest, NEW st, Good(n, st), Crash(n, st)
    PROVE  IInv' /\ NoStepBack
  <1> DEFINE new == Restarted(n, st)
             fork == forkpoint[n]
  <1>0. /\ TypeOK /\ st \in HandlerState /\ n \in Crashing
        /\ Write(n, new) /\ creating' \subseteq creating
        /\ syncing' = syncing \cup {n} /\ n \notin syncing
        /\ behind' = IF st.cert = fork.cert THEN behind ELSE behind \cup {n}
        /\ crashes' = crashes + 1 /\ forkpoint' = forkpoint
    BY DEF IInv, Good, Crash, Restarted
  <1>1. /\ new \in HandlerState
        /\ new.safety = SafetyNew(fork.cert) /\ new.cert = fork.cert
        /\ new.votes = st.votes /\ new.nes = st.nes /\ new.proposals = st.proposals
        /\ new.creating = st.creating /\ new.recoveries = st.recoveries
    BY <1>0, RestartedFields
  <1> HIDE DEF new
  <1>2. /\ fork \in [cert : RoundCertificate, root : Block] /\ fork.cert \in RoundCertificate
        /\ CertOk(fork.cert) /\ fork.cert.round \in Nat
        /\ forkpoint' = [forkpoint EXCEPT ![n] = fork]
    BY <1>0, NodeFields DEF IInv, TypeOK, ForkpointOk
  <1>3. Emitted(n, new)
    BY <1>1 DEF Good, Emitted
  <1>4. RoundBounds(new.safety, new.cert)
    BY <1>1, <1>2, SafetyNewBounds
  <1>5. ASSUME n \in Stable'
        PROVE  Local(n, new.safety, new.cert, votes \cup new.votes, nes \cup new.nes,
                     proposals \cup new.proposals, creating \cup new.creating)
    <2>1. st.cert = fork.cert /\ n \in Stable
      BY <1>0, <1>5 DEF Stable
    <2> QED BY <1>1, <2>1, SafetyNewOk
  <1> HIDE DEF fork
  <1>6. IInv'
    <2>1. crashes' \in Nat /\ syncing' \subseteq Honest
      BY <1>0 DEF TypeOK
    <2>2. behind \subseteq behind' /\ behind' \subseteq behind \cup (Crashing \cap {n})
      BY <1>0
    <2>3. new.cert.round >= fork.cert.round
      BY <1>1, <1>2
    <2> QED BY <1>0, <1>1, <1>2, <1>3, <1>4, <1>5, <2>1, <2>2, <2>3, WriteOk
  <1>7. ASSUME forkpoint[n].cert = cert[n] PROVE Ahead(n, new)
    <2>1. Good(n, Begin(n)) /\ Begin(n).cert = cert[n] /\ Begin(n).safety = safety[n]
      BY GoodBegin DEF Begin
    <2> DEFINE old == Begin(n)
    <2> HIDE DEF old
    <2>2. /\ SafetyNew(old.cert).highest_vote >= old.safety.highest_vote
          /\ SafetyNew(old.cert).highest_no_endorse.round >= old.safety.highest_no_endorse.round
          /\ SafetyNew(old.cert).highest_propose >= old.safety.highest_propose
      BY <2>1, SafetyNewOk DEF old
    <2>3. new.safety = SafetyNew(old.cert) /\ new.cert = cert[n] /\ old.safety = safety[n]
      BY <1>1, <1>7, <2>1 DEF fork, old
    <2>4. cert[n].round >= cert[n].round
      BY <1>0, NodeFields
    <2> QED BY <2>2, <2>3, <2>4 DEF Ahead
  <1>8. NoStepBack
    <2>1. fork.cert.round >= forkpoint[n].cert.round /\ new.cert.round >= fork.cert.round
      BY <1>1, <1>2 DEF fork
    <2>2. n \in syncing \/ n \notin syncing' \/ forkpoint[n].cert = cert[n] => Ahead(n, new)
      BY <1>0, <1>7
    <2> QED BY <1>0, <1>1, <1>2, <2>1, <2>2, WriteForward
  <1> QED BY <1>6, <1>8

(* Finishing a handler whose state is good preserves the invariant, and so *)
(* does crashing before its forkpoint is written.                          *)
LEMMA FinishOk ==
    ASSUME IInv, NEW n \in Honest, NEW st, Good(n, st), Finish(n, st)
    PROVE  IInv' /\ NoStepBack
  <1>1. CASE /\ n \notin syncing
             /\ Write(n, st) /\ creating' = creating \cup st.creating
             /\ forkpoint' = [forkpoint EXCEPT ![n] = Checkpointed(n, st)]
             /\ UNCHANGED << syncing, behind, crashes >>
    <2> DEFINE fork == Checkpointed(n, st)
    <2>0. TypeOK /\ st \in HandlerState
      BY DEF IInv, Good
    <2>1. /\ fork \in [cert : RoundCertificate, root : Block]
          /\ CertOk(fork.cert) /\ fork.cert.round \in Nat
          /\ fork.cert.round <= st.cert.round
          /\ fork.cert.round >= forkpoint[n].cert.round
      <3>1. CASE fork = forkpoint[n]
        BY <2>0, <3>1, NodeFields, HandlerFields DEF TypeOK, IInv, ForkpointOk, Good, Ahead
      <3>2. CASE fork = [cert |-> st.cert, root |-> st.root]
        <4>1. st.cert \in RoundCertificate /\ st.root \in Block
          BY <2>0 DEF HandlerState
        <4> QED BY <2>0, <3>2, <4>1, NodeFields, HandlerFields DEF TypeOK, IInv, ForkpointOk, Good, Ahead
      <3> QED BY <3>1, <3>2 DEF Checkpointed
    <2>2. st.cert.round \in Nat
      BY <2>0, HandlerFields
    <2> HIDE DEF fork
    <2>3. forkpoint' = [forkpoint EXCEPT ![n] = fork]
      BY <1>1 DEF fork
    <2>4. n \in Stable' => n \in Stable
      BY <1>1 DEF Stable
    <2>5. IInv'
      BY <1>1, <2>0, <2>1, <2>3, <2>4, WriteOk DEF Good, TypeOK
    <2>6. NoStepBack
      BY <1>1, <2>1, <2>2, <2>3, WriteForward DEF Good
    <2> QED BY <2>5, <2>6
  <1>2. CASE Crash(n, st)
    BY <1>2, CrashOk
  <1> QED BY <1>1, <1>2 DEF Finish

(* maybe_start_consensus writes no checkpoint. *)
LEMMA StartOk ==
    ASSUME IInv, NEW n \in Honest,
           MaybeStartConsensus(n, ValidProposals(Tips, Tcs(Tips)))
    PROVE  IInv' /\ NoStepBack
  <1>0. TypeOK
    BY DEF IInv
  <1>1. PICK st \in Replayed(n, LocalTimeout(n, Begin(n)), ValidProposals(Tips, Tcs(Tips))) :
          Write(n, st) /\ creating' = creating \cup st.creating
    BY DEF MaybeStartConsensus
  <1>2. n \in syncing /\ syncing' = syncing \ {n} /\ UNCHANGED << forkpoint, behind, crashes >>
    BY DEF MaybeStartConsensus
  <1>3. Good(n, st) /\ st \in HandlerState
    BY <1>1, GoodStart DEF Good
  <1> DEFINE fork == forkpoint[n]
  <1>4. /\ fork \in [cert : RoundCertificate, root : Block]
        /\ CertOk(fork.cert) /\ fork.cert.round \in Nat /\ st.cert.round \in Nat
        /\ fork.cert.round <= st.cert.round
        /\ forkpoint' = [forkpoint EXCEPT ![n] = fork]
    BY <1>0, <1>2, <1>3, NodeFields, HandlerFields DEF TypeOK, IInv, ForkpointOk, Good, Ahead
  <1> HIDE DEF fork
  <1>5. n \in Stable' => n \in Stable
    BY <1>2 DEF Stable
  <1>6. IInv'
    BY <1>0, <1>1, <1>2, <1>3, <1>4, <1>5, WriteOk DEF Good, TypeOK
  <1>7. NoStepBack
    <2>1. fork.cert.round >= forkpoint[n].cert.round /\ st.cert.round >= fork.cert.round
      BY <1>4 DEF fork
    <2> QED BY <1>1, <1>3, <1>4, <2>1, WriteForward DEF Good
  <1> QED BY <1>6, <1>7

(* Publishing moves a proposal from the txpool to the network. *)
LEMMA PublishOk ==
    ASSUME IInv, NEW p \in creating, PublishProposal(p)
    PROVE  IInv' /\ NoStepBack
  <1> DEFINE q == [round |-> p.round, tip |-> p.tip, tc |-> p.tc]
  <1>1. /\ proposals' = proposals \cup {q} /\ creating' = creating \ {p}
        /\ UNCHANGED << safety, cert, root, forkpoint, syncing, behind, votes, timeouts, nes,
                        recoveries, crashes >>
    BY DEF PublishProposal
  <1>2. TypeOK /\ TypeOK'
    <2>1. q \in Proposal_
      BY DEF IInv, TypeOK, Proposal_
    <2> HIDE DEF q
    <2> QED BY <1>1, <2>1 DEF IInv, TypeOK
  <1>3. q.round = p.round /\ q.tip = p.tip /\ q.tc = p.tc
    OBVIOUS
  <1> HIDE DEF q
  <1>4. ASSUME NEW m, NEW s, ProposalsOk(m, s, proposals, creating)
        PROVE  ProposalsOk(m, s, proposals', creating')
    BY <1>1, <1>3, <1>4 DEF ProposalsOk
  <1>5. /\ \A x \in proposals' \cup creating' : ProposalOk(x) /\ leader[x.round] \in Honest
        /\ \A x \in creating' : leader[x.round] = x.node
    BY <1>1, <1>3 DEF IInv, ProposalOk
  <1>6. \A n \in Honest :
          /\ CertOk(cert'[n])
          /\ ForkpointOk(n)'
          /\ RoundBounds(safety'[n], cert'[n])
          /\ n \in Stable' =>
                Local(n, safety'[n], cert'[n], votes', nes', proposals', creating')
    BY <1>1, <1>4 DEF IInv, Local, Stable, ForkpointOk
  <1>7. NoStepBack
    BY <1>1, <1>2, NodeFields DEF NoStepBack, Forward, IInv, ForkpointOk
  <1> QED BY <1>1, <1>2, <1>5, <1>6, <1>7 DEF IInv

-----------------------------------------------------------------------------
(* The theorems *)

LEMMA InitOk ==
    ASSUME Init
    PROVE  IInv
  <1> DEFINE c == QcCert(GENESIS_ROUND)
             s == SafetyNew(c)
  <1>1. c \in RoundCertificate /\ c.tip = None /\ c.round = 0
    BY DEF QcCert, RoundCertificate, GENESIS_ROUND
  <1>2. s \in SafetyState
    BY <1>1, BlockAssumption DEF SafetyNew, SafetyState, RoundCertificate, HighNoEndorse
  <1>3. /\ s.highest_vote = 1 /\ s.highest_no_endorse.round = 1
        /\ s.highest_propose = 1 /\ s.maybe_high_tip = None
    BY <1>1 DEF SafetyNew
  <1> HIDE DEF c, s
  <1>4. TypeOK
    <2>1. timeouts \subseteq Timeout_
      BY DEF Init, Timeout_, QcRank, Rank, GENESIS_ROUND
    <2> QED BY <1>1, <1>2, <2>1, BlockAssumption DEF Init, TypeOK, Timeout_, c, s
  <1>5. ASSUME NEW n \in Honest
        PROVE  /\ CertOk(cert[n]) /\ ForkpointOk(n)
               /\ RoundBounds(safety[n], cert[n])
               /\ Local(n, safety[n], cert[n], votes, nes, proposals, creating)
    <2>1. safety[n] = s /\ cert[n] = c /\ forkpoint[n].cert = c
      BY DEF Init, c, s
    <2>2. CertOk(cert[n]) /\ RoundBounds(safety[n], cert[n]) /\ ForkpointOk(n)
      BY <1>1, <1>3, <2>1, BlockAssumption DEF CertOk, RoundBounds, ForkpointOk
    <2>3. Local(n, safety[n], cert[n], votes, nes, proposals, creating)
      BY <1>3, <2>1 DEF Init, Local, VotesOk, NesOk, ProposalsOk
    <2> QED BY <2>2, <2>3
  <1> QED BY <1>4, <1>5 DEF Init, IInv

(* Every handler ends in a good state, so every step preserves IInv. *)
LEMMA NextOk ==
    ASSUME IInv, Next
    PROVE  IInv' /\ NoStepBack
  <1>0. TypeOK /\ \A n \in Honest : Good(n, Begin(n))
    BY GoodBegin DEF IInv
  <1>1. ASSUME NEW n \in Honest, Stop(n) PROVE IInv' /\ NoStepBack
    BY <1>0, <1>1, CrashOk DEF Stop
  <1>2. ASSUME NEW n \in Honest, HandleTimeoutExpiry(n) PROVE IInv' /\ NoStepBack
    BY <1>0, <1>2, GoodTimeout, FinishOk DEF HandleTimeoutExpiry
  <1>3. ASSUME NEW n \in Honest, HandleNoEndorsementMessage(n) PROVE IInv' /\ NoStepBack
    <2>1. PICK st \in TryPropose(n, Begin(n)) : Finish(n, st)
      BY <1>3 DEF HandleNoEndorsementMessage
    <2> QED BY <1>0, <2>1, GoodPropose, FinishOk
  <1>4. ASSUME NEW p \in creating, PublishProposal(p) PROVE IInv' /\ NoStepBack
    BY <1>4, PublishOk
  <1>5. ASSUME NEW q \in Qcs, NEW n \in Honest, HandleQc(n, q) PROVE IInv' /\ NoStepBack
    <2>1. q.id \in Block /\ q.round \in Nat
      BY <1>0, CertificateType
    <2>2. PICK st \in ProcessQc(n, Begin(n), q.id, q.round) : Finish(n, st)
      BY <1>5 DEF HandleQc
    <2>3. Good(n, st)
      BY <1>0, <2>1, <2>2, GoodProcess
    <2> QED BY <2>2, <2>3, FinishOk
  <1>6. ASSUME NEW q, q.id \in Block, NEW n \in Honest, HandleBlockSync(n, q)
        PROVE  IInv' /\ NoStepBack
    <2>1. PICK st1 \in TryCommit(Begin(n), q.id, q.round) :
            \E st2 \in TryPropose(n, st1) : Finish(n, st2)
      BY <1>6 DEF HandleBlockSync
    <2>2. PICK st2 \in TryPropose(n, st1) : Finish(n, st2)
      BY <2>1
    <2>3. Good(n, st1)
      BY <1>0, <1>6, GoodCommit
    <2>4. Good(n, st2)
      BY <2>3, GoodPropose
    <2> QED BY <2>2, <2>4, FinishOk
  <1>7. ASSUME NEW c \in Tcs(Tips), NEW n \in Honest, HandleTc(n, c)
        PROVE  IInv' /\ NoStepBack
    <2>1. c \in RoundCertificate /\ CertOk(c)
      BY <1>0, CertificateType, ValidOk
    <2>2. PICK st \in ProcessTc(n, Begin(n), c) : Finish(n, st)
      BY <1>7 DEF HandleTc
    <2>3. Good(n, st)
      BY <1>0, <2>1, <2>2, GoodProcess
    <2> QED BY <2>2, <2>3, FinishOk
  <1>8. ASSUME NEW p \in ValidProposals(Tips, Tcs(Tips)), NEW n \in Honest,
               HandleProposalMessage(n, p)
        PROVE  IInv' /\ NoStepBack
    <2>1. p \in Proposal_ /\ ProposalOk(p)
      BY <1>0, CertificateType, ValidOk
    <2>2. PICK st \in ProposalHandled(n, Begin(n), p) : Finish(n, st)
      BY <1>8 DEF HandleProposalMessage
    <2>3. Good(n, st)
      BY <1>0, <2>1, <2>2, GoodProposal
    <2> QED BY <2>2, <2>3, FinishOk
  <1>9. ASSUME NEW c \in ValidRecoveries(Tcs(Tips)), NEW n \in Honest,
               HandleRoundRecoveryMessage(n, c)
        PROVE  IInv' /\ NoStepBack
    <2>1. c \in TipTc /\ c \in RoundCertificate /\ CertOk(c)
      BY <1>0, CertificateType, ValidOk DEF TipTc
    <2>2. PICK st1 \in ProcessTc(n, Begin(n), c) :
            \E st2 \in NoEndorseTip(n, st1, c) : Finish(n, st2)
      BY <1>9 DEF HandleRoundRecoveryMessage
    <2>3. PICK st2 \in NoEndorseTip(n, st1, c) : Finish(n, st2)
      BY <2>2
    <2>4. Good(n, st1)
      BY <1>0, <2>1, <2>2, GoodProcess
    <2>5. Good(n, st2)
      BY <2>1, <2>3, <2>4, GoodNoEndorse
    <2> QED BY <2>3, <2>5, FinishOk
  <1>10. Genesis \in Block /\ \A q \in Qcs : q.id \in Block
    BY <1>0, CertificateType, BlockAssumption
  <1>11. ASSUME NEW n \in Honest, MaybeStartConsensus(n, ValidProposals(Tips, Tcs(Tips)))
         PROVE  IInv' /\ NoStepBack
    BY <1>11, StartOk
  <1> QED BY <1>1, <1>2, <1>3, <1>4, <1>5, <1>6, <1>7, <1>8, <1>9, <1>10, <1>11 DEF Next

(* The invariant is inductive, and no step that preserves it goes back. *)
THEOREM Invariance == Spec => []IInv
  <1>1. Init => IInv
    BY InitOk
  <1>2. IInv /\ [Next]_vars => IInv'
    <2> SUFFICES ASSUME IInv, [Next]_vars PROVE IInv'
      OBVIOUS
    <2>1. CASE Next
      BY <2>1, NextOk
    <2>2. CASE UNCHANGED vars
      BY <2>2 DEF vars, IInv, TypeOK, Stable, ForkpointOk
    <2> QED BY <2>1, <2>2
  <1> QED BY <1>1, <1>2, PTL DEF Spec

(* Every variable of every validator keeps its type, whatever the faulty   *)
(* validators sign and in whatever order messages arrive.                  *)
THEOREM TypeCorrect == Spec => []TypeOK
  <1>1. IInv => TypeOK
    BY DEF IInv
  <1> QED BY <1>1, Invariance, PTL

(* Nobody honest double votes, however often it restarts, unless a crash   *)
(* finds its forkpoint behind what it has sent.                            *)
THEOREM NoDoubleVote == Spec => []StableVoteOnce
  <1>1. IInv => StableVoteOnce
    BY DEF IInv, Local, VotesOk, StableVoteOnce, Stable
  <1> QED BY <1>1, Invariance, PTL

(* Any two quorums share a validator no crash has found with a forkpoint   *)
(* behind what it has sent: the others count, for safety, as faulty ones.  *)
StableOverlap == \A Q1, Q2 \in Quorum : \E n \in Q1 \cap Q2 : n \in Stable

LEMMA StableVotesOnce == IInv => StableVoteOnce
  BY DEF IInv, Local, VotesOk, StableVoteOnce, Stable

LEMMA OneQcHolds == IInv /\ StableOverlap => OneQcPerRound
  <1> SUFFICES ASSUME IInv, StableOverlap, NEW q1 \in Qcs, NEW q2 \in Qcs, q1.round = q2.round
               PROVE  q1.id = q2.id
    BY DEF OneQcPerRound
  <1> DEFINE voters(q) == {v.node : v \in {w \in votes : w.id = q.id /\ w.round = q.round}}
  <1>1. \A q \in Qcs : q.round > GENESIS_ROUND
    BY DEF Qcs, IInv
  <1>2. \A q \in Qcs : \E Q \in Quorum : Q \subseteq Faulty \cup voters(q)
    BY <1>1 DEF Qcs, IsQc, HasQuorum, GENESIS_ROUND
  <1>3. PICK Q1 \in Quorum : Q1 \subseteq Faulty \cup voters(q1)
    BY <1>2
  <1>4. PICK Q2 \in Quorum : Q2 \subseteq Faulty \cup voters(q2)
    BY <1>2
  <1>5. PICK n \in Q1 \cap Q2 : n \in Stable
    BY DEF StableOverlap
  <1>6. n \notin Faulty
    BY <1>5 DEF Stable, Honest
  <1>7. PICK v \in votes : v.node = n /\ v.id = q1.id /\ v.round = q1.round
    BY <1>3, <1>6
  <1>8. PICK w \in votes : w.node = n /\ w.id = q2.id /\ w.round = q2.round
    BY <1>4, <1>6
  <1> QED BY <1>5, <1>7, <1>8, StableVotesOnce DEF StableVoteOnce

(* As long as any two quorums share a stable validator, no two blocks are  *)
(* certified in the same round.                                            *)
THEOREM OneQc == Spec => [](StableOverlap => OneQcPerRound)
  BY OneQcHolds, Invariance, PTL

(* An NEC and a QC of one round agree on the QC to extend: a validator in  *)
(* both quorums either voted before, and then refused to no-endorse, or    *)
(* no-endorsed a tip and then voted only for a block with that tip's QC.   *)
THEOREM NecCompatible == Spec => [](StableOverlap => NecQcCompatible)
  <1>1. IInv => (StableOverlap => NecQcCompatible)
    <2> SUFFICES ASSUME IInv, StableOverlap, NEW q \in Qcs, NEW e \in nes,
                        e.round = q.round, IsNec(e.round, e.tip_qc_round),
                        \A v \in votes : v.id = q.id => block_round[v.id] <= v.round
                 PROVE  qc_round[q.id] = e.tip_qc_round
      BY DEF NecQcCompatible
    <2> DEFINE voters == {v.node : v \in {w \in votes : w.id = q.id /\ w.round = q.round}}
               refusers == {f.node : f \in {g \in nes : g.round = e.round
                                                    /\ g.tip_qc_round = e.tip_qc_round}}
    <2>1. q.round > GENESIS_ROUND
      BY DEF Qcs, IInv
    <2>2. PICK Q1 \in Quorum : Q1 \subseteq Faulty \cup voters
      BY <2>1 DEF Qcs, IsQc, HasQuorum, GENESIS_ROUND
    <2>3. PICK Q2 \in Quorum : Q2 \subseteq Faulty \cup refusers
      BY DEF IsNec, HasQuorum
    <2>4. PICK n \in Q1 \cap Q2 : n \in Stable
      BY DEF StableOverlap
    <2>5. n \in Honest
      BY <2>4 DEF Stable
    <2>6. PICK v \in votes : v.node = n /\ v.id = q.id /\ v.round = q.round
      BY <2>2, <2>4, <2>5 DEF Honest
    <2>7. PICK f \in nes : f.node = n /\ f.round = e.round /\ f.tip_qc_round = e.tip_qc_round
      BY <2>3, <2>4, <2>5 DEF Honest
    <2>8. InTime(n, v.id, votes)
      BY <2>6 DEF InTime
    <2>9. NesOk(n, safety[n], votes, nes)
      BY <2>4, <2>5 DEF IInv, Local
    <2> QED BY <2>6, <2>7, <2>8, <2>9 DEF NesOk
  <1> QED BY <1>1, Invariance, PTL

(* The assertion of Safety::timeout cannot fail in any handler's state, as *)
(* highest_vote never exceeds the current round.                           *)
THEOREM TimeoutNeverPanics == Spec => []TimeoutAssertions
  <1>1. IInv => TimeoutAssertions
    BY DEF IInv, RoundBounds, TimeoutAssertions, CurrentRound
  <1> QED BY <1>1, Invariance, PTL

(* Honest leaders make one proposal per round, restarts included, as long  *)
(* as no crash finds the forkpoint behind: what is still being built when  *)
(* the leader restarts is never published.                                 *)
THEOREM OneProposal == Spec => []ProposeOnce
  <1>1. IInv => ProposeOnce
    <2> SUFFICES ASSUME IInv, NEW p1 \in proposals, NEW p2 \in proposals, p1.round = p2.round,
                        leader[p1.round] \in Stable
                 PROVE  p1 = p2
      BY DEF ProposeOnce
    <2> DEFINE n == leader[p1.round]
    <2>1. n \in Honest /\ n \in Stable
      BY DEF IInv
    <2>2. p1.tip = p2.tip /\ p1.tc = p2.tc
      BY <2>1 DEF IInv, Local, ProposalsOk
    <2>3. p1 \in Proposal_ /\ p2 \in Proposal_
      BY DEF IInv, TypeOK
    <2> QED BY <2>2, <2>3 DEF Proposal_
  <1> QED BY <1>1, Invariance, PTL

(* Only a crash that finds the forkpoint behind takes a validator back,    *)
(* and never below the forkpoint, which only moves forward.                *)
THEOREM NobodyGoesBack == Spec => NeverBack
  <1>1. IInv /\ [Next]_vars => [NoStepBack]_vars
    BY NextOk
  <1> QED BY <1>1, Invariance, PTL DEF Spec, NeverBack, NoStepBack, Forward
-----------------------------------------------------------------------------
(* Blocks ahead of their round, and what timeouts report: a second         *)
(* inductive invariant, on top of IInv.                                    *)

(* Validators that never crash: a restart forgets the high tip, so that a  *)
(* second timeout of the round reports less than the first.                *)
Steady == Honest \ Crashing

(* With Safety s and certificate c no vote for b before b's round can come *)
TooLate(s, c, b) ==
    \/ c.round + 1 >= block_round[b]
    \/ s.highest_vote + 1 >= block_round[b] /\ s.maybe_high_tip # b

(* Blocks that cannot be certified before their round: a quorum whose      *)
(* stable members have not voted for them early and will not do so.        *)
Barred ==
    {b \in Block : \E Q \in Quorum : \A n \in Q \cap Stable :
        /\ TooLate(safety[n], cert[n], b)
        /\ \A v \in votes : v.node = n /\ v.id = b => v.round >= block_round[b]}

(* In round r, b is not ahead of its round, or barred *)
Timely(b, r, bs) == block_round[b] <= r \/ b \in bs

(* The QC in a certificate is not of a later round; the tip a TC carries   *)
(* may be proposed again in the next round.                                *)
CertTimely(c, bs) ==
    /\ c.qc_round <= c.round
    /\ c.tip \in Block => Timely(c.tip, c.round + 1, bs)

ProposalTimely(p, bs) == Timely(p.tip, p.round, bs) /\ CertTimely(p.tc, bs)

SafetyTimely(s, c, bs) ==
    /\ s.high_certificate_qc_round <= c.round
    /\ s.maybe_high_tip \in Block => Timely(s.maybe_high_tip, c.round + 1, bs)

(* A timeout ends voting in its round. *)
TimeoutsOk(n, s, ts) == \A t \in ts : t.node = n => t.round <= s.highest_vote

(* The timeouts of the current round report the high tip; a vote for the   *)
(* round's own block makes it the high tip; so each timeout of a round     *)
(* reports the round's own block if its sender has voted for it.           *)
ReportsOk(n, s, c, vs, ts) ==
    /\ \A t \in ts : t.node = n /\ t.round = c.round + 1 =>
          t.info = ExtendRank(s.maybe_high_tip, c.qc_round)
    /\ \A v \in vs : v.node = n /\ block_round[v.id] = v.round /\ v.round = c.round + 1 =>
          s.maybe_high_tip = v.id
    /\ \A v \in vs, t \in ts :
          v.node = n /\ t.node = n /\ v.round = t.round /\ block_round[v.id] = v.round =>
             t.info = TipRank(v.id)

CInv ==
    /\ \A c \in recoveries : CertTimely(c, Barred)
    /\ \A p \in proposals \cup creating : ProposalTimely(p, Barred)
    /\ \A v \in votes : Timely(v.id, v.round, Barred)
    /\ \A n \in Honest :
          /\ CertTimely(cert[n], Barred)
          /\ CertTimely(forkpoint[n].cert, Barred)
          /\ SafetyTimely(safety[n], cert[n], Barred)
          /\ n \in Stable => TimeoutsOk(n, safety[n], timeouts)
          /\ n \in Steady => ReportsOk(n, safety[n], cert[n], votes, timeouts)

(* The same of a running handler of validator n.  Its votes are of rounds  *)
(* it has not acted in, or repeat the high tip it started with.            *)
VotesTimely(n, vs) ==
    \A v \in vs :
        /\ Timely(v.id, v.round, Barred)
        /\ v.round >= cert[n].round + 1
        /\ v.round > safety[n].highest_vote \/ v.id = safety[n].maybe_high_tip

TipTraced(n, s, c) ==
    s.maybe_high_tip \in Block =>
        s.maybe_high_tip = safety[n].maybe_high_tip \/ c.round + 1 > safety[n].highest_vote

SentTimely(n, st) ==
    /\ \A c \in st.recoveries : CertTimely(c, Barred)
    /\ \A p \in st.proposals \cup st.creating : ProposalTimely(p, Barred)
    /\ VotesTimely(n, st.votes)
    /\ \A t \in st.timeouts : t.node = n
    /\ CertTimely(st.cert, Barred)
    /\ SafetyTimely(st.safety, st.cert, Barred)

Timed(n, st) ==
    /\ SentTimely(n, st)
    /\ TipTraced(n, st.safety, st.cert)
    /\ n \in Stable => TimeoutsOk(n, st.safety, timeouts \cup st.timeouts)
    /\ n \in Steady =>
          ReportsOk(n, st.safety, st.cert, votes \cup st.votes, timeouts \cup st.timeouts)

LEMMA SteadyStable == IInv => Steady \subseteq Stable
  BY DEF IInv, Steady, Stable

LEMMA TimedBegin ==
    ASSUME IInv, CInv, NEW n \in Honest
    PROVE  Timed(n, Begin(n))
  <1> DEFINE st == Begin(n)
  <1>1. /\ st.safety = safety[n] /\ st.cert = cert[n]
        /\ st.votes = {} /\ st.proposals = {} /\ st.timeouts = {}
        /\ st.creating = {} /\ st.recoveries = {}
    BY DEF Begin
  <1>2. votes \cup {} = votes /\ timeouts \cup {} = timeouts
    OBVIOUS
  <1> HIDE DEF st
  <1>3. Timed(n, st)
    BY <1>1, <1>2 DEF Timed, SentTimely, CInv, VotesTimely, TipTraced
  <1> QED BY <1>3 DEF st

(* A later certificate: every timeout and vote so far is of an earlier     *)
(* round than the one it starts.                                           *)
LEMMA TimedAdvance ==
    ASSUME IInv, CInv, NEW n \in Honest, NEW st, Good(n, st), Timed(n, st),
           NEW c \in RoundCertificate, CertTimely(c, Barred)
    PROVE  Timed(n, ProcessCertificate(st, c))
  <1>1. CASE c.round <= st.cert.round
    BY <1>1 DEF ProcessCertificate
  <1>2. CASE ~ (c.round <= st.cert.round)
    <2> DEFINE st2 == ProcessCertificate(st, c)
    <2>0. st \in HandlerState /\ c.round \in Nat /\ c.qc_round \in Nat
      BY DEF Good, RoundCertificate
    <2>1. /\ st2 \in HandlerState
          /\ st2.safety = SafetyProcessCertificate(st.safety, c)
          /\ st2.cert = c
          /\ st2.votes = st.votes /\ st2.timeouts = st.timeouts
          /\ st2.proposals = st.proposals /\ st2.creating = st.creating
          /\ st2.recoveries = st.recoveries
      BY <1>2, <2>0, AdvanceType DEF HandlerState, ProcessCertificate
    <2>2. /\ st2.safety.highest_vote = st.safety.highest_vote
          /\ st2.safety.maybe_high_tip \in {None, st.safety.maybe_high_tip}
          /\ st2.safety.high_certificate_qc_round
                \in {st.safety.high_certificate_qc_round, c.qc_round}
      BY <2>0, <2>1, HandlerFields, BlockAssumption
      DEF SafetyProcessCertificate, SafetyState, Maximum
    <2> HIDE DEF st2
    <2>3. SafetyTimely(st2.safety, c, Barred)
      <3>1. st2.safety.high_certificate_qc_round <= c.round
        BY <1>2, <2>0, <2>2, HandlerFields DEF Timed, SentTimely, SafetyTimely, CertTimely
      <3>2. \A b \in Block : Timely(b, st.cert.round + 1, Barred) => Timely(b, c.round + 1, Barred)
        BY <1>2, <2>0, HandlerFields, BlockAssumption DEF Timely
      <3> QED BY <2>2, <3>1, <3>2, BlockAssumption DEF Timed, SentTimely, SafetyTimely
    <2>4. TipTraced(n, st2.safety, c)
      BY <1>2, <2>0, <2>2, HandlerFields, NodeFields, BlockAssumption DEF Timed, SentTimely, TipTraced, IInv
    <2>5. n \in Stable => TimeoutsOk(n, st2.safety, timeouts \cup st.timeouts)
      BY <2>2 DEF Timed, SentTimely, TimeoutsOk
    <2>6. ASSUME n \in Steady
          PROVE  ReportsOk(n, st2.safety, c, votes \cup st.votes, timeouts \cup st.timeouts)
      <3>1. st.safety.highest_vote < c.round + 1
        BY <1>2, <2>0, HandlerFields DEF Good, RoundBounds
      <3>2. \A t \in timeouts \cup st.timeouts : t.node = n => t.round # c.round + 1
        <4>1. \A t \in timeouts \cup st.timeouts : t.round \in Nat
          BY <2>0 DEF IInv, TypeOK, HandlerState, Timeout_
        <4> QED BY <2>0, <2>6, <3>1, <4>1, HandlerFields, SteadyStable DEF Timed, SentTimely, TimeoutsOk
      <3>3. \A v \in votes \cup st.votes : v.node = n => v.round # c.round + 1
        <4>1. \A v \in votes \cup st.votes : v.round \in Nat
          BY <2>0 DEF IInv, TypeOK, HandlerState, Vote_
        <4>2. \A v \in votes \cup st.votes : v.node = n => v.round <= st.safety.highest_vote
          BY <2>6, SteadyStable DEF Good, Local, VotesOk
        <4> QED BY <2>0, <3>1, <4>1, <4>2, HandlerFields
      <3> QED BY <2>6, <3>2, <3>3 DEF Timed, SentTimely, ReportsOk
    <2> QED BY <2>1, <2>3, <2>4, <2>5, <2>6 DEF Timed, SentTimely, st2
  <1> QED BY <1>1, <1>2

LEMMA TimedCommit ==
    ASSUME NEW n \in Honest, NEW st, Good(n, st), Timed(n, st),
           NEW b \in Block, NEW r, NEW st2 \in TryCommit(st, b, r)
    PROVE  Timed(n, st2)
  <1>1. /\ st2.safety = st.safety /\ st2.cert = st.cert
        /\ st2.votes = st.votes /\ st2.timeouts = st.timeouts
        /\ st2.proposals = st.proposals /\ st2.creating = st.creating
        /\ st2.recoveries = st.recoveries
    BY DEF TryCommit, Good, HandlerState
  <1> QED BY <1>1 DEF Timed, SentTimely

(* What try_propose emits is the certificate's tip again, a block of the   *)
(* round or the certificate itself.                                        *)
LEMMA TimedPropose ==
    ASSUME NEW n \in Honest, NEW st, Good(n, st), Timed(n, st), NEW st2 \in TryPropose(n, st)
    PROVE  Timed(n, st2)
  <1> DEFINE r == st.cert.round + 1
             Same == /\ st2.cert = st.cert /\ st2.votes = st.votes /\ st2.timeouts = st.timeouts
                     /\ st2.safety.maybe_high_tip = st.safety.maybe_high_tip
                     /\ st2.safety.high_certificate_qc_round = st.safety.high_certificate_qc_round
                     /\ st2.safety.highest_vote = st.safety.highest_vote
  <1>0. st \in HandlerState /\ r \in Nat
    BY HandlerFields DEF Good
  <1>1. ASSUME Same, \A c \in st2.recoveries : CertTimely(c, Barred),
               \A p \in st2.proposals \cup st2.creating : ProposalTimely(p, Barred)
        PROVE  Timed(n, st2)
    BY <1>1 DEF Timed, SentTimely, SafetyTimely, TipTraced, TimeoutsOk, ReportsOk
  <1>2. CASE st2 = st
    BY <1>2
  <1>3. CASE st.cert.tip # None /\ st2 \in TryRepropose(st, r)
    <2>1. CASE st2 = [st EXCEPT !.safety = Propose(@, r),
                         !.proposals = @ \cup {[round |-> r, tip |-> st.cert.tip, tc |-> st.cert]}]
      <3> DEFINE p == [round |-> r, tip |-> st.cert.tip, tc |-> st.cert]
      <3>1. st.cert.tip \in Block
        BY <1>0, <1>3, HandlerFields
      <3>2. ProposalTimely(p, Barred)
        BY <3>1 DEF Timed, SentTimely, ProposalTimely, CertTimely
      <3>3. /\ st2.safety = Propose(st.safety, r) /\ st2.proposals = st.proposals \cup {p}
            /\ st2.cert = st.cert /\ st2.votes = st.votes /\ st2.timeouts = st.timeouts
            /\ st2.creating = st.creating /\ st2.recoveries = st.recoveries
        BY <1>0, <2>1 DEF HandlerState
      <3>4. Same
        BY <1>0, <3>3, HandlerFields DEF Propose, SafetyState
      <3> HIDE DEF p, r, Same
      <3> QED BY <1>1, <3>2, <3>3, <3>4 DEF Timed, SentTimely
    <2>2. CASE st2 = [st EXCEPT !.safety = RecoveryRequest(@, r),
                         !.recoveries = @ \cup {st.cert}]
      <3>1. /\ st2.safety = RecoveryRequest(st.safety, r) /\ st2.proposals = st.proposals
            /\ st2.cert = st.cert /\ st2.votes = st.votes /\ st2.timeouts = st.timeouts
            /\ st2.creating = st.creating /\ st2.recoveries = st.recoveries \cup {st.cert}
        BY <1>0, <2>2 DEF HandlerState
      <3>2. Same
        BY <1>0, <3>1, HandlerFields DEF RecoveryRequest, SafetyState
      <3> HIDE DEF r, Same
      <3> QED BY <1>1, <3>1, <3>2 DEF Timed, SentTimely
    <2> QED BY <1>2, <1>3, <2>1, <2>2 DEF TryRepropose
  <1>4. CASE st2 \in TryProposeFresh(n, st, r) /\ st2 # st
    <2> DEFINE tc == IF st.cert.tc THEN st.cert ELSE NoTc
               p(x) == [node |-> n, round |-> r, tip |-> x, tc |-> tc]
    <2>1. PICK x \in Block :
              /\ block_round[x] = r
              /\ st2 = [st EXCEPT !.safety = Propose(@, r), !.creating = @ \cup {p(x)}]
      BY <1>4 DEF TryProposeFresh
    <2>2. CertTimely(tc, Barred)
      BY BlockAssumption DEF Timed, SentTimely, CertTimely, NoTc, TcCert
    <2>3. ProposalTimely(p(x), Barred)
      <3>1. p(x).tip = x /\ p(x).round = r /\ p(x).tc = tc
        OBVIOUS
      <3> HIDE DEF p, tc, r
      <3> QED BY <1>0, <2>1, <2>2, <3>1 DEF ProposalTimely, Timely
    <2>4. /\ st2.safety = Propose(st.safety, r) /\ st2.creating = st.creating \cup {p(x)}
          /\ st2.cert = st.cert /\ st2.votes = st.votes /\ st2.timeouts = st.timeouts
          /\ st2.proposals = st.proposals /\ st2.recoveries = st.recoveries
      BY <1>0, <2>1 DEF HandlerState
    <2>5. Same
      BY <1>0, <2>4, HandlerFields DEF Propose, SafetyState
    <2> HIDE DEF p, r, tc, Same
    <2> QED BY <1>1, <2>3, <2>4, <2>5 DEF Timed, SentTimely
  <1> QED BY <1>2, <1>3, <1>4 DEF TryPropose

LEMMA TimedProcess ==
    ASSUME IInv, CInv, NEW n \in Honest, NEW st, Good(n, st), Timed(n, st)
    PROVE  /\ \A b \in Block, r \in Nat : \A st2 \in ProcessQc(n, st, b, r) : Timed(n, st2)
           /\ \A c \in RoundCertificate : CertOk(c) /\ CertTimely(c, Barred) =>
                \A st2 \in ProcessTc(n, st, c) : Timed(n, st2)
  <1>1. ASSUME NEW b \in Block, NEW r \in Nat, NEW st2 \in ProcessQc(n, st, b, r)
        PROVE  Timed(n, st2)
    <2>1. QcCert(r) \in RoundCertificate /\ CertOk(QcCert(r)) /\ CertTimely(QcCert(r), Barred)
      BY BlockAssumption DEF QcCert, RoundCertificate, CertOk, CertTimely
    <2>2. ASSUME NEW s \in TryCommit(st, b, r),
                 NEW t \in TryPropose(n, ProcessCertificate(s, QcCert(r)))
          PROVE  Timed(n, t)
      <3>1. Good(n, s) /\ Timed(n, s)
        BY GoodCommit, TimedCommit
      <3>2. /\ Good(n, ProcessCertificate(s, QcCert(r)))
            /\ Timed(n, ProcessCertificate(s, QcCert(r)))
        BY <2>1, <3>1, GoodAdvance, TimedAdvance
      <3> QED BY <3>2, TimedPropose
    <2> QED BY <2>2 DEF ProcessQc
  <1>2. ASSUME NEW c \in RoundCertificate, CertOk(c), CertTimely(c, Barred),
               NEW st2 \in ProcessTc(n, st, c)
        PROVE  Timed(n, st2)
    <2>1. Good(n, ProcessCertificate(st, c)) /\ Timed(n, ProcessCertificate(st, c))
      BY <1>2, GoodAdvance, TimedAdvance
    <2> QED BY <1>2, <2>1, TimedPropose DEF ProcessTc
  <1> QED BY <1>1, <1>2

(* try_vote: nobody votes in a round after timing out in it, and the       *)
(* round's own block is above every QC seen, so it becomes the high tip.   *)
LEMMA TimedVote ==
    ASSUME IInv, CInv, NEW n \in Honest, NEW st, Good(n, st), Timed(n, st),
           NEW p \in Proposal_, ProposalTimely(p, Barred), NEW st2 \in TryVote(n, st, p)
    PROVE  Timed(n, st2)
  <1>0. st \in HandlerState /\ p.round \in Nat /\ p.tip \in Block
    BY DEF Good, Proposal_
  <1> DEFINE new == [node |-> n, id |-> p.tip, round |-> p.round]
  <1>1. CASE st2 = st
    BY <1>1
  <1>2. CASE /\ p.round = st.cert.round + 1
             /\ IsSafeToVote(st.safety, p.round, p.tc.tip)
             /\ st2 = [st EXCEPT !.safety = Vote(@, p.round, p.tip), !.votes = @ \cup {new}]
    <2>1. /\ st2.safety = Vote(st.safety, p.round, p.tip)
          /\ st2.votes = st.votes \cup {new}
          /\ st2.cert = st.cert /\ st2.timeouts = st.timeouts
          /\ st2.proposals = st.proposals /\ st2.creating = st.creating
          /\ st2.recoveries = st.recoveries
      BY <1>0, <1>2 DEF HandlerState
    <2>2. /\ st2.safety.highest_vote = p.round
          /\ st2.safety.high_certificate_qc_round = st.safety.high_certificate_qc_round
          /\ st2.safety.maybe_high_tip \in {None, p.tip}
          /\ block_round[p.tip] > st.safety.high_certificate_qc_round =>
                st2.safety.maybe_high_tip = p.tip
      BY <1>0, <2>1, HandlerFields DEF Vote, SafetyState
    <2>3. p.round > st.safety.highest_vote /\ p.round > safety[n].highest_vote
      BY <1>0, <1>2, HandlerFields, NodeFields DEF IsSafeToVote, Good, Ahead, IInv
    <2>4. VotesTimely(n, st2.votes)
      <3>1. new.id = p.tip /\ new.round = p.round
        OBVIOUS
      <3>2. p.round >= cert[n].round + 1
        BY <1>0, <1>2, HandlerFields, NodeFields DEF Good, Ahead, IInv
      <3> HIDE DEF new
      <3> QED BY <2>1, <2>3, <3>1, <3>2 DEF Timed, SentTimely, VotesTimely, ProposalTimely
    <2>5. SafetyTimely(st2.safety, st.cert, Barred) /\ TipTraced(n, st2.safety, st.cert)
      BY <1>2, <2>2, <2>3, BlockAssumption
      DEF Timed, SentTimely, SafetyTimely, TipTraced, ProposalTimely
    <2>6. n \in Stable => TimeoutsOk(n, st2.safety, timeouts \cup st.timeouts)
      <3>1. \A t \in timeouts \cup st.timeouts : t.round \in Nat
        BY <1>0 DEF IInv, TypeOK, HandlerState, Timeout_
      <3> QED BY <1>0, <2>2, <2>3, <3>1, HandlerFields DEF Timed, SentTimely, TimeoutsOk
    <2>7. ASSUME n \in Steady
          PROVE  ReportsOk(n, st2.safety, st.cert, votes \cup st.votes \cup {new},
                           timeouts \cup st.timeouts)
      <3>1. \A t \in timeouts \cup st.timeouts : t.node = n => t.round # p.round
        <4>1. \A t \in timeouts \cup st.timeouts : t.round \in Nat
          BY <1>0 DEF IInv, TypeOK, HandlerState, Timeout_
        <4> QED BY <1>0, <2>3, <2>7, <4>1, HandlerFields, SteadyStable DEF Timed, SentTimely, TimeoutsOk
      <3>2. \A v \in votes \cup st.votes : v.node = n => v.round # p.round
        <4>1. \A v \in votes \cup st.votes : v.round \in Nat
          BY <1>0 DEF IInv, TypeOK, HandlerState, Vote_
        <4>2. \A v \in votes \cup st.votes : v.node = n => v.round <= st.safety.highest_vote
          BY <2>7, SteadyStable DEF Good, Local, VotesOk
        <4> QED BY <1>0, <2>3, <4>1, <4>2, HandlerFields
      <3>3. block_round[p.tip] = p.round => st2.safety.maybe_high_tip = p.tip
        BY <1>0, <1>2, <2>2, HandlerFields DEF Timed, SentTimely, SafetyTimely
      <3>4. new.id = p.tip /\ new.round = p.round
        OBVIOUS
      <3> HIDE DEF new
      <3> QED BY <1>2, <2>7, <3>1, <3>2, <3>3, <3>4 DEF Timed, SentTimely, ReportsOk
    <2>8. votes \cup st2.votes = votes \cup st.votes \cup {new}
      BY <2>1
    <2> HIDE DEF new
    <2> QED BY <2>1, <2>4, <2>5, <2>6, <2>7, <2>8 DEF Timed, SentTimely
  <1> QED BY <1>1, <1>2 DEF TryVote

(* local_timeout_round: the high tip is reported and may be voted for. *)
LEMMA TimedTimeout ==
    ASSUME IInv, CInv, NEW n \in Honest, NEW st, Good(n, st), Timed(n, st)
    PROVE  Timed(n, LocalTimeout(n, st))
  <1> DEFINE st2 == LocalTimeout(n, st)
             r == st.cert.round + 1
             tip == st.safety.maybe_high_tip
             info == ExtendRank(tip, st.cert.qc_round)
             new == [node |-> n, round |-> r, info |-> info]
             vote == [node |-> n, id |-> tip, round |-> r]
  <1>0. /\ st \in HandlerState /\ r \in Nat /\ tip \in Block \cup {None}
        /\ st.safety.highest_vote \in Nat /\ st.safety.highest_vote <= r
    BY HandlerFields DEF Good, RoundBounds
  <1>1. /\ st2.safety = Timeout(st.safety, r)
        /\ st2.timeouts = st.timeouts \cup {new}
        /\ st2.cert = st.cert
        /\ st2.proposals = st.proposals /\ st2.creating = st.creating
        /\ st2.recoveries = st.recoveries
        /\ \/ st2.votes = st.votes
           \/ tip # None /\ st2.votes = st.votes \cup {vote}
    BY <1>0 DEF LocalTimeout, HandlerState
  <1>2. /\ st2.safety.highest_vote = r
        /\ st2.safety.high_certificate_qc_round = st.safety.high_certificate_qc_round
        /\ st2.safety.maybe_high_tip = tip
    BY <1>0, <1>1, HandlerFields DEF Timeout, SafetyState
  <1>3. /\ vote.node = n /\ vote.id = tip /\ vote.round = r
        /\ new.node = n /\ new.round = r /\ new.info = info
    OBVIOUS
  <1>4. tip # None => info = TipRank(tip)
    BY DEF ExtendRank
  <1> HIDE DEF st2, new, vote
  <1>5. VotesTimely(n, st2.votes)
    <2>1. ASSUME tip # None
          PROVE  /\ Timely(tip, r, Barred) /\ r >= cert[n].round + 1
                 /\ r > safety[n].highest_vote \/ tip = safety[n].maybe_high_tip
      <3>1. tip \in Block
        BY <1>0, <2>1
      <3>2. r >= cert[n].round + 1
        BY <1>0, HandlerFields, NodeFields DEF Good, Ahead, IInv
      <3> HIDE DEF tip, r
      <3> QED BY <3>1, <3>2 DEF Timed, SentTimely, SafetyTimely, TipTraced, tip, r
    <2> HIDE DEF tip, r
    <2> QED BY <1>1, <1>3, <2>1 DEF Timed, SentTimely, VotesTimely
  <1>6. SafetyTimely(st2.safety, st.cert, Barred) /\ TipTraced(n, st2.safety, st.cert)
    BY <1>2 DEF Timed, SentTimely, SafetyTimely, TipTraced
  <1>7. n \in Stable => TimeoutsOk(n, st2.safety, timeouts \cup st2.timeouts)
    <2>1. \A t \in timeouts \cup st.timeouts : t.round \in Nat
      BY <1>0 DEF IInv, TypeOK, HandlerState, Timeout_
    <2> HIDE DEF r
    <2> QED BY <1>0, <1>1, <1>2, <1>3, <2>1 DEF Timed, SentTimely, TimeoutsOk
  <1>8. ASSUME n \in Steady
        PROVE  ReportsOk(n, st2.safety, st.cert, votes \cup st2.votes, timeouts \cup st2.timeouts)
    <2> DEFINE vs == votes \cup st.votes
               ts == timeouts \cup st.timeouts
    <2>1. /\ \A t \in ts : t.node = n /\ t.round = r => t.info = info
          /\ \A v \in vs : v.node = n /\ block_round[v.id] = v.round /\ v.round = r => tip = v.id
          /\ \A v \in vs, t \in ts :
                v.node = n /\ t.node = n /\ v.round = t.round /\ block_round[v.id] = v.round =>
                   t.info = TipRank(v.id)
      BY <1>8 DEF Timed, SentTimely, ReportsOk
    <2>2. /\ \A t \in timeouts \cup st2.timeouts : t \in ts \/ t = new
          /\ \A v \in votes \cup st2.votes : v \in vs \/ (tip # None /\ v = vote)
      BY <1>1
    <2>3. \A v \in vs : v.id \in Block
      BY <1>0 DEF IInv, TypeOK, HandlerState, Vote_
    <2>4. None \notin Block
      BY BlockAssumption
    <2> HIDE DEF vs, ts, info, tip
    <2>5. \A t \in timeouts \cup st2.timeouts : t.node = n /\ t.round = r => t.info = info
      BY <1>3, <2>1, <2>2
    <2>6. \A v \in votes \cup st2.votes :
             v.node = n /\ block_round[v.id] = v.round /\ v.round = r => tip = v.id
      BY <1>3, <2>1, <2>2
    <2>7. ASSUME NEW v \in votes \cup st2.votes, NEW t \in timeouts \cup st2.timeouts,
                 v.node = n, t.node = n, v.round = t.round, block_round[v.id] = v.round
          PROVE  t.info = TipRank(v.id)
      <3>1. CASE v \in vs /\ t \in ts
        BY <2>1, <2>7, <3>1
      <3>2. CASE v.round = r
        <4>1. tip = v.id /\ t.info = info
          BY <2>5, <2>6, <2>7, <3>2
        <4>2. v.id # None
          BY <1>3, <2>2, <2>3, <2>4
        <4> QED BY <1>4, <4>1, <4>2
      <3> QED BY <1>3, <2>2, <2>7, <3>1, <3>2
    <2> QED BY <1>2, <2>5, <2>6, <2>7 DEF ReportsOk, info
  <1>9. \A t \in st2.timeouts : t.node = n
    BY <1>1, <1>3 DEF Timed, SentTimely
  <1> QED BY <1>1, <1>5, <1>6, <1>7, <1>8, <1>9 DEF Timed, SentTimely, st2

LEMMA TimedNoEndorse ==
    ASSUME NEW n \in Honest, NEW st, Good(n, st), Timed(n, st),
           NEW c \in TipTc, NEW st2 \in NoEndorseTip(n, st, c)
    PROVE  Timed(n, st2)
  <1>0. st \in HandlerState
    BY DEF Good
  <1>1. CASE st2 = st
    BY <1>1
  <1>2. CASE st2 = [st EXCEPT !.safety = NoEndorse(@, c.round + 1, c.tip),
                       !.nes = @ \cup {[node |-> n, round |-> c.round + 1,
                                        tip_qc_round |-> c.qc_round]}]
    <2>1. /\ st2.safety = NoEndorse(st.safety, c.round + 1, c.tip)
          /\ st2.votes = st.votes /\ st2.timeouts = st.timeouts /\ st2.cert = st.cert
          /\ st2.proposals = st.proposals /\ st2.creating = st.creating
          /\ st2.recoveries = st.recoveries
      BY <1>0, <1>2 DEF HandlerState
    <2>2. /\ st2.safety.highest_vote = st.safety.highest_vote
          /\ st2.safety.high_certificate_qc_round = st.safety.high_certificate_qc_round
          /\ st2.safety.maybe_high_tip = st.safety.maybe_high_tip
      BY <1>0, <2>1, HandlerFields DEF NoEndorse, SafetyState
    <2> QED BY <2>1, <2>2 DEF Timed, SentTimely, SafetyTimely, TipTraced, TimeoutsOk, ReportsOk
  <1> QED BY <1>1, <1>2 DEF NoEndorseTip

(* A valid tip is of the round after its QC, or barred: unless somebody    *)
(* has voted for it early already, whoever no-endorsed in its round or     *)
(* timed out in the round before it cannot do so any more.                 *)
LEMMA TipsTimely ==
    ASSUME IInv, CInv, NEW b \in Tips
    PROVE  b \in Block /\ (block_round[b] = qc_round[b] + 1 \/ b \in Barred)
  <1>0. b \in Block /\ IsTip(b) /\ block_round[b] \in Nat
    BY BlockAssumption DEF Tips
  <1>1. ASSUME NEW v \in votes, v.id = b, ~ (v.round >= block_round[b])
        PROVE  b \in Barred
    <2>1. Timely(b, v.round, Barred) /\ v.round \in Nat
      BY <1>1 DEF CInv, IInv, TypeOK, Vote_
    <2> QED BY <1>0, <1>1, <2>1 DEF Timely
  <1>2. ASSUME \A v \in votes : v.id = b => v.round >= block_round[b],
               NEW Q \in Quorum,
               \A n \in Q \cap Stable : TooLate(safety[n], cert[n], b)
        PROVE  b \in Barred
    BY <1>0, <1>2 DEF Barred
  <1>3. ASSUME IsNec(block_round[b], qc_round[b]),
               \A v \in votes : v.id = b => v.round >= block_round[b]
        PROVE  b \in Barred
    <2>1. PICK Q \in Quorum : Q \subseteq Faulty \cup
              {e.node : e \in {f \in nes : f.round = block_round[b] /\ f.tip_qc_round = qc_round[b]}}
      BY <1>3 DEF IsNec, HasQuorum
    <2>2. ASSUME NEW n \in Q \cap Stable PROVE TooLate(safety[n], cert[n], b)
      <3>1. n \in Honest /\ n \notin Faulty
        BY <2>2 DEF Stable, Honest
      <3>2. PICK e \in nes : e.node = n /\ e.round = block_round[b]
        BY <2>1, <2>2, <3>1
      <3>3. e.round <= safety[n].highest_no_endorse.round
        BY <2>2, <3>1, <3>2 DEF IInv, Local, NesOk
      <3>4. safety[n].highest_no_endorse.round <= cert[n].round + 1
        BY <3>1 DEF IInv, RoundBounds
      <3> QED BY <1>0, <3>1, <3>2, <3>3, <3>4, NodeFields DEF TooLate, IInv
    <2> QED BY <1>2, <1>3, <2>1, <2>2
  <1>4. ASSUME IsNoTipTc(block_round[b] - 1, qc_round[b]),
               \A v \in votes : v.id = b => v.round >= block_round[b]
        PROVE  b \in Barred
    <2>1. PICK Q \in Quorum : Q \subseteq Faulty \cup
              {t.node : t \in {u \in timeouts : u.round = block_round[b] - 1}}
      BY <1>4 DEF IsNoTipTc, TimeoutQuorum
    <2>2. ASSUME NEW n \in Q \cap Stable PROVE TooLate(safety[n], cert[n], b)
      <3>1. n \in Honest /\ n \notin Faulty
        BY <2>2 DEF Stable, Honest
      <3>2. PICK t \in timeouts : t.node = n /\ t.round = block_round[b] - 1
        BY <2>1, <2>2, <3>1
      <3>3. t.round <= safety[n].highest_vote
        BY <2>2, <3>1, <3>2 DEF CInv, TimeoutsOk
      <3>4. ASSUME safety[n].maybe_high_tip = b PROVE cert[n].round + 1 >= block_round[b]
        <4>1. PICK v \in votes : v.node = n /\ v.id = b
          BY <1>0, <2>2, <3>1, <3>4, BlockAssumption DEF IInv, Local, NesOk
        <4>2. v.round <= safety[n].highest_vote /\ v.round >= block_round[b]
          BY <1>4, <2>2, <3>1, <4>1 DEF IInv, Local, VotesOk
        <4>3. safety[n].highest_vote <= cert[n].round + 1
          BY <3>1 DEF IInv, RoundBounds
        <4>4. v.round \in Nat
          BY DEF IInv, TypeOK, Vote_
        <4> QED BY <1>0, <3>1, <4>2, <4>3, <4>4, NodeFields DEF IInv
      <3>5. safety[n].highest_vote + 1 >= block_round[b]
        BY <1>0, <3>1, <3>2, <3>3, NodeFields DEF IInv
      <3> QED BY <3>4, <3>5 DEF TooLate
    <2> QED BY <1>2, <1>4, <2>1, <2>2
  <1> QED BY <1>0, <1>1, <1>3, <1>4 DEF IsTip

(* What passes validation is timely. *)
LEMMA ValidTimely ==
    ASSUME IInv, CInv
    PROVE  /\ \A c \in Tcs(Tips) \cup ValidRecoveries(Tcs(Tips)) : CertTimely(c, Barred)
           /\ \A p \in ValidProposals(Tips, Tcs(Tips)) : ProposalTimely(p, Barred)
  <1>1. ASSUME NEW c \in Tcs(Tips) PROVE CertTimely(c, Barred)
    <2> DEFINE rounds == {t.round : t \in timeouts}
    <2>0. rounds \subseteq Nat /\ Round \subseteq Nat
      BY RoundAssumption DEF IInv, TypeOK, Round
    <2>1. CASE \E rq \in rounds \X Round : c = TcCert(rq[1], None, rq[2]) /\ IsNoTipTc(rq[1], rq[2])
      <3>1. PICK r \in rounds, q \in Round : c = TcCert(r, None, q) /\ IsNoTipTc(r, q)
        BY <2>1
      <3>2. q < r /\ c.tip = None /\ c.round = r /\ c.qc_round = q
        BY <3>1 DEF IsNoTipTc, TcCert
      <3> QED BY <2>0, <3>2, BlockAssumption DEF CertTimely
    <2>2. CASE \E rb \in rounds \X Tips :
                  c = TcCert(rb[1], rb[2], qc_round[rb[2]]) /\ IsTipTc(rb[1], rb[2])
      <3>1. PICK r \in rounds, b \in Tips : c = TcCert(r, b, qc_round[b]) /\ IsTipTc(r, b)
        BY <2>2
      <3>2. qc_round[b] < r /\ c.tip = b /\ c.round = r /\ c.qc_round = qc_round[b]
        BY <3>1 DEF IsTipTc, TcCert
      <3>3. b \in Block /\ (block_round[b] = qc_round[b] + 1 \/ b \in Barred)
        BY TipsTimely
      <3>4. r \in Nat /\ qc_round[b] \in Nat
        BY <2>0, <3>3, BlockAssumption
      <3> QED BY <3>2, <3>3, <3>4 DEF CertTimely, Timely
    <2> QED BY <2>1, <2>2 DEF Tcs
  <1>2. \A c \in ValidRecoveries(Tcs(Tips)) : CertTimely(c, Barred)
    BY <1>1 DEF ValidRecoveries, CInv
  <1>3. ASSUME NEW p \in ValidProposals(Tips, Tcs(Tips)) PROVE ProposalTimely(p, Barred)
    <2>1. CASE p \in proposals
      BY <2>1 DEF CInv
    <2>2. CASE /\ p.tip \in Tips /\ p.tc \in {NoTc} \cup Tcs(Tips)
               /\ WellFormedProposal(p)
      <3>1. CertTimely(NoTc, Barred) /\ NoTc \in RoundCertificate
        BY BlockAssumption DEF NoTc, TcCert, CertTimely, RoundCertificate
      <3>2. CertTimely(p.tc, Barred) /\ p.tc \in RoundCertificate
        BY <1>1, <2>2, <3>1, CertificateType DEF IInv
      <3>3. p.tip \in Block /\ (block_round[p.tip] = qc_round[p.tip] + 1 \/ p.tip \in Barred)
        BY <2>2, TipsTimely
      <3>4. /\ qc_round[p.tip] \in Nat /\ block_round[p.tip] \in Nat
            /\ p.tc.round \in Nat /\ p.tc.qc_round \in Nat
        BY <3>2, <3>3, BlockAssumption DEF RoundCertificate
      <3>5. p.round >= qc_round[p.tip] + 1
        BY <2>2, <3>2, <3>4 DEF WellFormedProposal, CertTimely
      <3>6. p.round \in Nat
        BY CertificateType DEF IInv, Proposal_
      <3> QED BY <3>2, <3>3, <3>4, <3>5, <3>6 DEF ProposalTimely, Timely
    <2> QED BY <2>1, <2>2 DEF ValidProposals
  <1> QED BY <1>1, <1>2, <1>3

LEMMA ReportsOthers ==
    ASSUME NEW m, NEW s, NEW c, NEW vs, NEW ts, NEW vs2, NEW ts2,
           \A v \in vs2 : v.node = m => v \in vs,
           \A t \in ts2 : t.node = m => t \in ts
    PROVE  /\ TimeoutsOk(m, s, ts) => TimeoutsOk(m, s, ts2)
           /\ ReportsOk(m, s, c, vs, ts) => ReportsOk(m, s, c, vs2, ts2)
  BY DEF TimeoutsOk, ReportsOk

(* More blocks barred: what was timely still is. *)
LEMMA TimelyGrows ==
    ASSUME NEW A, NEW B, A \subseteq B
    PROVE  /\ \A b, r : Timely(b, r, A) => Timely(b, r, B)
           /\ \A c : CertTimely(c, A) => CertTimely(c, B)
           /\ \A p : ProposalTimely(p, A) => ProposalTimely(p, B)
           /\ \A s, c : SafetyTimely(s, c, A) => SafetyTimely(s, c, B)
  BY DEF Timely, CertTimely, ProposalTimely, SafetyTimely

LEMMA WriteTimed ==
    ASSUME IInv, CInv, NEW n \in Honest, NEW st \in HandlerState, Emitted(n, st),
           SentTimely(n, st), Write(n, st),
           creating' \subseteq creating \cup st.creating, behind \subseteq behind',
           NEW fork, forkpoint' = [forkpoint EXCEPT ![n] = fork], CertTimely(fork.cert, Barred),
           n \in Stable' => /\ Ahead(n, st) /\ TipTraced(n, st.safety, st.cert)
                            /\ TimeoutsOk(n, st.safety, timeouts \cup st.timeouts),
           n \in Steady =>
              ReportsOk(n, st.safety, st.cert, votes \cup st.votes, timeouts \cup st.timeouts)
    PROVE  CInv'
  <1>0. /\ TypeOK
        /\ votes' = votes \cup st.votes /\ timeouts' = timeouts \cup st.timeouts
        /\ proposals' = proposals \cup st.proposals
        /\ recoveries' = recoveries \cup st.recoveries
        /\ safety' = [safety EXCEPT ![n] = st.safety]
        /\ cert' = [cert EXCEPT ![n] = st.cert]
        /\ Stable' \subseteq Stable
    BY DEF IInv, Write, Stable
  <1>1. /\ safety'[n] = st.safety /\ cert'[n] = st.cert /\ forkpoint'[n] = fork
        /\ \A m \in Honest \ {n} : /\ safety'[m] = safety[m] /\ cert'[m] = cert[m]
                                   /\ forkpoint'[m] = forkpoint[m]
    BY <1>0 DEF TypeOK
  <1>2. Barred \subseteq Barred'
    <2> SUFFICES ASSUME NEW b \in Barred PROVE b \in Barred'
      OBVIOUS
    <2>0. b \in Block /\ block_round[b] \in Nat
      BY BlockAssumption DEF Barred
    <2>1. PICK Q \in Quorum : \A m \in Q \cap Stable :
            /\ TooLate(safety[m], cert[m], b)
            /\ \A v \in votes : v.node = m /\ v.id = b => v.round >= block_round[b]
      BY DEF Barred
    <2>2. ASSUME NEW m \in Q \cap Stable'
          PROVE  /\ TooLate(safety'[m], cert'[m], b)
                 /\ \A v \in votes' : v.node = m /\ v.id = b => v.round >= block_round[b]
      <3>0. m \in Honest /\ m \in Q \cap Stable
        BY <1>0 DEF Stable
      <3>1. CASE m # n
        BY <1>0, <1>1, <2>1, <3>0, <3>1 DEF Emitted
      <3>2. CASE m = n
        <4>0. /\ TooLate(safety[n], cert[n], b)
              /\ \A v \in votes : v.node = n /\ v.id = b => v.round >= block_round[b]
          BY <2>1, <3>0, <3>2
        <4>1. /\ st.cert.round \in Nat /\ cert[n].round \in Nat
              /\ st.safety.highest_vote \in Nat /\ safety[n].highest_vote \in Nat
              /\ st.cert.round >= cert[n].round
              /\ st.safety.highest_vote >= safety[n].highest_vote
          BY <1>0, <2>2, <3>2, HandlerFields, NodeFields DEF Ahead
        <4>2. TooLate(st.safety, st.cert, b)
          <5>1. CASE cert[n].round + 1 >= block_round[b]
            BY <2>0, <4>1, <5>1 DEF TooLate
          <5>2. CASE safety[n].highest_vote + 1 >= block_round[b] /\ safety[n].maybe_high_tip # b
            BY <2>0, <2>2, <3>2, <4>1, <5>2 DEF TooLate, TipTraced
          <5> QED BY <4>0, <5>1, <5>2 DEF TooLate
        <4>3. ASSUME NEW v \in st.votes, v.id = b PROVE v.round >= block_round[b]
          <5>1. /\ v.round >= cert[n].round + 1
                /\ v.round > safety[n].highest_vote \/ safety[n].maybe_high_tip = b
            BY <4>3 DEF SentTimely, VotesTimely
          <5>2. v.round \in Nat
            BY <1>0 DEF HandlerState, Vote_
          <5> QED BY <2>0, <4>0, <4>1, <5>1, <5>2 DEF TooLate
        <4> QED BY <1>0, <1>1, <3>2, <4>0, <4>2, <4>3
      <3> QED BY <3>1, <3>2
    <2> QED BY <2>0, <2>2 DEF Barred
  <1>3. /\ \A b, r : Timely(b, r, Barred) => Timely(b, r, Barred')
        /\ \A c : CertTimely(c, Barred) => CertTimely(c, Barred')
        /\ \A p : ProposalTimely(p, Barred) => ProposalTimely(p, Barred')
        /\ \A s, c : SafetyTimely(s, c, Barred) => SafetyTimely(s, c, Barred')
    BY <1>2, TimelyGrows
  <1>4. /\ \A c \in recoveries' : CertTimely(c, Barred')
        /\ \A p \in proposals' \cup creating' : ProposalTimely(p, Barred')
        /\ \A v \in votes' : Timely(v.id, v.round, Barred')
    BY <1>0, <1>3 DEF CInv, SentTimely, VotesTimely
  <1>5. ASSUME NEW m \in Honest
        PROVE  /\ CertTimely(cert'[m], Barred')
               /\ SafetyTimely(safety'[m], cert'[m], Barred')
               /\ CertTimely(forkpoint'[m].cert, Barred')
               /\ m \in Stable' => TimeoutsOk(m, safety'[m], timeouts')
               /\ m \in Steady => ReportsOk(m, safety'[m], cert'[m], votes', timeouts')
    <2>1. CASE m = n
      BY <1>0, <1>1, <1>3, <2>1 DEF SentTimely
    <2>2. CASE m # n
      <3>1. /\ \A v \in votes' : v.node = m => v \in votes
            /\ \A t \in timeouts' : t.node = m => t \in timeouts
        BY <1>0, <2>2 DEF Emitted, SentTimely
      <3> QED BY <1>0, <1>1, <1>3, <2>2, <3>1, ReportsOthers DEF CInv
    <2> QED BY <2>1, <2>2
  <1> QED BY <1>4, <1>5 DEF CInv

(* A crash, after which a stable validator is as far as its handler was. *)
LEMMA CrashTimed ==
    ASSUME IInv, CInv, NEW n \in Honest, NEW st, Good(n, st), Timed(n, st), Crash(n, st)
    PROVE  CInv'
  <1> DEFINE new == Restarted(n, st)
             fork == forkpoint[n]
             s == SafetyNew(fork.cert)
  <1>0. /\ TypeOK /\ st \in HandlerState /\ n \in Crashing
        /\ Write(n, new) /\ creating' \subseteq creating
        /\ behind' = IF st.cert = fork.cert THEN behind ELSE behind \cup {n}
        /\ forkpoint' = forkpoint
    BY DEF IInv, Good, Crash, Restarted
  <1>1. /\ new \in HandlerState /\ new.safety = s /\ new.cert = fork.cert
        /\ new.votes = st.votes /\ new.nes = st.nes /\ new.proposals = st.proposals
        /\ new.creating = st.creating /\ new.recoveries = st.recoveries
        /\ new.timeouts = st.timeouts
    BY <1>0, RestartedFields
  <1>2. s.maybe_high_tip = None /\ s.high_certificate_qc_round = fork.cert.qc_round
    BY DEF SafetyNew
  <1>3. forkpoint' = [forkpoint EXCEPT ![n] = fork] /\ CertTimely(fork.cert, Barred)
    BY <1>0 DEF TypeOK, CInv
  <1> HIDE DEF new
  <1>4. ASSUME st.cert = fork.cert, n \in Stable
        PROVE  Ahead(n, new) /\ TimeoutsOk(n, new.safety, timeouts \cup new.timeouts)
    <2>1. /\ s.highest_vote >= st.safety.highest_vote
          /\ s.highest_no_endorse.round >= st.safety.highest_no_endorse.round
          /\ s.highest_propose >= st.safety.highest_propose
      BY <1>4, SafetyNewOk
    <2>2. /\ s \in SafetyState /\ s.highest_vote \in Nat /\ s.highest_propose \in Nat
          /\ s.highest_no_endorse.round \in Nat
      BY <1>0, NodeFields, SafetyNewBounds DEF SafetyState, HighNoEndorse
    <2>3. \A t \in timeouts \cup st.timeouts : t.round \in Nat
      BY <1>0 DEF TypeOK, HandlerState, Timeout_
    <2> HIDE DEF s
    <2>4. Ahead(n, new)
      BY <1>0, <1>1, <1>4, <2>1, <2>2, HandlerFields, NodeFields DEF Good, Ahead
    <2>5. TimeoutsOk(n, s, timeouts \cup st.timeouts)
      BY <1>0, <1>4, <2>1, <2>2, <2>3, HandlerFields DEF Timed, TimeoutsOk
    <2> QED BY <1>1, <2>4, <2>5
  <1> HIDE DEF s
  <1>5. SafetyTimely(new.safety, new.cert, Barred) /\ TipTraced(n, new.safety, new.cert)
    BY <1>1, <1>2, <1>3, BlockAssumption DEF CertTimely, SafetyTimely, TipTraced
  <1>6. SentTimely(n, new) /\ Emitted(n, new)
    BY <1>1, <1>3, <1>5 DEF Timed, SentTimely, Good, Emitted
  <1>7. n \notin Steady
    BY <1>0 DEF Steady
  <1>8. n \in Stable' => st.cert = fork.cert /\ n \in Stable
    BY <1>0 DEF Stable
  <1>9. behind \subseteq behind'
    BY <1>0
  <1> HIDE DEF fork
  <1> QED BY <1>0, <1>1, <1>3, <1>4, <1>5, <1>6, <1>7, <1>8, <1>9, WriteTimed

LEMMA FinishTimed ==
    ASSUME IInv, CInv, NEW n \in Honest, NEW st, Good(n, st), Timed(n, st), Finish(n, st)
    PROVE  CInv'
  <1>1. CASE /\ Write(n, st) /\ creating' = creating \cup st.creating
             /\ forkpoint' = [forkpoint EXCEPT ![n] = Checkpointed(n, st)]
             /\ UNCHANGED << syncing, behind, crashes >>
    <2> DEFINE fork == Checkpointed(n, st)
    <2>1. CertTimely(fork.cert, Barred)
      BY DEF Checkpointed, CInv, Timed, SentTimely
    <2> HIDE DEF fork
    <2>2. forkpoint' = [forkpoint EXCEPT ![n] = fork]
      BY <1>1 DEF fork
    <2>3. n \in Stable' => n \in Stable
      BY <1>1 DEF Stable
    <2> QED BY <1>1, <2>1, <2>2, <2>3, WriteTimed DEF Good, Timed
  <1>2. CASE Crash(n, st)
    BY <1>2, CrashTimed
  <1> QED BY <1>1, <1>2 DEF Finish

(* handle_proposal_message *)
LEMMA TimedProposal ==
    ASSUME IInv, CInv, NEW n \in Honest, NEW st, Good(n, st), Timed(n, st),
           NEW p \in Proposal_, ProposalOk(p), ProposalTimely(p, Barred),
           NEW st2 \in ProposalHandled(n, st, p)
    PROVE  Timed(n, st2)
  <1> DEFINE b == parent[p.tip]
             r == qc_round[p.tip]
             c == p.tc
  <1>1. b \in Block /\ r \in Nat /\ c \in RoundCertificate /\ CertOk(c) /\ CertTimely(c, Barred)
    BY BlockAssumption DEF Proposal_, ProposalOk, ProposalTimely
  <1>2. PICK s1, s2, s3, s4 :
          /\ s1 \in ProcessQc(n, st, b, r)
          /\ s2 \in IF c = NoTc THEN {s1} ELSE ProcessTc(n, s1, c)
          /\ s3 \in TryCommit(s2, b, r)
          /\ s4 \in TryVote(n, s3, p)
          /\ st2 \in TryPropose(n, s4)
    BY HandledInSteps
  <1> HIDE DEF b, r, c
  <1>3. Good(n, s1) /\ Timed(n, s1)
    BY <1>1, <1>2, GoodProcess, TimedProcess
  <1>4. Good(n, s2) /\ Timed(n, s2)
    BY <1>1, <1>2, <1>3, GoodProcess, TimedProcess
  <1>5. Good(n, s3) /\ Timed(n, s3)
    BY <1>1, <1>2, <1>4, GoodCommit, TimedCommit
  <1>6. Good(n, s4) /\ Timed(n, s4)
    BY <1>2, <1>5, GoodVote, TimedVote
  <1> QED BY <1>2, <1>6, TimedPropose

(* maybe_start_consensus *)
LEMMA TimedStart ==
    ASSUME IInv, CInv, NEW n \in Honest,
           NEW st \in Replayed(n, LocalTimeout(n, Begin(n)), ValidProposals(Tips, Tcs(Tips)))
    PROVE  Timed(n, st)
  <1> DEFINE ps == ValidProposals(Tips, Tcs(Tips))
             S == {s \in HandlerState : Good(n, s) /\ Timed(n, s)}
             first == LocalTimeout(n, Begin(n))
  <1>1. \A p \in ps : p \in Proposal_ /\ ProposalOk(p) /\ ProposalTimely(p, Barred)
    BY CertificateType, ValidOk, ValidTimely DEF IInv
  <1>2. first \in S
    BY GoodBegin, TimedBegin, GoodTimeout, TimedTimeout DEF Good
  <1> HIDE DEF first, ps
  <1>3. \A s \in S, p \in ps : ProposalHandled(n, s, p) \subseteq S
    BY <1>1, GoodProposal, TimedProposal DEF Good
  <1> HIDE DEF S
  <1>4. st \in S
    BY <1>2, <1>3, ReplayedIn DEF first, ps
  <1> QED BY <1>4 DEF S

LEMMA StartTimed ==
    ASSUME IInv, CInv, NEW n \in Honest,
           MaybeStartConsensus(n, ValidProposals(Tips, Tcs(Tips)))
    PROVE  CInv'
  <1>1. PICK st \in Replayed(n, LocalTimeout(n, Begin(n)), ValidProposals(Tips, Tcs(Tips))) :
          Write(n, st) /\ creating' = creating \cup st.creating
    BY DEF MaybeStartConsensus
  <1>2. UNCHANGED << forkpoint, behind, crashes >>
    BY DEF MaybeStartConsensus
  <1>3. Good(n, st) /\ Timed(n, st)
    BY <1>1, GoodStart, TimedStart
  <1> DEFINE fork == forkpoint[n]
  <1>4. CertTimely(fork.cert, Barred) /\ forkpoint' = [forkpoint EXCEPT ![n] = fork]
    BY <1>2 DEF CInv, IInv, TypeOK
  <1> HIDE DEF fork
  <1>5. n \in Stable' => n \in Stable
    BY <1>2 DEF Stable
  <1> QED BY <1>1, <1>2, <1>3, <1>4, <1>5, WriteTimed DEF Good, Timed

LEMMA PublishTimed ==
    ASSUME IInv, CInv, NEW p \in creating, PublishProposal(p)
    PROVE  CInv'
  <1> DEFINE q == [round |-> p.round, tip |-> p.tip, tc |-> p.tc]
  <1>1. /\ proposals' = proposals \cup {q} /\ creating' = creating \ {p}
        /\ UNCHANGED << safety, cert, root, forkpoint, syncing, behind, votes, timeouts, nes, recoveries, crashes >>
    BY DEF PublishProposal
  <1>2. Barred' = Barred /\ Stable' = Stable
    BY <1>1 DEF Barred, Stable
  <1>3. q.round = p.round /\ q.tip = p.tip /\ q.tc = p.tc
    OBVIOUS
  <1> HIDE DEF q
  <1>4. \A x \in proposals' \cup creating' : ProposalTimely(x, Barred)
    BY <1>1, <1>3 DEF CInv, ProposalTimely
  <1> QED BY <1>1, <1>2, <1>4 DEF CInv

LEMMA InitTimed ==
    ASSUME Init
    PROVE  CInv
  <1> DEFINE c == QcCert(GENESIS_ROUND)
             s == SafetyNew(c)
  <1>1. c.tip = None /\ c.round = 0 /\ c.qc_round = 0
    BY DEF QcCert, GENESIS_ROUND
  <1>2. s.highest_vote = 1 /\ s.maybe_high_tip = None /\ s.high_certificate_qc_round = 0
    BY <1>1 DEF SafetyNew
  <1>3. \A n \in Honest : safety[n] = s /\ cert[n] = c /\ forkpoint[n].cert = c
    BY DEF Init
  <1>4. votes = {} /\ proposals = {} /\ creating = {} /\ recoveries = {}
    BY DEF Init
  <1>5. \A t \in timeouts : t.round = 1 /\ t.info = QcRank(0)
    BY DEF Init, GENESIS_ROUND
  <1> HIDE DEF c, s
  <1>6. CertTimely(c, Barred) /\ SafetyTimely(s, c, Barred)
    BY <1>1, <1>2, BlockAssumption DEF CertTimely, SafetyTimely
  <1>7. ASSUME NEW n \in Honest
        PROVE  TimeoutsOk(n, s, timeouts) /\ ReportsOk(n, s, c, votes, timeouts)
    BY <1>1, <1>2, <1>4, <1>5 DEF TimeoutsOk, ReportsOk, ExtendRank
  <1> QED BY <1>3, <1>4, <1>6, <1>7 DEF CInv

(* Every handler ends in a timed state, so every step preserves CInv. *)
LEMMA NextTimed ==
    ASSUME IInv, CInv, Next
    PROVE  CInv'
  <1>0. TypeOK /\ \A n \in Honest : Good(n, Begin(n)) /\ Timed(n, Begin(n))
    BY GoodBegin, TimedBegin DEF IInv
  <1>1. ASSUME NEW n \in Honest, Stop(n) PROVE CInv'
    BY <1>0, <1>1, CrashTimed DEF Stop
  <1>2. ASSUME NEW n \in Honest, HandleTimeoutExpiry(n) PROVE CInv'
    BY <1>0, <1>2, GoodTimeout, TimedTimeout, FinishTimed DEF HandleTimeoutExpiry
  <1>3. ASSUME NEW n \in Honest, HandleNoEndorsementMessage(n) PROVE CInv'
    <2>1. PICK st \in TryPropose(n, Begin(n)) : Finish(n, st)
      BY <1>3 DEF HandleNoEndorsementMessage
    <2> QED BY <1>0, <2>1, GoodPropose, TimedPropose, FinishTimed
  <1>4. ASSUME NEW p \in creating, PublishProposal(p) PROVE CInv'
    BY <1>4, PublishTimed
  <1>5. ASSUME NEW q \in Qcs, NEW n \in Honest, HandleQc(n, q) PROVE CInv'
    <2>1. q.id \in Block /\ q.round \in Nat
      BY <1>0, CertificateType
    <2>2. PICK st \in ProcessQc(n, Begin(n), q.id, q.round) : Finish(n, st)
      BY <1>5 DEF HandleQc
    <2>3. Good(n, st) /\ Timed(n, st)
      BY <1>0, <2>1, <2>2, GoodProcess, TimedProcess
    <2> QED BY <2>2, <2>3, FinishTimed
  <1>6. ASSUME NEW q, q.id \in Block, NEW n \in Honest, HandleBlockSync(n, q)
        PROVE  CInv'
    <2>1. PICK st1 \in TryCommit(Begin(n), q.id, q.round) :
            \E st2 \in TryPropose(n, st1) : Finish(n, st2)
      BY <1>6 DEF HandleBlockSync
    <2>2. PICK st2 \in TryPropose(n, st1) : Finish(n, st2)
      BY <2>1
    <2>3. Good(n, st1) /\ Timed(n, st1)
      BY <1>0, <1>6, GoodCommit, TimedCommit
    <2>4. Good(n, st2) /\ Timed(n, st2)
      BY <2>3, GoodPropose, TimedPropose
    <2> QED BY <2>2, <2>4, FinishTimed
  <1>7. ASSUME NEW c \in Tcs(Tips), NEW n \in Honest, HandleTc(n, c)
        PROVE  CInv'
    <2>1. c \in RoundCertificate /\ CertOk(c) /\ CertTimely(c, Barred)
      BY <1>0, CertificateType, ValidOk, ValidTimely
    <2>2. PICK st \in ProcessTc(n, Begin(n), c) : Finish(n, st)
      BY <1>7 DEF HandleTc
    <2>3. Good(n, st) /\ Timed(n, st)
      BY <1>0, <2>1, <2>2, GoodProcess, TimedProcess
    <2> QED BY <2>2, <2>3, FinishTimed
  <1>8. ASSUME NEW p \in ValidProposals(Tips, Tcs(Tips)), NEW n \in Honest,
               HandleProposalMessage(n, p)
        PROVE  CInv'
    <2>1. p \in Proposal_ /\ ProposalOk(p) /\ ProposalTimely(p, Barred)
      BY <1>0, CertificateType, ValidOk, ValidTimely
    <2>2. PICK st \in ProposalHandled(n, Begin(n), p) : Finish(n, st)
      BY <1>8 DEF HandleProposalMessage
    <2>3. Good(n, st) /\ Timed(n, st)
      BY <1>0, <2>1, GoodProposal, TimedProposal
    <2> QED BY <2>2, <2>3, FinishTimed
  <1>9. ASSUME NEW c \in ValidRecoveries(Tcs(Tips)), NEW n \in Honest,
               HandleRoundRecoveryMessage(n, c)
        PROVE  CInv'
    <2>1. c \in TipTc /\ c \in RoundCertificate /\ CertOk(c) /\ CertTimely(c, Barred)
      BY <1>0, CertificateType, ValidOk, ValidTimely DEF TipTc
    <2>2. PICK st1 \in ProcessTc(n, Begin(n), c) :
            \E st2 \in NoEndorseTip(n, st1, c) : Finish(n, st2)
      BY <1>9 DEF HandleRoundRecoveryMessage
    <2>3. PICK st2 \in NoEndorseTip(n, st1, c) : Finish(n, st2)
      BY <2>2
    <2>4. Good(n, st1) /\ Timed(n, st1)
      BY <1>0, <2>1, <2>2, GoodProcess, TimedProcess
    <2>5. Good(n, st2) /\ Timed(n, st2)
      BY <2>1, <2>3, <2>4, GoodNoEndorse, TimedNoEndorse
    <2> QED BY <2>3, <2>5, FinishTimed
  <1>10. Genesis \in Block /\ \A q \in Qcs : q.id \in Block
    BY <1>0, CertificateType, BlockAssumption
  <1>11. ASSUME NEW n \in Honest, MaybeStartConsensus(n, ValidProposals(Tips, Tcs(Tips)))
         PROVE  CInv'
    BY <1>11, StartTimed
  <1> QED BY <1>1, <1>2, <1>3, <1>4, <1>5, <1>6, <1>7, <1>8, <1>9, <1>10, <1>11 DEF Next

(* The second invariant is inductive relative to the first. *)
THEOREM CertificateInvariance == Spec => []CInv
  <1>1. Init => CInv
    BY InitTimed
  <1>2. IInv /\ CInv /\ [Next]_vars => CInv'
    <2> SUFFICES ASSUME IInv, CInv, [Next]_vars PROVE CInv'
      OBVIOUS
    <2>1. CASE Next
      BY <2>1, NextTimed
    <2>2. CASE UNCHANGED vars
      <3>1. Barred' = Barred /\ Stable' = Stable
        BY <2>2 DEF vars, Barred, Stable
      <3> QED BY <2>2, <3>1 DEF vars, CInv
    <2> QED BY <2>1, <2>2
  <1> QED BY <1>1, <1>2, Invariance, PTL DEF Spec

(* A quorum that bars a block shares a stable validator with any other.    *)
LEMMA NoneEarly == IInv /\ CInv /\ StableOverlap => QcNotBeforeBlock
  <1> SUFFICES ASSUME IInv, CInv, StableOverlap, NEW q \in Qcs
               PROVE  block_round[q.id] <= q.round
    BY DEF QcNotBeforeBlock
  <1>1. PICK u \in votes : u.id = q.id /\ u.round = q.round
    BY DEF Qcs
  <1>2. Timely(q.id, q.round, Barred)
    BY <1>1 DEF CInv
  <1>3. CASE q.id \in Barred
    <2>1. PICK Q1 \in Quorum : \A n \in Q1 \cap Stable :
            \A v \in votes : v.node = n /\ v.id = q.id => v.round >= block_round[q.id]
      BY <1>3 DEF Barred
    <2>2. q.round > GENESIS_ROUND
      BY <1>1 DEF IInv
    <2>3. PICK Q2 \in Quorum : Q2 \subseteq Faulty \cup
            {v.node : v \in {w \in votes : w.id = q.id /\ w.round = q.round}}
      BY <2>2 DEF Qcs, IsQc, HasQuorum, GENESIS_ROUND
    <2>4. PICK n \in Q1 \cap Q2 : n \in Stable
      BY DEF StableOverlap
    <2>5. PICK v \in votes : v.node = n /\ v.id = q.id /\ v.round = q.round
      BY <2>3, <2>4 DEF Stable, Honest
    <2>6. q.round >= block_round[q.id]
      BY <2>1, <2>4, <2>5
    <2>7. q.round \in Nat /\ block_round[q.id] \in Nat
      BY CertificateType, BlockAssumption DEF IInv
    <2> QED BY <2>6, <2>7
  <1> QED BY <1>2, <1>3 DEF Timely

(* Although well_formed_proposal lets a tip of a later round through, no   *)
(* block is certified before its round: the NEC or TC without which such a *)
(* tip is invalid comes from a quorum that cannot vote that early any more.*)
THEOREM NoEarlyQc == Spec => [](StableOverlap => QcNotBeforeBlock)
  BY NoneEarly, Invariance, CertificateInvariance, PTL

(* A round's own block that is certified in the round is covered by every  *)
(* TC of the round, if any two quorums share a validator that does not     *)
(* crash: it has voted for the block and reports it in its timeout.        *)
THEOREM CertifiedIsReported ==
    ASSUME \A Q1, Q2 \in Quorum : \E n \in Q1 \cap Q2 : n \in Steady
    PROVE  Spec => []FreshQcCovered
  <1>1. IInv /\ CInv => FreshQcCovered
    <2> SUFFICES ASSUME IInv, CInv, NEW q \in Qcs, block_round[q.id] = q.round,
                        NEW c \in Tcs(Tips), c.round = q.round
                 PROVE  ~ RankLess(ExtendRank(c.tip, c.qc_round), TipRank(q.id))
      BY DEF FreshQcCovered
    <2> DEFINE rank == ExtendRank(c.tip, c.qc_round)
    <2>1. q.id \in Block /\ q.round > GENESIS_ROUND
      BY CertificateType DEF Qcs, IInv
    <2>2. PICK Q1 \in Quorum : Q1 \subseteq Faulty \cup
            {v.node : v \in {w \in votes : w.id = q.id /\ w.round = q.round}}
      BY <2>1 DEF Qcs, IsQc, HasQuorum, GENESIS_ROUND
    <2>3. TimeoutQuorum(c.round, rank)
      <3> DEFINE rounds == {t.round : t \in timeouts}
      <3>1. CASE \E rq \in rounds \X Round : c = TcCert(rq[1], None, rq[2]) /\ IsNoTipTc(rq[1], rq[2])
        BY <3>1 DEF IsNoTipTc, TcCert, ExtendRank
      <3>2. CASE \E rb \in rounds \X Tips :
                    c = TcCert(rb[1], rb[2], qc_round[rb[2]]) /\ IsTipTc(rb[1], rb[2])
        <4>1. PICK r \in rounds, b \in Tips : c = TcCert(r, b, qc_round[b]) /\ IsTipTc(r, b)
          BY <3>2
        <4>2. b # None
          BY BlockAssumption DEF Tips
        <4> QED BY <4>1, <4>2 DEF IsTipTc, TcCert, ExtendRank
      <3> QED BY <3>1, <3>2 DEF Tcs
    <2>4. PICK Q2 \in Quorum : Q2 \subseteq Faulty \cup
            {t.node : t \in {u \in timeouts : u.round = c.round /\ ~ RankLess(rank, u.info)}}
      BY <2>3 DEF TimeoutQuorum
    <2>5. PICK n \in Q1 \cap Q2 : n \in Steady
      OBVIOUS
    <2>6. n \in Honest /\ n \notin Faulty
      BY <2>5 DEF Steady, Honest
    <2>7. PICK v \in votes : v.node = n /\ v.id = q.id /\ v.round = q.round
      BY <2>2, <2>5, <2>6
    <2>8. PICK t \in timeouts : t.node = n /\ t.round = c.round /\ ~ RankLess(rank, t.info)
      BY <2>4, <2>5, <2>6
    <2>9. ReportsOk(n, safety[n], cert[n], votes, timeouts)
      BY <2>5, <2>6 DEF CInv
    <2>10. t.info = TipRank(q.id)
      BY <2>7, <2>8, <2>9 DEF ReportsOk
    <2> QED BY <2>8, <2>10
  <1> QED BY <1>1, Invariance, CertificateInvariance, PTL
-----------------------------------------------------------------------------
(* Commits: a third inductive invariant, on top of the other two.          *)

AllTcs == Tcs(Tips)

(* Block b may be voted for in round j: its QC exists and is of the round  *)
(* before, or is the one a TC of the round before extends.                 *)
Justified(b, j) ==
    /\ b \in Block \ {Genesis}
    /\ IsQc(parent[b], qc_round[b])
    /\ \/ j = qc_round[b] + 1
       \/ \E c \in AllTcs : j = c.round + 1 /\ c.qc_round = qc_round[b]

(* What handlers keep and send rests on certificates that exist; a root    *)
(* was committed by a QC on its child in the round after the child's QC.   *)
CertReal(c) == IF c.tc THEN c \in AllTcs ELSE c.qc_round = c.round
ProposalReal(p) == Justified(p.tip, p.round) /\ p.tc \in {NoTc} \cup AllTcs
RootReal(b) ==
    b = Genesis \/ \E x \in Block \ {Genesis} : b = parent[x] /\ IsQc(x, qc_round[x] + 1)
NeReal(e) == \E c \in AllTcs : e.round = c.round + 1 /\ e.tip_qc_round = c.qc_round

(* A vote is for a block that was justified in that round or in an earlier *)
(* one, since when n has voted for no other; so is the high tip, which the *)
(* next timeout may vote for.                                              *)
VotesJustified(n, vs) ==
    \A v \in vs : v.node = n =>
        \E j \in 0..v.round :
            /\ Justified(v.id, j)
            /\ \A w \in vs : w.node = n /\ j <= w.round /\ w.round <= v.round => w.id = v.id

TipJustified(n, s, c, vs) ==
    s.maybe_high_tip # None =>
        \E j \in 0..c.round + 1 :
            /\ Justified(s.maybe_high_tip, j)
            /\ \A w \in vs : w.node = n /\ j <= w.round => w.id = s.maybe_high_tip

(* If no TC from round r + 1 on is below a block of that round on the QC   *)
(* of round r, no-endorsements of later rounds are for QCs from r on.      *)
Reported(r) ==
    \A c \in AllTcs : c.round >= r + 1 =>
        ~ RankLess(ExtendRank(c.tip, c.qc_round), [tip |-> r + 1, qc |-> r])
NesHigh == \A r \in Nat : Reported(r) => \A e \in nes : e.round >= r + 2 => e.tip_qc_round >= r

AInv ==
    /\ recoveries \subseteq AllTcs
    /\ \A p \in proposals \cup creating : ProposalReal(p)
    /\ NesHigh
    /\ \A n \in Honest :
          /\ CertReal(cert[n]) /\ CertReal(forkpoint[n].cert)
          /\ RootReal(root[n]) /\ RootReal(forkpoint[n].root)
          /\ n \in Stable => /\ VotesJustified(n, votes)
                             /\ TipJustified(n, safety[n], cert[n], votes)

(* The same of a running handler of validator n *)
SentReal(st) ==
    /\ st.recoveries \subseteq AllTcs
    /\ \A p \in st.proposals \cup st.creating : ProposalReal(p)
    /\ \A e \in st.nes : NeReal(e)
    /\ CertReal(st.cert) /\ RootReal(st.root)

Backed(n, st) ==
    /\ SentReal(st)
    /\ n \in Stable => /\ VotesJustified(n, votes \cup st.votes)
                       /\ TipJustified(n, st.safety, st.cert, votes \cup st.votes)

-----------------------------------------------------------------------------
(* What exists, and what passes validation, is real. *)

LEMMA TcShape ==
    ASSUME TypeOK, NEW c \in AllTcs
    PROVE  /\ c \in RoundCertificate /\ c.tc
           /\ c.round \in Nat /\ c.qc_round \in Nat
           /\ c.tip # None => c.tip \in Tips /\ c.qc_round = qc_round[c.tip]
  <1> DEFINE rounds == {t.round : t \in timeouts}
  <1>1. c \in RoundCertificate /\ c.round \in Nat /\ c.qc_round \in Nat
    BY CertificateType DEF AllTcs, RoundCertificate
  <1>2. CASE \E rq \in rounds \X Round : c = TcCert(rq[1], None, rq[2])
    BY <1>1, <1>2 DEF TcCert
  <1>3. CASE \E rb \in rounds \X Tips : c = TcCert(rb[1], rb[2], qc_round[rb[2]])
    BY <1>1, <1>3 DEF TcCert
  <1> QED BY <1>2, <1>3 DEF Tcs, AllTcs

LEMMA TipShape ==
    ASSUME NEW b \in Tips
    PROVE  b \in Block \ {Genesis} /\ IsQc(parent[b], qc_round[b])
  BY DEF Tips, IsTip

LEMMA ValidReal ==
    ASSUME IInv, AInv
    PROVE  /\ ValidRecoveries(AllTcs) \subseteq AllTcs
           /\ \A p \in ValidProposals(Tips, AllTcs) : ProposalReal(p)
  <1>0. TypeOK
    BY DEF IInv
  <1>1. ValidRecoveries(AllTcs) \subseteq AllTcs
    BY DEF ValidRecoveries, AInv
  <1>2. ASSUME NEW p \in ValidProposals(Tips, AllTcs) PROVE ProposalReal(p)
    <2>1. CASE p \in proposals
      BY <2>1 DEF AInv
    <2>2. CASE /\ p.tip \in Tips /\ p.tc \in {NoTc} \cup AllTcs
               /\ WellFormedProposal(p)
      <3>1. p.tip \in Block \ {Genesis} /\ IsQc(parent[p.tip], qc_round[p.tip])
        BY <2>2, TipShape
      <3> QED BY <2>2, <3>1 DEF WellFormedProposal, ProposalReal, Justified
    <2> QED BY <2>1, <2>2 DEF ValidProposals
  <1> QED BY <1>1, <1>2

-----------------------------------------------------------------------------
(* Each operator keeps a handler's state backed. *)

LEMMA BackedBegin ==
    ASSUME AInv, NEW n \in Honest
    PROVE  Backed(n, Begin(n))
  <1> DEFINE st == Begin(n)
  <1>1. /\ st.safety = safety[n] /\ st.cert = cert[n] /\ st.root = root[n]
        /\ st.votes = {} /\ st.proposals = {} /\ st.nes = {}
        /\ st.creating = {} /\ st.recoveries = {}
    BY DEF Begin
  <1>2. votes \cup {} = votes
    OBVIOUS
  <1> HIDE DEF st
  <1>3. Backed(n, st)
    BY <1>1, <1>2 DEF Backed, SentReal, AInv
  <1> QED BY <1>3 DEF st

LEMMA BackedAdvance ==
    ASSUME IInv, NEW n \in Honest, NEW st, Good(n, st), Backed(n, st),
           NEW c \in RoundCertificate, CertReal(c)
    PROVE  Backed(n, ProcessCertificate(st, c))
  <1>1. CASE c.round <= st.cert.round
    BY <1>1 DEF ProcessCertificate
  <1>2. CASE ~ (c.round <= st.cert.round)
    <2> DEFINE st2 == ProcessCertificate(st, c)
    <2>0. st \in HandlerState /\ c.round \in Nat /\ c.qc_round \in Nat
      BY DEF Good, RoundCertificate
    <2>1. /\ st2.safety = SafetyProcessCertificate(st.safety, c)
          /\ st2.cert = c /\ st2.root = st.root
          /\ st2.votes = st.votes /\ st2.nes = st.nes
          /\ st2.proposals = st.proposals /\ st2.creating = st.creating
          /\ st2.recoveries = st.recoveries
      BY <1>2, <2>0 DEF HandlerState, ProcessCertificate
    <2>2. st2.safety.maybe_high_tip \in {None, st.safety.maybe_high_tip}
      BY <2>0, <2>1, HandlerFields DEF SafetyProcessCertificate, SafetyState
    <2>3. 0..st.cert.round + 1 \subseteq 0..c.round + 1
      BY <1>2, <2>0, HandlerFields
    <2> HIDE DEF st2
    <2>4. n \in Stable => TipJustified(n, st2.safety, c, votes \cup st.votes)
      BY <2>2, <2>3 DEF Backed, TipJustified
    <2> QED BY <2>1, <2>4 DEF Backed, SentReal, st2
  <1> QED BY <1>1, <1>2

LEMMA BackedCommit ==
    ASSUME NEW n \in Honest, NEW st, Good(n, st), Backed(n, st),
           NEW b \in Block, NEW r, IsQc(b, r), NEW st2 \in TryCommit(st, b, r)
    PROVE  Backed(n, st2)
  <1>1. CASE st2 = st
    BY <1>1
  <1>2. CASE Committable(b, r) /\ st2 = [st EXCEPT !.root = parent[b]]
    <2>1. /\ st2.safety = st.safety /\ st2.cert = st.cert /\ st2.root = parent[b]
          /\ st2.votes = st.votes /\ st2.nes = st.nes
          /\ st2.proposals = st.proposals /\ st2.creating = st.creating
          /\ st2.recoveries = st.recoveries
      BY <1>2 DEF Good, HandlerState
    <2>2. RootReal(parent[b])
      BY <1>2 DEF RootReal, Committable
    <2> QED BY <2>1, <2>2 DEF Backed, SentReal
  <1> QED BY <1>1, <1>2 DEF TryCommit

LEMMA BackedPropose ==
    ASSUME IInv, NEW n \in Honest, NEW st, Good(n, st), Backed(n, st), NEW st2 \in TryPropose(n, st)
    PROVE  Backed(n, st2)
  <1> DEFINE r == st.cert.round + 1
             Same == /\ st2.cert = st.cert /\ st2.votes = st.votes /\ st2.nes = st.nes
                     /\ st2.root = st.root
                     /\ st2.safety.maybe_high_tip = st.safety.maybe_high_tip
  <1>0. st \in HandlerState /\ r \in Nat /\ TypeOK /\ CertReal(st.cert) /\ st.cert.tc \in BOOLEAN
    BY HandlerFields DEF Good, IInv, Backed, SentReal, RoundCertificate
  <1>1. ASSUME Same, st2.recoveries \subseteq AllTcs,
               \A p \in st2.proposals \cup st2.creating : ProposalReal(p)
        PROVE  Backed(n, st2)
    BY <1>1 DEF Backed, SentReal, TipJustified
  <1>2. CASE st2 = st
    BY <1>2
  <1>3. CASE st.cert.tc /\ st.cert.tip # None /\ st2 \in TryRepropose(st, r)
    <2>0. /\ st.cert \in AllTcs /\ st.cert.tip \in Block \ {Genesis}
          /\ IsQc(parent[st.cert.tip], qc_round[st.cert.tip])
          /\ st.cert.qc_round = qc_round[st.cert.tip]
      BY <1>0, <1>3, TcShape, TipShape DEF CertReal
    <2>1. CASE st2 = [st EXCEPT !.safety = Propose(@, r),
                         !.proposals = @ \cup {[round |-> r, tip |-> st.cert.tip, tc |-> st.cert]}]
      <3> DEFINE p == [round |-> r, tip |-> st.cert.tip, tc |-> st.cert]
      <3>2. ProposalReal(p)
        BY <2>0 DEF ProposalReal, Justified
      <3>3. /\ st2.safety = Propose(st.safety, r) /\ st2.proposals = st.proposals \cup {p}
            /\ st2.cert = st.cert /\ st2.votes = st.votes /\ st2.nes = st.nes
            /\ st2.creating = st.creating /\ st2.recoveries = st.recoveries
            /\ st2.root = st.root
        BY <1>0, <2>1 DEF HandlerState
      <3>4. Same
        BY <1>0, <3>3, HandlerFields DEF Propose, SafetyState
      <3> HIDE DEF p, r, Same
      <3> QED BY <1>1, <3>2, <3>3, <3>4 DEF Backed, SentReal
    <2>2. CASE st2 = [st EXCEPT !.safety = RecoveryRequest(@, r),
                         !.recoveries = @ \cup {st.cert}]
      <3>1. /\ st2.safety = RecoveryRequest(st.safety, r) /\ st2.proposals = st.proposals
            /\ st2.cert = st.cert /\ st2.votes = st.votes /\ st2.nes = st.nes
            /\ st2.creating = st.creating /\ st2.recoveries = st.recoveries \cup {st.cert}
            /\ st2.root = st.root
        BY <1>0, <2>2 DEF HandlerState
      <3>2. Same
        BY <1>0, <3>1, HandlerFields DEF RecoveryRequest, SafetyState
      <3> HIDE DEF r, Same
      <3> QED BY <1>1, <2>0, <3>1, <3>2 DEF Backed, SentReal
    <2> QED BY <1>2, <1>3, <2>1, <2>2 DEF TryRepropose
  <1>4. CASE st2 \in TryProposeFresh(n, st, r) /\ st2 # st
    <2> DEFINE tc == IF st.cert.tc THEN st.cert ELSE NoTc
               p(x) == [node |-> n, round |-> r, tip |-> x, tc |-> tc]
    <2>1. PICK x \in Block :
              /\ x # Genesis /\ qc_round[x] = st.cert.qc_round
              /\ IsQc(parent[x], qc_round[x])
              /\ st2 = [st EXCEPT !.safety = Propose(@, r), !.creating = @ \cup {p(x)}]
      BY <1>4 DEF TryProposeFresh
    <2>2. Justified(x, r) /\ tc \in {NoTc} \cup AllTcs
      BY <1>0, <2>1 DEF CertReal, Justified
    <2>3. ProposalReal(p(x))
      BY <2>2 DEF ProposalReal
    <2>4. /\ st2.safety = Propose(st.safety, r) /\ st2.creating = st.creating \cup {p(x)}
          /\ st2.cert = st.cert /\ st2.votes = st.votes /\ st2.nes = st.nes
          /\ st2.proposals = st.proposals /\ st2.recoveries = st.recoveries
          /\ st2.root = st.root
      BY <1>0, <2>1 DEF HandlerState
    <2>5. Same
      BY <1>0, <2>4, HandlerFields DEF Propose, SafetyState
    <2> HIDE DEF p, r, tc, Same
    <2> QED BY <1>1, <2>3, <2>4, <2>5 DEF Backed, SentReal
  <1> QED BY <1>2, <1>3, <1>4 DEF TryPropose

LEMMA BackedProcess ==
    ASSUME IInv, NEW n \in Honest, NEW st, Good(n, st), Backed(n, st)
    PROVE  /\ \A b \in Block, r \in Nat : IsQc(b, r) =>
                \A st2 \in ProcessQc(n, st, b, r) : Backed(n, st2)
           /\ \A c \in AllTcs : CertOk(c) => \A st2 \in ProcessTc(n, st, c) : Backed(n, st2)
  <1>0. TypeOK
    BY DEF IInv
  <1>1. ASSUME NEW b \in Block, NEW r \in Nat, IsQc(b, r), NEW st2 \in ProcessQc(n, st, b, r)
        PROVE  Backed(n, st2)
    <2>1. QcCert(r) \in RoundCertificate /\ CertOk(QcCert(r)) /\ CertReal(QcCert(r))
      BY BlockAssumption DEF QcCert, RoundCertificate, CertOk, CertReal
    <2>2. ASSUME NEW s \in TryCommit(st, b, r),
                 NEW t \in TryPropose(n, ProcessCertificate(s, QcCert(r)))
          PROVE  Backed(n, t)
      <3>1. Good(n, s) /\ Backed(n, s)
        BY <1>1, GoodCommit, BackedCommit
      <3>2. /\ Good(n, ProcessCertificate(s, QcCert(r)))
            /\ Backed(n, ProcessCertificate(s, QcCert(r)))
        BY <2>1, <3>1, GoodAdvance, BackedAdvance
      <3> QED BY <3>2, BackedPropose
    <2> QED BY <1>1, <2>2 DEF ProcessQc
  <1>2. ASSUME NEW c \in AllTcs, CertOk(c), NEW st2 \in ProcessTc(n, st, c)
        PROVE  Backed(n, st2)
    <2>1. c \in RoundCertificate /\ CertReal(c)
      BY <1>0, TcShape DEF CertReal
    <2>2. Good(n, ProcessCertificate(st, c)) /\ Backed(n, ProcessCertificate(st, c))
      BY <1>2, <2>1, GoodAdvance, BackedAdvance
    <2> QED BY <1>2, <2>2, BackedPropose DEF ProcessTc
  <1> QED BY <1>1, <1>2

(* A vote in a round above all that n has voted in *)
LEMMA BackedVote ==
    ASSUME IInv, NEW n \in Honest, NEW st, Good(n, st), Backed(n, st),
           NEW p \in Proposal_, ProposalReal(p), NEW st2 \in TryVote(n, st, p)
    PROVE  Backed(n, st2)
  <1>0. st \in HandlerState /\ p.round \in Nat /\ p.tip \in Block /\ TypeOK
    BY DEF Good, Proposal_, IInv
  <1> DEFINE new == [node |-> n, id |-> p.tip, round |-> p.round]
             vs == votes \cup st.votes
  <1>1. CASE st2 = st
    BY <1>1
  <1>2. CASE /\ p.round = st.cert.round + 1
             /\ IsSafeToVote(st.safety, p.round, p.tc.tip)
             /\ st2 = [st EXCEPT !.safety = Vote(@, p.round, p.tip), !.votes = @ \cup {new}]
    <2>1. /\ st2.safety = Vote(st.safety, p.round, p.tip)
          /\ st2.votes = st.votes \cup {new}
          /\ st2.cert = st.cert /\ st2.nes = st.nes /\ st2.root = st.root
          /\ st2.proposals = st.proposals /\ st2.creating = st.creating
          /\ st2.recoveries = st.recoveries
      BY <1>0, <1>2 DEF HandlerState
    <2>2. st2.safety.maybe_high_tip \in {None, p.tip}
      BY <1>0, <2>1, HandlerFields DEF Vote, SafetyState
    <2>3. Justified(p.tip, p.round) /\ new.node = n /\ new.id = p.tip /\ new.round = p.round
      BY DEF ProposalReal
    <2>4. \A v \in vs : v.round \in Nat
      BY <1>0 DEF TypeOK, HandlerState, Vote_
    <2> HIDE DEF new
    <2>5. ASSUME n \in Stable
          PROVE  /\ VotesJustified(n, vs \cup {new})
                 /\ TipJustified(n, st2.safety, st.cert, vs \cup {new})
      <3>1. \A v \in vs : v.node = n => v.round < p.round
        <4>1. \A v \in vs : v.node = n => v.round <= st.safety.highest_vote
          BY <2>5 DEF Good, Local, VotesOk
        <4> HIDE DEF vs
        <4> QED BY <1>0, <1>2, <2>4, <4>1, HandlerFields DEF IsSafeToVote
      <3>2. VotesJustified(n, vs)
        BY <2>5 DEF Backed
      <3> HIDE DEF vs
      <3>3. ASSUME NEW v \in vs \cup {new}, v.node = n
            PROVE  \E j \in 0..v.round :
                      /\ Justified(v.id, j)
                      /\ \A w \in vs \cup {new} : w.node = n /\ j <= w.round /\ w.round <= v.round => w.id = v.id
        <4>1. CASE v = new
          <5>1. p.round \in 0..v.round /\ Justified(v.id, p.round)
            BY <1>0, <2>3, <4>1
          <5>2. \A w \in vs \cup {new} : w.node = n /\ p.round <= w.round => w.id = v.id
            BY <1>0, <2>3, <2>4, <3>1, <4>1
          <5> QED BY <5>1, <5>2
        <4>2. CASE v \in vs
          <5>1. PICK j \in 0..v.round : /\ Justified(v.id, j)
                  /\ \A w \in vs : w.node = n /\ j <= w.round /\ w.round <= v.round => w.id = v.id
            BY <3>2, <3>3, <4>2 DEF VotesJustified
          <5>2. ~ (new.round <= v.round)
            BY <1>0, <2>3, <2>4, <3>1, <3>3, <4>2
          <5> QED BY <5>1, <5>2
        <4> QED BY <4>1, <4>2
      <3>4. TipJustified(n, st2.safety, st.cert, vs \cup {new})
        <4>1. p.round \in 0..st.cert.round + 1
          BY <1>0, <1>2
        <4>2. \A w \in vs \cup {new} : w.node = n /\ p.round <= w.round => w.id = p.tip
          BY <1>0, <2>3, <2>4, <3>1
        <4> QED BY <2>2, <2>3, <4>1, <4>2 DEF TipJustified
      <3> QED BY <3>3, <3>4 DEF VotesJustified
    <2>6. votes \cup st2.votes = vs \cup {new}
      BY <2>1
    <2> HIDE DEF vs
    <2> QED BY <2>1, <2>5, <2>6 DEF Backed, SentReal
  <1> QED BY <1>1, <1>2 DEF TryVote

(* The vote in a timeout repeats the high tip; a vote of that round, if    *)
(* there is one, was for it too.                                           *)
LEMMA BackedTimeout ==
    ASSUME IInv, NEW n \in Honest, NEW st, Good(n, st), Backed(n, st)
    PROVE  Backed(n, LocalTimeout(n, st))
  <1> DEFINE st2 == LocalTimeout(n, st)
             r == st.cert.round + 1
             tip == st.safety.maybe_high_tip
             new == [node |-> n, id |-> tip, round |-> r]
             vs == votes \cup st.votes
  <1>0. /\ st \in HandlerState /\ r \in Nat /\ tip \in Block \cup {None} /\ TypeOK
        /\ st.safety.highest_vote \in Nat /\ st.safety.highest_vote <= r
    BY HandlerFields DEF Good, RoundBounds, IInv
  <1>1. /\ st2.safety = Timeout(st.safety, r)
        /\ st2.cert = st.cert /\ st2.nes = st.nes /\ st2.root = st.root
        /\ st2.proposals = st.proposals /\ st2.creating = st.creating
        /\ st2.recoveries = st.recoveries
        /\ \/ st2.votes = st.votes
           \/ tip # None /\ st2.votes = st.votes \cup {new}
    BY <1>0 DEF LocalTimeout, HandlerState
  <1>2. st2.safety.maybe_high_tip = tip
    BY <1>0, <1>1, HandlerFields DEF Timeout, SafetyState
  <1>3. new.node = n /\ new.id = tip /\ new.round = r
    OBVIOUS
  <1>4. \A v \in vs : v.round \in Nat
    BY <1>0 DEF TypeOK, HandlerState, Vote_
  <1> HIDE DEF st2, new
  <1>5. CASE st2.votes = st.votes
    BY <1>1, <1>2, <1>5 DEF Backed, SentReal, TipJustified, st2
  <1>6. CASE tip # None /\ st2.votes = st.votes \cup {new}
    <2>1. ASSUME n \in Stable
          PROVE  /\ VotesJustified(n, vs \cup {new})
                 /\ TipJustified(n, st2.safety, st.cert, vs \cup {new})
      <3>1. /\ \A v \in vs : v.node = n => v.round <= st.safety.highest_vote
            /\ \A v \in vs : v.node = n /\ v.round = r => tip = v.id
        BY <1>6, <2>1 DEF Good, Local, VotesOk
      <3>2. VotesJustified(n, vs)
        BY <2>1 DEF Backed
      <3>3. PICK i \in 0..r : Justified(tip, i) /\ \A w \in vs : w.node = n /\ i <= w.round => w.id = tip
        BY <1>6, <2>1 DEF Backed, TipJustified
      <3>4. \A w \in vs \cup {new} : w.node = n /\ i <= w.round => w.id = tip
        BY <1>3, <3>3
      <3> HIDE DEF vs, tip, r
      <3>5. TipJustified(n, st2.safety, st.cert, vs \cup {new})
        BY <1>2, <3>3, <3>4 DEF TipJustified, r
      <3>6. ASSUME NEW v \in vs \cup {new}, v.node = n
            PROVE  \E j \in 0..v.round :
                      /\ Justified(v.id, j)
                      /\ \A w \in vs \cup {new} : w.node = n /\ j <= w.round /\ w.round <= v.round => w.id = v.id
        <4>1. CASE v = new
          BY <1>3, <3>3, <3>4, <4>1
        <4>2. CASE v \in vs
          <5>1. PICK j \in 0..v.round : /\ Justified(v.id, j)
                  /\ \A w \in vs : w.node = n /\ j <= w.round /\ w.round <= v.round => w.id = v.id
            BY <3>2, <3>6, <4>2 DEF VotesJustified
          <5>2. new.round <= v.round => v.round = r
            BY <1>0, <1>3, <1>4, <3>1, <3>6, <4>2
          <5>3. new.round <= v.round => new.id = v.id
            BY <1>3, <3>1, <3>6, <4>2, <5>2
          <5> QED BY <5>1, <5>3
        <4> QED BY <4>1, <4>2
      <3> QED BY <3>5, <3>6 DEF VotesJustified
    <2>2. votes \cup st2.votes = vs \cup {new}
      BY <1>6
    <2> HIDE DEF vs
    <2> QED BY <1>1, <2>1, <2>2 DEF Backed, SentReal, st2
  <1> QED BY <1>1, <1>5, <1>6

LEMMA BackedNoEndorse ==
    ASSUME IInv, NEW n \in Honest, NEW st, Good(n, st), Backed(n, st),
           NEW c \in AllTcs, NEW st2 \in NoEndorseTip(n, st, c)
    PROVE  Backed(n, st2)
  <1> DEFINE e == [node |-> n, round |-> c.round + 1, tip_qc_round |-> c.qc_round]
  <1>1. CASE st2 = st
    BY <1>1
  <1>2. CASE st2 = [st EXCEPT !.safety = NoEndorse(@, c.round + 1, c.tip), !.nes = @ \cup {e}]
    <2>0. st \in HandlerState
      BY DEF Good
    <2>1. /\ st2.safety = NoEndorse(st.safety, c.round + 1, c.tip)
          /\ st2.nes = st.nes \cup {e}
          /\ st2.cert = st.cert /\ st2.votes = st.votes /\ st2.root = st.root
          /\ st2.proposals = st.proposals /\ st2.creating = st.creating
          /\ st2.recoveries = st.recoveries
      BY <1>2, <2>0 DEF HandlerState
    <2>2. st2.safety.maybe_high_tip = st.safety.maybe_high_tip
      BY <2>0, <2>1, HandlerFields DEF NoEndorse, SafetyState
    <2>3. NeReal(e)
      BY DEF NeReal
    <2> HIDE DEF e
    <2> QED BY <2>1, <2>2, <2>3 DEF Backed, SentReal, TipJustified
  <1> QED BY <1>1, <1>2 DEF NoEndorseTip

LEMMA BackedProposal ==
    ASSUME IInv, NEW n \in Honest, NEW st, Good(n, st), Backed(n, st),
           NEW p \in Proposal_, ProposalOk(p), ProposalReal(p),
           NEW st2 \in ProposalHandled(n, st, p)
    PROVE  Backed(n, st2)
  <1> DEFINE b == parent[p.tip]
             r == qc_round[p.tip]
             c == p.tc
  <1>1. /\ b \in Block /\ r \in Nat /\ IsQc(b, r)
        /\ c \in RoundCertificate /\ CertOk(c) /\ c \in {NoTc} \cup AllTcs
    BY BlockAssumption DEF Proposal_, ProposalOk, ProposalReal, Justified
  <1>2. PICK s1, s2, s3, s4 :
          /\ s1 \in ProcessQc(n, st, b, r)
          /\ s2 \in IF c = NoTc THEN {s1} ELSE ProcessTc(n, s1, c)
          /\ s3 \in TryCommit(s2, b, r)
          /\ s4 \in TryVote(n, s3, p)
          /\ st2 \in TryPropose(n, s4)
    BY HandledInSteps
  <1> HIDE DEF b, r, c
  <1>3. Good(n, s1) /\ Backed(n, s1)
    BY <1>1, <1>2, GoodProcess, BackedProcess
  <1>4. Good(n, s2) /\ Backed(n, s2)
    BY <1>1, <1>2, <1>3, GoodProcess, BackedProcess
  <1>5. Good(n, s3) /\ Backed(n, s3)
    BY <1>1, <1>2, <1>4, GoodCommit, BackedCommit
  <1>6. Good(n, s4) /\ Backed(n, s4)
    BY <1>2, <1>5, GoodVote, BackedVote
  <1> QED BY <1>2, <1>6, BackedPropose

LEMMA BackedStart ==
    ASSUME IInv, AInv, NEW n \in Honest,
           NEW st \in Replayed(n, LocalTimeout(n, Begin(n)), ValidProposals(Tips, Tcs(Tips)))
    PROVE  Backed(n, st)
  <1> DEFINE ps == ValidProposals(Tips, Tcs(Tips))
             S == {s \in HandlerState : Good(n, s) /\ Backed(n, s)}
             first == LocalTimeout(n, Begin(n))
  <1>1. \A p \in ps : p \in Proposal_ /\ ProposalOk(p) /\ ProposalReal(p)
    BY CertificateType, ValidOk, ValidReal DEF IInv, AllTcs
  <1>2. first \in S
    BY GoodBegin, BackedBegin, GoodTimeout, BackedTimeout DEF Good
  <1> HIDE DEF first, ps
  <1>3. \A s \in S, p \in ps : ProposalHandled(n, s, p) \subseteq S
    BY <1>1, GoodProposal, BackedProposal DEF Good
  <1> HIDE DEF S
  <1>4. st \in S
    BY <1>2, <1>3, ReplayedIn DEF first, ps
  <1> QED BY <1>4 DEF S

-----------------------------------------------------------------------------
(* Signed messages are never unsent, so nothing that was real stops being  *)
(* real.                                                                   *)

LEMMA CertificatesGrow ==
    ASSUME votes \subseteq votes', timeouts \subseteq timeouts', nes \subseteq nes',
           proposals \subseteq proposals'
    PROVE  /\ \A b, r : IsQc(b, r) => IsQc(b, r)'
           /\ Tips \subseteq Tips'
           /\ AllTcs \subseteq AllTcs'
  <1>1. ASSUME NEW b, NEW r, IsQc(b, r) PROVE IsQc(b, r)'
    BY <1>1 DEF IsQc, HasQuorum
  <1>2. ASSUME NEW r, NEW rank, TimeoutQuorum(r, rank) PROVE TimeoutQuorum(r, rank)'
    BY <1>2 DEF TimeoutQuorum
  <1>3. ASSUME NEW r, NEW q, IsNec(r, q) PROVE IsNec(r, q)'
    BY <1>3 DEF IsNec, HasQuorum
  <1>4. ASSUME NEW r, NEW q, IsNoTipTc(r, q) PROVE IsNoTipTc(r, q)'
    BY <1>1, <1>2, <1>4 DEF IsNoTipTc
  <1>5. ASSUME NEW b, IsTip(b) PROVE IsTip(b)'
    <2>1. IsSigned(b)'
      BY <1>5 DEF IsTip, IsSigned
    <2> QED BY <1>1, <1>3, <1>4, <1>5, <2>1 DEF IsTip
  <1>6. Tips \subseteq Tips'
    BY <1>5 DEF Tips
  <1>7. ASSUME NEW r, NEW b, IsTipTc(r, b) PROVE IsTipTc(r, b)'
    BY <1>2, <1>7 DEF IsTipTc
  <1>8. {t.round : t \in timeouts} \subseteq {t.round : t \in timeouts'}
    OBVIOUS
  <1>9. AllTcs \subseteq AllTcs'
    BY <1>4, <1>6, <1>7, <1>8 DEF AllTcs, Tcs
  <1> QED BY <1>1, <1>6, <1>9

LEMMA RealGrows ==
    ASSUME votes \subseteq votes', timeouts \subseteq timeouts', nes \subseteq nes',
           proposals \subseteq proposals'
    PROVE  /\ \A b, j : Justified(b, j) => Justified(b, j)'
           /\ \A c : CertReal(c) => CertReal(c)'
           /\ \A p : ProposalReal(p) => ProposalReal(p)'
           /\ \A b : RootReal(b) => RootReal(b)'
           /\ \A r : Reported(r)' => Reported(r)
  <1>1. /\ \A b, r : IsQc(b, r) => IsQc(b, r)'
        /\ AllTcs \subseteq AllTcs'
    BY CertificatesGrow
  <1>2. ASSUME NEW b, NEW j, Justified(b, j) PROVE Justified(b, j)'
    BY <1>1, <1>2 DEF Justified
  <1>3. ASSUME NEW c, CertReal(c) PROVE CertReal(c)'
    BY <1>1, <1>3 DEF CertReal
  <1>4. ASSUME NEW p, ProposalReal(p) PROVE ProposalReal(p)'
    BY <1>1, <1>2, <1>4 DEF ProposalReal
  <1>5. ASSUME NEW b, RootReal(b) PROVE RootReal(b)'
    BY <1>1, <1>5 DEF RootReal
  <1>6. ASSUME NEW r, Reported(r)' PROVE Reported(r)
    BY <1>1, <1>6 DEF Reported
  <1> QED BY <1>2, <1>3, <1>4, <1>5, <1>6

(* TCs that are not below a block of round r + 1 extend a QC from r on: a  *)
(* tip of a later round is consecutive, or rests on an NEC or on a TC for  *)
(* which that is known.                                                    *)
LEMMA TcHigh ==
    ASSUME TypeOK, NEW r \in Nat, Reported(r),
           \A e \in nes : e.round >= r + 2 => e.tip_qc_round >= r,
           NEW c \in AllTcs, c.round >= r + 1
    PROVE  c.qc_round >= r
  <1> DEFINE low == [tip |-> r + 1, qc |-> r]
  <1>0. c.round \in Nat /\ c.qc_round \in Nat
    BY TcShape
  <1>1. ~ RankLess(ExtendRank(c.tip, c.qc_round), low)
    BY DEF Reported
  <1>2. CASE c.tip = None
    BY <1>0, <1>1, <1>2 DEF ExtendRank, QcRank, RankLess, GENESIS_ROUND
  <1>3. CASE c.tip # None
    <2> DEFINE b == c.tip
               k == block_round[b]
               q == qc_round[b]
    <2>1. b \in Tips /\ c.qc_round = q /\ IsTip(b)
      BY <1>3, TcShape DEF Tips
    <2>2. b \in Block /\ b # Genesis /\ k \in Nat /\ q \in Nat /\ q < k /\ k <= MaxRound
      BY <2>1, TipShape, BlockAssumption DEF IsTip
    <2>3. k > r + 1 \/ (k = r + 1 /\ q >= r)
      BY <1>1, <1>3, <2>2 DEF ExtendRank, TipRank, RankLess, GENESIS_ROUND
    <2>4. ASSUME k > r + 1, IsNec(k, q) PROVE q >= r
      <3>1. PICK Q \in Quorum : Q \subseteq Faulty \cup
                {e.node : e \in {f \in nes : f.round = k /\ f.tip_qc_round = q}}
        BY <2>4 DEF IsNec, HasQuorum
      <3>2. PICK n \in Q : n \notin Faulty
        BY QuorumAssumption
      <3>3. PICK e \in nes : e.round = k /\ e.tip_qc_round = q
        BY <3>1, <3>2
      <3> QED BY <2>2, <2>4, <3>3
    <2>5. ASSUME k > r + 1, IsNoTipTc(k - 1, q) PROVE q >= r
      <3>1. PICK Q \in Quorum : Q \subseteq Faulty \cup
                {t.node : t \in {u \in timeouts : u.round = k - 1}}
        BY <2>5 DEF IsNoTipTc, TimeoutQuorum
      <3>2. PICK n \in Q : n \notin Faulty
        BY QuorumAssumption
      <3>3. PICK t \in timeouts : t.round = k - 1
        BY <3>1, <3>2
      <3>4. q \in Round
        BY <2>2, RoundAssumption DEF Round
      <3> DEFINE d == TcCert(k - 1, None, q)
      <3>5. d \in AllTcs
        <4>1. <<k - 1, q>> \in {t2.round : t2 \in timeouts} \X Round
          BY <3>3, <3>4
        <4> QED BY <2>5, <4>1 DEF AllTcs, Tcs
      <3>6. d.round = k - 1 /\ d.tip = None /\ d.qc_round = q
        BY DEF TcCert
      <3>7. ~ RankLess(QcRank(q), low)
        BY <2>2, <2>5, <3>5, <3>6 DEF Reported, ExtendRank
      <3> QED BY <2>2, <3>7 DEF QcRank, RankLess, GENESIS_ROUND
    <2> HIDE DEF b, k, q
    <2> QED BY <2>1, <2>2, <2>3, <2>4, <2>5 DEF IsTip, k, q
  <1> QED BY <1>2, <1>3

LEMMA WriteBacked ==
    ASSUME IInv, AInv, NEW n \in Honest, NEW st \in HandlerState, Emitted(n, st),
           SentReal(st), Write(n, st),
           creating' \subseteq creating \cup st.creating, behind \subseteq behind',
           NEW fork, forkpoint' = [forkpoint EXCEPT ![n] = fork],
           CertReal(fork.cert), RootReal(fork.root),
           n \in Stable' => /\ VotesJustified(n, votes \cup st.votes)
                            /\ TipJustified(n, st.safety, st.cert, votes \cup st.votes)
    PROVE  AInv'
  <1>0. /\ TypeOK
        /\ votes' = votes \cup st.votes /\ timeouts' = timeouts \cup st.timeouts
        /\ proposals' = proposals \cup st.proposals /\ nes' = nes \cup st.nes
        /\ recoveries' = recoveries \cup st.recoveries
        /\ safety' = [safety EXCEPT ![n] = st.safety]
        /\ cert' = [cert EXCEPT ![n] = st.cert]
        /\ root' = [root EXCEPT ![n] = st.root]
        /\ Stable' \subseteq Stable
    BY DEF IInv, Write, Stable
  <1>1. /\ safety'[n] = st.safety /\ cert'[n] = st.cert /\ forkpoint'[n] = fork
        /\ root'[n] = st.root
        /\ \A m \in Honest \ {n} : /\ safety'[m] = safety[m] /\ cert'[m] = cert[m]
                                   /\ forkpoint'[m] = forkpoint[m] /\ root'[m] = root[m]
    BY <1>0 DEF TypeOK
  <1>2. /\ votes \subseteq votes' /\ timeouts \subseteq timeouts' /\ nes \subseteq nes'
        /\ proposals \subseteq proposals'
    BY <1>0
  <1>3. /\ \A b, j : Justified(b, j) => Justified(b, j)'
        /\ \A c : CertReal(c) => CertReal(c)'
        /\ \A p : ProposalReal(p) => ProposalReal(p)'
        /\ \A b : RootReal(b) => RootReal(b)'
        /\ \A r : Reported(r)' => Reported(r)
        /\ \A b, r : IsQc(b, r) => IsQc(b, r)'
        /\ AllTcs \subseteq AllTcs'
    BY <1>2, RealGrows, CertificatesGrow
  <1>4. recoveries' \subseteq AllTcs'
    BY <1>0, <1>3 DEF AInv, SentReal
  <1>5. ASSUME NEW p \in proposals' \cup creating' PROVE ProposalReal(p)'
    BY <1>0, <1>3 DEF AInv, SentReal
  <1>6. ASSUME NEW r \in Nat, Reported(r)', NEW e \in nes', e.round >= r + 2
        PROVE  e.tip_qc_round >= r
    <2>1. Reported(r)
      BY <1>3, <1>6
    <2>2. \A f \in nes : f.round >= r + 2 => f.tip_qc_round >= r
      BY <2>1 DEF AInv, NesHigh
    <2>3. CASE e \in nes
      BY <1>6, <2>2, <2>3
    <2>4. CASE e \in st.nes
      <3>1. PICK c \in AllTcs : e.round = c.round + 1 /\ e.tip_qc_round = c.qc_round
        BY <2>4 DEF SentReal, NeReal
      <3>2. c.round \in Nat
        BY <1>0, TcShape
      <3>3. c.round >= r + 1
        BY <1>6, <3>1, <3>2
      <3> QED BY <1>0, <2>1, <2>2, <3>1, <3>3, TcHigh
    <2> QED BY <1>0, <2>3, <2>4
  <1>7. ASSUME NEW m \in Honest
        PROVE  /\ CertReal(cert[m])' /\ CertReal(forkpoint[m].cert)'
               /\ RootReal(root[m])' /\ RootReal(forkpoint[m].root)'
    <2>1. /\ CertReal(cert'[m]) /\ CertReal(forkpoint'[m].cert)
          /\ RootReal(root'[m]) /\ RootReal(forkpoint'[m].root)
      <3>1. CASE m = n
        BY <1>1, <3>1 DEF SentReal
      <3>2. CASE m # n
        BY <1>1, <3>2 DEF AInv
      <3> QED BY <3>1, <3>2
    <2>2. CertReal(cert[m])' /\ CertReal(forkpoint[m].cert)'
      BY <1>3, <2>1 DEF CertReal
    <2>3. RootReal(root[m])' /\ RootReal(forkpoint[m].root)'
      BY <1>3, <2>1 DEF RootReal
    <2> QED BY <2>2, <2>3
  <1>8. ASSUME NEW m \in Stable'
        PROVE  VotesJustified(m, votes)' /\ TipJustified(m, safety[m], cert[m], votes)'
    <2>0. m \in Honest /\ m \in Stable
      BY <1>0 DEF Stable
    <2>1. VotesJustified(m, votes') /\ TipJustified(m, safety'[m], cert'[m], votes')
      <3>1. CASE m = n
        BY <1>0, <1>1, <1>8, <3>1
      <3>2. CASE m # n
        <4>1. \A v \in votes' : v.node = m => v \in votes
          BY <1>0, <3>2 DEF Emitted
        <4>2. VotesJustified(m, votes) /\ TipJustified(m, safety[m], cert[m], votes)
          BY <2>0 DEF AInv
        <4>3. VotesJustified(m, votes')
          BY <1>2, <4>1, <4>2 DEF VotesJustified
        <4>4. TipJustified(m, safety[m], cert[m], votes')
          BY <4>1, <4>2 DEF TipJustified
        <4> QED BY <1>1, <2>0, <3>2, <4>3, <4>4
      <3> QED BY <3>1, <3>2
    <2>2. VotesJustified(m, votes)'
      BY <1>3, <2>1 DEF VotesJustified
    <2>3. TipJustified(m, safety[m], cert[m], votes)'
      BY <1>3, <2>1 DEF TipJustified
    <2> QED BY <2>2, <2>3
  <1> QED BY <1>4, <1>5, <1>6, <1>7, <1>8 DEF AInv, NesHigh

LEMMA CrashBacked ==
    ASSUME IInv, AInv, NEW n \in Honest, NEW st, Good(n, st), Backed(n, st), Crash(n, st)
    PROVE  AInv'
  <1> DEFINE new == Restarted(n, st)
             fork == forkpoint[n]
  <1>0. /\ TypeOK /\ st \in HandlerState
        /\ Write(n, new) /\ creating' \subseteq creating
        /\ behind \subseteq behind'
        /\ forkpoint' = forkpoint
    BY DEF IInv, Good, Crash, Restarted
  <1>1. /\ new \in HandlerState
        /\ new.safety = SafetyNew(fork.cert) /\ new.cert = fork.cert /\ new.root = fork.root
        /\ new.votes = st.votes /\ new.nes = st.nes /\ new.proposals = st.proposals
        /\ new.creating = st.creating /\ new.recoveries = st.recoveries
    BY <1>0, RestartedFields
  <1>2. new.safety.maybe_high_tip = None
    BY <1>1 DEF SafetyNew
  <1>3. /\ forkpoint' = [forkpoint EXCEPT ![n] = fork]
        /\ CertReal(fork.cert) /\ RootReal(fork.root)
    BY <1>0 DEF TypeOK, AInv
  <1> HIDE DEF new, fork
  <1>4. Emitted(n, new) /\ SentReal(new)
    BY <1>1, <1>3 DEF Good, Emitted, Backed, SentReal
  <1>5. n \in Stable' => n \in Stable
    BY <1>0 DEF Stable
  <1>6. TipJustified(n, new.safety, new.cert, votes \cup new.votes)
    BY <1>2 DEF TipJustified
  <1>7. n \in Stable' => VotesJustified(n, votes \cup new.votes)
    BY <1>1, <1>5 DEF Backed
  <1> QED BY <1>0, <1>1, <1>3, <1>4, <1>6, <1>7, WriteBacked

LEMMA FinishBacked ==
    ASSUME IInv, AInv, NEW n \in Honest, NEW st, Good(n, st), Backed(n, st), Finish(n, st)
    PROVE  AInv'
  <1>1. CASE /\ Write(n, st) /\ creating' = creating \cup st.creating
             /\ forkpoint' = [forkpoint EXCEPT ![n] = Checkpointed(n, st)]
             /\ UNCHANGED << syncing, behind, crashes >>
    <2> DEFINE fork == Checkpointed(n, st)
    <2>1. CertReal(fork.cert) /\ RootReal(fork.root)
      BY DEF Checkpointed, AInv, Backed, SentReal
    <2> HIDE DEF fork
    <2>2. forkpoint' = [forkpoint EXCEPT ![n] = fork]
      BY <1>1 DEF fork
    <2>3. n \in Stable' => n \in Stable
      BY <1>1 DEF Stable
    <2> QED BY <1>1, <2>1, <2>2, <2>3, WriteBacked DEF Good, Backed
  <1>2. CASE Crash(n, st)
    BY <1>2, CrashBacked
  <1> QED BY <1>1, <1>2 DEF Finish

LEMMA StartBacked ==
    ASSUME IInv, AInv, NEW n \in Honest,
           MaybeStartConsensus(n, ValidProposals(Tips, Tcs(Tips)))
    PROVE  AInv'
  <1>1. PICK st \in Replayed(n, LocalTimeout(n, Begin(n)), ValidProposals(Tips, Tcs(Tips))) :
          Write(n, st) /\ creating' = creating \cup st.creating
    BY DEF MaybeStartConsensus
  <1>2. UNCHANGED << forkpoint, behind, crashes >>
    BY DEF MaybeStartConsensus
  <1>3. Good(n, st) /\ Backed(n, st)
    BY <1>1, GoodStart, BackedStart
  <1> DEFINE fork == forkpoint[n]
  <1>4. /\ CertReal(fork.cert) /\ RootReal(fork.root)
        /\ forkpoint' = [forkpoint EXCEPT ![n] = fork]
    BY <1>2 DEF AInv, IInv, TypeOK
  <1> HIDE DEF fork
  <1>5. n \in Stable' => n \in Stable
    BY <1>2 DEF Stable
  <1> QED BY <1>1, <1>2, <1>3, <1>4, <1>5, WriteBacked DEF Good, Backed

LEMMA PublishBacked ==
    ASSUME IInv, AInv, NEW p \in creating, PublishProposal(p)
    PROVE  AInv'
  <1> DEFINE q == [round |-> p.round, tip |-> p.tip, tc |-> p.tc]
  <1>1. /\ proposals' = proposals \cup {q} /\ creating' = creating \ {p}
        /\ UNCHANGED << safety, cert, root, forkpoint, syncing, behind, votes, timeouts, nes, recoveries, crashes >>
    BY DEF PublishProposal
  <1>2. q.round = p.round /\ q.tip = p.tip /\ q.tc = p.tc
    OBVIOUS
  <1> HIDE DEF q
  <1>3. /\ \A b, j : Justified(b, j) => Justified(b, j)'
        /\ \A c : CertReal(c) => CertReal(c)'
        /\ \A x : ProposalReal(x) => ProposalReal(x)'
        /\ \A b : RootReal(b) => RootReal(b)'
        /\ \A r : Reported(r)' => Reported(r)
        /\ \A b, r : IsQc(b, r) => IsQc(b, r)'
        /\ AllTcs \subseteq AllTcs'
    BY <1>1, RealGrows, CertificatesGrow
  <1>4. recoveries' \subseteq AllTcs'
    BY <1>1, <1>3 DEF AInv
  <1>5. ASSUME NEW x \in proposals' \cup creating' PROVE ProposalReal(x)'
    <2>1. ProposalReal(x)
      BY <1>1, <1>2 DEF AInv, ProposalReal
    <2> QED BY <1>3, <2>1
  <1>6. NesHigh'
    BY <1>1, <1>3 DEF AInv, NesHigh
  <1>7. ASSUME NEW m \in Honest
        PROVE  /\ CertReal(cert[m])' /\ CertReal(forkpoint[m].cert)'
               /\ RootReal(root[m])' /\ RootReal(forkpoint[m].root)'
    <2>1. /\ CertReal(cert[m]) /\ CertReal(forkpoint[m].cert)
          /\ RootReal(root[m]) /\ RootReal(forkpoint[m].root)
      BY DEF AInv
    <2>2. CertReal(cert[m])' /\ CertReal(forkpoint[m].cert)'
      BY <1>1, <1>3, <2>1 DEF CertReal
    <2>3. RootReal(root[m])' /\ RootReal(forkpoint[m].root)'
      BY <1>1, <1>3, <2>1 DEF RootReal
    <2> QED BY <2>2, <2>3
  <1>8. ASSUME NEW m \in Stable'
        PROVE  VotesJustified(m, votes)' /\ TipJustified(m, safety[m], cert[m], votes)'
    <2>1. VotesJustified(m, votes) /\ TipJustified(m, safety[m], cert[m], votes)
      BY <1>1 DEF AInv, Stable
    <2>2. VotesJustified(m, votes)'
      BY <1>1, <1>3, <2>1 DEF VotesJustified
    <2>3. TipJustified(m, safety[m], cert[m], votes)'
      BY <1>1, <1>3, <2>1 DEF TipJustified
    <2> QED BY <2>2, <2>3
  <1> QED BY <1>4, <1>5, <1>6, <1>7, <1>8 DEF AInv

LEMMA InitBacked ==
    ASSUME Init
    PROVE  AInv
  <1> DEFINE c == QcCert(GENESIS_ROUND)
             s == SafetyNew(c)
  <1>1. c.tc = FALSE /\ c.round = 0 /\ c.qc_round = 0
    BY DEF QcCert, GENESIS_ROUND
  <1>2. s.maybe_high_tip = None
    BY DEF SafetyNew
  <1>3. \A n \in Honest : /\ safety[n] = s /\ cert[n] = c /\ root[n] = Genesis
                          /\ forkpoint[n].cert = c /\ forkpoint[n].root = Genesis
    BY DEF Init
  <1>4. votes = {} /\ proposals = {} /\ creating = {} /\ recoveries = {} /\ nes = {}
    BY DEF Init
  <1> HIDE DEF c, s
  <1>5. CertReal(c) /\ RootReal(Genesis)
    BY <1>1 DEF CertReal, RootReal
  <1> QED BY <1>2, <1>3, <1>4, <1>5 DEF AInv, NesHigh, VotesJustified, TipJustified

(* Every handler ends in a backed state, so every step preserves AInv. *)
LEMMA NextBacked ==
    ASSUME IInv, AInv, Next
    PROVE  AInv'
  <1>0. TypeOK /\ \A n \in Honest : Good(n, Begin(n)) /\ Backed(n, Begin(n))
    BY GoodBegin, BackedBegin DEF IInv
  <1>1. ASSUME NEW n \in Honest, Stop(n) PROVE AInv'
    BY <1>0, <1>1, CrashBacked DEF Stop
  <1>2. ASSUME NEW n \in Honest, HandleTimeoutExpiry(n) PROVE AInv'
    BY <1>0, <1>2, GoodTimeout, BackedTimeout, FinishBacked DEF HandleTimeoutExpiry
  <1>3. ASSUME NEW n \in Honest, HandleNoEndorsementMessage(n) PROVE AInv'
    <2>1. PICK st \in TryPropose(n, Begin(n)) : Finish(n, st)
      BY <1>3 DEF HandleNoEndorsementMessage
    <2> QED BY <1>0, <2>1, GoodPropose, BackedPropose, FinishBacked
  <1>4. ASSUME NEW p \in creating, PublishProposal(p) PROVE AInv'
    BY <1>4, PublishBacked
  <1>5. ASSUME NEW q \in Qcs, NEW n \in Honest, HandleQc(n, q) PROVE AInv'
    <2>1. q.id \in Block /\ q.round \in Nat /\ IsQc(q.id, q.round)
      BY <1>0, CertificateType DEF Qcs
    <2>2. PICK st \in ProcessQc(n, Begin(n), q.id, q.round) : Finish(n, st)
      BY <1>5 DEF HandleQc
    <2>3. Good(n, st) /\ Backed(n, st)
      BY <1>0, <2>1, <2>2, GoodProcess, BackedProcess
    <2> QED BY <2>2, <2>3, FinishBacked
  <1>6. ASSUME NEW q, q.id \in Block, IsQc(q.id, q.round), NEW n \in Honest, HandleBlockSync(n, q)
        PROVE  AInv'
    <2>1. PICK st1 \in TryCommit(Begin(n), q.id, q.round) :
            \E st2 \in TryPropose(n, st1) : Finish(n, st2)
      BY <1>6 DEF HandleBlockSync
    <2>2. PICK st2 \in TryPropose(n, st1) : Finish(n, st2)
      BY <2>1
    <2>3. Good(n, st1) /\ Backed(n, st1)
      BY <1>0, <1>6, GoodCommit, BackedCommit
    <2>4. Good(n, st2) /\ Backed(n, st2)
      BY <2>3, GoodPropose, BackedPropose
    <2> QED BY <2>2, <2>4, FinishBacked
  <1>7. ASSUME NEW c \in AllTcs, NEW n \in Honest, HandleTc(n, c)
        PROVE  AInv'
    <2>1. c \in RoundCertificate /\ CertOk(c)
      BY <1>0, CertificateType, ValidOk DEF AllTcs
    <2>2. PICK st \in ProcessTc(n, Begin(n), c) : Finish(n, st)
      BY <1>7 DEF HandleTc
    <2>3. Good(n, st) /\ Backed(n, st)
      BY <1>0, <2>1, <2>2, GoodProcess, BackedProcess
    <2> QED BY <2>2, <2>3, FinishBacked
  <1>8. ASSUME NEW p \in ValidProposals(Tips, AllTcs), NEW n \in Honest,
               HandleProposalMessage(n, p)
        PROVE  AInv'
    <2>1. p \in Proposal_ /\ ProposalOk(p) /\ ProposalReal(p)
      BY <1>0, CertificateType, ValidOk, ValidReal DEF AllTcs
    <2>2. PICK st \in ProposalHandled(n, Begin(n), p) : Finish(n, st)
      BY <1>8 DEF HandleProposalMessage
    <2>3. Good(n, st) /\ Backed(n, st)
      BY <1>0, <2>1, GoodProposal, BackedProposal
    <2> QED BY <2>2, <2>3, FinishBacked
  <1>9. ASSUME NEW c \in ValidRecoveries(AllTcs), NEW n \in Honest,
               HandleRoundRecoveryMessage(n, c)
        PROVE  AInv'
    <2>1. c \in AllTcs /\ c \in TipTc /\ c \in RoundCertificate /\ CertOk(c)
      BY <1>0, CertificateType, ValidOk, ValidReal DEF TipTc, AllTcs
    <2>2. PICK st1 \in ProcessTc(n, Begin(n), c) :
            \E st2 \in NoEndorseTip(n, st1, c) : Finish(n, st2)
      BY <1>9 DEF HandleRoundRecoveryMessage
    <2>3. PICK st2 \in NoEndorseTip(n, st1, c) : Finish(n, st2)
      BY <2>2
    <2>4. Good(n, st1) /\ Backed(n, st1)
      BY <1>0, <2>1, <2>2, GoodProcess, BackedProcess
    <2>5. Good(n, st2) /\ Backed(n, st2)
      BY <2>1, <2>3, <2>4, GoodNoEndorse, BackedNoEndorse
    <2> QED BY <2>3, <2>5, FinishBacked
  <1>10. /\ Genesis \in Block /\ IsQc(Genesis, GENESIS_ROUND)
         /\ \A q \in Qcs : q.id \in Block /\ IsQc(q.id, q.round)
    BY <1>0, CertificateType, BlockAssumption DEF Qcs, IsQc
  <1>11. ASSUME NEW n \in Honest, MaybeStartConsensus(n, ValidProposals(Tips, AllTcs))
         PROVE  AInv'
    BY <1>11, StartBacked DEF AllTcs
  <1> QED BY <1>1, <1>2, <1>3, <1>4, <1>5, <1>6, <1>7, <1>8, <1>9, <1>10, <1>11 DEF Next, AllTcs

(* The third invariant is inductive relative to the first. *)
THEOREM CommitInvariance == Spec => []AInv
  <1>1. Init => AInv
    BY InitBacked
  <1>2. IInv /\ AInv /\ [Next]_vars => AInv'
    <2> SUFFICES ASSUME IInv, AInv, [Next]_vars PROVE AInv'
      OBVIOUS
    <2>1. CASE Next
      BY <2>1, NextBacked
    <2>2. CASE UNCHANGED vars
      <3>1. /\ AllTcs' = AllTcs /\ Stable' = Stable
        BY <2>2 DEF vars, AllTcs, Stable, Tcs, Tips, IsTip, IsTipTc, IsNoTipTc, IsNec, IsSigned,
                    TimeoutQuorum, IsQc, HasQuorum
      <3>2. \A b, r : IsQc(b, r)' = IsQc(b, r)
        BY <2>2 DEF vars, IsQc, HasQuorum
      <3> QED BY <2>2, <3>1, <3>2 DEF vars, AInv, NesHigh, Reported, ProposalReal, CertReal, RootReal,
                    VotesJustified, TipJustified, Justified
    <2> QED BY <2>1, <2>2
  <1> QED BY <1>1, <1>2, Invariance, PTL DEF Spec

-----------------------------------------------------------------------------
(* What commits. *)

(* A stable validator in every quorum of voters: a certified block is      *)
(* justified, was not certified before its round, and its QC exists.       *)
LEMMA CertifiedJustified ==
    ASSUME IInv, CInv, AInv, StableOverlap, NEW b, NEW r, IsQc(b, r), b # Genesis
    PROVE  /\ b \in Block \ {Genesis} /\ r \in Nat
           /\ IsQc(parent[b], qc_round[b])
           /\ block_round[b] <= r /\ qc_round[b] < r
  <1>1. PICK Q \in Quorum : Q \subseteq Faulty \cup
          {v.node : v \in {w \in votes : w.id = b /\ w.round = r}}
    BY DEF IsQc, HasQuorum
  <1>2. PICK n \in Q : n \in Stable
    BY <1>1 DEF StableOverlap
  <1>3. PICK v \in votes : v.node = n /\ v.id = b /\ v.round = r
    BY <1>1, <1>2 DEF Stable, Honest
  <1>4. n \in Honest /\ r \in Nat
    BY <1>2, <1>3 DEF Stable, IInv, TypeOK, Vote_
  <1>5. PICK j \in 0..r : Justified(b, j)
    BY <1>2, <1>3, <1>4 DEF AInv, VotesJustified
  <1>6. b \in Block \ {Genesis} /\ IsQc(parent[b], qc_round[b])
    BY <1>5 DEF Justified
  <1>7. [id |-> b, round |-> r] \in Qcs
    BY <1>3 DEF Qcs
  <1>8. block_round[b] <= r
    BY <1>7, NoneEarly DEF QcNotBeforeBlock
  <1> QED BY <1>4, <1>6, <1>8, BlockAssumption

(* Nobody votes for the genesis block *)
LEMMA GenesisOnce ==
    ASSUME AInv, StableOverlap, NEW r, IsQc(Genesis, r)
    PROVE  r = GENESIS_ROUND
  <1> SUFFICES ASSUME r # GENESIS_ROUND PROVE FALSE
    OBVIOUS
  <1>1. PICK Q \in Quorum : Q \subseteq Faulty \cup
          {v.node : v \in {w \in votes : w.id = Genesis /\ w.round = r}}
    BY DEF IsQc, HasQuorum
  <1>2. PICK n \in Q : n \in Stable
    BY <1>1 DEF StableOverlap
  <1>3. PICK v \in votes : v.node = n /\ v.id = Genesis
    BY <1>1, <1>2 DEF Stable, Honest
  <1>4. \E j \in 0..v.round : Justified(Genesis, j)
    BY <1>2, <1>3 DEF AInv, VotesJustified, Stable
  <1> QED BY <1>4 DEF Justified

(* One QC per round, the genesis QC included *)
LEMMA OneCertified ==
    ASSUME IInv, CInv, AInv, StableOverlap, NEW b, NEW c, NEW r, IsQc(b, r), IsQc(c, r)
    PROVE  b = c
  <1>1. ASSUME NEW x, IsQc(x, r), x # Genesis PROVE r # GENESIS_ROUND /\ [id |-> x, round |-> r] \in Qcs
    <2>1. PICK Q \in Quorum : Q \subseteq Faulty \cup
            {v.node : v \in {w \in votes : w.id = x /\ w.round = r}}
      BY <1>1 DEF IsQc, HasQuorum
    <2>2. PICK n \in Q : n \notin Faulty
      BY QuorumAssumption
    <2>3. PICK v \in votes : v.id = x /\ v.round = r
      BY <2>1, <2>2
    <2> QED BY <1>1, <2>3 DEF Qcs, IInv, GENESIS_ROUND
  <1>2. ASSUME IsQc(Genesis, r) PROVE r = GENESIS_ROUND
    BY <1>2, GenesisOnce
  <1>3. CASE b # Genesis /\ c # Genesis
    <2>1. [id |-> b, round |-> r] \in Qcs /\ [id |-> c, round |-> r] \in Qcs
      BY <1>1, <1>3
    <2> QED BY <2>1, OneQcHolds DEF OneQcPerRound
  <1> QED BY <1>1, <1>2, <1>3

(* Every certified block extends the genesis block. *)
LEMMA GenesisBelow ==
    ASSUME IInv, CInv, AInv, StableOverlap, NEW b, NEW r, IsQc(b, r)
    PROVE  Genesis \in ancestors[b]
  <1> DEFINE Bad == {k \in Nat : \E x : x # Genesis /\ IsQc(x, k) /\ Genesis \notin ancestors[x]}
  <1>0. Genesis \in ancestors[Genesis]
    BY BlockAssumption
  <1>1. Bad = {}
    <2> SUFFICES ASSUME Bad # {} PROVE FALSE
      OBVIOUS
    <2>1. Bad \in SUBSET Nat
      OBVIOUS
    <2> HIDE DEF Bad
    <2>2. PICK k \in Bad : \A m \in Bad : k <= m
      BY <2>1, LeastNumber
    <2>3. PICK x : x # Genesis /\ IsQc(x, k) /\ Genesis \notin ancestors[x]
      BY <2>2 DEF Bad
    <2>4. /\ x \in Block \ {Genesis} /\ k \in Nat
          /\ IsQc(parent[x], qc_round[x]) /\ qc_round[x] < k
      BY <2>3, CertifiedJustified
    <2>5. qc_round[x] \in Nat /\ ancestors[x] = {x} \cup ancestors[parent[x]]
      BY <2>4, BlockAssumption
    <2>6. qc_round[x] \notin Bad
      BY <2>2, <2>4, <2>5
    <2> QED BY <1>0, <2>3, <2>4, <2>5, <2>6 DEF Bad
  <1>2. CASE b = Genesis
    BY <1>0, <1>2
  <1>3. CASE b # Genesis
    <2>1. r \in Nat
      BY <1>3, CertifiedJustified
    <2> QED BY <1>1, <1>3, <2>1
  <1> QED BY <1>2, <1>3

LEMMA Itself == \A b \in Block : b \in ancestors[b]
  BY BlockAssumption

(* If no TC has forgotten the QC on x that commits x's parent, every QC of *)
(* the parent's round or a later one is on a block that extends the        *)
(* parent, and every later TC extends such a QC.                           *)
LEMMA CommitKept ==
    ASSUME IInv, CInv, AInv, StableOverlap, CommitsReported,
           NEW x \in Block \ {Genesis}, IsQc(x, qc_round[x] + 1)
    PROVE  /\ IsQc(parent[x], qc_round[x])
           /\ \A y, s : IsQc(y, s) /\ s \in Nat /\ s >= qc_round[x] => parent[x] \in ancestors[y]
           /\ \A c \in AllTcs : c.round >= qc_round[x] + 1 => c.qc_round >= qc_round[x]
  <1> DEFINE r == qc_round[x]
             B == parent[x]
  <1>0. /\ r \in Nat /\ B \in Block /\ block_round[x] = r + 1 /\ IsQc(B, r)
        /\ ancestors[x] = {x} \cup ancestors[B] /\ TypeOK
    <2>1. block_round[x] <= r + 1 /\ IsQc(B, r)
      BY CertifiedJustified
    <2>2. r \in Nat /\ block_round[x] \in Nat /\ r < block_round[x]
      BY BlockAssumption
    <2> QED BY <2>1, <2>2, BlockAssumption DEF IInv
  <1>1. PICK Q1 \in Quorum : Q1 \subseteq Faulty \cup
          {v.node : v \in {w \in votes : w.id = x /\ w.round = r + 1}}
    BY DEF IsQc, HasQuorum
  <1>2. Reported(r)
    <2>1. PICK n \in Q1 : n \notin Faulty
      BY QuorumAssumption
    <2>2. PICK v \in votes : v.id = x /\ v.round = r + 1
      BY <1>1, <2>1
    <2> DEFINE q == [id |-> x, round |-> r + 1]
    <2>3. q \in Qcs
      BY <2>2 DEF Qcs
    <2>4. Committable(q.id, q.round) /\ q.id = x /\ q.round = r + 1
      BY DEF Committable
    <2>5. TipRank(x) = [tip |-> r + 1, qc |-> r]
      BY <1>0 DEF TipRank
    <2> HIDE DEF q
    <2> QED BY <2>3, <2>4, <2>5 DEF CommitsReported, Reported, AllTcs
  <1>3. \A e \in nes : e.round >= r + 2 => e.tip_qc_round >= r
    BY <1>0, <1>2 DEF AInv, NesHigh
  <1>4. \A c \in AllTcs : c.round >= r + 1 => c.qc_round >= r
    BY <1>0, <1>2, <1>3, TcHigh
  <1> DEFINE Bad == {k \in Nat : k >= r /\ \E y : IsQc(y, k) /\ B \notin ancestors[y]}
  <1>5. Bad = {}
    <2> SUFFICES ASSUME Bad # {} PROVE FALSE
      OBVIOUS
    <2>1. Bad \in SUBSET Nat
      OBVIOUS
    <2> HIDE DEF Bad, r, B
    <2>2. PICK k \in Bad : \A m \in Bad : k <= m
      BY <2>1, LeastNumber
    <2>3. PICK y : IsQc(y, k) /\ B \notin ancestors[y]
      BY <2>2 DEF Bad
    <2>4. k \in Nat /\ k >= r
      BY <2>2 DEF Bad
    <2>5. k # r
      <3>1. ASSUME k = r PROVE FALSE
        <4>1. y = B
          BY <1>0, <2>3, <3>1, OneCertified
        <4> QED BY <1>0, <2>3, <4>1, Itself
      <3> QED BY <3>1
    <2>6. k # r + 1
      <3>1. ASSUME k = r + 1 PROVE FALSE
        <4>1. y = x
          BY <2>3, <3>1, OneCertified DEF r
        <4> QED BY <1>0, <2>3, <4>1, Itself
      <3> QED BY <3>1
    <2>7. y # Genesis
      BY <1>0, <2>3, <2>4, <2>5, GenesisOnce DEF GENESIS_ROUND
    <2>8. y \in Block \ {Genesis} /\ IsQc(parent[y], qc_round[y]) /\ qc_round[y] < k
      BY <2>3, <2>7, CertifiedJustified
    <2>9. PICK Q2 \in Quorum : Q2 \subseteq Faulty \cup
            {v.node : v \in {w \in votes : w.id = y /\ w.round = k}}
      BY <2>3, <2>7 DEF IsQc, HasQuorum
    <2>10. PICK n \in Q1 \cap Q2 : n \in Stable
      BY DEF StableOverlap
    <2>11. n \in Honest /\ n \notin Faulty
      BY <2>10 DEF Stable, Honest
    <2>12. PICK v \in votes : v.node = n /\ v.id = x /\ v.round = r + 1
      BY <1>1, <2>10, <2>11
    <2>13. PICK w \in votes : w.node = n /\ w.id = y /\ w.round = k
      BY <2>9, <2>10, <2>11
    <2>14. PICK j \in 0..k :
              /\ Justified(y, j)
              /\ \A u \in votes : u.node = n /\ j <= u.round /\ u.round <= k => u.id = y
      BY <2>10, <2>11, <2>13 DEF AInv, VotesJustified
    <2>15. CASE j <= r + 1
      <3>1. x = y
        BY <1>0, <2>4, <2>5, <2>12, <2>14, <2>15
      <3> QED BY <1>0, <2>3, <3>1, Itself
    <2>16. CASE j >= r + 2
      <3>1. qc_round[y] \in Nat /\ ancestors[y] = {y} \cup ancestors[parent[y]]
        BY <2>8, BlockAssumption
      <3>2. qc_round[y] >= r
        <4>1. CASE j = qc_round[y] + 1
          BY <1>0, <2>16, <3>1, <4>1
        <4>2. CASE \E c \in AllTcs : j = c.round + 1 /\ c.qc_round = qc_round[y]
          <5>1. PICK c \in AllTcs : j = c.round + 1 /\ c.qc_round = qc_round[y]
            BY <4>2
          <5>2. c.round \in Nat
            BY <1>0, TcShape
          <5>3. c.round >= r + 1
            BY <1>0, <2>16, <5>1, <5>2
          <5> QED BY <1>4, <5>1, <5>3
        <4> QED BY <2>14, <4>1, <4>2 DEF Justified
      <3>3. qc_round[y] \notin Bad
        BY <2>2, <2>4, <2>8, <3>1
      <3>4. B \in ancestors[parent[y]]
        BY <2>8, <3>1, <3>2, <3>3 DEF Bad
      <3> QED BY <2>3, <3>1, <3>4
    <2> QED BY <1>0, <2>14, <2>15, <2>16
  <1> QED BY <1>0, <1>4, <1>5

(* The roots of all validators, and of their forkpoints, are on one chain. *)
LEMMA RootsAgree ==
    ASSUME IInv, CInv, AInv, StableOverlap, CommitsReported,
           NEW a \in Block, RootReal(a), NEW b \in Block, RootReal(b)
    PROVE  a \in ancestors[b] \/ b \in ancestors[a]
  <1>1. ASSUME NEW z, RootReal(z), z # Genesis
        PROVE  \E x \in Block \ {Genesis} : z = parent[x] /\ IsQc(x, qc_round[x] + 1)
    BY <1>1 DEF RootReal
  <1>2. ASSUME NEW z, RootReal(z) PROVE Genesis \in ancestors[z]
    <2>1. CASE z = Genesis
      BY <2>1, BlockAssumption
    <2>2. CASE z # Genesis
      <3>1. PICK x \in Block \ {Genesis} : z = parent[x] /\ IsQc(x, qc_round[x] + 1)
        BY <1>1, <1>2, <2>2
      <3>2. IsQc(z, qc_round[x])
        BY <3>1, CommitKept
      <3> QED BY <3>2, GenesisBelow
    <2> QED BY <2>1, <2>2
  <1>3. CASE a = Genesis \/ b = Genesis
    BY <1>2, <1>3
  <1>4. CASE a # Genesis /\ b # Genesis
    <2>1. PICK x \in Block \ {Genesis} : a = parent[x] /\ IsQc(x, qc_round[x] + 1)
      BY <1>1, <1>4
    <2>2. PICK y \in Block \ {Genesis} : b = parent[y] /\ IsQc(y, qc_round[y] + 1)
      BY <1>1, <1>4
    <2>3. qc_round[x] \in Nat /\ qc_round[y] \in Nat
      BY BlockAssumption
    <2>4. /\ IsQc(a, qc_round[x])
          /\ \A z, s : IsQc(z, s) /\ s \in Nat /\ s >= qc_round[x] => a \in ancestors[z]
      BY <2>1, CommitKept
    <2>5. /\ IsQc(b, qc_round[y])
          /\ \A z, s : IsQc(z, s) /\ s \in Nat /\ s >= qc_round[y] => b \in ancestors[z]
      BY <2>2, CommitKept
    <2>6. qc_round[x] >= qc_round[y] \/ qc_round[y] >= qc_round[x]
      BY <2>3
    <2> QED BY <2>3, <2>4, <2>5, <2>6
  <1> QED BY <1>3, <1>4

(* Validators commit one chain as long as no TC forgets a QC that commits, *)
(* whatever faulty validators sign, and whichever validators restart with  *)
(* a forkpoint that is behind, as long as any two quorums share one that   *)
(* has not.                                                                *)
THEOREM CommitsAgree == Spec => [](StableOverlap => Agreement)
  <1>1. IInv /\ CInv /\ AInv /\ StableOverlap => Agreement
    <2> SUFFICES ASSUME IInv, CInv, AInv, StableOverlap, CommitsReported,
                        NEW n \in Honest, NEW m \in Honest
                 PROVE  root[n] \in ancestors[root[m]] \/ root[m] \in ancestors[root[n]]
      BY DEF Agreement
    <2>1. root[n] \in Block /\ root[m] \in Block /\ RootReal(root[n]) /\ RootReal(root[m])
      BY DEF AInv, IInv, TypeOK
    <2> QED BY <2>1, RootsAgree
  <1> QED BY <1>1, Invariance, CertificateInvariance, CommitInvariance, PTL

(* The QC (x, r + 1) on a block with a QC of round r commits x's parent:   *)
(* all QCs since round r, and the QCs all TCs since then extend, are on    *)
(* blocks that extend it.                                                  *)
CommitsKept ==
    \A x \in Block \ {Genesis} : IsQc(x, qc_round[x] + 1) =>
        /\ \A q \in Qcs : q.round >= qc_round[x] => parent[x] \in ancestors[q.id]
        /\ \A c \in AllTcs, b \in Block :
              c.round > qc_round[x] /\ IsQc(b, c.qc_round) => parent[x] \in ancestors[b]

(* A certified block is not ahead of its QC, and its own QC is genuine.    *)
QcsJustified ==
    \A q \in Qcs : /\ q.id \in Block /\ block_round[q.id] <= q.round
                   /\ q.id # Genesis => IsQc(parent[q.id], qc_round[q.id])

(* What the block tree relies on: the certificates that consensus forms    *)
(* extend everything committed, and are on blocks that are justified by a  *)
(* QC of their own, as long as no TC forgets a QC that commits.            *)
THEOREM CommitsExtended ==
    Spec => [](StableOverlap => (CommitsReported => CommitsKept) /\ QcsJustified)
  <1>1. ASSUME IInv, CInv, AInv, StableOverlap, CommitsReported PROVE CommitsKept
    <2> SUFFICES ASSUME NEW x \in Block \ {Genesis}, IsQc(x, qc_round[x] + 1)
                 PROVE  /\ \A q \in Qcs : q.round >= qc_round[x] => parent[x] \in ancestors[q.id]
                        /\ \A c \in AllTcs, b \in Block :
                              c.round > qc_round[x] /\ IsQc(b, c.qc_round) => parent[x] \in ancestors[b]
      BY DEF CommitsKept
    <2>1. /\ \A y, s : IsQc(y, s) /\ s \in Nat /\ s >= qc_round[x] => parent[x] \in ancestors[y]
          /\ \A c \in AllTcs : c.round >= qc_round[x] + 1 => c.qc_round >= qc_round[x]
      BY <1>1, CommitKept
    <2>2. qc_round[x] \in Nat
      BY BlockAssumption
    <2>3. \A q \in Qcs : IsQc(q.id, q.round) /\ q.round \in Nat
      BY <1>1 DEF Qcs, IInv, TypeOK, Vote_
    <2>4. \A c \in AllTcs : c.round \in Nat /\ c.qc_round \in Nat
      BY <1>1, TcShape DEF IInv
    <2>5. \A c \in AllTcs : c.round > qc_round[x] => c.qc_round >= qc_round[x]
      BY <2>1, <2>2, <2>4
    <2> QED BY <2>1, <2>3, <2>4, <2>5
  <1>2. ASSUME IInv, CInv, AInv, StableOverlap, NEW q \in Qcs
        PROVE  /\ q.id \in Block /\ block_round[q.id] <= q.round
               /\ q.id # Genesis => IsQc(parent[q.id], qc_round[q.id])
    <2>1. IsQc(q.id, q.round) /\ q.id \in Block /\ q.round \in Nat
      BY <1>2 DEF Qcs, IInv, TypeOK, Vote_
    <2>2. CASE q.id # Genesis
      BY <1>2, <2>1, <2>2, CertifiedJustified
    <2>3. CASE q.id = Genesis
      BY <2>1, <2>3, BlockAssumption DEF GENESIS_ROUND
    <2> QED BY <2>1, <2>2, <2>3
  <1>3. IInv /\ CInv /\ AInv /\ StableOverlap =>
          (CommitsReported => CommitsKept) /\ QcsJustified
    BY <1>1, <1>2 DEF QcsJustified
  <1> QED BY <1>3, Invariance, CertificateInvariance, CommitInvariance, PTL

=============================================================================
