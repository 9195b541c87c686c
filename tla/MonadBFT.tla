------------------------------ MODULE MonadBFT ------------------------------
(***************************************************************************)
(* MonadBFT as the validators of one epoch run it together: the handlers   *)
(* of monad-consensus-state/src/lib.rs acting on each validator's Safety   *)
(* and Pacemaker, the messages they sign, and the checks of                *)
(* monad-consensus/src/validation/signing.rs a message passes before a     *)
(* handler sees it.                                                        *)
(*                                                                         *)
(* Signed messages are never unsent: votes, timeouts, no-endorsements,     *)
(* proposals and recovery requests are grow-only sets, and a handler may   *)
(* run on any of them, at any time, any number of times, or never (loss,   *)
(* delay, duplication, reordering).  A certificate exists as soon as a     *)
(* quorum has signed its content; faulty validators count as having signed *)
(* everything that would pass validation.  Whether a validator holds a     *)
(* block, has executed it and finds its timestamp valid is a free choice,  *)
(* except that a coherent block extends the validator's committed root.    *)
(***************************************************************************)
EXTENDS Safety

CONSTANTS
    leader,      \* round |-> the validator LeaderElection names
    Crashing,    \* honest validators that may crash and restart
    MaxCrashes,  \* bound on the number of crashes
    MaxCached,   \* bound on the cached proposals a validator starts with
    MaxTimerRound \* bound: no timer expires in later rounds

ASSUME LeaderAssumption ==
    /\ leader \in [1..MaxRound + 1 -> Validators]
    /\ Crashing \subseteq Honest
    /\ MaxCrashes \in Nat
    /\ MaxCached \in Nat
    /\ MaxTimerRound \in 0..MaxRound

VARIABLES
    safety,     \* n |-> ConsensusState.safety
    cert,       \* n |-> Pacemaker.high_certificate
    root,       \* n |-> block id of the block tree's root
    forkpoint,  \* n |-> the checkpoint on disk: a certificate and a root
    syncing,    \* validators in ConsensusMode::Sync: restarted, not yet live
    behind,     \* history: validators whose forkpoint a crash found behind
    votes,      \* signed votes            [node, id, round]
    timeouts,   \* signed timeout infos    [node, round, info]
    nes,        \* signed no-endorsements  [node, round, tip_qc_round]
    proposals,  \* proposal messages of honest leaders [round, tip, tc]
    recoveries, \* round recovery messages of honest leaders (their TCs)
    creating,   \* proposals the txpools are building [node, round, tip, tc]
    crashes     \* crashes so far

vars == << safety, cert, root, forkpoint, syncing, behind, votes, timeouts, nes,
           proposals, recoveries, creating, crashes >>

NoTc == TcCert(0, None, 0)  \* last_round_tc of a proposal that carries none

CurrentRound(n) == cert[n].round + 1

-----------------------------------------------------------------------------
(* Certificates: what the signatures sent so far can be assembled into.    *)

HasQuorum(nodes) == \E Q \in Quorum : Q \subseteq Faulty \cup nodes

(* verify_qc: genesis_qc, or a supermajority of votes *)
IsQc(b, r) ==
    \/ b = Genesis /\ r = GENESIS_ROUND
    \/ HasQuorum({v.node : v \in {w \in votes : w.id = b /\ w.round = r}})

Qcs == {q \in {[id |-> v.id, round |-> v.round] : v \in votes} : IsQc(q.id, q.round)}

(* verify_tc on the signed infos: a quorum none of whose ranks exceeds the *)
(* rank of high_extend, one of which equals it                             *)
TimeoutQuorum(r, rank) ==
    LET below == {t \in timeouts : t.round = r /\ ~ RankLess(rank, t.info)}
        nodes == Faulty \cup {t.node : t \in below}
        equal == Faulty \cup {t.node : t \in {u \in below : u.info = rank}}
    IN  \E Q \in Quorum : Q \subseteq nodes /\ Q \cap equal # {}

IsNoTipTc(r, q) ==
    /\ r > GENESIS_ROUND /\ q < r
    /\ TimeoutQuorum(r, QcRank(q))
    /\ \E b \in Block : IsQc(b, q)

(* verify_nec *)
IsNec(r, q) ==
    HasQuorum({e.node : e \in {f \in nes : f.round = r /\ f.tip_qc_round = q}})

(* verify_tip: signed by the leader of its round, on a valid QC, and       *)
(* either consecutive or carrying an NEC or a NoTip certificate            *)
IsSigned(b) ==
    \/ leader[block_round[b]] \in Faulty
    \/ \E p \in proposals : p.tip = b

IsTip(b) ==
    /\ b # Genesis
    /\ block_round[b] <= MaxRound
    /\ IsSigned(b)
    /\ \/ block_round[b] = qc_round[b] + 1
       \/ IsNec(block_round[b], qc_round[b])
       \/ IsNoTipTc(block_round[b] - 1, qc_round[b])
    /\ IsQc(parent[b], qc_round[b])

Tips == {b \in Block : IsTip(b)}

(* verify_tc, high_extend included, b being a valid tip *)
IsTipTc(r, b) ==
    /\ r > GENESIS_ROUND /\ qc_round[b] < r
    /\ TimeoutQuorum(r, TipRank(b))

Tcs(tips) ==
    LET rounds == {t.round : t \in timeouts}
    IN  {TcCert(rq[1], None, rq[2]) :
            rq \in {x \in rounds \X Round : IsNoTipTc(x[1], x[2])}}
        \cup {TcCert(rb[1], rb[2], qc_round[rb[2]]) :
            rb \in {x \in rounds \X tips : IsTipTc(x[1], x[2])}}

(* ProposalMessage::validate: well_formed_proposal *)
WellFormedProposal(p) ==
    IF p.round = qc_round[p.tip] + 1
    THEN p.tc = NoTc
    ELSE /\ p.tc # NoTc
         /\ p.round = p.tc.round + 1
         /\ p.tc.qc_round = qc_round[p.tip]
         /\ \/ p.tc.tip = None
            \/ p.tc.tip = p.tip
            \/ p.round = block_round[p.tip]

(* The proposals that pass validation: those of honest leaders, and those  *)
(* a faulty leader can put together from valid tips and TCs                *)
ValidProposals(tips, tcs) ==
    proposals \cup
    {p \in [round : {r \in 1..MaxRound : leader[r] \in Faulty},
            tip : tips, tc : {NoTc} \cup tcs] : WellFormedProposal(p)}

(* RoundRecoveryMessages that pass validation, by the TC they carry *)
ValidRecoveries(tcs) ==
    recoveries \cup
    {c \in tcs : c.tip # None /\ c.round < MaxRound
                 /\ leader[c.round + 1] \in Faulty}

-----------------------------------------------------------------------------
(* What a validator does, as operators on the state st of a running        *)
(* handler: the validator's own state and the messages it has emitted so   *)
(* far.  Where the outcome depends on data the model leaves out (is the    *)
(* block here, is it coherent, has execution caught up) an operator gives  *)
(* the set of possible outcomes.                                           *)

Begin(n) ==
    [ safety |-> safety[n], cert |-> cert[n], root |-> root[n],
      votes |-> {}, timeouts |-> {}, nes |-> {},
      proposals |-> {}, recoveries |-> {}, creating |-> {} ]

(* Pacemaker::process_certificate: certificates not above the current one  *)
(* are ignored                                                             *)
ProcessCertificate(st, c) ==
    IF c.round <= st.cert.round THEN st
    ELSE [st EXCEPT !.safety = SafetyProcessCertificate(@, c), !.cert = c]

(* BlockTree::is_coherent of a block the validator may hold: it extends    *)
(* the root                                                                *)
MayBeCoherent(st, b) == st.root \in ancestors[b]

(* try_commit: a QC on a block whose own QC is of the preceding round      *)
(* commits the block's parent, if the path to the root is there            *)
Committable(b, r) == b # Genesis /\ r = qc_round[b] + 1

(* Mutant: a block's first QC commits it, finalizing a speculative block   *)
TryCommitOnFirstQc(st, b, r) ==
    {st} \cup (IF MayBeCoherent(st, b) THEN {[st EXCEPT !.root = b]} ELSE {})

TryCommit(st, b, r) ==
    {st} \cup
    (IF Committable(b, r) /\ MayBeCoherent(st, parent[b])
     THEN {[st EXCEPT !.root = parent[b]]} ELSE {})

(* try_propose, branch HighExtend::Qc: ask the txpool for a block on the   *)
(* certificate's QC, unless it is incoherent or execution lags             *)
TryProposeFresh(n, st, r) ==
    {st} \cup
    {[st EXCEPT !.safety = Propose(@, r),
                !.creating = @ \cup {[node |-> n, round |-> r, tip |-> b,
                                      tc |-> IF st.cert.tc THEN st.cert ELSE NoTc]}] :
        b \in {x \in Block :
                  /\ x # Genesis
                  /\ block_round[x] = r
                  /\ qc_round[x] = st.cert.qc_round
                  /\ MayBeCoherent(st, parent[x])
                  /\ IsQc(parent[x], qc_round[x])}}

(* try_propose, branch HighExtend::Tip: propose the TC's tip again if it   *)
(* is coherent, else ask the others whether it may be abandoned            *)
TryRepropose(st, r) ==
    LET c == st.cert
        again == [st EXCEPT !.safety = Propose(@, r),
                            !.proposals = @ \cup {[round |-> r, tip |-> c.tip, tc |-> c]}]
        ask == [st EXCEPT !.safety = RecoveryRequest(@, r),
                          !.recoveries = @ \cup {c}]
    IN  (IF MayBeCoherent(st, c.tip) THEN {again} ELSE {}) \cup
        (IF IsSafeToRecoveryRequest(st.safety, r) THEN {ask} ELSE {st})

TryPropose(n, st) ==
    LET r == st.cert.round + 1
        tip == st.cert.tc /\ st.cert.tip # None
    IN  IF r > MaxRound \/ leader[r] # n \/ ~ IsSafeToPropose(st.safety, r)
        THEN {st}
        ELSE (IF tip THEN TryRepropose(st, r) ELSE {}) \cup
             (IF ~ tip \/ IsNec(r, st.cert.qc_round) THEN TryProposeFresh(n, st, r) ELSE {})

(* process_qc and process_tc *)
ProcessQc(n, st, b, r) ==
    IF r <= st.cert.round THEN {st}
    ELSE UNION {TryPropose(n, ProcessCertificate(s, QcCert(r))) : s \in TryCommit(st, b, r)}

ProcessTc(n, st, c) ==
    IF c.round <= st.cert.round THEN {st}
    ELSE TryPropose(n, ProcessCertificate(st, c))

(* try_vote: the block may be missing, incoherent or have a bad timestamp  *)
TryVote(n, st, p) ==
    {st} \cup
    (IF /\ p.round = st.cert.round + 1
        /\ MayBeCoherent(st, p.tip)
        /\ IsSafeToVote(st.safety, p.round, p.tc.tip)
     THEN {[st EXCEPT !.safety = Vote(@, p.round, p.tip),
                      !.votes = @ \cup {[node |-> n, id |-> p.tip, round |-> p.round]}]}
     ELSE {})

(* local_timeout_round and Timeout::new: report the high tip, with a vote  *)
(* for it if Safety agrees, or else the QC of the high certificate         *)
LocalTimeout(n, st) ==
    LET r == st.cert.round + 1
        tip == st.safety.maybe_high_tip
    IN  [st EXCEPT
            !.safety = Timeout(@, r),
            !.timeouts = @ \cup {[node |-> n, round |-> r,
                                  info |-> ExtendRank(tip, st.cert.qc_round)]},
            !.votes = IF tip # None /\ MayIncludeVote(st.safety, r)
                      THEN @ \cup {[node |-> n, id |-> tip, round |-> r]} ELSE @]

(* handle_proposal_message: process the QC and the TC, add the block to    *)
(* the tree, which may commit, then try to vote and to propose             *)
ProposalHandled(n, st, p) ==
    LET b == parent[p.tip]
        r == qc_round[p.tip]
        certified == UNION {IF p.tc = NoTc THEN {s} ELSE ProcessTc(n, s, p.tc) : s \in ProcessQc(n, st, b, r)}
        added == UNION {TryCommit(s, b, r) : s \in certified}
        voted == UNION {TryVote(n, s, p) : s \in added}
    IN  UNION {TryPropose(n, s) : s \in voted}

-----------------------------------------------------------------------------
(* The state a handler leaves and the messages it has sent *)
Write(n, st) ==
    /\ safety' = [safety EXCEPT ![n] = st.safety]
    /\ cert' = [cert EXCEPT ![n] = st.cert]
    /\ root' = [root EXCEPT ![n] = st.root]
    /\ votes' = votes \cup st.votes
    /\ timeouts' = timeouts \cup st.timeouts
    /\ nes' = nes \cup st.nes
    /\ proposals' = proposals \cup st.proposals
    /\ recoveries' = recoveries \cup st.recoveries

(* MonadState::update: a handler that entered a round or finalized a block *)
(* is followed by a checkpoint                                             *)
Checkpointed(n, st) ==
    IF st.cert # cert[n] \/ st.root # root[n] THEN [cert |-> st.cert, root |-> st.root] ELSE forkpoint[n]

(* The process stops when it has sent what st holds, and a new one reads   *)
(* the forkpoint, whose certificate ConsensusState::new will start from.   *)
Crash(n, st) ==
    /\ n \in Crashing \ syncing /\ crashes < MaxCrashes
    /\ Write(n, [st EXCEPT !.safety = SafetyNew(forkpoint[n].cert),
                           !.cert = forkpoint[n].cert, !.root = forkpoint[n].root])
    /\ creating' = {p \in creating : p.node # n}
    /\ syncing' = syncing \cup {n}
    /\ behind' = IF st.cert = forkpoint[n].cert THEN behind ELSE behind \cup {n}
    /\ crashes' = crashes + 1
    /\ UNCHANGED forkpoint

(* A handler's commands are run by ParentExecutor::exec: messages are      *)
(* handed to the router first, the forkpoint is written after.  The        *)
(* process may stop in between.                                            *)
Finish(n, st) ==
    /\ n \notin syncing
    /\ \/ /\ Write(n, st)
          /\ creating' = creating \cup st.creating
          /\ forkpoint' = [forkpoint EXCEPT ![n] = Checkpointed(n, st)]
          /\ UNCHANGED << syncing, behind, crashes >>
       \/ Crash(n, st)

(* The process stops between two events *)
Stop(n) == Crash(n, Begin(n))

(* Up to MaxCached of the proposals ps, handled one after the other *)
Replayed(n, st, ps) ==
    LET after[k \in 0..MaxCached] ==
            IF k = 0 THEN {st}
            ELSE after[k - 1] \cup UNION {UNION {ProposalHandled(n, s, p) : p \in ps} : s \in after[k - 1]}
    IN  after[MaxCached]

(* maybe_start_consensus, its blocks and its state being there: the timer  *)
(* of the current round expires at once, and the proposals cached during   *)
(* the sync are handled.  No checkpoint follows: the handlers are called   *)
(* directly and not through update.                                        *)
MaybeStartConsensus(n, ps) ==
    /\ n \in syncing
    /\ \E st \in Replayed(n, LocalTimeout(n, Begin(n)), ps) :
          Write(n, st) /\ creating' = creating \cup st.creating
    /\ syncing' = syncing \ {n}
    /\ UNCHANGED << forkpoint, behind, crashes >>

HandleProposalMessage(n, p) ==
    \E st \in ProposalHandled(n, Begin(n), p) : st # Begin(n) /\ Finish(n, st)

(* handle_timeout_expiry -> process_local_timeout.  A second expiry in the *)
(* same state sends the same message again, which changes nothing.         *)
HandleTimeoutExpiry(n) ==
    LET st == LocalTimeout(n, Begin(n)) IN
        /\ CurrentRound(n) <= MaxTimerRound
        /\ ~ st.timeouts \subseteq timeouts
        /\ Finish(n, st)

(* A QC arrives or is assembled: handle_advance_round_message,             *)
(* handle_vote_message, or the QC a timeout message carries -> process_qc  *)
HandleQc(n, q) ==
    /\ q.round > cert[n].round /\ q.round < MaxRound
    /\ \E st \in ProcessQc(n, Begin(n), q.id, q.round) : Finish(n, st)

(* A TC arrives or is assembled: handle_advance_round_message or           *)
(* process_remote_timeout -> process_tc                                    *)
HandleTc(n, c) ==
    /\ c.round > cert[n].round /\ c.round < MaxRound
    /\ \E st \in ProcessTc(n, Begin(n), c) : Finish(n, st)

(* handle_block_sync: blocks that were missing arrive, the tree may commit *)
(* with a QC it could not use before                                       *)
HandleBlockSync(n, q) ==
    \E st1 \in TryCommit(Begin(n), q.id, q.round) :
    \E st2 \in TryPropose(n, st1) :
        st2 # Begin(n) /\ Finish(n, st2)

(* handle_round_recovery_message: the leader of the round asks whether its *)
(* TC's tip may be abandoned; a validator without that tip no-endorses it  *)
NoEndorseTip(n, st, c) ==
    LET r == c.round + 1 IN
        {st} \cup
        (IF r = st.cert.round + 1 /\ IsSafeToNoEndorse(st.safety, r)
         THEN {[st EXCEPT !.safety = NoEndorse(@, r, c.tip),
                          !.nes = @ \cup {[node |-> n, round |-> r,
                                           tip_qc_round |-> c.qc_round]}]}
         ELSE {})

HandleRoundRecoveryMessage(n, c) ==
    \E st1 \in ProcessTc(n, Begin(n), c) :
    \E st2 \in NoEndorseTip(n, st1, c) :
        st2 # Begin(n) /\ Finish(n, st2)

(* handle_no_endorsement_message, when it completes an NEC *)
HandleNoEndorsementMessage(n) ==
    /\ IsNec(CurrentRound(n), cert[n].qc_round)
    /\ \E st \in TryPropose(n, Begin(n)) : st # Begin(n) /\ Finish(n, st)

(* MempoolEvent::Proposal: the txpool has built the block, it is signed    *)
(* and published, whatever has happened since it was asked for             *)
PublishProposal(p) ==
    /\ proposals' = proposals \cup {[round |-> p.round, tip |-> p.tip, tc |-> p.tc]}
    /\ creating' = creating \ {p}
    /\ UNCHANGED << safety, cert, root, forkpoint, syncing, behind, votes, timeouts, nes, recoveries, crashes >>
-----------------------------------------------------------------------------
(* Every validator has started from the genesis forkpoint: it is barred    *)
(* from round 1 and has timed out in it at once.                           *)
Init ==
    /\ safety = [n \in Honest |-> SafetyNew(QcCert(GENESIS_ROUND))]
    /\ cert = [n \in Honest |-> QcCert(GENESIS_ROUND)]
    /\ root = [n \in Honest |-> Genesis]
    /\ forkpoint = [n \in Honest |-> [cert |-> QcCert(GENESIS_ROUND), root |-> Genesis]]
    /\ syncing = {} /\ behind = {}
    /\ timeouts = {[node |-> n, round |-> 1, info |-> QcRank(GENESIS_ROUND)] : n \in Honest}
    /\ votes = {} /\ nes = {}
    /\ proposals = {} /\ recoveries = {}
    /\ creating = {}
    /\ crashes = 0

Next ==
    \/ \E n \in Honest :
        \/ Stop(n)
        \/ HandleTimeoutExpiry(n)
        \/ HandleNoEndorsementMessage(n)
    \/ \E p \in creating : PublishProposal(p)
    \/ \E q \in Qcs, n \in Honest : HandleQc(n, q)
    \/ \E q \in Qcs \cup {[id |-> Genesis, round |-> GENESIS_ROUND]}, n \in Honest :
          HandleBlockSync(n, q)
    \/ \E tips \in {Tips} : \E tcs \in {Tcs(tips)} :
        \/ \E c \in tcs, n \in Honest : HandleTc(n, c)
        \/ \E ps \in {ValidProposals(tips, tcs)}, n \in Honest :
              MaybeStartConsensus(n, ps) \/ \E p \in ps : HandleProposalMessage(n, p)
        \/ \E c \in ValidRecoveries(tcs), n \in Honest : HandleRoundRecoveryMessage(n, c)

Spec == Init /\ [][Next]_vars
-----------------------------------------------------------------------------
(* Properties *)

Vote_ == [node : Honest, id : Block, round : Nat]
Proposal_ == [round : Nat, tip : Block, tc : RoundCertificate]
TipTc == {c \in RoundCertificate : c.tip \in Block}

(* Every variable holds values of the source's types, rounds being bounded *)
(* by MaxRound.                                                            *)
TypeOK ==
    /\ safety \in [Honest -> SafetyState]
    /\ cert \in [Honest -> RoundCertificate]
    /\ root \in [Honest -> Block]
    /\ forkpoint \in [Honest -> [cert : RoundCertificate, root : Block]]
    /\ syncing \subseteq Honest /\ behind \subseteq Honest
    /\ votes \subseteq Vote_
    /\ timeouts \subseteq [node : Honest, round : Nat, info : Rank]
    /\ nes \subseteq [node : Honest, round : Nat, tip_qc_round : Nat]
    /\ proposals \subseteq Proposal_
    /\ recoveries \subseteq TipTc
    /\ creating \subseteq [node : Honest, round : Nat, tip : Block, tc : RoundCertificate]
    /\ crashes \in Nat

(* Validators no crash has found with a forkpoint behind what they sent *)
Stable == Honest \ behind

(* Safety "makes sure that we don't double vote" (safety.rs): a validator  *)
(* signs votes for one block per round only, whether from try_vote or      *)
(* inside a timeout message.                                               *)
VoteOnce ==
    \A v, w \in votes :
        v.node = w.node /\ v.round = w.round => v.id = w.id

(* What the forkpoint achieves of it: through any number of restarts, each *)
(* with a forkpoint that is not behind, a validator votes for one block    *)
(* per round.                                                              *)
StableVoteOnce ==
    \A v, w \in votes :
        v.node = w.node /\ v.node \in Stable /\ v.round = w.round => v.id = w.id

(* No two QCs of the same round are on different blocks.                   *)
OneQcPerRound ==
    \A q1, q2 \in Qcs : q1.round = q2.round => q1.id = q2.id

(* A block is never certified in a round before its own, although          *)
(* well_formed_proposal accepts, next to a consecutive QC, a tip of any    *)
(* later round.                                                            *)
QcNotBeforeBlock == \A q \in Qcs : block_round[q.id] <= q.round

(* is_safe_to_vote and Safety::timeout keep "a QC and NEC [from being]     *)
(* formed in the same round between conflicting tips": the certified block *)
(* extends the QC the NEC vouches for.  Blocks voted for ahead of their    *)
(* round are exempt: timeout() lets such a vote through after an NE.       *)
NecQcCompatible ==
    \A q \in Qcs, e \in nes :
        /\ e.round = q.round /\ IsNec(e.round, e.tip_qc_round)
        /\ \A v \in votes : v.id = q.id => block_round[v.id] <= v.round
        => qc_round[q.id] = e.tip_qc_round

(* A QC that commits a block is never forgotten: the TCs of its round and  *)
(* of later ones extend at least the block it certifies.  The code does    *)
(* not guarantee it.                                                       *)
CommitsReported ==
    \A q \in Qcs : Committable(q.id, q.round) =>
        \A c \in Tcs(Tips) :
            c.round >= q.round => ~ RankLess(ExtendRank(c.tip, c.qc_round), TipRank(q.id))

(* The committed roots of any two validators are on one chain, what        *)
(* ledger_verification of the swarm tests asserts, unless a TC has         *)
(* forgotten a QC that commits.                                            *)
Agreement ==
    CommitsReported =>
        \A n, m \in Honest :
            root[n] \in ancestors[root[m]] \/ root[m] \in ancestors[root[n]]

(* The block a leader proposes in its round is not lost when the round     *)
(* both certifies it and times out: the TC's high_extend is at least as    *)
(* high as that block.                                                     *)
FreshQcCovered ==
    \A q \in Qcs : block_round[q.id] = q.round =>
        \A c \in Tcs(Tips) :
            c.round = q.round => ~ RankLess(ExtendRank(c.tip, c.qc_round), TipRank(q.id))

(* An honest leader makes one proposal per round, through any number of    *)
(* restarts, each with a forkpoint that is not behind.                     *)
ProposeOnce ==
    \A p1, p2 \in proposals : p1.round = p2.round /\ leader[p1.round] \in Stable => p1 = p2

(* assert!(round >= self.highest_vote) of Safety::timeout never fires, and *)
(* timeouts have high_tip_round > high_qc_round, as the comment in         *)
(* Safety::vote promises.                                                  *)
TimeoutAssertions ==
    \A n \in Honest :
        LET s == safety[n] IN
            /\ s.highest_vote <= CurrentRound(n)
            /\ s.maybe_high_tip # None =>
                  block_round[s.maybe_high_tip] > s.high_certificate_qc_round

(* "maybe_high_tip only exists if contains QC >= high_certificate_qc_round"*)
(* (safety.rs)                                                             *)
HighTipContainsHighQc ==
    \A n \in Honest :
        LET s == safety[n] IN
            s.maybe_high_tip # None =>
                qc_round[s.maybe_high_tip] >= s.high_certificate_qc_round

(* Only a crash that finds the forkpoint behind takes a validator back: in *)
(* any other step its round and the rounds it has voted, no-endorsed and   *)
(* proposed in only grow.  No crash takes it below its forkpoint, which    *)
(* itself never goes back.                                                 *)
NeverBack ==
    [][\A n \in Honest :
          /\ forkpoint'[n].cert.round >= forkpoint[n].cert.round
          /\ cert'[n].round >= forkpoint'[n].cert.round
          /\ n \in syncing \/ n \notin syncing' \/ forkpoint[n].cert = cert[n] =>
                /\ cert'[n].round >= cert[n].round
                /\ safety'[n].highest_vote >= safety[n].highest_vote
                /\ safety'[n].highest_no_endorse.round >= safety[n].highest_no_endorse.round
                /\ safety'[n].highest_propose >= safety[n].highest_propose]_vars
=============================================================================
