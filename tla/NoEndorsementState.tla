-------------------------- MODULE NoEndorsementState --------------------------
(***************************************************************************)
(* How a leader collects no-endorsements into a NEC: NoEndorsementState of *)
(* monad-consensus/src/no_endorsement_state.rs, as                         *)
(* handle_no_endorsement_message, process_qc, process_tc and try_propose   *)
(* of monad-consensus-state/src/lib.rs drive it.                           *)
(*                                                                         *)
(* The high certificate is the TC whose tip the leader has to repropose    *)
(* or have no-endorsed, or anything else (NoTip).  It is written to the    *)
(* forkpoint when a round is entered, after the messages of the same step  *)
(* have gone to the router (monad-updaters/src/parent.rs), but not when    *)
(* cached proposals lead to the round (monad-state/src/lib.rs:1591).       *)
(***************************************************************************)
EXTENDS Naturals, FiniteSets

CONSTANTS
    Validators, Faulty,
    Quorum,             \* has_super_majority_votes
    MaxRound,           \* bound: rounds above it are not explored
    TipQcRound,         \* tip_qc_round of the tips TCs may hold
    NoTip,              \* the high certificate is a QC or a TC without a tip
    Leads,              \* rounds this validator is the leader of
    FUTURE_VOTE_BOUND,  \* how far ahead no-endorsements are kept
    StaleForkpoint      \* may a restart find a forkpoint that is behind?

Honest == Validators \ Faulty

(* Faulty validators alone are no supermajority *)
ConstantsOk ==
    /\ Faulty \subseteq Validators
    /\ Quorum \subseteq SUBSET Validators
    /\ \A Q \in Quorum : ~ (Q \subseteq Faulty)
    /\ MaxRound \in Nat /\ FUTURE_VOTE_BOUND \in Nat
    /\ Leads \subseteq Nat
    /\ NoTip \notin TipQcRound

VARIABLES
    current_round,    \* Pacemaker::get_current_round
    tip,              \* tip_qc_round of high_certificate's tip, or NoTip
    forkpoint,        \* the two on disk [round, tip]
    earliest_round,   \* "The earliest round that we'll accept no-endorsements for"
    pending,          \* qc_round_no_endorsements [round, qc, node, valid]
    invalid_senders,  \* [round, node]
    certificate,      \* NECs held [round, qc]
    asked,            \* RoundRecovery messages sent [round, qc]
    answered,         \* honest no-endorsements sent [round, qc, node]
    received,         \* history: those that arrived in time since the last restart
    panicked          \* has assert!(round_state.certificate.is_none()) failed?

vars == << current_round, tip, forkpoint, earliest_round, pending, invalid_senders,
           certificate, asked, answered, received, panicked >>

HasSuperMajorityVotes(S) == \E Q \in Quorum : Q \subseteq S

NoEndorsement == [round : 1..MaxRound, qc : TipQcRound, node : Validators, valid : BOOLEAN]
(* Mutant: no-endorsements are counted whichever tip they are about *)
BucketAnyTip(nes, ne) == {w \in nes : w.round = ne.round}

(* The no-endorsements counted together: same round, same tip_qc_round *)
Bucket(nes, ne) == {w \in nes : w.round = ne.round /\ w.qc = ne.qc}
Senders(nes) == {w.node : w \in nes}
Sender(ne) == [round |-> ne.round, node |-> ne.node]

-----------------------------------------------------------------------------
(* start_new_round *)
StartNewRound(round) ==
    /\ earliest_round' = round
    /\ pending' = {w \in pending : w.round >= round}
    /\ invalid_senders' = {i \in invalid_senders : i.round >= round}
    /\ certificate' = {c \in certificate : c.round >= round}

(* get_nec *)
GetNec(round) == {c \in certificate : c.round = round}

(* BTreeMap::insert *)
Insert(ne) ==
    {w \in pending : ~ (w.node = ne.node /\ w \in Bucket(pending, ne))} \cup {ne}

(* Mutant: a bad signature costs everybody in the bucket their no-endorsements *)
HandleInvalidDropsAll(nes, ne, barred) == nes \ Bucket(nes, ne)

(* handle_invalid_no_endorsement *)
HandleInvalidNoEndorsement(nes, ne, barred) ==
    nes \ {w \in Bucket(nes, ne) : Sender(w) \in barred}

(* process_no_endorsement, past its early returns *)
ProcessNoEndorsement(ne) ==
    LET nes    == Insert(ne)
        bad    == {w \in Bucket(nes, ne) : ~ w.valid}
        barred == invalid_senders \cup {Sender(w) : w \in bad}
        good   == IF bad = {} THEN nes ELSE HandleInvalidNoEndorsement(nes, ne, barred)
    IN  IF ~ HasSuperMajorityVotes(Senders(Bucket(nes, ne)))
        THEN [nes |-> nes, barred |-> invalid_senders, nec |-> FALSE]
        ELSE [nes |-> good, barred |-> barred,
              nec |-> HasSuperMajorityVotes(Senders(Bucket(good, ne)))]

(* Mutant: the round the NEC is of stays open *)
RoundAfterNecSame(round) == round

(* "we no longer will build an NEC for current round" *)
RoundAfterNec(round) == round + 1

(* handle_no_endorsement_message *)
HandleNoEndorsementMessage(ne) ==
    /\ ne.round >= current_round
    /\ ne.round <= current_round + FUTURE_VOTE_BOUND
    /\ received' = received \cup {w \in {ne} : w.node \in Honest}
    /\ answered' = answered \cup {w \in {ne} : w.node \in Honest}
    /\ UNCHANGED << current_round, tip, forkpoint, asked >>
    /\ \/ /\ ne.round < earliest_round \/ Sender(ne) \in invalid_senders
          /\ UNCHANGED << earliest_round, pending, invalid_senders, certificate, panicked >>
       \/ /\ ne.round >= earliest_round /\ Sender(ne) \notin invalid_senders
          /\ LET p == ProcessNoEndorsement(ne) IN
             /\ pending' = p.nes
             /\ invalid_senders' = p.barred
             /\ \/ /\ p.nec
                   /\ earliest_round' = RoundAfterNec(ne.round)
                   /\ panicked' = (panicked \/ GetNec(ne.round) # {})
                   /\ certificate' = certificate \cup {[round |-> ne.round, qc |-> ne.qc]}
                \/ /\ ~ p.nec
                   /\ UNCHANGED << earliest_round, certificate, panicked >>

(* A round is entered with a QC, or a TC with a tip.  The forkpoint stays  *)
(* behind if the process stops before the write, or if the certificate     *)
(* came with a cached proposal.                                            *)
EnterRound(round, q) ==
    /\ current_round' = round
    /\ tip' = q
    /\ \/ forkpoint' = [round |-> round, tip |-> q]
       \/ StaleForkpoint /\ UNCHANGED forkpoint

(* process_qc *)
ProcessQc(r) ==
    /\ r >= current_round
    /\ EnterRound(r + 1, NoTip)
    /\ StartNewRound(current_round')
    /\ UNCHANGED << asked, answered, received, panicked >>

(* What a process starting from a forkpoint knows: nothing of the above *)
NewNoEndorsementState(round) ==
    /\ earliest_round' = round
    /\ pending' = {} /\ invalid_senders' = {} /\ certificate' = {} /\ received' = {}

(* try_propose: the leader of the round asks for no-endorsements of a tip  *)
(* it cannot repropose                                                     *)
RecoveryRequest(round, q) ==
    {[round |-> round, qc |-> x] : x \in {y \in {q} : q # NoTip /\ round \in Leads}}

(* process_tc, which leaves earliest_round behind *)
ProcessTc(r, q) ==
    /\ r >= current_round
    /\ EnterRound(r + 1, q)
    /\ asked' \in {asked, asked \cup RecoveryRequest(r + 1, q)}
    /\ UNCHANGED << earliest_round, pending, invalid_senders, certificate, answered, received, panicked >>

(* try_propose again in the same round (MempoolEvent, block sync): what    *)
(* was coherent may be asked for now                                       *)
AskAgain ==
    /\ asked' = asked \cup RecoveryRequest(current_round, tip)
    /\ asked' # asked
    /\ UNCHANGED << current_round, tip, forkpoint, earliest_round, pending, invalid_senders,
                    certificate, answered, received, panicked >>

(* The process stops, and the next one starts from the forkpoint *)
Restart ==
    /\ current_round' = forkpoint.round
    /\ tip' = forkpoint.tip
    /\ NewNoEndorsementState(forkpoint.round)
    /\ UNCHANGED << forkpoint, asked, answered, panicked >>

-----------------------------------------------------------------------------
(* A process starts in the round after its forkpoint's certificate, here   *)
(* called round 1; the other validators may have started long before.      *)
Init ==
    /\ current_round = 1 /\ tip = NoTip /\ earliest_round = 1
    /\ forkpoint = [round |-> 1, tip |-> NoTip]
    /\ pending = {} /\ invalid_senders = {} /\ certificate = {}
    /\ asked = {} /\ answered = {} /\ received = {} /\ panicked = FALSE

(* Honest validators no-endorse on request, well signed and once a round   *)
(* (is_safe_to_no_endorse)                                                 *)
Sendable(ne) ==
    ne.node \in Honest =>
        /\ ne.valid
        /\ [round |-> ne.round, qc |-> ne.qc] \in asked
        /\ \A w \in answered : Sender(w) = Sender(ne) => w = ne

Next ==
    \/ \E ne \in NoEndorsement : Sendable(ne) /\ HandleNoEndorsementMessage(ne)
    \/ \E r \in 1..MaxRound - 1 : ProcessQc(r)
    \/ \E r \in 1..MaxRound - 1, q \in TipQcRound \cup {NoTip} : ProcessTc(r, q)
    \/ AskAgain
    \/ Restart

Spec == Init /\ [][Next]_vars
-----------------------------------------------------------------------------
(* Properties *)

(* assert!(round_state.certificate.is_none()): "We use this to not build   *)
(* the same NEC twice".  start_new_round may lower earliest_round again.   *)
NoPanic == ~ panicked

(* try_propose takes whatever NEC get_nec has for the round and the QC of  *)
(* the TC it entered the round with: they speak of the same tip, or every  *)
(* validator would reject the proposal (verify_tip).                       *)
NecMatchesTc == \A c \in GetNec(current_round) : c.qc = tip

(* Once a supermajority of honest no-endorsements has arrived in time the  *)
(* leader has its NEC for as long as it is in the round, whatever faulty   *)
(* validators mixed in and however rounds were skipped.                    *)
NecKept ==
    \A q \in TipQcRound :
        HasSuperMajorityVotes({w.node : w \in {x \in received : x.round = current_round /\ x.qc = q}})
            => [round |-> current_round, qc |-> q] \in certificate
=============================================================================
