------------------------------ MODULE Pacemaker ------------------------------
(***************************************************************************)
(* How the validators keep each other in step: the Pacemaker of            *)
(* monad-consensus/src/pacemaker.rs with its handlers in                   *)
(* monad-consensus-state/src/lib.rs (handle_timeout_expiry,                *)
(* handle_timeout_message, handle_advance_round_message, process_qc,       *)
(* process_tc).  Blocks, votes and ranks are left to MonadBFT; here a      *)
(* certificate is its round and its kind.                                  *)
(*                                                                         *)
(* A validator's timer is rescheduled by every expiry, so a validator      *)
(* resends its Timeout message until it leaves the round.  Anything sent   *)
(* may arrive late, repeatedly, out of order or never; only messages that  *)
(* are still being resent are certain to arrive (see Fairness).            *)
(***************************************************************************)
EXTENDS Naturals, FiniteSets

CONSTANTS
    Validators, Faulty,
    Quorum,      \* has_super_majority_votes: more than 2/3 of the stake
    HonestSet,   \* has_honest_vote: more than 1/3 of the stake
    MaxRound,    \* bound: no certificate of this round is processed
    Certifiable  \* rounds whose votes may add up to a QC

Honest == Validators \ Faulty

(* What ValidatorSet's ThresholdsSound gives *)
ASSUME QuorumAssumption ==
    /\ Faulty \subseteq Validators
    /\ Quorum \subseteq SUBSET Validators
    /\ HonestSet \subseteq SUBSET Validators
    /\ \A S \in HonestSet : ~ S \subseteq Faulty
    /\ \A Q \in Quorum : \E S \in HonestSet : S \subseteq Q
    /\ \E Q \in Quorum : Q \subseteq Honest

ASSUME RoundAssumption == MaxRound \in Nat \ {0} /\ Certifiable \subseteq 1..MaxRound

VARIABLES
    cert,     \* n |-> high_certificate [round, tc]
    phase,    \* n |-> PhaseHonest, "Zero" or "One"
    pending,  \* n |-> authors of pending_timeouts
    invalid,  \* n |-> invalid_timeout_senders
    sent,     \* Timeout messages broadcast by honest validators
    qcs,      \* rounds of the QCs that exist (0: genesis_qc)
    expired,  \* history: rounds in which an honest validator's timer expired
    panicked  \* has an assertion of process_remote_timeout failed?

vars == << cert, phase, pending, invalid, sent, qcs, expired, panicked >>

CurrentRound(n) == cert[n].round + 1
HasSuperMajorityVotes(S) == \E Q \in Quorum : Q \subseteq S
HasHonestVote(S) == \E H \in HonestSet : H \subseteq S

(* Enough validators have signed a timeout of round r for a TC *)
TcExists(r) == HasSuperMajorityVotes(Faulty \cup {m.from : m \in {t \in sent : t.round = r}})

Certificates ==
    {[round |-> q, tc |-> FALSE] : q \in qcs} \cup
    {[round |-> r, tc |-> TRUE] : r \in {x \in 1..MaxRound : TcExists(x)}}

-----------------------------------------------------------------------------
(* A running handler: the validator's state, and what it has broadcast     *)
Begin(n) ==
    [ cert |-> cert[n], phase |-> phase[n], pending |-> pending[n],
      invalid |-> invalid[n], sent |-> {}, panicked |-> FALSE ]

Round(st) == st.cert.round + 1

(* Mutant: timeouts collected in the old round are kept *)
ProcessCertificateKeepsPending(st, c) ==
    IF c.round <= st.cert.round THEN st
    ELSE [st EXCEPT !.cert = c, !.phase = "Zero", !.invalid = {}]

ProcessCertificate(st, c) ==
    IF c.round <= st.cert.round THEN st
    ELSE [st EXCEPT !.cert = c, !.phase = "Zero", !.pending = {}, !.invalid = {}]

(* Mutant: only a QC is ever attached to a timeout message *)
LastRoundCertificateQcOnly(st, q) ==
    IF q + 1 = Round(st) \/ st.cert.tc THEN {} ELSE {st.cert}

(* last_round_rc of local_timeout_round, q being the round of the QC in    *)
(* high_extend                                                             *)
LastRoundCertificate(st, q) == IF q + 1 = Round(st) THEN {} ELSE {st.cert}

(* local_timeout_round.  high_extend holds the QC of the high certificate  *)
(* or of the high tip: any QC up to the high certificate's round.          *)
LocalTimeoutRound(n, st) ==
    {[st EXCEPT !.phase = "One",
                !.sent = @ \cup {[from |-> n, round |-> Round(st), qc |-> q,
                                  last |-> LastRoundCertificate(st, q)]}] :
        q \in {x \in qcs : x <= st.cert.round}}

(* The while loop of process_remote_timeout: signatures are only checked   *)
(* when a TC is put together, and the authors of bad ones are thrown out   *)
(* (handle_invalid_timeout).                                               *)
TryCreateTc(st) ==
    LET created(s) == ProcessCertificate(s, [round |-> Round(s), tc |-> TRUE])
        without(bad) == [st EXCEPT !.pending = @ \ bad, !.invalid = @ \cup bad]
        retry(bad) == IF HasSuperMajorityVotes(st.pending \ bad)
                      THEN created(without(bad)) ELSE without(bad)
    IN  IF st.phase = "One" /\ HasSuperMajorityVotes(st.pending)
        THEN {retry(bad) : bad \in SUBSET (st.pending \cap Faulty)}
        ELSE {st}

(* Mutant: no timing out along with others *)
JoinTimeoutNever(n, st) == {st}

(* "if f+1 timeout messages are received, broadcast a timeout message if   *)
(* it has not done so before"                                              *)
JoinTimeout(n, st) ==
    IF st.phase = "Zero" /\ HasHonestVote(st.pending)
    THEN LocalTimeoutRound(n, st) ELSE {st}

ProcessRemoteTimeout(n, st, m) ==
    IF m.round < Round(st) THEN {st}
    ELSE IF m.round > Round(st) THEN {[st EXCEPT !.panicked = TRUE]}
    ELSE IF m.from \in st.invalid THEN {st}
    ELSE UNION {TryCreateTc(s) :
                   s \in JoinTimeout(n, [st EXCEPT !.pending = @ \cup {m.from}])}

(* Mutant: a TC beyond the current round is ignored like an old one *)
ProcessLastRoundCertificateNow(n, st, c) ==
    IF c.tc /\ c.round = Round(st)
    THEN {ProcessCertificate(s, c) : s \in LocalTimeoutRound(n, st)}
    ELSE IF c.tc THEN {st} ELSE {ProcessCertificate(st, c)}

(* last_round_certificate of a timeout message.  With a TC of its current  *)
(* round the validator times out too before it moves on, so that others    *)
(* can build their own TC; with a TC of a later round it broadcasts        *)
(* AdvanceRound instead.                                                   *)
ProcessLastRoundCertificate(n, st, c) ==
    IF c.tc /\ c.round = Round(st)
    THEN {ProcessCertificate(s, c) : s \in LocalTimeoutRound(n, st)}
    ELSE {ProcessCertificate(st, c)}

-----------------------------------------------------------------------------
Finish(n, st) ==
    /\ st.cert.round < MaxRound
    /\ cert' = [cert EXCEPT ![n] = st.cert]
    /\ phase' = [phase EXCEPT ![n] = st.phase]
    /\ pending' = [pending EXCEPT ![n] = st.pending]
    /\ invalid' = [invalid EXCEPT ![n] = st.invalid]
    /\ sent' = sent \cup st.sent
    /\ panicked' = (panicked \/ st.panicked)

(* handle_timeout_expiry -> process_local_timeout *)
HandleTimeoutExpiry(n) ==
    /\ \E st \in LocalTimeoutRound(n, Begin(n)) : Finish(n, st)
    /\ expired' = expired \cup {CurrentRound(n)}
    /\ UNCHANGED qcs

(* TimeoutMessage::validate: it proves that round - 1 is over *)
WellFormedTimeout(m) ==
    IF m.qc + 1 = m.round THEN m.last = {}
    ELSE m.last # {} /\ \A c \in m.last : c.round + 1 = m.round

HandleTimeoutMessage(n, m) ==
    /\ m.round >= CurrentRound(n)
    /\ WellFormedTimeout(m)
    /\ \E voted \in BOOLEAN :
          LET st1 == ProcessCertificate(Begin(n), [round |-> m.qc, tc |-> FALSE])
              \* handle_vote_message on the vote in the message: it may be the
              \* last one of a QC of the round being timed out
              st2 == IF voted THEN ProcessCertificate(st1, [round |-> m.round, tc |-> FALSE])
                     ELSE st1
          IN  /\ voted => m.round \in qcs
              /\ \E st3 \in IF m.last = {} THEN {st2}
                            ELSE UNION {ProcessLastRoundCertificate(n, st2, c) : c \in m.last} :
                 \E st4 \in ProcessRemoteTimeout(n, st3, m) : Finish(n, st4)
    /\ UNCHANGED << qcs, expired >>

(* What a faulty validator can send: a timeout of any round it has proof   *)
(* for, with or without a valid signature                                  *)
FaultyTimeouts ==
    {m \in [from : Faulty, round : 1..MaxRound, qc : qcs,
            last : {{}} \cup {{c} : c \in Certificates}] : WellFormedTimeout(m)}

(* handle_advance_round_message, and QCs and TCs learnt from proposals     *)
HandleAdvanceRoundMessage(n, c) ==
    /\ c.round >= CurrentRound(n)
    /\ Finish(n, ProcessCertificate(Begin(n), c))
    /\ UNCHANGED << qcs, expired >>

(* A quorum of validators has reached the round and voted in it *)
Certify(r) ==
    /\ r \notin qcs
    /\ HasSuperMajorityVotes(Faulty \cup {n \in Honest : CurrentRound(n) >= r})
    /\ qcs' = qcs \cup {r}
    /\ UNCHANGED << cert, phase, pending, invalid, sent, expired, panicked >>

-----------------------------------------------------------------------------
(* Everybody has just entered a round, here called round 1, by the same QC *)
Init ==
    /\ cert = [n \in Honest |-> [round |-> 0, tc |-> FALSE]]
    /\ phase = [n \in Honest |-> "Zero"]
    /\ pending = [n \in Honest |-> {}]
    /\ invalid = [n \in Honest |-> {}]
    /\ sent = {} /\ qcs = {0} /\ expired = {} /\ panicked = FALSE

Next ==
    \/ \E n \in Honest : HandleTimeoutExpiry(n)
    \/ \E n \in Honest : \E m \in sent : HandleTimeoutMessage(n, m)
    \/ \E n \in Honest : \E m \in FaultyTimeouts : HandleTimeoutMessage(n, m)
    \/ \E n \in Honest : \E c \in Certificates : HandleAdvanceRoundMessage(n, c)
    \/ \E r \in Certifiable : Certify(r)

Spec == Init /\ [][Next]_vars

(* Timers expire, and what a validator keeps resending arrives: the        *)
(* Timeout messages of the round the sender is in.                         *)
Resent(n, m) == m.from = n /\ m.round = CurrentRound(n)
Fairness ==
    /\ \A n \in Honest : WF_vars(HandleTimeoutExpiry(n))
    /\ \A n, a \in Honest :
          WF_vars(\E m \in sent : Resent(a, m) /\ HandleTimeoutMessage(n, m))

FairSpec == Spec /\ Fairness
-----------------------------------------------------------------------------
(* Properties *)

(* assert_eq!(tm_info.round, self.get_current_round()) of                  *)
(* process_remote_timeout: whatever a timeout message carries has brought  *)
(* the receiver to the message's round.                                    *)
NoPanic == ~ panicked

(* No validator sits on a supermajority of timeouts: it has joined them    *)
(* and built the TC, even if faulty validators signed badly.               *)
QuorumUsed == \A n \in Honest : ~ HasSuperMajorityVotes(pending[n])

(* Faulty validators cannot end a round early: honest validators time out  *)
(* in a round only after an honest validator's own timer has expired in it.*)
TimerFirst == \A m \in sent : m.round \in expired

(* Rounds end: however certificates and timeouts were lost before, every   *)
(* honest validator reaches the last round, although no round need be      *)
(* certified and the faulty validators may fall silent at any time.        *)
RoundsEnd == <>(\A n \in Honest : CurrentRound(n) = MaxRound)
=============================================================================
