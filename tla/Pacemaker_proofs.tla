-------------------------- MODULE Pacemaker_proofs --------------------------
(***************************************************************************)
(* Theorems about Pacemaker, for every set of validators, faulty or not,   *)
(* that meets QuorumAssumption and every bound on rounds.                  *)
(*                                                                         *)
(* A handler is a sequence of operators on a handler state.  Each keeps    *)
(* the handler state Good; finishing a handler in a Good state             *)
(* re-establishes the invariant.                                           *)
(***************************************************************************)
EXTENDS Pacemaker, TLAPS

Cert == [round : Nat, tc : BOOLEAN]
Timeout == [from : Validators, round : Nat, qc : Nat, last : SUBSET Cert]

TypeOK ==
    /\ cert \in [Honest -> Cert]
    /\ phase \in [Honest -> {"Zero", "One"}]
    /\ pending \in [Honest -> SUBSET Validators]
    /\ invalid \in [Honest -> SUBSET Validators]
    /\ sent \subseteq Timeout
    /\ qcs \subseteq Nat
    /\ panicked \in BOOLEAN

(* Certificates are made of what was sent. *)
Genuine(c) == c \in Cert /\ IF c.tc THEN TcExists(c.round) ELSE c.round \in qcs
Backed(m) == m.qc \in qcs /\ \A c \in m.last : Genuine(c)
Justified ==
    /\ \A n \in Honest : Genuine(cert[n])
    /\ \A m \in sent : Backed(m)

(* An honest author among the timeouts a validator has collected has sent  *)
(* one of the validator's current round.                                   *)
TimedOutIn(a, r) == a \in Honest => \E m \in sent : m.from = a /\ m.round = r
PendingSent == \A n \in Honest : \A a \in pending[n] : TimedOutIn(a, CurrentRound(n))

IInv == TypeOK /\ Justified /\ PendingSent /\ QuorumUsed /\ TimerFirst /\ NoPanic

(* The same of a running handler.  E: the rounds its validator may have    *)
(* timed out in.                                                           *)
HandlerState ==
    [ cert : Cert, phase : {"Zero", "One"}, pending : SUBSET Validators,
      invalid : SUBSET Validators, sent : SUBSET Timeout, panicked : BOOLEAN ]

Sound(n, st, E) ==
    /\ st \in HandlerState
    /\ Genuine(st.cert)
    /\ \A a \in st.pending : TimedOutIn(a, Round(st))
    /\ \A m \in st.sent : m.from = n /\ m.round \in E /\ Backed(m)
    /\ ~ st.panicked

Good(n, st, E) == Sound(n, st, E) /\ ~ HasSuperMajorityVotes(st.pending)
-----------------------------------------------------------------------------
(* Every supermajority holds an honest validator; so does every set that   *)
(* has_honest_vote accepts.                                                *)
LEMMA HonestMember ==
    /\ \A S : HasHonestVote(S) => \E n \in S : n \notin Faulty
    /\ \A S : HasSuperMajorityVotes(S) => HasHonestVote(S)
    /\ ~ HasSuperMajorityVotes({})
  <1>1. \A S : HasHonestVote(S) => \E n \in S : n \notin Faulty
    BY QuorumAssumption DEF HasHonestVote
  <1>2. \A S : HasSuperMajorityVotes(S) => HasHonestVote(S)
    BY QuorumAssumption DEF HasHonestVote, HasSuperMajorityVotes
  <1> QED BY <1>1, <1>2

(* A TC takes an honest validator's timeout. *)
LEMMA TcNeedsHonest ==
    ASSUME NEW r, TcExists(r)
    PROVE  \E m \in sent : m.round = r
  BY HonestMember DEF TcExists

LEMMA AdvanceOk ==
    ASSUME NEW n, NEW E, NEW st, Good(n, st, E), NEW c, Genuine(c)
    PROVE  /\ Good(n, ProcessCertificate(st, c), E)
           /\ ProcessCertificate(st, c).cert.round >= c.round
           /\ ProcessCertificate(st, c).cert.round >= st.cert.round
  <1>1. st.cert \in Cert /\ c \in Cert /\ st.cert.round \in Nat /\ c.round \in Nat
    BY DEF Good, Sound, HandlerState, Genuine, Cert
  <1>2. CASE c.round <= st.cert.round
    BY <1>1, <1>2 DEF ProcessCertificate
  <1>3. CASE ~ (c.round <= st.cert.round)
    <2>1. ProcessCertificate(st, c) =
            [st EXCEPT !.cert = c, !.phase = "Zero", !.pending = {}, !.invalid = {}]
      BY <1>3 DEF ProcessCertificate
    <2> DEFINE t == [st EXCEPT !.cert = c, !.phase = "Zero", !.pending = {}, !.invalid = {}]
    <2>2. t \in HandlerState /\ t.cert = c /\ t.pending = {} /\ t.sent = st.sent
          /\ t.panicked = st.panicked
      BY <1>1 DEF Good, Sound, HandlerState
    <2> HIDE DEF t
    <2>3. Good(n, t, E)
      BY <2>2, HonestMember DEF Good, Sound
    <2> QED BY <1>1, <1>3, <2>1, <2>2, <2>3 DEF t
  <1> QED BY <1>2, <1>3

LEMMA LocalTimeoutOk ==
    ASSUME IInv, NEW n \in Honest, NEW E, NEW st, Sound(n, st, E), Round(st) \in E,
           NEW s \in LocalTimeoutRound(n, st)
    PROVE  /\ Sound(n, s, E)
           /\ s.cert = st.cert /\ s.pending = st.pending /\ s.invalid = st.invalid
           /\ s.phase = "One"
  <1>1. PICK q \in qcs :
            s = [st EXCEPT !.phase = "One",
                           !.sent = @ \cup {[from |-> n, round |-> Round(st), qc |-> q,
                                             last |-> LastRoundCertificate(st, q)]}]
    BY DEF LocalTimeoutRound
  <1> DEFINE m == [from |-> n, round |-> Round(st), qc |-> q, last |-> LastRoundCertificate(st, q)]
  <1>2. st.cert \in Cert /\ st.cert.round \in Nat /\ Genuine(st.cert)
    BY DEF Sound, HandlerState, Cert
  <1>3. /\ m \in Timeout /\ m.from = n /\ m.round = Round(st)
        /\ Backed(m)
    <2>1. LastRoundCertificate(st, q) \in {{}, {st.cert}}
      BY DEF LastRoundCertificate
    <2>2. q \in Nat /\ n \in Validators /\ Round(st) \in Nat
      BY <1>2 DEF IInv, TypeOK, Honest, Round
    <2> QED BY <1>2, <2>1, <2>2 DEF Timeout, Backed
  <1> HIDE DEF m
  <1>4. /\ s \in HandlerState /\ s.cert = st.cert /\ s.pending = st.pending
        /\ s.invalid = st.invalid /\ s.phase = "One" /\ s.sent = st.sent \cup {m}
        /\ s.panicked = st.panicked
    BY <1>1, <1>3 DEF Sound, HandlerState, m
  <1> QED BY <1>3, <1>4 DEF Sound, Round

(* A TC a validator puts together from timeouts it has collected exists. *)
LEMMA CollectedTc ==
    ASSUME NEW P, NEW r, HasSuperMajorityVotes(P), P \subseteq Validators,
           \A a \in P : TimedOutIn(a, r)
    PROVE  TcExists(r)
  BY DEF HasSuperMajorityVotes, TcExists, TimedOutIn, Honest

(* The loop of process_remote_timeout ends without a supermajority, if the *)
(* validator has timed out whenever it holds one.                          *)
LEMMA TryCreateOk ==
    ASSUME NEW n, NEW E, NEW st, Sound(n, st, E),
           HasSuperMajorityVotes(st.pending) => st.phase = "One",
           NEW s \in TryCreateTc(st)
    PROVE  Good(n, s, E)
  <1>1. CASE ~ HasSuperMajorityVotes(st.pending)
    BY <1>1 DEF TryCreateTc, Good
  <1>2. CASE HasSuperMajorityVotes(st.pending)
    <2> DEFINE without(bad) == [st EXCEPT !.pending = @ \ bad, !.invalid = @ \cup bad]
               tc == [round |-> Round(st), tc |-> TRUE]
    <2>1. PICK bad \in SUBSET (st.pending \cap Faulty) :
             s = IF HasSuperMajorityVotes(st.pending \ bad)
                 THEN ProcessCertificate(without(bad), [round |-> Round(without(bad)), tc |-> TRUE])
                 ELSE without(bad)
      BY <1>2 DEF TryCreateTc
    <2> DEFINE w == without(bad)
    <2>2. /\ w \in HandlerState /\ w.cert = st.cert /\ w.pending = st.pending \ bad
          /\ w.sent = st.sent /\ w.panicked = st.panicked /\ Round(w) = Round(st)
      BY DEF Sound, HandlerState, Round
    <2> HIDE DEF w
    <2>3. Sound(n, w, E)
      BY <2>2 DEF Sound
    <2>4. CASE ~ HasSuperMajorityVotes(st.pending \ bad)
      BY <2>1, <2>2, <2>3, <2>4 DEF Good, w
    <2>5. CASE HasSuperMajorityVotes(st.pending \ bad)
      <3>1. st.cert.round \in Nat /\ Round(st) \in Nat /\ Round(st) = st.cert.round + 1
        BY DEF Sound, HandlerState, Cert, Round
      <3>2. TcExists(Round(st))
        BY <2>2, <2>5, CollectedTc DEF Sound, HandlerState
      <3>3. s = [w EXCEPT !.cert = tc, !.phase = "Zero", !.pending = {}, !.invalid = {}]
        <4>1. s = ProcessCertificate(w, [round |-> Round(w), tc |-> TRUE])
          BY <2>1, <2>5 DEF w
        <4>2. ~ ([round |-> Round(w), tc |-> TRUE].round <= w.cert.round)
          BY <2>2, <3>1
        <4> QED BY <2>2, <4>1, <4>2 DEF ProcessCertificate
      <3>4. tc \in Cert /\ Genuine(tc)
        BY <3>1, <3>2 DEF Cert, Genuine
      <3>5. /\ s \in HandlerState /\ s.cert = tc /\ s.pending = {} /\ s.sent = w.sent
            /\ s.panicked = w.panicked
        BY <2>2, <3>3, <3>4 DEF HandlerState
      <3> HIDE DEF tc
      <3> QED BY <2>3, <3>4, <3>5, HonestMember DEF Good, Sound
    <2> QED BY <2>4, <2>5
  <1> QED BY <1>1, <1>2

(* process_remote_timeout on a message of a round the validator has        *)
(* reached: it does not panic, joins the timeouts of others only after an  *)
(* honest validator's timer, and uses a supermajority it holds.            *)
LEMMA RemoteTimeoutOk ==
    ASSUME IInv, NEW n \in Honest, NEW st, Good(n, st, expired),
           NEW m \in Timeout, m.from \in Honest => m \in sent,
           m.round <= Round(st), NEW s \in ProcessRemoteTimeout(n, st, m)
    PROVE  Good(n, s, expired)
  <1>1. st.cert.round \in Nat /\ Round(st) \in Nat /\ m.round \in Nat /\ m.from \in Validators
    BY DEF Good, Sound, HandlerState, Cert, Round, Timeout
  <1>2. CASE m.round < Round(st) \/ m.from \in st.invalid
    BY <1>1, <1>2 DEF ProcessRemoteTimeout
  <1>3. CASE m.round = Round(st) /\ m.from \notin st.invalid
    <2> DEFINE w == [st EXCEPT !.pending = @ \cup {m.from}]
    <2>1. PICK t \in JoinTimeout(n, w) : s \in TryCreateTc(t)
      BY <1>1, <1>3 DEF ProcessRemoteTimeout
    <2>2. /\ w \in HandlerState /\ w.cert = st.cert /\ w.pending = st.pending \cup {m.from}
          /\ w.sent = st.sent /\ w.panicked = st.panicked /\ w.phase = st.phase
          /\ Round(w) = Round(st)
      BY <1>1 DEF Good, Sound, HandlerState, Round
    <2> HIDE DEF w
    <2>3. TimedOutIn(m.from, Round(st))
      BY <1>3 DEF TimedOutIn
    <2>4. Sound(n, w, expired)
      BY <2>2, <2>3 DEF Good, Sound
    <2>5. Sound(n, t, expired) /\ (HasSuperMajorityVotes(t.pending) => t.phase = "One")
      <3>1. CASE w.phase = "Zero" /\ HasHonestVote(w.pending)
        <4>1. PICK a \in w.pending : a \notin Faulty
          BY <3>1, HonestMember
        <4>2. a \in Honest
          BY <2>2, <4>1 DEF HandlerState, Honest
        <4>3. Round(w) \in expired
          BY <2>4, <4>1, <4>2 DEF Sound, TimedOutIn, IInv, TimerFirst
        <4>4. t \in LocalTimeoutRound(n, w)
          BY <2>1, <3>1 DEF JoinTimeout
        <4> QED BY <2>4, <4>3, <4>4, LocalTimeoutOk
      <3>2. CASE ~ (w.phase = "Zero" /\ HasHonestVote(w.pending))
        <4>1. t = w
          BY <2>1, <3>2 DEF JoinTimeout
        <4>2. w.phase \in {"Zero", "One"}
          BY <2>2 DEF HandlerState
        <4> QED BY <2>4, <3>2, <4>1, <4>2, HonestMember
      <3> QED BY <3>1, <3>2
    <2> QED BY <2>1, <2>5, TryCreateOk
  <1> QED BY <1>1, <1>2, <1>3

(* The certificate a timeout message carries: a TC of the current round    *)
(* makes the validator time out too, but that TC took an honest timeout.   *)
LEMMA LastRoundOk ==
    ASSUME IInv, NEW n \in Honest, NEW st, Good(n, st, expired), NEW c, Genuine(c),
           NEW s \in ProcessLastRoundCertificate(n, st, c)
    PROVE  Good(n, s, expired) /\ s.cert.round >= c.round
  <1>1. CASE c.tc /\ c.round = Round(st)
    <2>1. PICK t \in LocalTimeoutRound(n, st) : s = ProcessCertificate(t, c)
      BY <1>1 DEF ProcessLastRoundCertificate
    <2>2. Round(st) \in expired
      BY <1>1, TcNeedsHonest DEF Genuine, IInv, TimerFirst
    <2>3. Good(n, t, expired)
      BY <2>1, <2>2, LocalTimeoutOk DEF Good
    <2> QED BY <2>1, <2>3, AdvanceOk
  <1>2. CASE ~ (c.tc /\ c.round = Round(st))
    BY <1>2, AdvanceOk DEF ProcessLastRoundCertificate
  <1> QED BY <1>1, <1>2

LEMMA BeginOk ==
    ASSUME IInv, NEW n \in Honest, NEW E
    PROVE  Good(n, Begin(n), E) /\ Round(Begin(n)) = CurrentRound(n)
  <1>1. /\ Begin(n) \in HandlerState /\ Begin(n).cert = cert[n]
        /\ Begin(n).pending = pending[n] /\ Begin(n).sent = {} /\ Begin(n).panicked = FALSE
    BY DEF Begin, HandlerState, IInv, TypeOK
  <1>2. Round(Begin(n)) = CurrentRound(n)
    BY <1>1 DEF Round, CurrentRound
  <1> QED BY <1>1, <1>2 DEF Good, Sound, IInv, Justified, PendingSent, QuorumUsed

(* What exists is not undone by further messages and QCs. *)
LEMMA Monotone ==
    ASSUME sent \subseteq sent', qcs \subseteq qcs'
    PROVE  /\ \A c : Genuine(c) => Genuine(c)'
           /\ \A m : Backed(m) => Backed(m)'
           /\ \A a, r : TimedOutIn(a, r) => TimedOutIn(a, r)'
  <1>1. \A r : TcExists(r) => TcExists(r)'
    BY DEF TcExists, HasSuperMajorityVotes
  <1>2. \A c : Genuine(c) => Genuine(c)'
    BY <1>1 DEF Genuine
  <1> QED BY <1>2 DEF Backed, TimedOutIn

(* Finishing a handler in a good state, with or without new QCs and        *)
(* expired timers *)
LEMMA FinishOk ==
    ASSUME IInv, NEW n \in Honest, NEW E, expired \subseteq E, expired' = E, UNCHANGED qcs,
           NEW st, Good(n, st, E), Finish(n, st)
    PROVE  IInv'
  <1>1. /\ st \in HandlerState /\ Genuine(st.cert)
        /\ \A a \in st.pending : TimedOutIn(a, Round(st))
        /\ \A m \in st.sent : m.from = n /\ m.round \in E /\ Backed(m)
        /\ ~ st.panicked /\ ~ HasSuperMajorityVotes(st.pending)
    BY DEF Good, Sound
  <1>2. /\ cert' = [cert EXCEPT ![n] = st.cert] /\ phase' = [phase EXCEPT ![n] = st.phase]
        /\ pending' = [pending EXCEPT ![n] = st.pending]
        /\ invalid' = [invalid EXCEPT ![n] = st.invalid]
        /\ sent' = sent \cup st.sent /\ panicked' = (panicked \/ st.panicked)
    BY DEF Finish
  <1>3. /\ \A c : Genuine(c) => Genuine(c)'
        /\ \A m : Backed(m) => Backed(m)'
        /\ \A a, r : TimedOutIn(a, r) => TimedOutIn(a, r)'
    BY <1>2, Monotone
  <1>4. TypeOK'
    BY <1>1, <1>2 DEF IInv, TypeOK, HandlerState, NoPanic
  <1>5. Justified'
    BY <1>1, <1>2, <1>3 DEF IInv, TypeOK, Justified
  <1>6. PendingSent'
    <2> SUFFICES ASSUME NEW k \in Honest, NEW a \in pending'[k]
                 PROVE  TimedOutIn(a, CurrentRound(k))'
      BY DEF PendingSent
    <2>1. CASE k = n
      <3>1. pending'[k] = st.pending /\ CurrentRound(k)' = Round(st)
        BY <1>2, <2>1 DEF IInv, TypeOK, CurrentRound, Round
      <3> QED BY <1>1, <1>3, <3>1 DEF TimedOutIn
    <2>2. CASE k # n
      <3>1. pending'[k] = pending[k] /\ CurrentRound(k)' = CurrentRound(k)
        BY <1>2, <2>2 DEF IInv, TypeOK, CurrentRound
      <3> QED BY <1>3, <3>1 DEF IInv, PendingSent, TimedOutIn
    <2> QED BY <2>1, <2>2
  <1>7. QuorumUsed'
    BY <1>1, <1>2 DEF IInv, TypeOK, QuorumUsed
  <1>8. TimerFirst' /\ NoPanic'
    BY <1>1, <1>2 DEF IInv, TimerFirst, NoPanic
  <1> QED BY <1>4, <1>5, <1>6, <1>7, <1>8 DEF IInv
-----------------------------------------------------------------------------
LEMMA ExpiryOk ==
    ASSUME IInv, NEW n \in Honest, HandleTimeoutExpiry(n)
    PROVE  IInv'
  <1> DEFINE E == expired \cup {CurrentRound(n)}
  <1>1. PICK st \in LocalTimeoutRound(n, Begin(n)) : Finish(n, st)
    BY DEF HandleTimeoutExpiry
  <1>2. Good(n, Begin(n), E) /\ Round(Begin(n)) \in E
    BY BeginOk
  <1>3. Good(n, st, E)
    BY <1>2, LocalTimeoutOk DEF Good
  <1> QED BY <1>1, <1>3, FinishOk DEF HandleTimeoutExpiry

(* handle_timeout_message: the certificates in the message bring the       *)
(* receiver to the message's round before process_remote_timeout.          *)
LEMMA TimeoutMessageOk ==
    ASSUME IInv, NEW n \in Honest, NEW m \in Timeout, Backed(m),
           m.from \in Honest => m \in sent, HandleTimeoutMessage(n, m)
    PROVE  IInv'
  <1> DEFINE qc == [round |-> m.qc, tc |-> FALSE]
             own == [round |-> m.round, tc |-> FALSE]
             st1 == ProcessCertificate(Begin(n), qc)
             st2(voted) == IF voted THEN ProcessCertificate(st1, own) ELSE st1
  <1>1. PICK voted \in BOOLEAN :
            /\ voted => m.round \in qcs
            /\ \E st3 \in IF m.last = {} THEN {st2(voted)}
                           ELSE UNION {ProcessLastRoundCertificate(n, st2(voted), c) : c \in m.last} :
               \E st4 \in ProcessRemoteTimeout(n, st3, m) : Finish(n, st4)
    BY DEF HandleTimeoutMessage
  <1>2. m.round \in Nat /\ m.qc \in Nat /\ m.qc \in qcs /\ Genuine(qc)
    BY DEF Timeout, Backed, Genuine, Cert
  <1>3. Good(n, st1, expired) /\ st1.cert.round >= m.qc
    BY <1>2, BeginOk, AdvanceOk
  <1>4. Good(n, st2(voted), expired) /\ st2(voted).cert.round >= m.qc
    <2>1. CASE voted
      <3>1. Genuine(own)
        BY <1>1, <1>2, <2>1 DEF Genuine, Cert
      <3>2. Good(n, ProcessCertificate(st1, own), expired)
            /\ ProcessCertificate(st1, own).cert.round >= st1.cert.round
        BY <1>3, <3>1, AdvanceOk
      <3>3. st1.cert.round \in Nat /\ ProcessCertificate(st1, own).cert.round \in Nat
        BY <1>3, <3>2 DEF Good, Sound, HandlerState, Cert
      <3> HIDE DEF st1
      <3> QED BY <1>2, <1>3, <2>1, <3>2, <3>3
    <2>2. CASE ~ voted
      BY <1>3, <2>2
    <2> QED BY <2>1, <2>2
  <1> HIDE DEF st2
  <1>5. PICK st3 \in IF m.last = {} THEN {st2(voted)}
                     ELSE UNION {ProcessLastRoundCertificate(n, st2(voted), c) : c \in m.last} :
           \E st4 \in ProcessRemoteTimeout(n, st3, m) : Finish(n, st4)
    BY <1>1
  <1>6. Good(n, st3, expired) /\ m.round <= Round(st3)
    <2>1. CASE m.last = {}
      <3>1. m.qc + 1 = m.round /\ st3 = st2(voted)
        BY <1>5, <2>1 DEF HandleTimeoutMessage, WellFormedTimeout
      <3>2. st3.cert.round \in Nat
        BY <1>4, <3>1 DEF Good, Sound, HandlerState, Cert
      <3> QED BY <1>2, <1>4, <3>1, <3>2 DEF Round
    <2>2. CASE m.last # {}
      <3>1. PICK c \in m.last : st3 \in ProcessLastRoundCertificate(n, st2(voted), c)
        BY <1>5, <2>2
      <3>2. Genuine(c) /\ c.round \in Nat /\ c.round + 1 = m.round
        BY <2>2, <3>1 DEF Backed, Genuine, Cert, HandleTimeoutMessage, WellFormedTimeout
      <3>3. Good(n, st3, expired) /\ st3.cert.round >= c.round
        BY <1>4, <3>1, <3>2, LastRoundOk
      <3>4. st3.cert.round \in Nat
        BY <3>3 DEF Good, Sound, HandlerState, Cert
      <3> QED BY <1>2, <3>2, <3>3, <3>4 DEF Round
    <2> QED BY <2>1, <2>2
  <1>7. PICK st4 \in ProcessRemoteTimeout(n, st3, m) : Finish(n, st4)
    BY <1>5
  <1>8. Good(n, st4, expired)
    BY <1>6, <1>7, RemoteTimeoutOk
  <1> QED BY <1>7, <1>8, FinishOk DEF HandleTimeoutMessage

LEMMA CertificatesGenuine ==
    ASSUME IInv, NEW c \in Certificates
    PROVE  Genuine(c)
  <1>1. CASE \E q \in qcs : c = [round |-> q, tc |-> FALSE]
    <2>1. PICK q \in qcs : c = [round |-> q, tc |-> FALSE]
      BY <1>1
    <2>2. q \in Nat
      BY DEF IInv, TypeOK
    <2> QED BY <2>1, <2>2 DEF Genuine, Cert
  <1>2. CASE \E r \in 1..MaxRound : TcExists(r) /\ c = [round |-> r, tc |-> TRUE]
    <2>1. PICK r \in 1..MaxRound : TcExists(r) /\ c = [round |-> r, tc |-> TRUE]
      BY <1>2
    <2>2. r \in Nat
      BY RoundAssumption
    <2> QED BY <2>1, <2>2 DEF Genuine, Cert
  <1> QED BY <1>1, <1>2 DEF Certificates

LEMMA AdvanceRoundOk ==
    ASSUME IInv, NEW n \in Honest, NEW c \in Certificates, HandleAdvanceRoundMessage(n, c)
    PROVE  IInv'
  <1>1. Genuine(c)
    BY CertificatesGenuine
  <1>2. Good(n, ProcessCertificate(Begin(n), c), expired)
    BY <1>1, BeginOk, AdvanceOk
  <1> QED BY <1>2, FinishOk DEF HandleAdvanceRoundMessage

LEMMA CertifyOk ==
    ASSUME IInv, NEW r \in Certifiable, Certify(r)
    PROVE  IInv'
  <1>1. /\ qcs' = qcs \cup {r} /\ r \in Nat
        /\ UNCHANGED << cert, phase, pending, invalid, sent, expired, panicked >>
    BY RoundAssumption DEF Certify
  <1>2. TypeOK'
    BY <1>1 DEF IInv, TypeOK
  <1>3. /\ \A c : Genuine(c) => Genuine(c)'
        /\ \A m : Backed(m) => Backed(m)'
        /\ \A a, q : TimedOutIn(a, q) => TimedOutIn(a, q)'
    BY <1>1, Monotone
  <1>4. Justified'
    BY <1>1, <1>3 DEF IInv, Justified
  <1>5. PendingSent' /\ QuorumUsed' /\ TimerFirst' /\ NoPanic'
    BY <1>1 DEF IInv, PendingSent, TimedOutIn, CurrentRound, QuorumUsed, TimerFirst, NoPanic
  <1> QED BY <1>2, <1>4, <1>5 DEF IInv

LEMMA InitOk == Init => IInv
  <1> SUFFICES ASSUME Init PROVE IInv
    OBVIOUS
  <1>1. TypeOK
    <2>1. [round |-> 0, tc |-> FALSE] \in Cert
      BY DEF Cert
    <2>2. cert \in [Honest -> Cert]
      BY <2>1 DEF Init
    <2>3. /\ phase \in [Honest -> {"Zero", "One"}]
          /\ pending \in [Honest -> SUBSET Validators]
          /\ invalid \in [Honest -> SUBSET Validators]
          /\ sent \subseteq Timeout /\ qcs \subseteq Nat
      BY DEF Init
    <2>4. panicked \in BOOLEAN
      BY DEF Init
    <2> QED BY <2>2, <2>3, <2>4 DEF TypeOK
  <1>2. Justified /\ PendingSent
    BY DEF Init, Justified, Genuine, Cert, PendingSent
  <1>3. QuorumUsed /\ TimerFirst /\ NoPanic
    BY HonestMember DEF Init, QuorumUsed, TimerFirst, NoPanic
  <1> QED BY <1>1, <1>2, <1>3 DEF IInv

LEMMA NextOk == IInv /\ [Next]_vars => IInv'
  <1> SUFFICES ASSUME IInv, [Next]_vars PROVE IInv'
    OBVIOUS
  <1>1. ASSUME NEW n \in Honest, HandleTimeoutExpiry(n) PROVE IInv'
    BY <1>1, ExpiryOk
  <1>2. ASSUME NEW n \in Honest, NEW m \in sent, HandleTimeoutMessage(n, m) PROVE IInv'
    BY <1>2, TimeoutMessageOk DEF IInv, TypeOK, Justified
  <1>3. ASSUME NEW n \in Honest, NEW m \in FaultyTimeouts, HandleTimeoutMessage(n, m) PROVE IInv'
    <2>1. m \in [from : Faulty, round : 1..MaxRound, qc : qcs,
                  last : {{}} \cup {{c} : c \in Certificates}]
      BY DEF FaultyTimeouts
    <2>2. \A c \in m.last : Genuine(c)
      BY <2>1, CertificatesGenuine
    <2>3. m \in Timeout /\ m.from \notin Honest
      <3>1. m.from \in Faulty /\ m.from \in Validators
        BY <2>1, QuorumAssumption
      <3>2. m.round \in Nat /\ m.qc \in Nat
        <4>1. m.round \in 1..MaxRound /\ m.qc \in qcs
          BY <2>1
        <4>2. qcs \subseteq Nat
          BY DEF IInv, TypeOK
        <4>3. \A r \in 1..MaxRound : r \in Nat
          BY RoundAssumption
        <4> QED BY <4>1, <4>2, <4>3
      <3>3. m.last \in SUBSET Cert
        BY <2>2 DEF Genuine
      <3>4. m = [from |-> m.from, round |-> m.round, qc |-> m.qc, last |-> m.last]
        BY <2>1
      <3> QED BY <3>1, <3>2, <3>3, <3>4 DEF Timeout, Honest
    <2>4. Backed(m)
      BY <2>1, <2>2 DEF Backed
    <2> QED BY <1>3, <2>3, <2>4, TimeoutMessageOk
  <1>4. ASSUME NEW n \in Honest, NEW c \in Certificates, HandleAdvanceRoundMessage(n, c) PROVE IInv'
    BY <1>4, AdvanceRoundOk
  <1>5. ASSUME NEW r \in Certifiable, Certify(r) PROVE IInv'
    BY <1>5, CertifyOk
  <1>6. CASE UNCHANGED vars
    BY <1>6 DEF vars, IInv, TypeOK, Justified, Genuine, Backed, TcExists, PendingSent, TimedOutIn,
                CurrentRound, QuorumUsed, TimerFirst, NoPanic
  <1> QED BY <1>1, <1>2, <1>3, <1>4, <1>5, <1>6 DEF Next
-----------------------------------------------------------------------------
(* The inductive invariant holds in every reachable state. *)
THEOREM Invariance == Spec => []IInv
  BY InitOk, NextOk, PTL DEF Spec

(* The assertion of process_remote_timeout never fails: whatever a         *)
(* well-formed timeout message carries has brought the receiver to its     *)
(* round.                                                                  *)
THEOREM RemoteTimeoutNeverPanics == Spec => []NoPanic
  <1>1. IInv => NoPanic
    BY DEF IInv
  <1> QED BY <1>1, Invariance, PTL

(* No validator sits on a supermajority of timeouts, even if some of them  *)
(* turn out to be badly signed when the TC is put together.                *)
THEOREM TimeoutsAreUsed == Spec => []QuorumUsed
  <1>1. IInv => QuorumUsed
    BY DEF IInv
  <1> QED BY <1>1, Invariance, PTL

(* Faulty validators alone do not end a round: an honest validator times   *)
(* out in a round, on its own, with f+1 others or along with a TC, only    *)
(* after an honest validator's timer has expired in it.                    *)
THEOREM TimersComeFirst == Spec => []TimerFirst
  <1>1. IInv => TimerFirst
    BY DEF IInv
  <1> QED BY <1>1, Invariance, PTL
=============================================================================
