------------------------------ MODULE WireAuth ------------------------------
(***************************************************************************)
(* Sessions of one socket of the authenticated transport: handshakes begun *)
(* and accepted, established sessions, at most two of each role for every  *)
(* peer and every socket address, and the timers that end or renew them.   *)
(* Messages that fail a check change nothing and are left out; the other   *)
(* side, the network and the cookies are free choices of the environment.  *)
(* Source: monad-wireauth/src/api.rs, state.rs, filter.rs and session/.    *)
(***************************************************************************)
EXTENDS Integers, Sequences, FiniteSets, FiniteSetsExt, SequencesExt

CONSTANTS
    Configs  \* configurations, each a record of
             \* Peer: pairs of a static key and a socket address <<ip, port>>
             \* Indices: number of session indices; 2^32 in the code
             \* keepalive_interval, session_timeout, gc_idle_timeout, rekey_interval, max_session_duration,
             \* retry_attempts, max_initiated_sessions, low_watermark, high_watermark, max_sessions_per_ip
             \* MaxTime: bound on the clock
             \* MaxSessions: bound on sessions begun or accepted, rekeys apart

VARIABLES
    config,  \* the Config of this process
    now,
    begun,   \* number of sessions begun or accepted
    st,      \* State
    timers   \* set of <<deadline, session index>>

vars == <<config, now, begun, st, timers>>

ConstantsOk ==
    \A c \in Configs :
      /\ c.Indices \in Nat \ {0}
      /\ c.max_session_duration \in Nat /\ c.MaxTime \in Nat /\ c.retry_attempts \in Nat
      /\ \A d \in {c.keepalive_interval, c.session_timeout, c.gc_idle_timeout, c.rekey_interval} :
           d \in 1..c.max_session_duration

Never == config.MaxTime + config.max_session_duration + 1
Key == {peer[1] : peer \in config.Peer}
Addr == {peer[2] : peer \in config.Peer}
Ip == {addr[1] : addr \in Addr}
Roles == {"initiator", "responder"}
Put(f, x, v) == [y \in DOMAIN f \cup {x} |-> IF y = x THEN v ELSE f[y]]
Without(f, S) == [x \in DOMAIN f \ S |-> f[x]]

Established == [role \in Roles |-> <<>>]
Init ==
    /\ config \in Configs
    /\ now = 0 /\ begun = 0 /\ timers = {}
    /\ st = [sessions |-> <<>>, by_key |-> [k \in Key |-> Established], by_socket |-> [a \in Addr |-> Established],
             allocated |-> {}, next |-> 0, initiated |-> <<>>, accepted |-> {},
             ips |-> [ip \in Ip |-> 0], total |-> 0]

Session(key, addr, initiator, retries) ==
    [kind |-> IF initiator THEN "initiating" ELSE "responding",
     key |-> key, addr |-> addr, created |-> now, initiator |-> initiator, retries |-> retries,
     keepalive |-> Never, rekey |-> Never, timeout |-> now + config.session_timeout, max |-> Never, gc |-> Never]

NextDeadline(s) == Min({s.keepalive, s.rekey, s.timeout, s.max, s.gc})
Role(s) == IF s.initiator THEN "initiator" ELSE "responder"

-----------------------------------------------------------------------------
(* State.                                                                  *)

(* RoleSessions: the current session and the one before it.                *)
Current(q) == {q[i] : i \in DOMAIN q \cap {1}}
Push(q, id) == IF q = <<>> THEN <<id>> ELSE <<id, q[1]>>
Evicted(q) == {q[i] : i \in DOMAIN q \cap {2}}
RemoveIds(q, ids) ==
    LET Kept(i) == IF i \in DOMAIN q /\ q[i] \notin ids THEN <<q[i]>> ELSE <<>>
    IN Kept(1) \o Kept(2)

(* EstablishedSessions::get_latest, as a set of at most one.               *)
Latest(e) ==
    LET currents == Current(e["initiator"]) \cup Current(e["responder"])
    IN {id \in currents : \A other \in currents :
          IF st.sessions[id].initiator THEN st.sessions[id].created >= st.sessions[other].created
          ELSE other = id \/ st.sessions[id].created > st.sessions[other].created}

(* reserve_session_index: free indices, the one after the last used first. *)
FreeIndex(S) ==
    LET after(k) == (S.next + k) % config.Indices
        steps == {k \in 0..config.Indices - 1 : after(k) \notin S.allocated}
    IN IF steps = {} THEN {} ELSE {after(Min(steps))}

InsertSession(S, id, s) ==
    [S EXCEPT !.sessions = Put(@, id, s), !.allocated = @ \cup {id}, !.next = (id + 1) % config.Indices,
              !.initiated = IF s.initiator THEN Put(@, s.key, id) ELSE @,
              !.accepted = IF s.initiator THEN @ ELSE @ \cup {<<s.key, id>>},
              !.ips = Put(@, s.addr[1], @[s.addr[1]] + 1), !.total = @ + 1]

(* The established sessions of a key or an address, by role.               *)
OfKey(S, key, role) ==
    {id \in DOMAIN S.sessions :
       S.sessions[id].kind = "transport" /\ S.sessions[id].key = key /\ Role(S.sessions[id]) = role}
OfSocket(S, addr, role) ==
    {id \in DOMAIN S.sessions :
       S.sessions[id].kind = "transport" /\ S.sessions[id].addr = addr /\ Role(S.sessions[id]) = role}
OfIp(S, ip) == {id \in DOMAIN S.sessions : S.sessions[id].addr[1] = ip}
SaturatingSub(n, k) == IF k <= n THEN n - k ELSE 0

(* Mutant: the sessions stay in the table by socket                        *)
TerminateByKey(S, ids) ==
    [S EXCEPT !.sessions = Without(@, ids), !.allocated = @ \ ids,
              !.by_key = [k \in Key |-> [role \in Roles |-> RemoveIds(@[k][role], ids \cap OfKey(S, k, role))]],
              !.initiated = Without(@, {k \in DOMAIN @ : @[k] \in ids /\ S.sessions[@[k]].key = k}),
              !.accepted = @ \ {<<S.sessions[id].key, id>> : id \in ids},
              !.ips = [ip \in Ip |-> SaturatingSub(@[ip], Cardinality(ids \cap OfIp(S, ip)))],
              !.total = SaturatingSub(@, Cardinality(ids))]

(* terminate_session of each of the sessions ids; what it does to one does *)
(* not depend on the others.                                               *)
Terminate(S, ids) ==
    [S EXCEPT !.sessions = Without(@, ids), !.allocated = @ \ ids,
              !.by_key = [k \in Key |-> [role \in Roles |-> RemoveIds(@[k][role], ids \cap OfKey(S, k, role))]],
              !.by_socket = [a \in Addr |-> [role \in Roles |-> RemoveIds(@[a][role], ids \cap OfSocket(S, a, role))]],
              !.initiated = Without(@, {k \in DOMAIN @ : @[k] \in ids /\ S.sessions[@[k]].key = k}),
              !.accepted = @ \ {<<S.sessions[id].key, id>> : id \in ids},
              !.ips = [ip \in Ip |-> SaturatingSub(@[ip], Cardinality(ids \cap OfIp(S, ip)))],
              !.total = SaturatingSub(@, Cardinality(ids))]

(* remove_initiator or remove_responder, then insert_transport.  A session *)
(* is terminated when either table has no room for it any longer.          *)
Pushed(S, id, s) ==
    [S EXCEPT !.sessions = Put(@, id, [s EXCEPT !.kind = "transport"]),
              !.by_key = Put(@, s.key, Put(@[s.key], Role(s), Push(@[s.key][Role(s)], id))),
              !.by_socket = Put(@, s.addr, Put(@[s.addr], Role(s), Push(@[s.addr][Role(s)], id))),
              !.initiated = Without(@, {k \in DOMAIN @ : k = s.key /\ @[k] = id}),
              !.accepted = @ \ {<<s.key, id>>}]
InsertTransport(S, id, s) ==
    LET evicted == Evicted(S.by_key[s.key][Role(s)]) \cup Evicted(S.by_socket[s.addr][Role(s)])
    IN Terminate(Pushed(S, id, s), evicted \cap {i \in DOMAIN S.sessions : S.sessions[i].kind = "transport"})

-----------------------------------------------------------------------------
(* API.                                                                    *)

(* Mutant: the timer is set to the keepalive                               *)
RenewedKeepalive(ts, id, previous, s) == (ts \ {<<previous, id>>}) \cup {<<s.keepalive, id>>}

(* replace_timer: `previous' is what the deadline that was renewed had     *)
(* been, `s' the session as it is now.                                     *)
Renewed(ts, id, previous, s) == (ts \ {<<previous, id>>}) \cup {<<NextDeadline(s), id>>}

(* init_session_with_cookie, if an index is left.                          *)
StartSession(S, ts, key, addr, retries) ==
    LET s == Session(key, addr, TRUE, retries)
    IN IF FreeIndex(S) = {} THEN [st |-> S, timers |-> ts]
       ELSE LET id == CHOOSE i \in FreeIndex(S) : TRUE
            IN [st |-> InsertSession(S, id, s), timers |-> ts \cup {<<NextDeadline(s), id>>}]

Connect(key, addr) ==
    LET r == StartSession(st, timers, key, addr, config.retry_attempts)
    IN /\ Cardinality({id \in DOMAIN st.sessions : st.sessions[id].kind = "initiating"}) < config.max_initiated_sessions
       /\ begun < config.MaxSessions /\ begun' = begun + 1
       /\ st' = r.st /\ timers' = r.timers
       /\ UNCHANGED <<config, now>>

(* Filter::apply passes at best when these hold.                           *)
FilterPasses(addr) ==
    /\ st.total < config.high_watermark
    /\ st.total < config.low_watermark \/ st.ips[addr[1]] < config.max_sessions_per_ip

AcceptHandshakeInit(key, addr) ==
    /\ FilterPasses(addr)
    /\ begun < config.MaxSessions /\ begun' = begun + 1
    /\ \E id \in FreeIndex(st) :
         LET s == Session(key, addr, FALSE, 0)
         IN st' = InsertSession(st, id, s) /\ timers' = timers \cup {<<NextDeadline(s), id>>}
    /\ UNCHANGED <<config, now>>

(* The initiator sends at once, what was buffered or a keepalive.          *)
CompleteHandshake(id) ==
    LET s == [st.sessions[id] EXCEPT !.timeout = now + config.session_timeout, !.rekey = now + config.rekey_interval,
                                     !.max = now + config.max_session_duration, !.gc = now + config.gc_idle_timeout,
                                     !.keepalive = now + config.keepalive_interval]
    IN /\ st.sessions[id].kind = "initiating"
       /\ FilterPasses(st.sessions[id].addr)
       /\ st' = InsertTransport(st, id, s)
       /\ timers' = Renewed(timers, id, Never, s)
       /\ UNCHANGED <<config, now, begun>>

(* The first packet that decrypts establishes the responder's session.     *)
Decrypt(id, data) ==
    LET old == st.sessions[id]
        renewed == [old EXCEPT !.timeout = now + config.session_timeout,
                               !.gc = IF data THEN now + config.gc_idle_timeout ELSE @]
        established == [old EXCEPT !.timeout = now + config.session_timeout, !.keepalive = now + config.keepalive_interval,
                                   !.max = now + config.max_session_duration, !.gc = now + config.gc_idle_timeout]
    IN /\ \/ /\ old.kind = "transport"
             /\ st' = [st EXCEPT !.sessions = Put(@, id, renewed)]
             /\ timers' = Renewed(timers, id, old.timeout, renewed)
          \/ /\ old.kind = "responding"
             /\ st' = InsertTransport(st, id, established)
             /\ timers' = Renewed(timers, id, Never, established)
       /\ UNCHANGED <<config, now, begun>>

EncryptWith(s, data) ==
    [s EXCEPT !.keepalive = now + config.keepalive_interval, !.gc = IF data THEN now + config.gc_idle_timeout ELSE @]

(* encrypt_by_public_key and encrypt_by_socket.                            *)
Encrypt(e) ==
    \E id \in Latest(e) :
      LET s == EncryptWith(st.sessions[id], TRUE)
      IN /\ st' = [st EXCEPT !.sessions = Put(@, id, s)]
         /\ timers' = Renewed(timers, id, st.sessions[id].keepalive, s)
         /\ UNCHANGED <<config, now, begun>>

(* disconnect: terminate_by_public_key.                                    *)
SessionsOf(key) ==
    {st.initiated[k] : k \in DOMAIN st.initiated \cap {key}}
    \cup {x[2] : x \in {y \in st.accepted : y[1] = key}}
    \cup UNION {ToSet(st.by_key[key][role]) : role \in Roles}
Disconnect(key) ==
    /\ SessionsOf(key) # {}
    /\ st' = Terminate(st, SessionsOf(key) \cap DOMAIN st.sessions)
    /\ UNCHANGED <<config, now, begun, timers>>

(* The ends of a session that the timer at hand brings about.              *)
TimedOut(s) == s.timeout <= now
Ends(s) == TimedOut(s) \/ s.max <= now \/ s.gc <= now
RekeysAtEnd(s) == s.initiator /\ s.retries > 0 /\ TimedOut(s) /\ ~(s.max <= now)

(* What the tick of a session that goes on leaves of it.                   *)
Ticked(s) ==
    LET sent == IF s.keepalive <= now THEN EncryptWith(s, FALSE) ELSE s
    IN IF s.rekey <= now THEN [sent EXCEPT !.rekey = Never] ELSE sent

(* One iteration of tick, for the first timer.                             *)
Tick ==
    \E timer \in timers :
      LET id == timer[2]
          rest == timers \ {timer}
          s == st.sessions[id]
          after == Ticked(s)
          rekeyed(retries) == StartSession(st, rest, s.key, s.addr, retries)
      IN /\ timer[1] <= now
         /\ \A x \in timers : timer[1] < x[1] \/ (timer[1] = x[1] /\ id <= x[2])
         /\ UNCHANGED <<config, now, begun>>
         /\ \/ id \notin DOMAIN st.sessions /\ timers' = rest /\ UNCHANGED st
            \/ /\ id \in DOMAIN st.sessions /\ Ends(s)
               /\ LET r == IF RekeysAtEnd(s) THEN rekeyed(s.retries - 1) ELSE [st |-> st, timers |-> rest]
                  IN st' = Terminate(r.st, {id}) /\ timers' = r.timers
            \/ /\ id \in DOMAIN st.sessions /\ ~Ends(s)
               /\ IF s.kind # "transport" THEN timers' = rest /\ UNCHANGED st
                  ELSE LET r == IF s.rekey <= now THEN rekeyed(s.retries) ELSE [st |-> st, timers |-> rest]
                       IN /\ st' = [r.st EXCEPT !.sessions = Put(@, id, after)]
                          /\ timers' = r.timers \cup {<<NextDeadline(after), id>>}

TimePasses == now < config.MaxTime /\ now' = now + 1 /\ UNCHANGED <<config, begun, st, timers>>

Next ==
    \/ \E peer \in config.Peer : Connect(peer[1], peer[2])
    \/ \E peer \in config.Peer : AcceptHandshakeInit(peer[1], peer[2])
    \/ \E id \in DOMAIN st.sessions : CompleteHandshake(id)
    \/ \E id \in DOMAIN st.sessions, data \in BOOLEAN : Decrypt(id, data)
    \/ \E key \in Key : Encrypt(st.by_key[key])
    \/ \E addr \in Addr : Encrypt(st.by_socket[addr])
    \/ \E key \in Key : Disconnect(key)
    \/ Tick
    \/ TimePasses

Spec == Init /\ [][Next]_vars

-----------------------------------------------------------------------------
(* Seven tables describe one set of sessions and are updated apart, by     *)
(* eviction, timeout, rekey and disconnect: they agree.  A table never     *)
(* names a session that is gone (encrypt would find none while another     *)
(* works), each established session is in both tables under its own key,   *)
(* address and role, and the counters the filter admits handshakes by      *)
(* count exactly the sessions there are.                                   *)
SessionsIndexed ==
    /\ st.allocated = DOMAIN st.sessions /\ st.total = Cardinality(DOMAIN st.sessions)
    /\ \A ip \in Ip : st.ips[ip] = Cardinality(OfIp(st, ip))
    /\ \A key \in Key, role \in Roles :
         ToSet(st.by_key[key][role]) = OfKey(st, key, role)
    /\ \A addr \in Addr, role \in Roles :
         ToSet(st.by_socket[addr][role]) = OfSocket(st, addr, role)
    /\ st.accepted = {<<st.sessions[id].key, id>> : id \in {i \in DOMAIN st.sessions : st.sessions[i].kind = "responding"}}
    /\ \A key \in DOMAIN st.initiated :
         /\ st.initiated[key] \in DOMAIN st.sessions
         /\ st.sessions[st.initiated[key]].kind = "initiating" /\ st.sessions[st.initiated[key]].key = key

(* No session is without a timer: whatever deadlines were moved, some      *)
(* timer of the session goes off no later than its next deadline, so that  *)
(* keepalives, rekeys and the end of the session are never missed.         *)
TimersCover ==
    \A id \in DOMAIN st.sessions :
      \E timer \in timers : timer[2] = id /\ timer[1] <= NextDeadline(st.sessions[id])
=============================================================================
