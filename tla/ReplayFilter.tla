---------------------------- MODULE ReplayFilter ----------------------------
(***************************************************************************)
(* The replay window of a wireauth session: a ring of bits below the next  *)
(* counter.  Packets arrive in any order, late, twice, or with counters    *)
(* far ahead; one that does not decrypt is not recorded.                   *)
(* Source: monad-wireauth/src/session/replay_filter.rs and transport.rs.   *)
(***************************************************************************)
EXTENDS Integers, FiniteSets

CONSTANTS
    MaxCounter,         \* the greatest counter, u64::MAX in the code
    REPLAY_WINDOW_BITS

VARIABLES
    next, bitmap,
    accepted            \* history: the counters of the packets accepted

vars == <<next, bitmap, accepted>>

ConstantsOk == MaxCounter \in Nat /\ REPLAY_WINDOW_BITS \in 1..MaxCounter

Counter == 0..MaxCounter
SaturatingAdd(a, b) == IF a + b > MaxCounter THEN MaxCounter ELSE a + b
Bit(counter) == counter % REPLAY_WINDOW_BITS

Init == next = 0 /\ bitmap = {} /\ accepted = {}

CheckOk(counter) ==
    \/ counter >= next
    \/ SaturatingAdd(counter, REPLAY_WINDOW_BITS) > next /\ Bit(counter) \notin bitmap

(* Mutant: the first counter that is skipped keeps its bit                 *)
ClearedShort(counter) ==
    IF counter < next THEN bitmap
    ELSE IF counter - next >= REPLAY_WINDOW_BITS THEN {}
    ELSE bitmap \ {Bit(i) : i \in next + 1..counter - 1}

(* The bits left when the window moves up to the counter.                  *)
Cleared(counter) ==
    IF counter < next THEN bitmap
    ELSE IF counter - next >= REPLAY_WINDOW_BITS THEN {}
    ELSE bitmap \ {Bit(i) : i \in next..counter - 1}

Update(counter) ==
    /\ bitmap' = Cleared(counter) \cup {Bit(counter)}
    /\ next' = IF counter >= next THEN SaturatingAdd(counter, 1) ELSE next

(* TransportState::decrypt of a packet whose tag is right.                 *)
Decrypt(counter) ==
    /\ CheckOk(counter)
    /\ Update(counter)
    /\ accepted' = accepted \cup {counter}

Next == \E counter \in Counter : Decrypt(counter)

Spec == Init /\ [][Next]_vars

(* The ring says of every counter what the whole history would: a counter  *)
(* passes if and only if it was not accepted before and is not below the   *)
(* window.  The last counter is apart, since next cannot exceed it, and    *)
(* once next is there counters of the window may be refused, but none      *)
(* passes twice.                                                           *)
FilterExact ==
    \A counter \in Counter \ {MaxCounter} :
      LET fresh == counter \notin accepted /\ \A c \in accepted : counter + REPLAY_WINDOW_BITS > c + 1
      IN /\ CheckOk(counter) => fresh
         /\ fresh /\ next < MaxCounter => CheckOk(counter)
=============================================================================
