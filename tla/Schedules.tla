------------------------------ MODULE Schedules ------------------------------
(***************************************************************************)
(* Behaviours of MonadBFT that begin with a given schedule: the k-th step  *)
(* performs the k-th entry, and once the schedule is through any step may  *)
(* follow, if Free.  Every behaviour of ScheduleSpec is one of Spec.       *)
(***************************************************************************)
EXTENDS MonadBFT, Sequences

CONSTANTS
    Schedule,  \* a sequence of entries
    Free       \* explore all behaviours from the schedule's end?

VARIABLE next  \* index of the next entry

(* The entries of a schedule: who does what *)
Proposes(n, b) == [node |-> n, does |-> "propose", round |-> 0, tip |-> b]
Votes(n, r, b) == [node |-> n, does |-> "vote", round |-> r, tip |-> b]
TimesOut(n) == [node |-> n, does |-> "time out", round |-> 0, tip |-> None]
Stops(n) == [node |-> n, does |-> "stop", round |-> 0, tip |-> None]
Starts(n) == [node |-> n, does |-> "start", round |-> 0, tip |-> None]
GetsQc(n, r) == [node |-> n, does |-> "qc", round |-> r, tip |-> None]
GetsTc(n, r, b) == [node |-> n, does |-> "tc", round |-> r, tip |-> b]

Perform(e) ==
    \/ /\ e.does = "propose"
       /\ \E p \in creating : p.node = e.node /\ p.tip = e.tip /\ PublishProposal(p)
    \/ /\ e.does = "vote"
       /\ \E p \in ValidProposals(Tips, Tcs(Tips)) :
             /\ p.round = e.round /\ p.tip = e.tip
             /\ HandleProposalMessage(e.node, p)
             /\ votes' # votes
    \/ /\ e.does = "time out"
       /\ HandleTimeoutExpiry(e.node)
    \/ /\ e.does = "stop"
       /\ Stop(e.node)
    \/ /\ e.does = "start"
       /\ MaybeStartConsensus(e.node, ValidProposals(Tips, Tcs(Tips)))
    \/ /\ e.does = "qc"
       /\ \E q \in Qcs : q.round = e.round /\ HandleQc(e.node, q)
    \/ /\ e.does = "tc"
       /\ \E c \in Tcs(Tips) : c.round = e.round /\ c.tip = e.tip /\ HandleTc(e.node, c)

ScheduleInit == Init /\ next = 1
ScheduleNext ==
    \/ /\ next <= Len(Schedule)
       /\ Perform(Schedule[next])
       /\ next' = next + 1
    \/ /\ Free /\ next > Len(Schedule)
       /\ Next
       /\ UNCHANGED next
ScheduleSpec == ScheduleInit /\ [][ScheduleNext]_<<vars, next>>
=============================================================================
