---------------------------- MODULE Parts_proofs ----------------------------
(***************************************************************************)
(* Every property that is proved of a component, as a property of the      *)
(* composition Parts.  The theorems about the components are those of      *)
(* SmallParts_proofs and of the components' own modules of proofs.         *)
(***************************************************************************)
EXTENDS Parts, SmallParts_proofs

-----------------------------------------------------------------------------
(* The composition.  A behaviour of Parts that starts in a part stays in   *)
(* it and is one of its component, so that what holds of the component     *)
(* holds in the part.                                                      *)

In(p) == part = p

LEMMA SamePart ==
    ASSUME NEW p, [PartNext]_all_vars
    PROVE  In(p) <=> In(p)'
  BY DEF PartNext, all_vars, In

LEMMA InNoEndorsements ==
    PartSpec => ([]In("no_endorsements") /\ Nec!Spec) \/ []~In("no_endorsements")
  <1>1. PartInit /\ In("no_endorsements") => Nec!Init
    BY DEF PartInit, In
  <1>2. In("no_endorsements") /\ [PartNext]_all_vars => [Nec!Next]_(Nec!vars)
    BY DEF PartNext, In, all_vars, from1, from4, from5, from6, from9, from11, Nec!vars
  <1>3. [PartNext]_all_vars => (In("no_endorsements") <=> In("no_endorsements")')
    BY SamePart
  <1> QED BY <1>1, <1>2, <1>3, PTL DEF PartSpec, Nec!Spec

LEMMA InPacing ==
    PartSpec => ([]In("pacing") /\ Pacing!Spec) \/ []~In("pacing")
  <1>1. PartInit /\ In("pacing") => Pacing!Init
    BY DEF PartInit, In
  <1>2. In("pacing") /\ [PartNext]_all_vars => [Pacing!Next]_(Pacing!vars)
    BY DEF PartNext, In, all_vars, from1, from4, from5, from6, Pacing!vars
  <1>3. [PartNext]_all_vars => (In("pacing") <=> In("pacing")')
    BY SamePart
  <1> QED BY <1>1, <1>2, <1>3, PTL DEF PartSpec, Pacing!Spec

LEMMA InFilter ==
    PartSpec => ([]In("filter") /\ Filter!Spec) \/ []~In("filter")
  <1>1. PartInit /\ In("filter") => Filter!Init
    BY DEF PartInit, In
  <1>2. In("filter") /\ [PartNext]_all_vars => [Filter!Next]_(Filter!vars)
    BY DEF PartNext, In, all_vars, from1, Filter!vars
  <1>3. [PartNext]_all_vars => (In("filter") <=> In("filter")')
    BY SamePart
  <1> QED BY <1>1, <1>2, <1>3, PTL DEF PartSpec, Filter!Spec

LEMMA InWire ==
    PartSpec => ([]In("wire") /\ Wire!Spec) \/ []~In("wire")
  <1>1. PartInit /\ In("wire") => Wire!Init
    BY DEF PartInit, In
  <1>2. In("wire") /\ [PartNext]_all_vars => [Wire!Next]_(Wire!vars)
    BY DEF PartNext, In, all_vars, from1, from4, from5, Wire!vars
  <1>3. [PartNext]_all_vars => (In("wire") <=> In("wire")')
    BY SamePart
  <1> QED BY <1>1, <1>2, <1>3, PTL DEF PartSpec, Wire!Spec

LEMMA InEpochs ==
    PartSpec => ([]In("epochs") /\ Epoch!Spec) \/ []~In("epochs")
  <1>1. PartInit /\ In("epochs") => Epoch!Init
    BY DEF PartInit, In
  <1>2. In("epochs") /\ [PartNext]_all_vars => [Epoch!Next]_(Epoch!vars)
    BY DEF PartNext, In, all_vars, from1, from4, from5, from6, from9, from11, from12, Epoch!vars
  <1>3. [PartNext]_all_vars => (In("epochs") <=> In("epochs")')
    BY SamePart
  <1> QED BY <1>1, <1>2, <1>3, PTL DEF PartSpec, Epoch!Spec

LEMMA InState ==
    PartSpec => ([]In("state") /\ State!Spec) \/ []~In("state")
  <1>1. PartInit /\ In("state") => State!Init
    BY DEF PartInit, In
  <1>2. In("state") /\ [PartNext]_all_vars => [State!Next]_(State!vars)
    BY DEF PartNext, In, all_vars, from1, from4, from5, from6, from9, State!vars
  <1>3. [PartNext]_all_vars => (In("state") <=> In("state")')
    BY SamePart
  <1> QED BY <1>1, <1>2, <1>3, PTL DEF PartSpec, State!Spec

LEMMA InStakes ==
    PartSpec => ([]In("stakes") /\ Stakes!Spec) \/ []~In("stakes")
  <1>1. PartInit /\ In("stakes") => Stakes!Init
    BY DEF PartInit, In
  <1>2. In("stakes") /\ [PartNext]_all_vars => [Stakes!Next]_(Stakes!vars)
    BY DEF PartNext, In, all_vars, own_vars, stake_vars, Stakes!vars
  <1>3. [PartNext]_all_vars => (In("stakes") <=> In("stakes")')
    BY SamePart
  <1> QED BY <1>1, <1>2, <1>3, PTL DEF PartSpec, Stakes!Spec

LEMMA InDisk ==
    PartSpec => ([]In("disk") /\ Disk!Spec) \/ []~In("disk")
  <1>1. PartInit /\ In("disk") => Disk!Init
    BY DEF PartInit, In
  <1>2. In("disk") /\ [PartNext]_all_vars => [Disk!Next]_(Disk!vars)
    BY DEF PartNext, In, all_vars, own_vars, disk_vars, Disk!vars
  <1>3. [PartNext]_all_vars => (In("disk") <=> In("disk")')
    BY SamePart
  <1> QED BY <1>1, <1>2, <1>3, PTL DEF PartSpec, Disk!Spec

LEMMA InSync ==
    PartSpec => ([]In("sync") /\ Sync!Spec) \/ []~In("sync")
  <1>1. PartInit /\ In("sync") => Sync!Init
    BY DEF PartInit, In
  <1>2. In("sync") /\ [PartNext]_all_vars => [Sync!Next]_(Sync!vars)
    BY DEF PartNext, In, all_vars, own_vars, sync_vars, Sync!vars
  <1>3. [PartNext]_all_vars => (In("sync") <=> In("sync")')
    BY SamePart
  <1> QED BY <1>1, <1>2, <1>3, PTL DEF PartSpec, Sync!Spec

LEMMA InTree ==
    PartSpec => ([]In("tree") /\ Tree!Spec) \/ []~In("tree")
  <1>1. PartInit /\ In("tree") => Tree!Init
    BY DEF PartInit, In
  <1>2. In("tree") /\ [PartNext]_all_vars => [Tree!Next]_(Tree!vars)
    BY DEF PartNext, In, all_vars, from1, from4, Tree!vars
  <1>3. [PartNext]_all_vars => (In("tree") <=> In("tree")')
    BY SamePart
  <1> QED BY <1>1, <1>2, <1>3, PTL DEF PartSpec, Tree!Spec

LEMMA InRivals ==
    PartSpec => ([]In("rivals") /\ Rivals!Spec) \/ []~In("rivals")
  <1>1. PartInit /\ In("rivals") => Rivals!Init
    BY DEF PartInit, In
  <1>2. In("rivals") /\ [PartNext]_all_vars => [Rivals!Next]_(Rivals!vars)
    BY DEF PartNext, In, all_vars, from1, Rivals!vars
  <1>3. [PartNext]_all_vars => (In("rivals") <=> In("rivals")')
    BY SamePart
  <1> QED BY <1>1, <1>2, <1>3, PTL DEF PartSpec, Rivals!Spec

LEMMA InCompany ==
    PartSpec => ([]In("company") /\ Company!Spec) \/ []~In("company")
  <1>1. PartInit /\ In("company") => Company!Init
    BY DEF PartInit, In
  <1>2. In("company") /\ [PartNext]_all_vars => [Company!Next]_(Company!vars)
    BY DEF PartNext, In, all_vars, from1, Company!vars
  <1>3. [PartNext]_all_vars => (In("company") <=> In("company")')
    BY SamePart
  <1> QED BY <1>1, <1>2, <1>3, PTL DEF PartSpec, Company!Spec

LEMMA InCourted ==
    PartSpec => ([]In("courted") /\ Courted!Spec) \/ []~In("courted")
  <1>1. PartInit /\ In("courted") => Courted!Init
    BY DEF PartInit, In
  <1>2. In("courted") /\ [PartNext]_all_vars => [Courted!Next]_(Courted!vars)
    BY DEF PartNext, In, all_vars, from1, Courted!vars
  <1>3. [PartNext]_all_vars => (In("courted") <=> In("courted")')
    BY SamePart
  <1> QED BY <1>1, <1>2, <1>3, PTL DEF PartSpec, Courted!Spec

LEMMA InCrammed ==
    PartSpec => ([]In("crammed") /\ Crammed!Spec) \/ []~In("crammed")
  <1>1. PartInit /\ In("crammed") => Crammed!Init
    BY DEF PartInit, In
  <1>2. In("crammed") /\ [PartNext]_all_vars => [Crammed!Next]_(Crammed!vars)
    BY DEF PartNext, In, all_vars, from1, from4, from5, Crammed!vars
  <1>3. [PartNext]_all_vars => (In("crammed") <=> In("crammed")')
    BY SamePart
  <1> QED BY <1>1, <1>2, <1>3, PTL DEF PartSpec, Crammed!Spec

LEMMA InRoomy ==
    PartSpec => ([]In("roomy") /\ Roomy!Spec) \/ []~In("roomy")
  <1>1. PartInit /\ In("roomy") => Roomy!Init
    BY DEF PartInit, In
  <1>2. In("roomy") /\ [PartNext]_all_vars => [Roomy!Next]_(Roomy!vars)
    BY DEF PartNext, In, all_vars, from1, from4, from5, Roomy!vars
  <1>3. [PartNext]_all_vars => (In("roomy") <=> In("roomy")')
    BY SamePart
  <1> QED BY <1>1, <1>2, <1>3, PTL DEF PartSpec, Roomy!Spec

(* A leader that does not crash before its forkpoint write never builds    *)
(* two NECs for a round: the assertion of process_no_endorsement holds.    *)
THEOREM NecsAreBuiltOnce == PartSpec => []NoPanic
  <1>1. Nec!Spec => []Nec!NoPanic
    BY NoNecTwice, SmallConstantsFit
  <1>2. (In("no_endorsements") => Nec!NoPanic) => NoPanic
    BY DEF NoPanic, In
  <1> QED BY <1>1, <1>2, InNoEndorsements, PTL

(* The NEC try_propose finds is for the tip of the TC the leader entered   *)
(* the round with.                                                         *)
THEOREM NecsMatch == PartSpec => []NecMatchesTc
  <1>1. Nec!Spec => []Nec!NecMatchesTc
    BY NecIsOfTheTip, SmallConstantsFit
  <1>2. (In("no_endorsements") => Nec!NecMatchesTc) => NecMatchesTc
    BY DEF NecMatchesTc, In
  <1> QED BY <1>1, <1>2, InNoEndorsements, PTL

(* Once a supermajority has answered in time the leader has its NEC for as *)
(* long as it is in the round.                                             *)
THEOREM NecsAreKept == PartSpec => []NecKept
  <1>1. Nec!Spec => []Nec!NecKept
    BY NecIsKept, SmallConstantsFit
  <1>2. (In("no_endorsements") => Nec!NecKept) => NecKept
    BY DEF NecKept, In
  <1> QED BY <1>1, <1>2, InNoEndorsements, PTL

(* try_vote never schedules a second vote in a round.                      *)
THEOREM VotesAreScheduledOnce == PartSpec => []VotesNoPanic
  <1>1. Pacing!Spec => []Pacing!VotesNoPanic
    BY NoVoteWaitsTwice, SmallConstantsFit
  <1>2. (In("pacing") => Pacing!VotesNoPanic) => VotesNoPanic
    BY DEF VotesNoPanic, In
  <1> QED BY <1>1, <1>2, InPacing, PTL

(* The votes of a process leave in the order of their rounds, whatever     *)
(* timers were replaced and still fire, in whatever round it started.      *)
THEOREM VotesInOrder == PartSpec => []SentInOrder
  <1>1. Pacing!Spec => []Pacing!SentInOrder
    BY VotesLeaveInOrder, SmallConstantsFit
  <1>2. (In("pacing") => Pacing!SentInOrder) => SentInOrder
    BY DEF SentInOrder, In
  <1> QED BY <1>1, <1>2, InPacing, PTL

(* No counter passes the replay window twice and none is refused without   *)
(* need, for every width of the window and of the counter.                 *)
THEOREM WindowIsExact == PartSpec => []FilterExact
  <1>1. Filter!Spec => []Filter!FilterExact
    BY ExactlyOnce, SmallConstantsFit
  <1>2. (In("filter") => Filter!FilterExact) => FilterExact
    BY DEF FilterExact, In
  <1> QED BY <1>1, <1>2, InFilter, PTL

(* The tables of sessions agree with one another and with the counters the *)
(* filter admits handshakes by, for every configuration of wireauth.       *)
THEOREM SessionsAreIndexed == PartSpec => []SessionsIndexed
  <1>1. Wire!Spec => []Wire!SessionsIndexed
    BY TablesAgree, SmallConstantsFit
  <1>2. (In("wire") => Wire!SessionsIndexed) => SessionsIndexed
    BY DEF SessionsIndexed, In
  <1> QED BY <1>1, <1>2, InWire, PTL

(* No session of wireauth is without a timer for its next deadline.        *)
THEOREM TimersAreSet == PartSpec => []TimersCover
  <1>1. Wire!Spec => []Wire!TimersCover
    BY NoDeadlineMissed, SmallConstantsFit
  <1>2. (In("wire") => Wire!TimersCover) => TimersCover
    BY DEF TimersCover, In
  <1> QED BY <1>1, <1>2, InWire, PTL

(* A node's epoch starts, a live node's validator sets and the forkpoints  *)
(* it writes are the chain's, for every chain, across restarts that find   *)
(* an older validators.toml.                                               *)
THEOREM EpochsAreTheChains == PartSpec => []EpochsRight
  <1>1. Epoch!Spec => []Epoch!EpochsRight
    BY EpochsAreRight, SmallConstantsFit
  <1>2. (In("epochs") => Epoch!EpochsRight) => EpochsRight
    BY DEF EpochsRight, In
  <1> QED BY <1>1, <1>2, InEpochs, PTL

(* Every prefix of the state a thread of state sync waits for is asked for *)
(* or answered exactly once, whatever times out or is refused and however  *)
(* the root moves.                                                         *)
THEOREM NoPrefixForgotten == PartSpec => []NothingForgotten
  <1>1. State!Spec => []State!NothingForgotten
    BY NothingIsForgotten, SmallConstantsFit
  <1>2. (In("state") => State!NothingForgotten) => NothingForgotten
    BY DEF NothingForgotten, In
  <1> QED BY <1>1, <1>2, InState, PTL

(* Supermajorities overlap in an honest validator, and honest validators   *)
(* make one, for every distribution of stake.                              *)
THEOREM StakesAreSound == PartSpec => []ThresholdsSound
  <1>1. Stakes!Spec => []Stakes!ThresholdsSound
    BY QuorumsIntersect, SmallConstantsFit
  <1>2. (In("stakes") => Stakes!ThresholdsSound) => ThresholdsSound
    BY DEF ThresholdsSound, In
  <1> QED BY <1>1, <1>2, InStakes, PTL

(* The files of the ledger are in the order they were written in, for      *)
(* every set of blocks and every number of crashes.                        *)
THEOREM DiskIsOrdered == PartSpec => []DiskOrdered
  <1>1. Disk!Spec => []Disk!DiskOrdered
    BY FilesStayOrdered, SmallConstantsFit
  <1>2. (In("disk") => Disk!DiskOrdered) => DiskOrdered
    BY DEF DiskOrdered, In
  <1> QED BY <1>1, <1>2, InDisk, PTL

(* The messages, indices and counts of both reassembly pools agree and     *)
(* keep to the limits, whatever is received.                               *)
THEOREM PoolsAgree == PartSpec => []PoolsConsistent
  <1>1. Crammed!Spec => []Crammed!PoolsConsistent
    BY Crammed!PoolsStayConsistent, ConstantsFit
  <1>2. Roomy!Spec => []Roomy!PoolsConsistent
    BY Roomy!PoolsStayConsistent, ConstantsFit
  <1>3. (In("crammed") => Crammed!PoolsConsistent) /\ (In("roomy") => Roomy!PoolsConsistent) => PoolsConsistent
    BY DEF PoolsConsistent, In
  <1> QED BY <1>1, <1>2, <1>3, InCrammed, InRoomy, PTL

(* What comes out for a correct sender is a message it sent, though        *)
(* fragments are lost, repeated and reordered and ids come round.          *)
THEOREM MessagesAreWhole == PartSpec => []ReassemblyExact
  <1>1. Crammed!Spec => []Crammed!ReassemblyExact
    BY Crammed!NoMessageIsMixed, ConstantsFit
  <1>2. Roomy!Spec => []Roomy!ReassemblyExact
    BY Roomy!NoMessageIsMixed, ConstantsFit
  <1>3. (In("crammed") => Crammed!ReassemblyExact) /\ (In("roomy") => Roomy!ReassemblyExact) => ReassemblyExact
    BY DEF ReassemblyExact, In
  <1> QED BY <1>1, <1>2, <1>3, InCrammed, InRoomy, PTL

(* No full node promises its bandwidth to more groups than it may, for any *)
(* round, however invitations of several validators interleave.            *)
THEOREM PromisesAreKept == PartSpec => []PromisesBounded
  <1>1. Rivals!Spec => []Rivals!PromisesBounded
    BY Rivals!PromisesStayBounded, ConstantsFit
  <1>2. Company!Spec => []Company!PromisesBounded
    BY Company!PromisesStayBounded, ConstantsFit
  <1>3. Courted!Spec => []Courted!PromisesBounded
    BY Courted!PromisesStayBounded, ConstantsFit
  <1>4. /\ In("rivals") => Rivals!PromisesBounded
        /\ In("company") => Company!PromisesBounded
        /\ In("courted") => Courted!PromisesBounded
        => PromisesBounded
    BY DEF PromisesBounded, In
  <1> QED BY <1>1, <1>2, <1>3, <1>4, InRivals, InCompany, InCourted, PTL

(* A publisher and the full nodes of a group it has confirmed agree on its *)
(* rounds and its members.                                                 *)
THEOREM GroupsAreShared == PartSpec => []GroupsAgree
  <1>1. Rivals!Spec => []Rivals!GroupsAgree
    BY Rivals!GroupsStayAgreed, ConstantsFit
  <1>2. Company!Spec => []Company!GroupsAgree
    BY Company!GroupsStayAgreed, ConstantsFit
  <1>3. Courted!Spec => []Courted!GroupsAgree
    BY Courted!GroupsStayAgreed, ConstantsFit
  <1>4. /\ In("rivals") => Rivals!GroupsAgree
        /\ In("company") => Company!GroupsAgree
        /\ In("courted") => Courted!GroupsAgree
        => GroupsAgree
    BY DEF GroupsAgree, In
  <1> QED BY <1>1, <1>2, <1>3, <1>4, InRivals, InCompany, InCourted, PTL

(* No assertion of block sync fails, for every set of peers and ranges.    *)
THEOREM SyncAssertionsHold == PartSpec => []SyncNoPanic
  <1>1. Sync!Spec => []Sync!SyncNoPanic
    BY Sync!AssertionsHold, ConstantsFit
  <1>2. (In("sync") => Sync!SyncNoPanic) => SyncNoPanic
    BY DEF SyncNoPanic, In
  <1> QED BY <1>1, <1>2, InSync, PTL

(* Block sync counts its slots exactly and leaves none free while a body   *)
(* waits.                                                                  *)
THEOREM SlotsAreExact == PartSpec => []SlotsExact
  <1>1. Sync!Spec => []Sync!SlotsExact
    BY Sync!SlotsAreCounted, ConstantsFit
  <1>2. (In("sync") => Sync!SlotsExact) => SlotsExact
    BY DEF SlotsExact, In
  <1> QED BY <1>1, <1>2, InSync, PTL

(* Whatever peers answer, timers fire, and requesters cancel or change,    *)
(* each range that is wanted waits for a slot, the ledger or a timer.      *)
THEOREM RangesAreWorkedOn == PartSpec => []RequestAlive
  <1>1. Sync!Spec => []Sync!RequestAlive
    BY Sync!RangesStayAlive, ConstantsFit
  <1>2. (In("sync") => Sync!RequestAlive) => RequestAlive
    BY DEF RequestAlive, In
  <1> QED BY <1>1, <1>2, InSync, PTL

(* No assertion of the block tree or of try_propose fails, for every set   *)
(* of blocks and every world of certificates in which commits are          *)
(* extended.                                                               *)
THEOREM TreeIsSound == PartSpec => []TreeNoPanic
  <1>1. Tree!Spec => []Tree!TreeNoPanic
    BY Tree!TreeNeverPanics, ConstantsFit
  <1>2. (In("tree") => Tree!TreeNoPanic) => TreeNoPanic
    BY DEF TreeNoPanic, In
  <1> QED BY <1>1, <1>2, InTree, PTL

(* Under a QC, where commits are extended, the last missing ancestor of    *)
(* its block is on request.                                                *)
THEOREM MissingIsRequested == PartSpec => []GapRequested
  <1>1. Tree!Spec => []Tree!GapRequested
    BY Tree!GapsAreRequested, ConstantsFit
  <1>2. (In("tree") => Tree!GapRequested) => GapRequested
    BY DEF GapRequested, In
  <1> QED BY <1>1, <1>2, InTree, PTL

(* Block sync works on every request consensus has on record.              *)
THEOREM NoRequestIsDead == PartSpec => []RequestsAlive
  <1>1. Tree!Spec => []Tree!RequestsAlive
    BY Tree!RequestsStayAlive, ConstantsFit
  <1>2. (In("tree") => Tree!RequestsAlive) => RequestsAlive
    BY DEF RequestsAlive, In
  <1> QED BY <1>1, <1>2, InTree, PTL

(* The handlers of the block tree implement FinalizedChain in every world  *)
(* of certificates, one with conflicting commits too.                      *)
THEOREM OneChainIsFinalized == PartSpec => FinalizesOneChain
  <1> DEFINE Chains == IF part = "tree" THEN v2.chain ELSE <<Genesis>>
             Givens == IF part = "tree" THEN v2.given ELSE {}
  <1>1. Tree!Spec => []Tree!IInv
    BY Tree!Invariance, ConstantsFit
  <1>2. PartInit => Finalized!Init
    BY DEF PartInit, Finalized!Init, Tree!Init, Tree!NewNode
  <1>3. Tree!IInv /\ In("tree") /\ In("tree")' /\ [Tree!Next]_(Tree!vars) => [Finalized!Next]_<<Chains, Givens>>
    <2> SUFFICES ASSUME Tree!IInv, In("tree"), In("tree")', [Tree!Next]_(Tree!vars)
                 PROVE  [Finalized!Next]_<<Chains, Givens>>
      OBVIOUS
    <2>1. Chains = v2.chain /\ Givens = v2.given /\ Chains' = v2'.chain /\ Givens' = v2'.given
      BY DEF In
    <2>2. CASE Tree!Next
      <3>1. Tree!Finalized!Next
        BY <2>2, Tree!NextRefines, ConstantsFit
      <3> QED BY <2>1, <3>1 DEF In, Finalized!Next, Finalized!Give, Finalized!Extend, Finalized!Linked,
                   Tree!Finalized!Next, Tree!Finalized!Give, Tree!Finalized!Extend, Tree!Finalized!Linked
    <2>3. CASE UNCHANGED Tree!vars
      BY <2>1, <2>3 DEF Tree!vars
    <2> QED BY <2>2, <2>3
  <1>4. ~In("tree") /\ ~In("tree")' => [Finalized!Next]_<<Chains, Givens>>
    BY DEF In
  <1> QED BY <1>1, <1>2, <1>3, <1>4, InTree, PTL DEF PartSpec, FinalizesOneChain, Finalized!Spec, Tree!Spec
=============================================================================
