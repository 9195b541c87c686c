----------------------------- MODULE BlockTree ------------------------------
(***************************************************************************)
(* One validator's tree of uncommitted blocks and the consensus handlers   *)
(* that grow, commit and prune it and ask block sync for what is missing.  *)
(* The world of certificates is given: `world' holds the QCs and the TCs   *)
(* that consensus forms.  BlockSync is seen from outside here: it answers  *)
(* a request at any time, also one that was just cancelled.                *)
(* Source: monad-blocktree, monad-consensus-state/src/lib.rs.              *)
(***************************************************************************)
EXTENDS Integers, FiniteSets, Sequences, FiniteSetsExt

CONSTANTS
    Block, Genesis,
    block_round, qc_round, parent, ancestors, seq_num,  \* of a header
    None,
    Worlds,    \* certificates that can exist together, a record of two sets:
               \*   qcs, of [id, round], and tcs, of [round, qc, tip]
    led,       \* rounds this validator leads
    lagging,   \* blocks whose check may fail for now, execution being behind
    live_to_statesync_threshold

(* Block: the blocks whose QC is genuine.  A block's QC is of an earlier   *)
(* round (verify_tip), and not of one before its parent's.                 *)
BlocksOk ==
    /\ Genesis \in Block /\ None \notin Block
    /\ block_round \in [Block -> Nat] /\ qc_round \in [Block -> Nat] /\ seq_num \in [Block -> Nat]
    /\ parent \in [Block -> Block] /\ ancestors \in [Block -> SUBSET Block]
    /\ ancestors[Genesis] = {Genesis}
    /\ \A b \in Block \ {Genesis} :
         /\ ancestors[b] = {b} \cup ancestors[parent[b]]
         /\ block_round[parent[b]] <= qc_round[b] /\ qc_round[b] < block_round[b]

BlockQc(b) == [id |-> parent[b], round |-> qc_round[b]]
GenesisQc == [id |-> Genesis, round |-> 0]
(* QuorumCertificate::get_committable_id                                   *)
Commits(q) == q.round = qc_round[q.id] + 1

(* The QC a TC extends: of its tip, or the highest one reported.           *)
TcQc(tc) == IF tc.tip = None THEN tc.qc ELSE BlockQc(tc.tip)

(* Certificates that may exist together: no QC before its block's round,   *)
(* each on a block whose own QC exists and which passed check_coherency;   *)
(* a TC extends a QC of an earlier round.  The round of a tip may be any.  *)
WorldOk(w) ==
    /\ w.qcs \subseteq [id : Block, round : Nat] /\ GenesisQc \in w.qcs
    /\ \A q \in w.qcs : block_round[q.id] <= q.round
    /\ \A q \in w.qcs : q.id # Genesis =>
          BlockQc(q.id) \in w.qcs /\ seq_num[q.id] = seq_num[parent[q.id]] + 1
    /\ \A tc \in w.tcs : /\ tc.round \in Nat /\ tc.tip \in (Block \ {Genesis}) \cup {None}
                         /\ TcQc(tc) \in w.qcs /\ TcQc(tc).round < tc.round

ConstantsOk == BlocksOk /\ \A w \in Worlds : WorldOk(w)

(* What QCs of two consecutive rounds commit is extended by all later      *)
(* certificates: what MonadBFT is there for.                               *)
Safe(w) ==
    \A q \in w.qcs : q.id # Genesis /\ Commits(q) =>
        /\ \A p \in w.qcs : p.round >= qc_round[q.id] => parent[q.id] \in ancestors[p.id]
        /\ \A tc \in w.tcs : tc.round > qc_round[q.id] => parent[q.id] \in ancestors[TcQc(tc).id]

VARIABLES
    world,     \* the certificates of this behaviour
    node,      \* the consensus state
    syncing,   \* ranges block sync is working on
    loopback   \* ranges block sync has emitted, not yet handled

vars == <<world, node, syncing, loopback>>

(* Blocks a correct validator accepts: their QC exists.                    *)
Known == {b \in Block \ {Genesis} : BlockQc(b) \in world.qcs}
Certified == {q.id : q \in world.qcs}

(* ConsensusState::new on the genesis forkpoint.                           *)
NewNode ==
    [root |-> Genesis, tree |-> {}, coherent |-> {},
     children |-> [b \in Block |-> {}],
     round |-> 1, high |-> GenesisQc, tc |-> FALSE, tip |-> None,
     requests |-> {},
     given |-> {}, chain |-> <<Genesis>>, sync |-> {}, cancel |-> {},
     stopped |-> FALSE, panicked |-> FALSE]

-----------------------------------------------------------------------------
(* The tree                                                                *)

IsCoherent(st, b) == b = st.root \/ b \in st.coherent
Path(st, b) == ancestors[b] \ ancestors[st.root]
HasPath(st, b) == st.root \in ancestors[b] /\ Path(st, b) \subseteq st.tree
IsValidToInsert(st, b) == b \notin st.tree /\ block_round[b] > block_round[st.root]

ChildrenWith(st, b) ==
    [x \in Block |-> CASE x = b -> {y \in st.tree : parent[y] = b}
                       [] x = parent[b] /\ x \in st.tree \cup {st.root} -> st.children[x] \cup {b}
                       [] OTHER -> st.children[x]]

Add(st, b) ==
    IF ~IsValidToInsert(st, b) THEN st
    ELSE [st EXCEPT !.tree = @ \cup {b}, !.children = ChildrenWith(st, b)]

(* try_update_coherency: from the first incoherent block of the path down, *)
(* every block whose parent is coherent by now is checked; of `lagging'    *)
(* blocks check_coherency may or may not have the execution results.       *)
FirstIncoherent(st, b) ==
    CHOOSE x \in Path(st, b) \ st.coherent : \A y \in Path(st, b) \ st.coherent : x \in ancestors[y]
Below(st, first) == {x \in st.tree : first \in ancestors[x]}
Reached(st, first, S, x) == x = first \/ (parent[x] \in S /\ x \in st.children[parent[x]])
Checked(st, first, S) ==
    \A x \in Below(st, first) :
        IF x \in S THEN Reached(st, first, S, x) ELSE Reached(st, first, S, x) => x \in lagging

UpdateCoherency(st, b) ==
    IF ~HasPath(st, b) \/ Path(st, b) \subseteq st.coherent THEN {st}
    ELSE LET first == FirstIncoherent(st, b)
         IN {[st EXCEPT
                !.coherent = @ \cup S,
                !.given = @ \cup S,
                !.panicked = @ \/ \E x \in S : ~(st.children[x] \subseteq st.tree)] :
             S \in {S \in SUBSET Below(st, first) : Checked(st, first, S)}}

(* The blocks of the path in order; the n-th is n blocks above the root.    *)
PathSequence(st, b) ==
    [n \in 1..Cardinality(Path(st, b)) |-> CHOOSE x \in Path(st, b) : Cardinality(Path(st, x)) = n]

(* What is left: blocks whose QC is older than the new root are dropped.   *)
Rest(st, b) == {x \in st.tree \ Path(st, b) : qc_round[x] >= block_round[b]}
ChildrenLeft(st, b) == [x \in Block |-> IF x \in Rest(st, b) \cup {b} THEN st.children[x] ELSE {}]

(* Mutant: only the new root itself is committed                           *)
PruneCommitsLast(st, b) ==
    IF b = st.root THEN st
    ELSE [st EXCEPT !.root = b, !.tree = Rest(st, b), !.coherent = @ \cap Rest(st, b),
                    !.children = ChildrenLeft(st, b), !.chain = Append(@, b)]

(* prune: the path to the new root is committed.  A failed assertion ends  *)
(* the process before any command of the handler leaves.                   *)
Prune(st, b) ==
    IF b = st.root THEN st
    ELSE IF ~HasPath(st, b) \/ ~(Path(st, b) \subseteq st.coherent) THEN [st EXCEPT !.panicked = TRUE]
    ELSE [st EXCEPT
            !.root = b,
            !.tree = Rest(st, b),
            !.coherent = @ \cap Rest(st, b),
            !.children = ChildrenLeft(st, b),
            !.chain = @ \o PathSequence(st, b)]

(* Mutant: the committed block need not be coherent                        *)
TryCommitIncoherent(st, q) ==
    IF q.id \in st.tree /\ Commits(q) /\ parent[q.id] \in st.tree
    THEN Prune(st, parent[q.id])
    ELSE st

TryCommit(st, q) ==
    IF q.id \in st.tree /\ Commits(q) /\ IsCoherent(st, parent[q.id])
    THEN Prune(st, parent[q.id])
    ELSE st

(* get_high_committable_qc walks the children of the root.                 *)
Committable(st) ==
    {BlockQc(x) : x \in {y \in st.tree :
        /\ HasPath(st, y)
        /\ parent[y] \in st.tree
        /\ Commits(BlockQc(y))
        /\ parent[parent[y]] # st.root
        /\ IsCoherent(st, parent[parent[y]])}}

TryCommitHigh(st) ==
    LET found == Committable(st)
        st2 == [st EXCEPT !.panicked = @ \/ \E x \in st.tree \cup {st.root} :
                    HasPath(st, x) /\ ~(st.children[x] \subseteq st.tree)]
    IN IF found = {} THEN st2
       ELSE TryCommit(st2, CHOOSE q \in found : \A p \in found : p.round <= q.round)

(* highest_round_coherent_descendant; blocks of one round tie.             *)
HighestCoherent(st, b) ==
    LET below == {x \in st.coherent : b \in ancestors[x]
                     /\ ancestors[x] \ ancestors[b] \subseteq st.coherent} \cup {b}
    IN {x \in below : \A y \in below : block_round[y] <= block_round[x]}

CanonicalTips(st) ==
    LET coherent == {x \in Path(st, st.high.id) : IsCoherent(st, x)}
        tip == CHOOSE x \in coherent : \A y \in coherent : y \in ancestors[x]
    IN CASE ~HasPath(st, st.high.id) -> HighestCoherent(st, st.root)
         [] coherent = {} -> {st.root}
         [] tip = st.high.id -> HighestCoherent(st, tip)
         [] OTHER -> {tip}

UpdateProposedHead(st) ==
    {IF t \in st.tree THEN [st EXCEPT !.given = @ \cup {t}] ELSE st :
     t \in CanonicalTips(st)}

(* try_update_coherency of the consensus state                             *)
TryUpdateCoherency(st, b) ==
    {TryCommitHigh(s) : s \in UNION {UpdateProposedHead(c) : c \in UpdateCoherency(st, b)}}

-----------------------------------------------------------------------------
(* Requests to block sync                                                  *)

(* maybe_fill_path_to_root walks down from the QC's block to the first one *)
(* that is missing; the lowest block it saw tells how far the root is.     *)
Missing(st) == ancestors[st.high.id] \ (st.tree \cup {st.root})
LastMissing(st) == CHOOSE x \in Missing(st) : \A y \in Missing(st) : y \in ancestors[x]
Lowest(st) == {x \in st.tree \cap ancestors[st.high.id] : parent[x] = LastMissing(st)}
NoGap(st) ==
    block_round[st.root] >= st.high.round \/ st.root = st.high.id \/ HasPath(st, st.high.id)
Gap(st) ==
    [last |-> LastMissing(st),
     num |-> IF Lowest(st) = {} THEN 1
             ELSE Max({seq_num[CHOOSE x \in Lowest(st) : TRUE] - seq_num[st.root], 2}) - 1]

Requested(st, id) == \E r \in st.requests : r.last = id

Request(st, range, cancel_round) ==
    [st EXCEPT !.requests = @ \cup {[last |-> range.last, num |-> range.num, cancel |-> cancel_round]},
               !.sync = @ \cup {range}]

(* Mutant: one request at a time                                           *)
RequestBlocksUnlessBusy(st) ==
    IF NoGap(st) \/ st.requests # {} THEN st ELSE Request(st, Gap(st), st.high.round)

(* The distance to the root is a checked subtraction.                      *)
RequestBlocksIfMissingAncestor(st) ==
    IF NoGap(st) THEN st
    ELSE LET st2 == [st EXCEPT !.panicked = @ \/ \E x \in Lowest(st) : seq_num[x] < seq_num[st.root]]
         IN IF Requested(st, Gap(st).last) THEN st2 ELSE Request(st2, Gap(st), st.high.round)

RequestTipIfMissing(st) ==
    IF st.tip = None \/ st.tip \in st.tree \/ Requested(st, st.tip)
    THEN st
    ELSE Request(st, [last |-> st.tip, num |-> 1], block_round[st.tip])

(* Mutant: a cancelled request stays on record                             *)
CancelObsoleteKeeps(st) ==
    LET old == {r \in st.requests : r.cancel <= block_round[st.root]}
    IN [st EXCEPT !.cancel = @ \cup {[last |-> r.last, num |-> r.num] : r \in old}]

CancelObsolete(st) ==
    LET old == {r \in st.requests : r.cancel <= block_round[st.root]}
    IN [st EXCEPT !.requests = @ \ old,
                  !.cancel = @ \cup {[last |-> r.last, num |-> r.num] : r \in old}]

(* maybe_statesync: the process stops, to be restarted with state sync.    *)
MaybeStatesync(st) ==
    LET known == st.high.id \in st.tree \cup {st.root}
        far == seq_num[st.root] + live_to_statesync_threshold <= seq_num[st.high.id]
    IN [st EXCEPT !.stopped = @ \/ (known /\ far)]

-----------------------------------------------------------------------------
(* Certificates and blocks                                                 *)

(* try_propose: a leader proposes the tip of its TC again if it is         *)
(* coherent, and must find it in the tree...                               *)
ProposeTip(st) ==
    {[s EXCEPT !.panicked = @ \/ (IsCoherent(s, st.tip) /\ st.tip \notin s.tree)] :
     s \in TryUpdateCoherency(st, st.tip)}

(* ... or a new block on the highest QC if its block is coherent, and must *)
(* find the path to that block.                                            *)
ProposeQc(st) ==
    {[s EXCEPT !.panicked = @ \/ (IsCoherent(s, st.high.id) /\ ~HasPath(s, st.high.id))] :
     s \in TryUpdateCoherency(st, st.high.id)}

(* Whether it is safe to propose and whether an NEC allows a new block     *)
(* although the TC has a tip is left open.                                 *)
TryPropose(st) ==
    IF st.round \notin led THEN {st}
    ELSE LET asked == RequestTipIfMissing(st)
         IN {asked} \cup ProposeQc(asked) \cup (IF st.tip = None THEN {} ELSE ProposeTip(asked))

(* The Voted command names the highest coherent block below the QC, which  *)
(* execution has already been given.                                       *)
ProcessQc(st, q) ==
    IF q.round < st.round THEN {st}
    ELSE LET entered == [MaybeStatesync(CancelObsolete(TryCommit(st, q))) EXCEPT
                            !.high = q, !.round = q.round + 1, !.tc = FALSE, !.tip = None]
         IN UNION {TryPropose(RequestBlocksIfMissingAncestor(s)) : s \in UpdateProposedHead(entered)}

ProcessTc(st, tc) ==
    IF tc.round < st.round THEN {st}
    ELSE TryPropose([st EXCEPT !.high = TcQc(tc), !.round = tc.round + 1, !.tc = TRUE, !.tip = tc.tip])

TryAddAndCommitBlocktree(st, b) ==
    {RequestBlocksIfMissingAncestor(MaybeStatesync(s)) :
     s \in UNION {TryPropose(c) : c \in TryUpdateCoherency(Add(st, b), b)}}

-----------------------------------------------------------------------------
(* The blocks of a range: `num' of them, ending in `last'.                 *)
RangeBlocks(range) ==
    {x \in ancestors[range.last] \ {Genesis} : seq_num[x] > seq_num[range.last] - range.num}

(* The loop of handle_block_sync over the blocks of the range, each after  *)
(* its parent.  A block that is not certified, which can only be the last, *)
(* may fail validate_block.                                                *)
AddEach(states, b) ==
    UNION {IF IsValidToInsert(s, b)
           THEN TryAddAndCommitBlocktree(s, b) \cup (IF b \in Certified THEN {} ELSE {s})
           ELSE {s} : s \in states}
AddRange(st, range) ==
    LET after[b \in ancestors[range.last]] ==
            IF b \in RangeBlocks(range) THEN AddEach(after[parent[b]], b) ELSE {st}
    IN after[range.last]

(* Commands leave with the step: requests and cancellations reach block    *)
(* sync in the order cancel, request.                                      *)
Finish(st) ==
    /\ node' = [st EXCEPT !.sync = {}, !.cancel = {}]
    /\ syncing' = (syncing \ st.cancel) \cup st.sync
    /\ UNCHANGED world

Running == ~node.stopped /\ ~node.panicked

Init ==
    /\ world \in Worlds
    /\ node = NewNode
    /\ syncing = {}
    /\ loopback = {}

(* handle_proposal_message for block b proposed in round r; whether its    *)
(* author, an earlier proposal and validate_block let it pass is left open *)
(* by adding the block or not.                                             *)
HandleProposalMessage(b, r, tc) ==
    /\ Running
    /\ r > block_round[node.root]
    /\ \E st \in ProcessQc(node, BlockQc(b)) :
       \E st2 \in IF tc = None THEN {st} ELSE ProcessTc(st, tc) :
         \/ Finish(st2)
         \/ /\ r <= st2.round
            /\ \E st3 \in TryAddAndCommitBlocktree(st2, b) : Finish(st3)
    /\ UNCHANGED loopback

(* Well-formed proposals: a block on the QC of the round before; or, with  *)
(* the TC of the round before, a block on the QC it extends which is its   *)
(* tip, or fresh if it has one.  Else the round of the block is not looked *)
(* at.                                                                     *)
Proposal ==
    \E b \in Known :
       \/ HandleProposalMessage(b, qc_round[b] + 1, None)
       \/ \E tc \in world.tcs :
            /\ TcQc(tc).round = qc_round[b]
            /\ tc.tip \in {None, b} \/ block_round[b] = tc.round + 1
            /\ HandleProposalMessage(b, tc.round + 1, tc)

(* A QC from votes, from a timeout or from an advance-round message.       *)
HandleQc ==
    /\ Running
    /\ \E q \in world.qcs : \E st \in ProcessQc(node, q) : Finish(st)
    /\ UNCHANGED loopback

HandleTc ==
    /\ Running
    /\ \E tc \in world.tcs : \E st \in ProcessTc(node, tc) : Finish(st)
    /\ UNCHANGED loopback

(* A vote, a timeout or the last no-endorsement of an NEC lets the leader  *)
(* try again.                                                              *)
HandleNoEndorsementMessage ==
    /\ Running
    /\ \E st \in TryPropose(node) : Finish(st)
    /\ UNCHANGED loopback

(* Environment: block sync has collected a range.                          *)
Emit ==
    /\ Running
    /\ \E range \in syncing :
         /\ syncing' = syncing \ {range}
         /\ loopback' = loopback \cup {range}
    /\ UNCHANGED <<world, node>>

HandleBlockSync ==
    /\ Running
    /\ \E range \in loopback :
         /\ loopback' = loopback \ {range}
         /\ IF Requested(node, range.last)
            THEN \E st \in AddRange(node, range) :
                   Finish([st EXCEPT !.requests = {r \in @ : r.last # range.last}])
            ELSE UNCHANGED <<world, node, syncing>>

Next == Proposal \/ HandleQc \/ HandleTc \/ HandleNoEndorsementMessage \/ Emit \/ HandleBlockSync

Spec == Init /\ [][Next]_vars

-----------------------------------------------------------------------------
(* In a world where commits are extended, no assertion of prune and no     *)
(* lookup of a child, of the path to the root or of the tip to propose     *)
(* again fails, whatever is proposed, synced, certified and pruned in      *)
(* whatever order (blocktree.rs: "path to root must exist", "must be       *)
(* coherent", "block in tree"; try_propose: "tip is coherent", "there      *)
(* should be a path to root").                                             *)
TreeNoPanic == Safe(world) => ~node.panicked

(* When the highest certificate is a QC, either its block connects to the  *)
(* root or the last missing block is being requested                       *)
(* (request_blocks_if_missing_ancestor), if commits are extended.          *)
GapRequested ==
    Safe(world) /\ Running /\ ~node.tc /\ ~NoGap(node) => Requested(node, Gap(node).last)

(* A request consensus believes outstanding is known to block sync: a      *)
(* record without one would suppress every further request for the block.  *)
RequestsAlive ==
    \A r \in node.requests : \E range \in syncing \cup loopback : range.last = r.last

(* The handlers implement FinalizedChain: the blocks handed to execution   *)
(* as final form one growing chain, and execution was given each of them   *)
(* before.                                                                 *)
Finalized == INSTANCE FinalizedChain WITH chain <- node.chain, given <- node.given
FinalizesOneChain == Finalized!Spec
=============================================================================
